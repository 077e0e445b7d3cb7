---------------------------- MODULE AttemptLedger ---------------------------
(***************************************************************************)
(* What `hanvil run` knows of the chain under its attempts                 *)
(* (src/src/harness/attempt.rs, chain.rs, ledger.rs, run.rs and the list   *)
(* of refusals in src/src/state/mod.rs).  An attempt marks where the chain *)
(* stands, takes a snapshot, lets the application work on the chain, and   *)
(* reads back what happened since the mark; a failed attempt is undone by  *)
(* reverting to its snapshot.  The mark is three counts, while the lists   *)
(* behind them are cut by --max-rejections, put back by evm_revert from    *)
(* the application itself, and reloaded from a dump by --continue.         *)
(*                                                                         *)
(* A submission is a number, a new one each time.  How an attempt is       *)
(* validated is left open: it passes, fails, or is aborted because its     *)
(* infrastructure failed.  A row of a ledger is known by the list and the  *)
(* place it was collected from; sorting rows by time changes no count.     *)
(***************************************************************************)
EXTENDS Integers, Sequences, FiniteSets

CONSTANTS
    MaxAttempts,    \* attempt budget of an increment
    Slices,         \* number of increments of the recipe
    Caps,           \* values of --max-rejections, 0 keeps every refusal
    MaxSent,        \* bound: submissions
    MaxSnapshots,   \* bound: snapshots taken
    MaxBoots        \* bound: starts of the process

ASSUME AttemptAssumption ==
    /\ MaxAttempts \in Nat \ {0} /\ Slices \in Nat \ {0}
    /\ Caps \subseteq Nat /\ Caps # {}
    /\ MaxSent \in Nat /\ MaxSnapshots \in Nat /\ MaxBoots \in Nat

VARIABLES
    chain,          \* the lists of Chain the harness reads
    snapshots,      \* snapshot id -> chain
    next_snapshot,  \* next snapshot id
    per_attempt,    \* snapshotPerAttempt of the recipe
    phase,          \* "off", "ready" before an attempt, "running" in one, then
                    \* its verdict: "passed", "failed" or "aborted"
    slice,          \* increment under way, from 0
    attempts,       \* attempts_this_cycle
    attempt,        \* mark and snapshot of the attempt under way; auxiliary: the
                    \* first snapshot id that is not older than the mark
    reverted,       \* what the repair prompt says of the chain
    session,        \* session.json: the last dump and the slice index
    sent,           \* auxiliary: submissions so far
    boots,          \* auxiliary: starts so far
    begun,          \* auxiliary: the chain when the attempt began
    wentBack,       \* auxiliary: a client reverted to before the mark
    dead            \* auxiliary: snapshot ids of attempts that were undone

harness == <<per_attempt, slice, attempts, attempt, reverted, session, boots, begun>>
vars == <<chain, snapshots, next_snapshot, phase, sent, wentBack, dead, harness>>

NoHash == 0
NoSnapshot == -1
NoDump == [dump |-> FALSE]

(* Iterator::skip. *)
Skip(s, n) == SubSeq(s, n + 1, Len(s))

Genesis(cap) ==
    [records |-> << >>, blocks |-> << [tx |-> NoHash, ok |-> FALSE] >>, rejections |-> << >>,
     rejections_dropped |-> 0, max_rejections |-> cap, log |-> << >>, refused |-> << >>]

(* Auxiliary: every submission the chain has carried out, and in refused   *)
(* every one it has refused.  They are what the lists are judged by, and   *)
(* are carried along by snapshots as the lists are.                        *)
Logged(c, tok, outcome) == [c EXCEPT !.log = Append(@, [tok |-> tok, outcome |-> outcome])]

Ended(ok) == IF ok THEN "success" ELSE "failed"

(***************************************************************************)
(* What the five kinds of answers leave on the chain.  An                  *)
(* ethereumTransaction that is mined leaves a record and a block that      *)
(* share its hash; one that is refused leaves a record only.               *)
(***************************************************************************)
apply_hapi(c, tok, ok) ==
    [Logged(c, tok, Ended(ok)) EXCEPT
        !.records = Append(@, [tok |-> tok, ethereum |-> FALSE, ok |-> ok, hash |-> NoHash])]

send_raw(c, tok, ok) ==
    [Logged(c, tok, Ended(ok)) EXCEPT !.blocks = Append(@, [tx |-> tok, ok |-> ok])]

apply_ethereum(c, tok, ok) ==
    [Logged(c, tok, Ended(ok)) EXCEPT
        !.records = Append(@, [tok |-> tok, ethereum |-> TRUE, ok |-> ok, hash |-> tok]),
        !.blocks = Append(@, [tx |-> tok, ok |-> ok])]

apply_ethereum_refused(c, tok) ==
    [Logged(c, tok, "failed") EXCEPT
        !.records = Append(@, [tok |-> tok, ethereum |-> TRUE, ok |-> FALSE, hash |-> NoHash])]

(* Mutant: dropped rows are not counted. *)
rejectUncounted(c, tok) ==
    LET all  == Append(c.rejections, tok)
        over == IF c.max_rejections = 0 \/ Len(all) <= c.max_rejections
                THEN 0 ELSE Len(all) - c.max_rejections
    IN  [c EXCEPT !.rejections = Skip(all, over), !.refused = Append(@, tok)]

(* Mutant: the oldest is dropped one refusal too late. *)
rejectLate(c, tok) ==
    LET over == IF c.max_rejections = 0 \/ Len(c.rejections) <= c.max_rejections
                THEN 0 ELSE Len(c.rejections) - c.max_rejections
    IN  [c EXCEPT !.rejections = Append(Skip(@, over), tok),
                  !.rejections_dropped = @ + over, !.refused = Append(@, tok)]

(* The newest max_rejections are kept; a lower cap may drop several.       *)
reject(c, tok) ==
    LET all  == Append(c.rejections, tok)
        over == IF c.max_rejections = 0 \/ Len(all) <= c.max_rejections
                THEN 0 ELSE Len(all) - c.max_rejections
    IN  [c EXCEPT !.rejections = Skip(all, over), !.rejections_dropped = @ + over,
                  !.refused = Append(@, tok)]

rejections_seen(c) == c.rejections_dropped + Len(c.rejections)

-----------------------------------------------------------------------------
(* Mutant: the mark counts the refusals kept. *)
MarkOfKept(c) ==
    [records |-> Len(c.records), blocks |-> Len(c.blocks),
     rejections |-> Len(c.rejections), log |-> Len(c.log), refused |-> Len(c.refused)]

(* Mark::of; log and refused are auxiliary. *)
MarkOf(c) ==
    [records |-> Len(c.records), blocks |-> Len(c.blocks),
     rejections |-> rejections_seen(c), log |-> Len(c.log), refused |-> Len(c.refused)]

(* Places of a list past the first n, as Iterator::skip leaves them. *)
Past(s, n) == n + 1 .. Len(s)

Row(list, k, tok, outcome) == [list |-> list, at |-> k, tok |-> tok, outcome |-> outcome]

(* Ledger::since: the records, the mined transactions that are over no     *)
(* record listed, and the refusals.                                        *)
Since(c, mark) ==
    LET records   == Past(c.records, mark.records)
        over_hapi == {c.records[k].hash : k \in records} \ {NoHash}
        mined     == {k \in Past(c.blocks, mark.blocks) :
                        c.blocks[k].tx # NoHash /\ c.blocks[k].tx \notin over_hapi}
        refused   == Past(c.rejections, IF mark.rejections > c.rejections_dropped
                                        THEN mark.rejections - c.rejections_dropped ELSE 0)
    IN  {Row("records", k, c.records[k].tok, Ended(c.records[k].ok)) : k \in records}
        \cup {Row("blocks", k, c.blocks[k].tx, Ended(c.blocks[k].ok)) : k \in mined}
        \cup {Row("rejections", k, c.rejections[k], "rejected") : k \in refused}

(* The count of check_transactions for ETHEREUMTRANSACTION and any payer. *)
check_transactions(c, mark) ==
    Len(SelectSeq(Skip(c.records, mark.records), LAMBDA r : r.ok /\ r.ethereum))
    + Len(SelectSeq(Skip(c.blocks, mark.blocks), LAMBDA b : b.tx # NoHash /\ b.ok))

-----------------------------------------------------------------------------
Init ==
    /\ chain = Genesis(0)
    /\ snapshots = << >>
    /\ next_snapshot = 0
    /\ per_attempt \in BOOLEAN
    /\ phase = "off"
    /\ slice = 0
    /\ attempts = 0
    /\ attempt = [mark |-> MarkOf(chain), snapshot |-> NoSnapshot, first |-> 0]
    /\ reverted = FALSE
    /\ session = [dump |-> NoDump, slice_index |-> 0]
    /\ sent = 0
    /\ boots = 0
    /\ begun = chain
    /\ wentBack = FALSE
    /\ dead = {}

(***************************************************************************)
(* `hanvil run` with or without --continue: boot_node applies the flag to  *)
(* genesis; with --continue reload_chain then puts the chain of the last   *)
(* dump in its place, snapshots, cap and all.  provision may add a record  *)
(* before the first attempt.                                               *)
(***************************************************************************)
Reloaded(is_continue, cap) ==
    IF is_continue /\ session.dump # NoDump
    THEN session.dump
    ELSE [chain |-> Genesis(cap), snapshots |-> << >>, next_snapshot |-> 0]

Boot(is_continue, cap, provisioned) ==
    /\ phase = "off"
    /\ boots < MaxBoots
    /\ provisioned => sent < MaxSent
    /\ boots' = boots + 1
    /\ sent' = IF provisioned THEN sent + 1 ELSE sent
    /\ LET loaded == Reloaded(is_continue, cap)
       IN  /\ chain' = IF provisioned THEN apply_hapi(loaded.chain, sent', TRUE) ELSE loaded.chain
           /\ snapshots' = loaded.snapshots
           /\ next_snapshot' = loaded.next_snapshot
    /\ slice' = IF is_continue THEN session.slice_index ELSE 0
    /\ session' = IF is_continue THEN session ELSE [dump |-> NoDump, slice_index |-> 0]
    /\ phase' = "ready"
    /\ attempts' = 0
    /\ reverted' = FALSE
    /\ wentBack' = FALSE
    /\ dead' = {}
    /\ UNCHANGED <<per_attempt, attempt, begun>>

(* The process dies; session.json and the dump stay. *)
Crash ==
    /\ phase # "off"
    /\ phase' = "off"
    /\ UNCHANGED <<chain, snapshots, next_snapshot, sent, wentBack, dead, harness>>

-----------------------------------------------------------------------------
(* Chain::snapshot and Chain::revert; revert's result is Known(id). *)
TakeSnapshot ==
    /\ next_snapshot < MaxSnapshots
    /\ snapshots' = [k \in DOMAIN snapshots \cup {next_snapshot} |->
                        IF k = next_snapshot THEN chain ELSE snapshots[k]]
    /\ next_snapshot' = next_snapshot + 1

Known(id) == id \in DOMAIN snapshots

(* Mutants: later snapshots survive; the counter of ids goes back. *)
RevertKeepingSnapshots(id) ==
    /\ chain' = snapshots[id]
    /\ snapshots' = [k \in DOMAIN snapshots \ {id} |-> snapshots[k]]
    /\ UNCHANGED next_snapshot

RevertCounter(id) ==
    /\ chain' = snapshots[id]
    /\ snapshots' = [k \in {j \in DOMAIN snapshots : j < id} |-> snapshots[k]]
    /\ next_snapshot' = id

Revert(id) ==
    /\ chain' = snapshots[id]
    /\ snapshots' = [k \in {j \in DOMAIN snapshots : j < id} |-> snapshots[k]]
    /\ UNCHANGED next_snapshot

(* The top of run_loop: mark and snapshot under one lock. *)
BeginAttempt ==
    /\ phase = "ready"
    /\ attempts < MaxAttempts
    /\ attempts' = attempts + 1
    /\ attempt' = [mark |-> MarkOf(chain),
                   snapshot |-> IF per_attempt THEN next_snapshot ELSE NoSnapshot,
                   first |-> next_snapshot]
    /\ IF per_attempt THEN TakeSnapshot ELSE UNCHANGED <<snapshots, next_snapshot>>
    /\ begun' = chain
    /\ wentBack' = FALSE
    /\ phase' = "running"
    /\ UNCHANGED <<chain, per_attempt, slice, reverted, session, sent, boots, dead>>

(***************************************************************************)
(* The clients of the node: the agent, the deploy commands and the         *)
(* application under test, and whatever they leave running between two     *)
(* attempts, since the node listens as long as the run lasts.              *)
(***************************************************************************)
Submission(answered(_, _)) ==
    /\ phase # "off"
    /\ sent < MaxSent
    /\ sent' = sent + 1
    /\ chain' = answered(chain, sent')
    /\ UNCHANGED <<snapshots, next_snapshot, phase, wentBack, dead, harness>>

SubmitHapi(ok) == Submission(LAMBDA c, tok : apply_hapi(c, tok, ok))
SubmitEthereum(ok) == Submission(LAMBDA c, tok : apply_ethereum(c, tok, ok))
SubmitEthereumRefused == Submission(apply_ethereum_refused)
SendRaw(ok) == Submission(LAMBDA c, tok : send_raw(c, tok, ok))
Refuse == Submission(reject)

ClientSnapshot ==
    /\ phase # "off"
    /\ TakeSnapshot
    /\ UNCHANGED <<chain, phase, sent, wentBack, dead, harness>>

(* Any id may be asked for, the attempt's own and older ones included; an  *)
(* unknown one changes nothing.                                            *)
ClientRevert(id) ==
    /\ phase # "off"
    /\ Known(id)
    /\ Revert(id)
    /\ wentBack' = (wentBack \/ id < attempt.first)
    /\ UNCHANGED <<phase, sent, dead, harness>>

(***************************************************************************)
(* The end of an attempt.  write_state_dump comes first and may fail.      *)
(* Then a passed attempt ends its increment, an attempt whose              *)
(* infrastructure failed ends the run, and a failed one is undone when     *)
(* there is budget left and ends the run when there is none.  The slice    *)
(* index is saved when an increment's loop is over.                        *)
(***************************************************************************)
Dumped(written) ==
    IF written
    THEN [chain |-> chain, snapshots |-> snapshots, next_snapshot |-> next_snapshot]
    ELSE session.dump

AttemptJudged(verdict, written) ==
    /\ phase = "running"
    /\ phase' = verdict
    /\ session' = [session EXCEPT !.dump = Dumped(written)]
    /\ UNCHANGED <<chain, snapshots, next_snapshot, per_attempt, slice, attempts, attempt,
                   reverted, sent, boots, begun, wentBack, dead>>

IncrementPassed ==
    /\ phase = "passed"
    /\ session' = [session EXCEPT !.slice_index = slice]
    /\ IF slice + 1 < Slices
       THEN phase' = "ready" /\ slice' = slice + 1
       ELSE phase' = "off" /\ UNCHANGED slice
    /\ attempts' = 0
    /\ reverted' = FALSE
    /\ UNCHANGED <<chain, snapshots, next_snapshot, per_attempt, attempt, sent, boots,
                   begun, wentBack, dead>>

(* Infrastructure failed, or the budget is spent. *)
RunStops ==
    /\ phase = "aborted" \/ (phase = "failed" /\ attempts = MaxAttempts)
    /\ session' = [session EXCEPT !.slice_index = slice]
    /\ phase' = "off"
    /\ UNCHANGED <<chain, snapshots, next_snapshot, per_attempt, slice, attempts, attempt,
                   reverted, sent, boots, begun, wentBack, dead>>

AttemptUndone ==
    /\ phase = "failed"
    /\ attempts < MaxAttempts
    /\ phase' = "ready"
    /\ IF Known(attempt.snapshot)
       THEN /\ Revert(attempt.snapshot)
            /\ reverted' = TRUE
            /\ dead' = dead \cup (attempt.snapshot .. next_snapshot - 1)
       ELSE /\ reverted' = FALSE
            /\ UNCHANGED <<chain, snapshots, next_snapshot, dead>>
    /\ UNCHANGED <<per_attempt, slice, attempts, attempt, session, sent, boots, begun,
                   wentBack>>

Next ==
    \/ \E is_continue, provisioned \in BOOLEAN, cap \in Caps : Boot(is_continue, cap, provisioned)
    \/ Crash
    \/ BeginAttempt
    \/ \E ok \in BOOLEAN : SubmitHapi(ok) \/ SubmitEthereum(ok) \/ SendRaw(ok)
    \/ SubmitEthereumRefused
    \/ Refuse
    \/ ClientSnapshot
    \/ \E id \in 0 .. MaxSnapshots - 1 : ClientRevert(id)
    \/ \E verdict \in {"passed", "failed", "aborted"}, written \in BOOLEAN :
        AttemptJudged(verdict, written)
    \/ IncrementPassed
    \/ RunStops
    \/ AttemptUndone

Spec == Init /\ [][Next]_vars
-----------------------------------------------------------------------------
(* Types of the harness' state and of the lists it reads; the refusals     *)
(* kept are within the cap.                                                *)
TypeOK ==
    /\ chain.max_rejections # 0 => Len(chain.rejections) <= chain.max_rejections
    /\ chain.max_rejections \in Caps \cup {0}
    /\ DOMAIN snapshots \subseteq 0 .. next_snapshot - 1
    /\ phase \in {"off", "ready", "running", "passed", "failed", "aborted"}
    /\ slice \in 0 .. Slices - 1
    /\ attempts \in 0 .. MaxAttempts
    /\ attempt.snapshot \in {NoSnapshot} \cup 0 .. MaxSnapshots - 1
    /\ reverted \in BOOLEAN

(* The ledger of the attempt under way lists each submission made since it *)
(* began once, with its outcome, and nothing older; of its refusals it     *)
(* lists the newest that --max-rejections keeps.  It holds however often   *)
(* the cap dropped rows of this attempt or of earlier ones, and after      *)
(* reverts of the application's own (Mark's comment: "the mark stays       *)
(* valid"); only a client that goes back to before the mark breaks it.     *)
LedgerIsExact ==
    phase = "running" /\ ~wentBack =>
        LET ledger  == Since(chain, attempt.mark)
            done    == {chain.log[k] : k \in Past(chain.log, attempt.mark.log)}
            refused == Past(chain.refused, attempt.mark.refused)
            kept    == IF chain.max_rejections = 0 THEN refused
                       ELSE refused \ (1 .. Len(chain.refused) - chain.max_rejections)
        IN  /\ \A row, other \in ledger : row.tok = other.tok => row = other
            /\ {[tok |-> row.tok, outcome |-> row.outcome] : row \in ledger}
               = done \cup {[tok |-> chain.refused[k], outcome |-> "rejected"] : k \in kept}

(* The count of refusals a mark relies on is never lost: on every chain    *)
(* that can be come back to, rows kept and rows dropped add up to the      *)
(* refusals answered, and the rows kept are the newest of them.            *)
RefusalsAddUp ==
    \A c \in {chain} \cup {snapshots[k] : k \in DOMAIN snapshots} :
        /\ rejections_seen(c) = Len(c.refused)
        /\ \A k \in DOMAIN c.rejections :
            c.rejections[k] = c.refused[k + c.rejections_dropped]

(* The ledger an attempt is judged and repaired by neither loses nor       *)
(* invents a line.                                                         *)
LedgerAddsUp == LedgerIsExact /\ RefusalsAddUp

(* The repair prompt tells the truth: when it says the chain was put back, *)
(* the chain is exactly the one the failed attempt started on, whatever    *)
(* snapshots and reverts the application made in between.                  *)
RepairStartsWhereTheLastBegan ==
    [][phase = "failed" /\ phase' = "ready" /\ reverted' => chain' = begun]_vars

(* An undone attempt leaves no way back: none of the snapshots taken while *)
(* it ran, by the harness or by the application, can be reverted to in a   *)
(* later attempt, and none of their ids is given to another snapshot.      *)
UndoneSnapshotsStayGone == phase # "off" => dead \cap DOMAIN snapshots = {}

(* What the harness undid before a repair is undone for good.              *)
UndoneIsUndone == RepairStartsWhereTheLastBegan /\ [][UndoneSnapshotsStayGone']_vars

(* The comment in Ledger::since: an ethereumTransaction over HAPI is one   *)
(* transaction.  The transactions assertion counts it twice, once for its  *)
(* record and once for its block.                                          *)
EthereumCountedOnce ==
    phase = "running" /\ ~wentBack =>
        check_transactions(chain, attempt.mark)
        <= Cardinality({k \in DOMAIN chain.log : k > attempt.mark.log
                                                 /\ chain.log[k].outcome = "success"})
=============================================================================
