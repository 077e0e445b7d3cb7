---------------------------- MODULE RemoteSigner ----------------------------
(***************************************************************************)
(* The signer of a run on a network that is not hanvil's own, remote.rs:   *)
(* provision reuses and tops up the account the key file names, or creates *)
(* one; sweep deletes it when the run is over (run.rs, drive).  Every      *)
(* change of the network is a submission: the request is refused, lost or  *)
(* accepted, an accepted transaction reaches consensus some time later or  *)
(* never, and its receipt is polled for until a deadline.  The process may *)
(* be interrupted or die at any step while a transaction is on its way.    *)
(*                                                                         *)
(* The network is external.  Its fees are left out; an account is named    *)
(* here by the number of the transaction that creates it.                  *)
(***************************************************************************)
EXTENDS Integers, FiniteSets

CONSTANTS
  FUNDING,    \* fundingHbar
  OPERATOR,   \* what the operator starts with
  POLLS,      \* polls that fit into RECEIPT_DEADLINE
  MAX_TXS,    \* bound on submissions
  MAX_RUNS    \* bound on runs

ASSUME FundsAreNatural == FUNDING \in Nat \ {0} /\ OPERATOR \in Nat /\ POLLS \in Nat

None == 0

VARIABLES
  accounts,   \* the network's: account -> [balance, alive]
  operator,   \* the operator's balance
  flight,     \* transactions accepted and not yet at consensus
  receipt,    \* transaction -> "pending", "success", "failed"
  txs,        \* submissions so far
  file,       \* the account chain-signer.json names
  pc,         \* where the run is
  doing,      \* what is being submitted: "create", "fund", "delete"
  delta,      \* what the signer lacked when its balance was read
  tx,         \* the transaction whose receipt is polled for
  left,       \* polls left
  asked,      \* a query for the receipt is out
  signer,     \* the run's signer
  runs,       \* runs started
  doomed,     \* auxiliary: accounts whose sweep was on its way when the run began
  spent,      \* auxiliary: what the app has paid from the run's signer
  replaced,   \* auxiliary: accounts provision took for deleted
  swept       \* auxiliary: accounts reported as swept

net == <<accounts, operator, flight, receipt>>
seen == <<doomed, spent, replaced, swept>>
vars == <<net, txs, file, pc, doing, delta, tx, left, asked, signer, runs, seen>>

Init ==
  /\ accounts = << >> /\ operator = OPERATOR /\ flight = {} /\ receipt = << >> /\ txs = 0
  /\ file = None /\ pc = "idle" /\ doing = "create" /\ delta = 0 /\ tx = None /\ left = 0 /\ asked = FALSE /\ signer = None
  /\ runs = 0 /\ doomed = {} /\ spent = 0 /\ replaced = {} /\ swept = {}

Alive(a) == a \in DOMAIN accounts /\ accounts[a].alive

-----------------------------------------------------------------------------
(* The run.                                                                *)

\* provision: a key file that can be read is asked about, else an account is made.
Start ==
  /\ pc = "idle" /\ runs < MAX_RUNS
  /\ runs' = runs + 1
  /\ pc' = IF file = None THEN "submit" ELSE "balance"
  /\ doing' = "create" /\ signer' = None /\ spent' = 0
  /\ doomed' = {b.account : b \in {c \in flight : c.kind = "delete"}}
  /\ UNCHANGED <<net, txs, file, delta, tx, left, asked, replaced, swept>>

\* The signer is there and funded: the attempts follow.
Ready(account) == pc' = "run" /\ signer' = account

\* The balance query: enough, too little, or ACCOUNT_DELETED.
BalanceAnswers ==
  /\ pc = "balance"
  /\ \/ /\ Alive(file) /\ accounts[file].balance >= FUNDING
        /\ Ready(file)
        /\ UNCHANGED <<doing, delta, replaced>>
     \/ /\ Alive(file) /\ accounts[file].balance < FUNDING
        /\ pc' = "submit" /\ doing' = "fund" /\ delta' = FUNDING - accounts[file].balance
        /\ UNCHANGED <<signer, replaced>>
     \/ /\ ~Alive(file)
        /\ pc' = "submit" /\ doing' = "create" /\ replaced' = replaced \cup {file}
        /\ UNCHANGED <<delta, signer>>
  /\ UNCHANGED <<net, txs, file, tx, left, asked, runs, doomed, spent, swept>>

\* The query fails on its way: as if the account were deleted.
BalanceFails ==
  /\ pc = "balance"
  /\ pc' = "submit" /\ doing' = "create" /\ replaced' = replaced \cup {file}
  /\ UNCHANGED <<net, txs, file, delta, tx, left, asked, signer, runs, doomed, spent, swept>>

\* The body on its way.  For a top-up the amount is the one worked out when the
\* balance was read, whatever has reached the account since.
Body ==
  CASE doing = "create" -> [n |-> txs + 1, kind |-> "create", account |-> txs + 1, amount |-> FUNDING]
    [] doing = "fund"   -> [n |-> txs + 1, kind |-> "fund", account |-> file, amount |-> delta]
    [] doing = "delete" -> [n |-> txs + 1, kind |-> "delete", account |-> signer, amount |-> 0]

Accept ==
  /\ txs < MAX_TXS
  /\ txs' = txs + 1
  /\ flight' = flight \cup {Body}
  /\ receipt' = [n \in 1 .. txs + 1 |-> IF n = txs + 1 THEN "pending" ELSE receipt[n]]
  /\ UNCHANGED <<accounts, operator>>

\* submit: the precheck lets the transaction through.
Submitted ==
  /\ pc = "submit"
  /\ Accept
  /\ pc' = "poll" /\ tx' = txs + 1 /\ left' = POLLS /\ asked' = TRUE
  /\ UNCHANGED <<file, doing, delta, signer, runs, seen>>

\* cleanup_runtime, at the end of every run that did not die: the key file goes.
CleanUp == file' = None /\ pc' = "idle"

\* An error of provision ends the run, one of sweep is logged.
Fails == CleanUp /\ UNCHANGED <<doing, delta, tx, left, asked, signer, runs, seen>>

\* No connection, a precheck code, or an answer that got lost after the node had
\* accepted the transaction.
NotSubmitted ==
  /\ pc = "submit"
  /\ \/ Accept
     \/ UNCHANGED <<net, txs>>
  /\ Fails

(* Mutant: the precheck's OK is taken for the receipt's SUCCESS. *)
SucceedsEarly ==
  /\ pc = "poll" /\ asked /\ receipt[tx] \in {"pending", "success"}
  /\ CASE doing = "create" -> /\ file' = tx /\ Ready(tx) /\ UNCHANGED swept
       [] doing = "fund"   -> /\ Ready(file) /\ UNCHANGED <<file, swept>>
       [] doing = "delete" -> /\ swept' = swept \cup {signer} /\ CleanUp /\ UNCHANGED signer
  /\ UNCHANGED <<net, txs, doing, delta, tx, left, asked, runs, doomed, spent, replaced>>

\* The receipt says SUCCESS.  A created account is written to the key file; a
\* swept one is reported and its file removed.
Succeeds ==
  /\ pc = "poll" /\ asked /\ receipt[tx] = "success"
  /\ CASE doing = "create" -> /\ file' = tx /\ Ready(tx) /\ UNCHANGED swept
       [] doing = "fund"   -> /\ Ready(file) /\ UNCHANGED <<file, swept>>
       [] doing = "delete" -> /\ swept' = swept \cup {signer} /\ CleanUp /\ UNCHANGED signer
  /\ UNCHANGED <<net, txs, doing, delta, tx, left, asked, runs, doomed, spent, replaced>>

\* The receipt says otherwise, cannot be read, or the key file cannot be written.
PollFails ==
  /\ pc = "poll" /\ asked
  /\ Fails
  /\ UNCHANGED <<net, txs>>

\* UNKNOWN, RECEIPT_NOT_FOUND and OK mean "ask again".
Pending == pc = "poll" /\ asked /\ receipt[tx] = "pending"

(* Mutants: an answer puts the deadline off; the deadline is not looked at. *)
PollAgainForever ==
  /\ Pending /\ left > 0
  /\ asked' = FALSE /\ left' = IF left = POLLS THEN left - 1 ELSE POLLS
  /\ UNCHANGED <<net, txs, file, pc, doing, delta, tx, signer, runs, seen>>

PollAgainLate ==
  /\ Pending /\ left > -2
  /\ asked' = FALSE /\ left' = left - 1
  /\ UNCHANGED <<net, txs, file, pc, doing, delta, tx, signer, runs, seen>>

\* Not yet: an interval of sleep.  An answer that was long in coming has used up
\* more of the deadline than that.
PollAgain ==
  /\ Pending /\ left > 0
  /\ asked' = FALSE /\ left' \in 0 .. left - 1
  /\ UNCHANGED <<net, txs, file, pc, doing, delta, tx, signer, runs, seen>>

\* The query goes out again.  A network that is silent keeps the run here: the
\* deadline is looked at when an answer has come, and no call has a limit.
AskAgain ==
  /\ pc = "poll" /\ ~asked
  /\ asked' = TRUE
  /\ UNCHANGED <<net, txs, file, pc, doing, delta, tx, left, signer, runs, seen>>

\* ReceiptTimeout: the transaction may reach consensus yet.
PollTimesOut ==
  /\ Pending /\ left = 0
  /\ Fails
  /\ UNCHANGED <<net, txs>>

\* The attempts are through, or an error ended them: sweep.  A run whose
\* provisioning could not be logged has no signer to sweep.
Sweep ==
  /\ pc = "run"
  /\ pc' = "submit" /\ doing' = "delete"
  /\ UNCHANGED <<net, txs, file, delta, tx, left, asked, signer, runs, seen>>

Unlogged == pc = "run" /\ spent = 0 /\ Fails /\ UNCHANGED <<net, txs>>

\* Ctrl-C: cleanup_after_interrupt.  Nothing is swept.
Interrupt == pc # "idle" /\ Fails /\ UNCHANGED <<net, txs>>

\* The process dies; a later run continues in the same run directory.
Crash ==
  /\ pc # "idle"
  /\ pc' = "idle"
  /\ UNCHANGED <<net, txs, file, doing, delta, tx, left, asked, signer, runs, seen>>

-----------------------------------------------------------------------------
(* The app and the network.                                                *)

Spend ==
  /\ pc = "run" /\ Alive(signer) /\ accounts[signer].balance > 0
  /\ accounts' = [accounts EXCEPT ![signer].balance = @ - 1]
  /\ spent' = spent + 1
  /\ UNCHANGED <<operator, flight, receipt, txs, file, pc, doing, delta, tx, left, asked, signer, runs, doomed, replaced, swept>>

Applies(b) ==
  CASE b.kind = "create" -> operator >= b.amount
    [] b.kind = "fund"   -> operator >= b.amount /\ Alive(b.account)
    [] b.kind = "delete" -> Alive(b.account)

Consensus(b) ==
  /\ flight' = flight \ {b}
  /\ receipt' = [receipt EXCEPT ![b.n] = IF Applies(b) THEN "success" ELSE "failed"]
  /\ \/ ~Applies(b) /\ UNCHANGED <<accounts, operator>>
     \/ /\ Applies(b) /\ b.kind = "create"
        /\ accounts' = [a \in DOMAIN accounts \cup {b.account} |->
                          IF a = b.account THEN [balance |-> b.amount, alive |-> TRUE] ELSE accounts[a]]
        /\ operator' = operator - b.amount
     \/ /\ Applies(b) /\ b.kind = "fund"
        /\ accounts' = [accounts EXCEPT ![b.account].balance = @ + b.amount]
        /\ operator' = operator - b.amount
     \/ /\ Applies(b) /\ b.kind = "delete"
        /\ accounts' = [accounts EXCEPT ![b.account] = [balance |-> 0, alive |-> FALSE]]
        /\ operator' = operator + accounts[b.account].balance
  /\ UNCHANGED <<txs, file, pc, doing, delta, tx, left, asked, signer, runs, seen>>

\* transactionValidDuration passes: the transaction is dropped.
Expires(b) ==
  /\ flight' = flight \ {b}
  /\ UNCHANGED <<accounts, operator, receipt, txs, file, pc, doing, delta, tx, left, asked, signer, runs, seen>>

Over == pc = "idle" /\ runs = MAX_RUNS /\ flight = {} /\ UNCHANGED vars

Harness ==
  \/ Start \/ BalanceAnswers \/ BalanceFails \/ Submitted \/ NotSubmitted \/ Succeeds \/ PollFails
  \/ PollAgain \/ AskAgain \/ PollTimesOut \/ Sweep \/ Unlogged

Next ==
  \/ Harness \/ Interrupt \/ Crash \/ Spend
  \/ \E b \in flight : Consensus(b) \/ Expires(b)
  \/ Over

\* A sleep ends.  No call has to be answered, no transaction to reach consensus,
\* and no attempt to end.
Spec == Init /\ [][Next]_vars /\ WF_vars(AskAgain)

-----------------------------------------------------------------------------
(* Properties.                                                             *)

\* Types; a receipt is kept for every submission.
TypeOK ==
  /\ pc \in {"idle", "balance", "submit", "poll", "run"}
  /\ DOMAIN receipt = 1 .. txs /\ DOMAIN accounts \subseteq 1 .. txs
  /\ file \in 0 .. txs /\ signer \in 0 .. txs /\ left \in 0 .. POLLS /\ asked \in BOOLEAN
  /\ operator \in 0 .. OPERATOR
  /\ \A b \in flight : b.amount \in 0 .. FUNDING

\* "chain_signer_provisioned" and "chain_signer_swept" (run.rs, drive) say what
\* the network holds, whatever was lost, late or left over from an earlier run:
\* the attempts begin with the account the key file names, alive and worth at
\* least `fundingHbar', unless a sweep of it from a run that died reaches
\* consensus after all; and an account reported as swept is gone.
ReportsAreTrue ==
  /\ pc = "run" =>
       /\ file = signer
       /\ \/ Alive(signer) /\ accounts[signer].balance + spent >= FUNDING
          \/ signer \in doomed
  /\ \A a \in swept : a \in DOMAIN accounts /\ ~Alive(a)

\* "How long to poll for a receipt before giving up" (remote.rs, RECEIPT_DEADLINE):
\* as long as the network answers, a submission comes to an end although its
\* transaction never reaches consensus; only a query that is never answered
\* can keep it.
SubmissionEnds == []<>(pc # "poll") \/ <>[](pc = "poll" /\ asked)

\* The same of any network: not so, for a silent one.
PollGivesUp == []<>(pc # "poll")

\* "reuse a live signer from an earlier cycle, ... replace one that was swept"
\* (remote.rs, provision): an account provision gives up is one that is deleted.
LiveSignerIsReused == \A a \in replaced : ~Alive(a)
=============================================================================
