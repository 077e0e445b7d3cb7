# A verification project for hanvil

hanvil is a local Hedera node in one process: an in-memory chain answered over
JSON-RPC, a mirror REST API and HAPI gRPC, and a harness (`hanvil run`) that lets
a coding agent build an application against that chain, attempt after attempt.
This directory models the parts of it where several callers, two stores of one
fact, counters, clocks, snapshots or crashes meet, checks them with TLC on small
instances, and proves facts about them with TLAPS for every instance.

Source paths are relative to the repository (`src/state/mod.rs` and so on).
`PROJECT.json` maps each definition to the lines it stands for.

## 1. The system

### Components, their state and operations

| component | state | operations | what makes it correct |
|---|---|---|---|
| chain time (`state/mod.rs`, `state/time.rs`, `rpc/cheats.rs`, `main.rs`) | head block's time, clock offset (i64), pending pin, last consensus stamp | send, mine, interval mining, `evm_setNextBlockTimestamp`, `evm_increaseTime`, `anvil_mine`, HAPI submissions | blocks do not go back in time; a stamp names one transaction; a pin reaches the block it was set for |
| HAPI ledger (`hapi/wire.rs`, `state/mod.rs`, `state/hapi.rs`) | accounts, address index, id counter, topics, records, index of records | precheck; create, transfer, delete, create topic, submit message | supply conserved; only the owner's signature moves tinybar; a failing body costs the fee and nothing else; records explain balances |
| EVM bridge (`state/mod.rs`, `evm/mod.rs`) | accounts and revm's database, nonces, contract ids | send, call, ethereumTransaction, `anvil_set*` | the two stores stay one ledger |
| snapshots, filters, state file (`state/mod.rs`, `main.rs`, `node.rs`) | snapshots, filters with cursors, record index, the `--state` file | snapshot, revert, install, poll, dump, boot | ids name one thing; no duplicate transaction; filters miss nothing |
| attempt ledger (`harness/{ledger,chain,attempt,run}.rs`) | refusals and their cap, mark and snapshot of an attempt, `session.json` | mark, snapshot, ledger, revert, dump, `--continue` | an attempt is shown what it did, once; a repair starts where it is told it starts |
| run session (`harness/{session,run,git,artifacts}.rs`, the signer of `chain.rs`) | branch checked out, commits, working tree, `session.json`, key file of the signer | start, baseline, continue, provision, attempt, dump, checkpoint, report, sweep, clean-up, interrupt | the developer's work is never committed; no increment is skipped; attempt numbers are not reused; the key file goes; what a stopped run leaves is consistent |
| recipe (`harness/spec.rs`) | none: `.harness/spec.yaml` as loaded | read, default, merge, refuse | nothing the author asked for is dropped silently |
| attempt stages (`harness/{attempt,findings,prompt,agent,assert,chain,smoke,evaluate,mcp}.rs`) | stage, findings, delta, ledger, model, prompt, install fingerprint, MCP file, dev server | generate, assert, chain, smoke, evaluate, judge, repair | a pass ran every gate asked for; a repair is told the truth; the workspace is given back; the loop ends |
| validation commands (`harness/run.rs`: `validate`, `validate_semantic`) | the same, the node booted for them, the signer's key file | the stages on the workspace as it stands, teardown | as above, without key file or server left behind |
| processes and watcher (`harness/{agent,command,devserver,mcp,watcher}.rs`) | child processes, `LIVE_GROUPS`, timers, the watcher's last walk | spawn, wait, time out, SIGTERM, grace, SIGKILL, Ctrl-C, walk | nothing outlives the run; stopped only for cause; every change logged; the run ends |
| remote networks (`harness/remote.rs`) | key file, network accounts, transactions in flight | provision, top up, submit, poll, sweep | what is reported is what the network holds; a submission ends |
| mirror REST API (`mirror/*`) | none: a view of records and EVM transactions | lists, lookups, pages | each transaction listed once; paging by timestamp misses nothing |
| JSON-RPC and HAPI reads, other mirror reads | none of their own | pure reads | not modelled, see section 8 |
| keys, fees, CLI, `init`, `doctor`, `toll`, skills | none, or configuration | | not modelled |

### How they interact, and what is hard

All three front ends and the interval miner share one `Chain` behind one
read-write lock. A request reads the wall clock, takes the lock, runs a whole
handler and lets go, so a handler is atomic; what interleaves is whole
handlers, and the clock reading is taken *outside* the lock and may be older than
that of a handler that already ran. Inside a handler the difficulties are
orders of effects with early returns between them (fee before body, pin taken
before the EVM accepts, timestamp allocated before a refusal), and facts kept
twice (balances in accounts and in the EVM database; a transaction in records and
in blocks; an account under its alias and its long-zero address). A revert
replaces the whole chain by an older clone while clients keep the ids they were
given. The harness holds counts into lists that the application it supervises can
cut or revert. The process can die at any time; only the state file, the dumps and
`session.json` survive. The harness in turn runs programs it does not control: an
agent, commands, a dev server, a browser, a remote network. Each of them may fail,
hang, answer late or leave descendants, and the errors travel with `?` past clean-up
that a later line would have done. `PROJECT.json` lists these hazards line by line.

## 2. Modules

### ChainTime, ConsensusLog, ChainTimeProofs

`ChainTime` has the variables of `Chain` that concern time. `now` is any member
of `Nows` in each action: the caller's reading may be stale and the wall clock may
be set back. The pin, the offset and the block time keep their widths: `as i64` is
`WrapI64`, `saturating_add` and `saturating_add_signed` saturate. `next_consensus`
is max of the clock and the stamp after the last, with the carry of `next_nano`: an
addition of u64 seconds, which wraps in a release build (`Cargo.toml` turns no overflow checks
on) and panics in a debug build; the model is the release build. Any u64 may be a pin, so the
last instant of the type, `LastInstant`, can be handed out, and the one after it is 0.0.
`spent` remembers that. What the stamps promise is promised up to there; order of block
times, pins and types hold beyond it too.
`SendRefused` is the early return of `execute_and_mine` after the pin was taken
and a stamp allocated. `anvil_mine` releases no lock but is a loop whose
iterations each seal a block; the model takes them as steps (`StartMining`,
`MineStep`, `MineAdvance`) during which no other action is enabled, so that
properties hold between blocks too. `ConsensusLog` is the abstract promise: a set
of used stamps to which only later ones are added until the last one there is has gone.

### HapiLedger, LedgerProofs

One action, `Submit`, is `wire::submit`: a precheck that leaves this state alone
when it fails, then `apply_hapi`, which charges the fee, applies the body and
appends a record whether the body succeeds or fails. Signatures are the set of
keys that signed. A consensus timestamp is the record's place in the list, which
ChainTime justifies. What `transfer` adds up per account is a sum over the entries of its
list (`SumFunctionOnSet`), and `InOrder` says in which place of the record each account
comes. A client may name any address in a transfer, its own alias, a contract's or one that stands
for an id (`LongZeros`), one not yet given out too; the hollow account made there has it as its
alias. `PlainAliases` says that no account has got such a long-zero alias. Without it
`insert_account` may hand an account's address to a later entity, so what addresses lead to
(`AddressesResolve`) is said under it; the other parts of `EntitiesAreConsistent` are not. The
id of the consensus node (0.0.3: no key, no tinybar, never
credited but by a client's transfer) is left out of `GenesisIds`.

### EvmLedger (proofs in LedgerProofs)

Extends HapiLedger with revm's database, nonces, contracts and the cheats.
`ExecuteAndMine` is sync into the database, run, sync back, credit of the burned
base fee, as one action because the lock is held. revm is external: a transaction
transfers value, creates a contract, or calls a contract that pays on, and succeeds
or reverts. `SyncOnly` is a call or gas estimation, which leaves the database
synchronised and the accounts alone. New contracts and hollow accounts of one execution
have ids of their own; the model gives the hollow accounts the lower ones, the code the
contracts. No transaction of the run opens both, and no property tells the two apart.

An address can come to stand for two things: value is sent to the long-zero address of an
account that has an alias, a HAPI transfer opens an account where a contract is, an account has a
long-zero address for its alias, or a contract is put at one. The first two leave no trace in the
program's state, so `crossed` collects such addresses; `Uncrossed` says that none of the four has happened. From
then on the two stores do not keep the supply (run `EvmLedgerLongZero`), and `EvmSupplyConserved`
and `OnlyTheSenderActs` are about the states before. `EntitiesAreDistinct` is about all states: ids are never shared, and
neither an execution nor a cheat gives one address to two entities.

### ChainSnapshots, ChainSnapshotsProofs

A snapshot is a clone of the fields a client holds ids into. Blocks are tokens
never reused, so that "the same height" and "the same block" differ. `Shutdown`
writes the file without the record index, as serde does; `Boot` reads it and rebuilds
the index in the chain and its snapshots; `Crash` loses everything since the last
dump.

### AttemptLedger, AttemptLedgerProofs

The loop of `run_loop` around the chain: mark and snapshot under one lock, any
client activity, the verdict with the dump, then the next increment, the end of the
run, or the revert under a repair. Clients may submit, snapshot and revert at any
time the node is up, also between attempts. Validation is a free choice of verdict.
`log` in the chain is an auxiliary list of every answer given and `refused` one of every
refusal, both carried through snapshots; the ledger, a set of rows, is judged by them. `hanvil run --state FILE` without
`--continue` is not distinguished from genesis.

### RunSession, RunSessionProofs

`hanvil run` in one workspace, again and again, with one recipe that has chain
validation. Branch 0 is the developer's, branches 1.. are the harness's; a sha is
the history it names, so "HEAD is the checkpoint" is equality of histories. `sessions`
holds what `session.json` says of a branch (a branch whose file was torn or never
written is not in its domain), `keys` the signer's key file, `proc` the run in
progress. Each durable write of the code is a step of its own, because a run can stop
between any two: by an error returned with `?` (`StepFails`, which still sweeps and
cleans when it happens inside the outcome block), by Ctrl-C (`Interrupt`, which
cleans), or by the death of the process (`Crash`, which may tear the `session.json`
being rewritten). A run is `StartSession`, `Baseline` or one of the two continues,
`Provision`, then for every attempt `Generate`, `Validate`, `WriteStateDump`,
`CommitAttempt`, `RecordCheckpoint`, then `NextSlice`, `SaveReport`, `Sweep`,
`CleanUp`. What a stage decides is a free choice of verdict and findings. The agent
may commit and may leave another branch checked out. `--skip-baseline` is not
distinguished from a baseline that passes.

The developer's actions are external and happen between runs only: edit, discard,
commit, check out, and drop the commits made after the last checkpoint (`Reset`).
Edits while a run is in progress cannot be told from the agent's by the code or
by the model. `delivered` and `ended` are history variables.

### Recipe, Gates, AttemptStages, Validate, AttemptStagesProofs

`Recipe` is the loader as a function from the recipe as written (a record whose
optional keys are sequences of length at most one) to the recipe the harness runs, or
to a refusal: removed and misplaced keys, defaults, the merge of flat and phased chain
validation, what testnet excludes. `Gates` has the decisions of the stages as operators
without state: which findings a workspace, a chain, a page or a validator's reply
produce, when a failing browser is infrastructure and not a finding, how findings
compare with those of the attempt before, which repair scope and model follow, and
what the MCP file of the workspace becomes when an entry is added and taken out again.

`AttemptStages` is `run_loop`: one action per stage, each with its early exits, and
`stage` says what comes next. The agent leaves any of `Workspaces` and submits any of
`Txs`; the browser and the validator fare as in `Tools` and `Replies`. Properties judge
a pass against the recipe *as written*, so a loader that forgets a gate is a violation,
not a smaller recipe. `judged` records the gates that ran clean in the current attempt, and
`advanced` the time the chain's clock was moved for each set of assertions in it.

`Validate` adds the two commands that run the same stages without agent or session:
`hanvil validate` (assert, chain, smoke) and `hanvil validate-semantic` (evaluate).
They have a `key` file and an end of their own; Ctrl-C (`Killed`) has no handler there.

### Watcher, Processes, ProcessesProofs

`Watcher` is the walk over the tree file by file beside an agent that writes: what a
walk has read is compared and logged only when it is complete. The stop aborts the walk in
progress (`WatchAbort`) and makes one more, again file by file (`LastWalkFile`) beside a descendant that may
still be writing; `late` has the files written meanwhile. `Processes` extends it with the agent, commands,
dev server and browser MCP server. Each has a direct child and one descendant in its
process group, either of which may ignore SIGTERM; the descendant may hold the pipes.
Time is a countdown: `Tick` lowers the deadline in force and the idle timer, which may
both be due for a while before the select takes them; an idle timer that wakes to find
that output arrived is set again for what is left of the idle time. Ctrl-C drops the run's future at any await, which kills direct
children, and then stops the registered groups.

### RemoteSigner, RemoteSignerProofs

A signer on testnet over several runs. The network is external: a request is refused,
lost or accepted; an accepted transaction reaches consensus later, fails or expires, in
a later run even; or it is silent, and then the run waits, because no call has a timeout and
`RECEIPT_DEADLINE` is looked at only when an answer has come (`asked`: a query is out).
`delta` is the amount of the top-up in progress. The key file names the
account to be reused. `Interrupt` and `Crash` end a run anywhere. `doomed`, `spent`, `swept` and `replaced` are history variables.

### Mirror

The chain's two lists (EVM transactions, HAPI records), with an ethereumTransaction in
both under one stamp, and a client that asks for a page (`Ask`) and gets it later
(`Take`), then asks on from the last timestamp in the order it chose, while the chain
grows or is reverted. Filters by account, type and result, limits, refused parameters,
lookups by id, contract results and topic messages are operators over the chain.

### MC modules

Each `MC*` module only gives constants their values and, in some, a `VIEW` that drops
auxiliary or dead variables which no guard reads. `RemoteSigner` needs none.

## 3. Runs

| run | question | result |
|---|---|---|
| `ChainTime` | order and uniqueness of block times and stamps, pins, offsets, refinement of `ConsensusLog` | holds; stamps up to the last instant of u64 seconds |
| `HapiLedger` | supply, records, index, ids, addresses, topics, signatures, failing bodies | holds |
| `EvmLedger` | the two stores under HAPI, EVM and cheats, addresses that come to name two things included | ids and addresses hold; supply and senders until an address is taken for two things |
| `EvmLedgerLongZero` | value sent to the long-zero address of an aliased account | supply not conserved |
| `ChainSnapshots` | index, duplicates, cursors, snapshot ids through reverts, dumps and crashes | holds |
| `AttemptLedger` | ledger exact, refusals add up, repair starts where told, undone snapshots gone | holds |
| `RunSession` | what runs, continues, errors, interrupts and crashes leave behind, with a developer and an agent who also use git | holds |
| `AttemptStages` | is a pass earned, a repair founded, the workspace given back, and does it end: `hanvil run` and both validations | holds; a stage without a limit may wait for ever |
| `Processes` | stopped for cause, nothing outlives the run, every change logged, the run ends | holds; a descendant that keeps the pipes of a dead child can hold it up |
| `RemoteSigner` | are the reports true and does a submission end, on a network that loses, delays or is silent | holds; a query never answered keeps it |
| `RemoteSignerReuse` | is a live signer reused? | no: a failed balance query replaces it |
| `Mirror` | is a transaction listed once, does paging miss nothing | holds |

Most properties are conjunctions of named parts, one part per hazard, so that a
reader can see what each says: `StampsIdentify` (order, uniqueness, not before the
block), `TinybarAccountedFor`, `EntitiesAreConsistent`, `PaymentsAreFair`,
`DuplicatesAreRefused`, `SnapshotsGoBack`, `EntitiesAreDistinct`,
`OnlyTheSenderActs`, `LedgerAddsUp`, `UndoneIsUndone`, `CheckpointsAreAttempts`,
`SessionIsTrue`, `RepairIsFounded`, `ListedOnce`.

The two violations are recorded under `findings` with the sentences of the code or
README they contradict. Section 7 lists what else was met.

### Bounds, and why they are enough

- ChainTime: a second has 2 nanoseconds, i64 ends at 3 and u64 at 7, the clock reads 1.1 or
  3.0, pins are 5 and 7: outside the i64 range, and at the end of the type. Two blocks after
  genesis, two records: order properties relate two neighbours, carry and wrap happen within
  two calls. `MaxStampSecs` is a bound on `SendRefused`, which leaves no block behind. The proofs do away
  with these bounds.
- HapiLedger: three genesis accounts, two ids to hand out, three records, balances of
  a few fees so that payers run out. Three submissions suffice to create, delete and
  use again, or create a topic and send two messages. Starts has one instant: duplicates
  are the same payer twice. One transfer names the long-zero address of a later account.
- EvmLedger: the user, one hollow account, the first contract; nonces to 2, one HAPI
  record, one cheat: enough for create, call, HAPI transfer in between, call again. Targets are a
  free address, the user's alias and its long-zero address, and the contract's; HAPI
  transfers go to a free address, the contract's and a later id's. A payment to the user's long-zero
  address takes its nonce back, so without a bound there are executions without end: the
  constraint `MCExplored` goes on from it only as long as the fee collector has 2 tinybar or less.
- ChainSnapshots: two blocks, two snapshots, one live filter id and two installations:
  a revert below a cursor, re-mining, reuse of an id, and a restart from a dump that
  carries snapshots.
- AttemptLedger: two increments of two attempts, two submissions, three snapshots (the
  attempt's, the application's and the repair's), two starts, a cap of one: a second
  refusal drops the first under a mark.
- RunSession: one harness branch, two increments of two attempts, three attempts in all,
  two continues, one edit, commit or checkout by developer or agent. Every property is
  about one session, whose branch and one other branch (the developer's) suffice; two
  continues let a run resume what a resumed run left. The last attempt, cycle and
  edit are bounds on the guards of `Generate`, `Resume`, `Edit` and `Commit`.
- AttemptStages: increments of up to two attempts, two transactions on the chain, four
  workspaces (clean, file missing, install failing with a leaked key, page with errors),
  seven ways the validator ends, a browser that works, reports nothing, or cannot be
  started. Properties compare an attempt with the one before, so two attempts suffice; a
  second cycle starts with open findings. Recipes include one with every gate, testnet,
  refused, and switched-off ones; both validations start on every workspace, and one run on
  an MCP file with an entry of the harness that a killed command left.
- Processes: an agent alone, and a command followed by a server with its browser: the
  stages share no process. Wall limit 3, idle 2, others 1, so that the idle timer can be
  set again before the wall is reached; two files and three writes.
- RemoteSigner: three runs, five submissions, two polls, an operator that can afford two
  signers and a half: enough to create, fail to sweep, reuse, top up and be refused.
- Mirror: three transactions, stamps to 5, pages of 1 and 2: a page boundary between any
  two transactions, growth on both sides of it, and a revert below it.

Deadlock is not checked where a bound, and nothing in the system, ends the
behaviour (`CHECK_DEADLOCK FALSE`: HapiLedger, EvmLedger, AttemptLedger). All other runs
check it; a run of the harness that is over stutters in `Over`.

### Fairness

The chain's modules, RunSession and Mirror assume none: a handler is one step under a
lock, and a run may stop anywhere. The modules with a liveness property assume weak
fairness of what the tokio runtime schedules, and of nothing that belongs to someone else:

- AttemptStages, Validate: the steps of a stage whose waits have a limit
  (`WF_vars(~Unlimited /\ Steps)`). `Unlimited` are the stages that wait for an agent's or a command's
  pipe readers, or for git, which have none. `StageEnds` therefore says: the loop is over in the end, or
  it stays for ever in one such stage; no failure is retried without end. Interrupts are not fair.
- Processes: the run's future, the timers and the clock, and that a process struck by
  SIGKILL, or by SIGTERM without ignoring it, dies. No child and no descendant has to exit or to
  speak. `RunEnds` says: the run ends, or the readers wait for ever for a living descendant
  that holds the pipes of a child that is gone (`HeldUp`).
- RemoteSigner: a sleep between two queries ends (`WF_vars(AskAgain)`). No call has to be
  answered, no transaction to reach consensus. `SubmissionEnds` says: a submission comes to an end, or a query
  is out for ever. In particular the answers "not yet" of a network that never decides end with the deadline.

## 4. Mutants

Each property of a passing run has a mutant in `PROJECT.json`: a definition changed
the way a slip in that code would change it (definitions marked `Mutant` in the
modules), under which the run finds the property violated.

## 5. Proofs

Each theorem holds for every value of the constants under the named assumption of its
module, which TLC evaluates in the runs: for any number of accounts, blocks, attempts,
branches, runs, files, and so for instances no run can reach. Each proof has the same
plan: an inductive invariant `IInv`, one lemma per action (or per group of actions that
do the same to the invariant), and the properties from `IInv`. TLC
checked every `IInv` on the run's instance before it was proved, but for the conjuncts that
say to which infinite set a list belongs.

| module | theorem | property of a run |
|---|---|---|
| `ChainTimeProofs` | `ChainTimeInvariant`, `TypeCorrect`, `BlocksNeverGoBack`, `PinStaysAhead`, `PinIsHonoured`, `TransactionsAreIdentified`, `ImplementsConsensusLog` | `TypeOK`, `BlockTimesNeverBack`, `PinHonoured`, `StampsIdentify`, `ImplementsLog` |
| `LedgerProofs` (HapiLedger) | `LedgerInvariant`, `LedgerTypes`, `TinybarHolds`, `PaymentsHold`, `EntitiesHold` | `TypeOK`, `TinybarAccountedFor`, `PaymentsAreFair`, `EntitiesAreConsistent` |
| `LedgerProofs` (EvmLedger) | `EvmInvariant`, `EvmTypes`, `EvmIds`, `EvmEntitiesHold`, `EvmSupplyHolds`, `EvmSenderActs` | `EvmTypeOK`, `EntitiesAreDistinct`, `EvmSupplyConserved`, `OnlyTheSenderActs` |
| `ChainSnapshotsProofs` | `Invariant`, `TypeCorrect`, `DuplicatesRefused`, `NothingMissed`, `GoingBack` | `TypeOK`, `DuplicatesAreRefused`, `FiltersMissNothing`, `SnapshotsGoBack` |
| `AttemptLedgerProofs` | `Invariant`, `TypeCorrect`, `LedgerTrue`, `Undone` | `TypeOK`, `LedgerAddsUp`, `UndoneIsUndone` |
| `RunSessionProofs` | `Invariant`, `TypeCorrect`, `Checkpoints`, `SessionTruth`, `KeysGo` | `TypeOK`, `CheckpointsAreAttempts`, `SessionIsTrue`, `KeyFileGoes` |
| `ProcessesProofs` | `Invariant`, `TypeCorrect`, `NothingLeft`, `ChangesNamed`, `Caused` | `TypeOK`, `NothingOutlivesTheRun`, `LogNamesEveryChange`, `StoppedForCause` |
| `RemoteSignerProofs` | `Invariant`, `TypeCorrect`, `Reports` | `TypeOK`, `ReportsAreTrue` |
| `AttemptStagesProofs` | `CommandIsFair`, `AttemptStagesTypes`, `PassesAreEarned`, `RepairsAreFounded`, `WorkspaceIsGivenBack` | `TypeOK`, `PassIsEarned`, `RepairIsFounded`, `NothingLeftBehind` |

### The arguments

**ChainTime** (`TimeAssumption`: the constants are of their types, a clock reading fits an
i64). `IInv` adds `LastIsLatest`: that stamps increase is not inductive alone, because
a new stamp is compared with the last one handed out, not with those shown. It and the three
parts of `StampsIdentify` are kept until `spent`; `SpentAtTheEnd` says that the wrap of `next_nano` cannot come
before. `TypeOK` with its widths, block order and pins need no such condition. That a
pin is honoured needs `PinAhead`, since `next_block_timestamp` takes the maximum with the
head. `StepsShown` reduces the thirteen actions to what a reader of the chain sees (at most
one new block, at most one new record, one later stamp); the steps for the conjuncts
are proved from that.

**HapiLedger** (`LedgerAssumption`: the two system accounts differ, users have ids from
`FIRST_USER_ID` on, amounts and the fee are natural numbers, genesis holds the supply). The
difficult part is that a body moves tinybar in many legs, and that what it did before an error is
thrown away. `Works` says of a body in progress that each balance is what it was before the
submission plus the `Net` of the legs so far, and that the legs' `Total` is zero; the fee
(`ChargedIs`), a move (`MoveIs`) and a transfer list (`TransferIs`) each keep it, and `MoreLegs` puts
two lists of legs together. `Settled` is the same of a whole submission: from it
`SettledKeeps` has supply, records and types. `Covered` says that only the payer and those whose
keys were asked for lose tinybar; each body is `Authorized`, and `AuthorizedIsSigned` gives
`PaymentsAreFair`. `DeletedAreEmpty`, `Chained` (topics are hash chains) and
`MessagesHaveRecords` are inductive together with `Shape` and `IdsFresh` (no entity has an id from
`next_id` on).

What addresses lead to (`Named`: each address to its account, aliases plain, genesis' own
unchanged) is inductive only as long as aliases are plain: `Kin` says that a step keeps the
accounts there are and their aliases, so a state with plain aliases comes from one, and
`EntitiesHold` is proved of `IInv /\ (PlainAliases => Named)`. No theorem has a hypothesis about the
addresses that clients name.

**EvmLedger** (`EvmAssumption`: prices, values and cheats are natural numbers, the system contracts
are finitely many, genesis gives the fee collector no alias). Its proofs are in the module of
HapiLedger's, because a HAPI submission is one of its steps and the lemmas about it are reused.
Three invariants are kept by each of the eight actions, the later ones with the help of the
earlier:

- `EInv`: types of both stores, and contract ids apart from those of accounts and topics
  (`ContractsFresh`). `Recorded` and the account of every balance by the records do not carry over
  (EVM transactions move tinybar without a record). It gives
  `EvmTypes` and `EvmIds`; with `Steady` (a step keeps what is opened and crossed, and
  says so when it crosses) it gives `EvmEntitiesHold`;
- `Apart`: what an address names. `Named` as above, and no address is an account's and a
  contract's. It holds as long as `Uncrossed` does;
- `Supplied`: accounts and contracts together hold the supply and what the cheats made, and the
  rest of the database holds nothing (`Idle`). The proof counts by address: `Held` is what the
  stores hold for an address, read from the account where there is one and from the database
  otherwise. `ExecutionHeld` says that an execution changes what is held for an address by exactly
  what revm's legs there say, hollow accounts and new contracts included, and `DeltaSum` that those
  legs with the credited base fee add up to zero. It gives `EvmSupplyHolds`.

The invariant of the last two is `AInv`: `EInv`, `OnlyHapiOpensOnContracts`, and
`Unmixed`, that `Uncrossed` implies `Named` and `Supplied`. `UncrossedAgo` makes it inductive:
nothing is ever uncrossed again, so a step to an uncrossed state starts from one (`EvmNextAInv`).
`EvmSenderActs` follows: `ExecutionTakes` has who may lose tinybar in an
execution, `ExecutionCounts` what it does to nonces, and the other steps leave both or have no sender.
The condition `Uncrossed` is on the state, not on the constants: the theorems are about every address a client can name,
and `EvmLedgerLongZero` shows that the supply is not kept without it.

**ChainSnapshots** (`SnapshotAssumption`). One predicate, `History`, is used twice: `Live` says
it of the node and `Saved` of the file, so that `Boot` needs nothing but `Saved`. A history
is a chain and its snapshots, each `Sound` (types, no duplicate record, every block a
cursor has passed was returned), with each snapshot a past of the chain and of every later
snapshot (`Pasts`); the prefix relation is why a revert leaves a filter's cursor founded.
`Indexed` is said of the node only: the file has no index, and `Boot` rebuilds it.

**AttemptLedger** (`AttemptAssumption`). `Whole` says of a chain that its lists agree with the
answers given: rows are answers, answers have rows, one row each, shared by hash,
refusals capped. It is kept of the chain, of every snapshot, of the beginning of the
attempt and of the dump (`AllWhole`), because a revert or a continue can make any of them
the chain. `Attempted` says that the chain and the snapshots taken since the attempt began
go on from where it began (`Follows`), unless a client went back further. That the undo
finds the right chain needs `attempt.snapshot < next_snapshot`: otherwise a later snapshot
could take the attempt's id.

**RunSession** (`SessionConstants`). A run can stop between any two writes, so the invariant
says what `session.json`, branches and working tree may say of each other at each place.
`Recorded` allows a history one attempt beyond `last_attempt` (committed, not yet recorded)
and no more; `Counted` has the number of the attempt in progress beyond what the branch has;
together they keep attempt numbers rising over crashes. `InOrder` has the increments before
the present one delivered, `Reported` what a saved report stands for.

**Processes** (`LimitsArePositive`, `PlansAreJobs`, and that the files are finitely many).
`Listed` ties child processes to `LIVE_GROUPS`: a group is listed from before its child can
run until the child was waited on. `Dropped` follows Ctrl-C, `ServerGoes` the dev server.
`Watching` says that what differs between the first walk and the last complete one is in the log;
it has a case for "nothing was written yet" because a walk half done is not compared. Of the last
walk the same is said file by file, but for the files in `late`.

**RemoteSigner** (`FundsAreNatural`). Reports are made of receipts, and a receipt is about a
transaction submitted earlier: `InFlight` has transactions numbered apart, `Awaited` that the
one polled for is the one submitted, `Receipts` what SUCCESS means for each kind,
`Undisturbed` that until this run sweeps only deletions of an earlier one (`doomed`) can take the
account away. `Invariant` also has `Conserved`: the accounts' balances and the operator's never
exceed what the operator began with.

**AttemptStages, Validate** (`SetupsAreTyped`, `RepliesAreTyped`, `MaxTxsIsNat`: an optional key of
a recipe is absent or has one value, flags are Booleans, times integers; the recipes, workspaces,
browsers and replies themselves are any). The theorems are about all three commands at once
(`CommandSpec`). Three invariants, each kept with the help of the one before:

- `Started`: the command works on what it was started with, so what `SetupsAreTyped` says of
  `Setups` holds of `raw` and `own`;
- `Tidy`: which stages a command has and what the outcome is meanwhile (`Course`), where a server
  may be up (`ServerStops`), that an error on its way out is at the server's stop or at the end
  (`FaultLeaves`), that the MCP file is the user's or, while the validator works, the user's with the entry
  of the harness (`FileIsLent`), and where a key file can be (`KeyIsSwept`). Only `FileIsLent` makes
  `NothingLeftBehind` inductive: what the clean-up takes out is not what the user had, unless the
  file is known to be one of those two (`Stripped`);
- `Fair`: `Graded` says for every stage which gates were judged clean before it, in this attempt, and
  that `val` carries no finding of a gate (`Clean`). `InChain` has the sets of assertions before `phase`
  done, each with its time once, and the sets after it untouched: that is what makes
  `advanced = AskedSeconds` follow at the end. `Honest` is what the judge sees: clean findings mean
  all gates ran, and an attempt that failed has a finding to show for it, without which a repair could be
  given nothing. `Graded` is stated of the recipe as loaded; `LoadedChain`, `TestnetIsDeploy`
  and the lemmas beside them say what the loader makes of a recipe as written, and `Earned` puts the two together.
  `EvaluationIsGrounded`, `AssertFinds`, `AssertionsFind` and `GateFinds` have what each gate's decision
  can find.

`AttemptStagesTypes` rests on a fourth, `Types`, whose difficult part is `Submitted`: a repair takes the
chain back to the snapshot, which has the mark's length, so the mark stays within the chain.

### Sums and induction

`LedgerProofs` and `RemoteSignerProofs` begin with what they need about numbers and finite sets: induction, over
numbers (`Induction`) and over the subsets of a finite set (`SubsetInduction`), stated with a
set where the library's theorems have an operator, and sums. The ledger's sums are proved from the
definition of the community modules: `SumsExist` shows that a function that obeys the equation
behind `SumFunctionOnSet` exists, `SumsIs` that the sum is its value, and from these follow
`SumAdd` (one element more), `SumChange` (one summand changes), `SumOfGroups` (summing account by
account) and the rest. What `transfer` and the replay of the records compute is thus proved and
not assumed. RemoteSigner's proofs add balances up account by account (`IsTotal`); `TotalMoves` is what a
step needs of that.

Leaves that take the provers more than a moment carry a limit of their own (`SMTT`, `ZenonT`), so
that a slower or busier machine proves them too.

### Only model-checked

- liveness under fairness: `StageEnds`, `RunEnds`, `SubmissionEnds`; weak fairness is about
  ENABLED, which this prover does not handle;
- Mirror: `TypeOK`, `ListedOnce`, `PagesMissNothing`. Its lists are made by `SelectSeq` and
  `SortSeq`; what these compute for every list is an induction over the list, and is left to TLC.

## 6. Plan

The model is as wide as planned but for two pieces; what remains is mostly proof:

1. proofs of Mirror (`ListedOnce`, then `PagesMissNothing`), from lemmas about `SelectSeq` and `SortSeq`;
2. GasEstimate: the bisection of `estimate_gas`, that it ends and returns a passing limit;
3. node shutdown: listeners, connection tasks, interval miner and the dump, composed
   with ChainSnapshots' file.

## 7. Observations

Disagreements between the code and what its comments, docs or tests say, or behaviour
a maintainer may want to know of, met while modelling.

### Kept as configurations

Each of these configurations reproduces one observation: TLC finds the property violated.
They are not in the list of runs.

| configuration (module) | property | what happens |
|---|---|---|
| `ChainTimeEnd` (MCChainTime) | `StampsAlwaysIdentify` | after a pin at the end of u64 the stamps start again at 0.0: `next_nano` wraps (`state/time.rs:32`); a debug build panics |
| `HapiLedgerLongZero` (MCHapiLedger) | `AddressesResolve` | an account made at the long-zero address of a later id loses its address to that entity (`state/mod.rs:309`) |
| `EvmLedgerContract` (MCEvmLedger) | `AddressNamesOneEntity` | a HAPI transfer to a contract's address opens an account there, whose balance the next synchronisation writes over the contract's (`state/mod.rs:1286`) |
| `ChainTimePin` (MCChainTime) | `PinReachesABlock` | a refused transaction consumes the pin of `evm_setNextBlockTimestamp` (`state/mod.rs:604`) |
| `ChainSnapshotsFilterId` (MCChainSnapshots) | `DroppedFiltersStayGone` | the id of a filter dropped by a revert is given to the next one (`state/mod.rs:1404`) |
| `AttemptLedgerCount` (MCAttemptLedger) | `EthereumCountedOnce` | an ethereumTransaction over HAPI counts twice (`chain.rs:599`) |
| `RunSessionBaseline` (MCRunSession) | `BaselineBeforeAgent` | a second `hanvil run` continues after a failed baseline (`session.rs:410`) |
| `RunSessionChain` (MCRunSession) | `ChainNotAheadOfWorkspace` | a stop between dump and checkpoint leaves the chain ahead of the workspace (`attempt.rs:370`) |
| `AttemptStagesLedger` (MCAttemptStages) | `RepairLedgerIsComplete` | the repair's "every transaction your last attempt sent" is read before the browser stages drive the app (`attempt.rs:1018-1040`, `prompt.rs:663`) |
| `AttemptStagesKey` (MCAttemptStages) | `KeyFileGoes` | `validate-semantic` returns with `?` when the gate configuration or the dev server fails, and leaves the signer's key file (`run.rs:378-384`; `docs/research.md:657`) |
| `ProcessesLimit` (MCProcesses) | `LimitIsKept` | a command's limit does not cover the pipe readers, which wait for a descendant (`command.rs:219-231`) |
| `RemoteSignerSilent` (RemoteSigner) | `PollGivesUp` | a network that never answers the query for a receipt holds up the run beyond `RECEIPT_DEADLINE` (`remote.rs:281-319`) |

### Chain

- a refused ethereumTransaction allocates two consensus timestamps where a comment in
  `apply_body` says nothing was allocated before the record's own;
- the chain that `--continue` reloads keeps the refusal cap of its dump instead of
  `--max-rejections`;
- a filter polled before the chain has reached its fromBlock returns earlier blocks
  later (`filter_changes` sets the cursor to head plus one, `state/mod.rs:552`).

### Session and attempts

- the signer is swept, and its key file removed, after the last dump, so a continue
  reloads a chain on which that signer is still funded, without its key: `provision`
  never reuses a signer after a run that ended in order;
- when the `chain_signer_swept` event cannot be logged, the run returns before the
  clean-up and the key file stays (`KeyFileGoes` of RunSession excepts this case);
- when the agent leaves another branch checked out, checkpoints are committed there;
  the run reports `BranchChanged` only at its end;
- the comment at `run.rs:456` says neither validation runs the recipe's deploy commands;
  `validate` does, in its chain stage, as `docs/reference.md:126` says;
- Ctrl-C during either validation is not handled: key file, MCP entry and dev server stay;
- a model is kept although nothing was fixed when findings of a gate that was not reached
  again count as fixed (`agent.rs:808`); a generator's bad exit always does;
- on an error or Ctrl-C during evaluation the user's own `playwright` entry, or an MCP file
  that is not JSON, is not restored (`mcp.rs:253`);
- `check_rejections` never matches a payer given as an EVM address, and
  `check_transactions` counts every payer when the one named cannot be resolved;
- a recipe with a validator and a checklist but no `validators.playwright` is never evaluated;
- a dev server that does not start is an error of the run, not a finding;
- the install step is skipped when a manifest goes from A to B, fails, and goes back to A;
- `maxAttempts` of zero or below makes no attempt;
- a validator's finding that mentions INSUFFICIENT_PAYER_BALANCE counts as infrastructure;
- the smoke test passes over forbidden text and console errors it cannot read.

### Processes

- the agent's group leaves `LIVE_GROUPS` before its pipes are read to the end, so Ctrl-C
  in between does not reach a descendant (`NothingOutlivesTheRun` excepts this case);
- a group whose direct child heeds SIGTERM is never sent SIGKILL, so a descendant that
  ignores SIGTERM, or was forked after it, stays;
- a server left over that way may answer the next readiness poll;
- `git` is run without a limit (`git.rs`), so a hook or a lock can hold up a checkpoint;
- when the MCP handshake fails only the direct child is killed.

### Remote networks

- `cleanup_runtime` deletes the key file also after a failed sweep, a failed provision or an
  interrupt, and the funds stay on an account without a key;
- `remote::sweep` is called whatever `sweepBack` says (`chain.rs:333`);
- a create or transfer given up at its deadline may still be applied;
- a sweep of a run that died may delete the signer a later run has reused (`doomed`).

### Mirror

- the range of a block has `from` equal to `to` though `shapes.rs` calls `to` exclusive;
- a contract creation with value lists transfers that do not sum to zero (excepted in
  `ListedOnce`), and the contract is not listed under `account.id`;
- `accounts/{id}` attaches EVM transactions only;
- a contract result asked for by the HAPI id of an ethereumTransaction answers 404;
- contract results, logs and topic messages take no timestamp clause, so entries more than
  100 from either end are out of the lists' reach;
- after `evm_revert` stamps go back, and a cursor from before misses new records;
- a signed transaction replayed after `anvil_setNonce` has the hash of the first, and the
  list shows the later one twice.

## 8. Not modelled, and why

JSON-RPC and HAPI reads, the mirror's reads of balances, contracts, blocks and network,
rendering and wire types are pure functions of one state of the chain, without a
protocol. Protobuf and RLP decoding, signature checking and hashing are external or
abstracted to what they decide. The wording of prompts and reports, skills, `init` and
`doctor` produce text; `toll` starts an external program with the process groups of
`Processes`. Gas amounts are one unit: what a transaction burns is a constant, and the
bisection of `estimate_gas` is in the plan. Storage and logs of contracts are not needed
by any property here. The connection tasks that outlive the node's listeners are inside
axum and tonic.
