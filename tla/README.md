# Backenly in TLA+

Backenly hosts PostgreSQL backends that people and AI agents change. This
project models the parts of the platform where a wrong order of steps loses
something: a customer's schema change, a job, a dollar of AI budget.

The modules are written from the code under `src/`, one action per operation,
one variable per piece of durable or shared state. TLC checks them on small
instances; TLAPS proves the safety theorems for every instance.

## 1. The system

| Part | State it keeps | Operations | What is hard | What makes it correct |
|---|---|---|---|---|
| **Change ledger** (`lib/changes`) | `backend_changes` rows (status, checkpoint, result, footprint, claim, lease), the project's advisory lock, the catalog itself | open and close a change, recover automatically, restore, reapply, keep, reconcile | three kinds of caller on one row; the lock covers the catalog but not the status; processes die between a commit and its record | a record holds its change's effects and no other's; a restore undoes exactly them; a status says what the catalog says; nothing stays in progress |
| **Approvals** (`lib/mcp/approvals.ts`) | `agent_approval_requests` | raise, approve, decline, clear | a request outlives what it asks for; agents raise theirs without the lock | a restored change has no request of Backenly's own left |
| **AI spend** (`lib/ai/llm`) | `ai_spend_periods`, `ai_spend_holds` | reserve, send, settle, expire | concurrent calls at the limit; a settlement after its expiry; lost answers | spending stays under both limits; every reservation settles once; what is billed is booked |
| **AI credit holds** (`lib/entitlements/credit-holds.ts`) | `ai_credit_holds`, the charged total | reserve, settle, close a turn | charge and close are two writes; holds expire; a chat's charge is not what its scope counted | what is charged for was counted until then, as a hold; an account goes over by one such call at most |
| **Job queue** (`lib/queue`) | `background_jobs`, in three lanes: generic, purges, regional | enqueue, claim, complete, fail, take back what was left running | a claim is three statements and a failure two; passes overlap, die and answer late | a job ends only for cause; every job ends; one attempt stays one |
| **Auth projection** (`lib/auth-projection`) | rows of two databases, epoch and round | capture, deliver, resync, check against home, confirm, answer | two commits and no two-phase commit; ids in another order than commits; either database restored | the copy answers nothing that home had replaced before its watermark, and comes to agree with home |
| **Autonomous maintenance** (`lib/autonomy/maintenance`) | runs, single-flight locks | assess, execute, roll back | applies through the ledger; lock keys | one repair per project |
| **Scheduler leadership** (`lib/scheduler/leader.ts`) | an advisory lock per region | take, lose | a lost session is noticed late | one leader's tick at a time |
| **Webhooks** (`lib/webhooks`) | deliveries | send, retry, sweep | sweeps overlap | a delivery ends |
| Structural evolution, evolution engine, branches, projects' pause/delete/purge, backups, realtime, usage, auth, rate limits, data plane, UI, SDKs, CLI | see `PROJECT.json` | | | |

How they meet. Every governed schema change (an agent's tool call, a console
edit, a repair, a branch merge) runs in `withGovernedChange`, under the project's
change lock, and leaves a ledger row. A change that fails its checks is recovered
inside that lock or raises an approval request. The region's scheduler runs the
upkeep sweep that reconciles rows a dead process left. Calls to models go through
the spend ledger and, when a customer pays, the credit holds. Deletions, emails
and webhooks go through the job queue.

`PROJECT.json` lists every hazard of this code that a test would hardly reach, at
its line, with the properties that cover it or the reason none does.

## 2. What is modelled

### `ChangeLifecycle` - statuses (`lifecycle.ts`, `types.ts`)

The statuses of a change, the table `TRANSITIONS` and the statuses each kind of
restore may start from.

### `ChangeLedger` - rows, lock, catalog and callers

| Variable | Code |
|---|---|
| `row` | the table `backend_changes`, by id; ids grow in the order of `seq` |
| `live` | the catalog of the project's schema: for each table, the governed changes its definition carries, and what owners changed in it by their own SQL (`Outside`) |
| `asked` | changes with a pending `revert_schema_change` request that Backenly raised itself (`escalate`); agents' requests are left out, see below |
| `lock` | holder of `withChangeLock` |
| `pc`, `job` | where each call is and what it works on |
| `faults` | bound on deaths and throws after a commit |

The evidence is the whole point, so it is kept as the code keeps it: `checkpoint`
and `resultState` are the two readings of the catalog, `footprint` the tables that
differ between them, `sealed` the checkpoint's hash. A restore puts back the
checkpoint of the footprint and refuses when a table no longer looks as the
change left it. Whether it undid only its own change is therefore a question the
model has to answer, not one it assumes.

| Actions | Code |
|---|---|
| `OpenChange`, `RunStatement`, `Applied`, `ApplyFailed`, `DiscardChange`, `Verified` | `withGovernedChange` (`ledger.ts`) |
| `RecoverAutomatically`, `PauseRecovery`, `Escalate`, `RequestApproval`, `StopAndEscalate` | `recoverAutomatically`, `escalate`, `stopAndEscalate` |
| `StartRestore`, `ApproveRestore` | the first half of `recoverChange`, up to `availabilityOf`; `decideApproval` for an approved request |
| `Claim`, `ClaimLost` | `claimRecovery`, which reads the status again and claims by it |
| `RecordStarted`, `OpenRecord`, `LockRefused`, `RefuseRestore`, `RestoreFailed`, `CommitRestore`, `FailedAfterCommit`, `GiveBack`, `SettleRestore` | the rest of `recoverChange` |
| `FollowRestore`, `AnswerRequest` | `afterRecovery`: the pending requests are read, then answered |
| `KeepChange`, `FollowKeep` | `keepChange` from the console: the status, then the requests, read and answered as above |
| `DeclineRequest`, `KeepDeclined` | `decideApproval` for a declined request: the request, then `keepChange` |
| `ChangeOutside` | an owner's own SQL, between governed changes |
| `ReadLate`, `ReconcileBusy`, `ReconcileRestore`, `ReconcileOpen` | `reconcileChange`: the row is read before the lock, settled under it |
| `TimeIsUp`, `Crash` | the lease of fifteen minutes; a process that dies, whose lock goes with its session |

Steps are cut where another process can get between two writes, or between a reading
and what is done by it. Availability, with the row and its target, is read in one
step; the claim is another, and asks of the row its status alone, as it is by then.
The claim and the event `recovery_started` are two steps, as are the restore's commit,
its record's evidence, its verification, the release of its claim, what follows it, and
the answering of the requests that were found.

Two constants say what the environment may do. `SlowOwners`: may fifteen minutes
pass under a process that is alive (`RECOVERY_LEASE_MS`), so that its lease lapses
while it works? `StaleReaders`: may a claim change hands while a reconciler that
read it as lapsed waits, two seconds at most, for the lock? The proofs say which of
the two each theorem needs ruled out; the findings show what the second one costs.

### `ChangeLedgerInvariant`

What is true between any two steps, as the proofs use it, each part named:
`LedgerInv` (one holder of the lock, records exact), `EvidenceInv` (what a row lets
its reader conclude), `WholeInv` (a closed change is in the catalog whole or not at all),
`ClaimInv` (one owner of a claim, and what a call that has read a row and not claimed it
may rely on; true where `Prompt` holds, that is, with neither slow owners nor stale
readers) and `TruthInv` (what History says is what the
catalog says; true before any fault and without slow owners).

### `ChangeHistory` - what restores promise of the schema

The abstract specification `ChangeLedger` implements: a change is made table by table
until it closes, and from then on is undone or reapplied as a whole, alone, on the
tables it touched and only where the schema shows it so. `made` stands for the
footprint of a sealed change, `on` for the tables of `live` that carry it. Rows, claims,
statuses, the lock and faults are all hidden by it: every step that
moves only those is a stutter, and a restore is the one step `CommitRestore`.

### `JobQueue` - three lanes over one table (`lib/queue`)

| Variable | Code |
|---|---|
| `job` | the table `background_jobs`; `late` is `timeoutAt` in the past, `due` is `runAt` in the past |
| `pass` | what each pass of a scheduler does (`runPlatformSystemTasks`, `runRegionalSystemTasks`), to which lane, and the ids it selected |
| `call` | what each pass does with each job, and the attempts it has read |
| `ran`, `failures` | history: whose handler returned, and failed attempts |
| `faults` | bound on dead passes and lost writes |

| Actions | Code |
|---|---|
| `enqueue` | `enqueue`, `enqueueRegionalJob`, the purge `delete.ts` writes |
| `Sweep`, `SweepPurges`, `CountStale`, `SweepDone` | `detectAndTimeoutStuckJobs`; the first statements of `claimPurgeJobs` and `claimRegionalJobs` |
| `Select`, `Take`, `Load` | the three statements of `claimNextJobs`, `claimPurgeJobs`, `claimRegionalJobs` |
| `Start`, `HandlerReturns`, `HandlerThrows` | `processBackgroundJobs` and `processPurgeJobs` (side by side), `processRegionalJobs` (one by one) |
| `completeJob`, `CompletionLost` | `completeJob`, `completePurgeJob`, `completeRegionalJob`, and the throw of one, whether its write was made or not |
| `ReadAttempts`, `failJob` | the reading and the write of `failJob`, `failPurgeJob`, `failRegionalJob`, from a handler's catch or the sweep |
| `TimeOut`, `BackoffEnds`, `Crash` | `timeoutAt`, `RETRY_DELAYS_MS`, a process that dies |

The lanes differ where the code does: who takes a stuck job back, in how many
statements, whether the attempt counts, and whether the row is looked at again
before it is written. Their words for a status are one word.

### `AiSpend`, `CreditHolds`, `ModelCalls` - every model call, paid for (`lib/ai/llm`, `lib/entitlements/credit-holds.ts`)

`AiSpend` holds the transactions of the spend ledger and `CreditHolds`, which
extends it, those of the credit holds; `ModelCalls` extends both and says who runs
them and in which order.

| Variable | Code |
|---|---|
| `period`, `spendHold` (`AiSpend`) | `ai_spend_periods`, `ai_spend_holds` |
| `creditHold`, `charged` (`CreditHolds`) | `ai_credit_holds`, `account_ai_usage.tokenCount` |
| `call` | where each `callModel` is, who pays, in whose meter scope, and what became of its request |
| `turn` | each turn's `TokenScope`: the calls it has counted (`metered`); of a chat, those its brain has tallied (`tallied`) and the price of the plan it built (`plan`); and how far `closeCreditTurn` is |
| `month`, `faults` | `thisMonth()`; bound on deaths and failed writes |

| Actions | Code |
|---|---|
| `ReserveSpend`, `ReserveRefused`, `ReserveFails` | `postgresSpendLedger.reserve`: granted, `spend_limit`, `spend_unavailable` |
| `HoldCredits`, `CreditsExhausted`, `HoldFails`, `HoldSkipped`, `GiveBack` | `creditHoldHook.reserve`, and the reservation given back when it throws |
| `Answered`, `NotRun`, `AnswerLost` | the three outcomes of a request (`ran`, `none`, `unknown`); `recordRun`, which counts it in the scope, is part of the first |
| `SettleSpend`, `SettleCredits` and their `...Fails` | `settleSpend`: the ledger, then the customer's hold; `Tallied`, when the answer then reaches the loop of a chat's brain (`spend`, `agent.ts:1640`) |
| `CloseTurn`, `ChargeTurn`, `ChargeFails`, `CloseHolds`, `CloseHoldsFails` | `closeCreditTurn`, cut at each await |
| `Expire`, `CreditHoldLapses`, `NewMonth`, `CallDies`, `TurnDies` | `expire`; `expiresAt`; the clock; a process that dies with its calls |

What a turn is charged for (`Billed`, `ChargeOf`) depends on what kind of turn it is. A
tool call's turn is charged for what its scope counted. A chat (`Chats`) is charged what
its brain reports (`chat-turn.ts:111-120`): each step of its loop, as it returns, and
nothing of the classifier, the architect or the calls that tools make, though all of
them are metered and hold credits. A chat that answers without a loop is charged nothing
(`agent.ts:878`, `1523`) and one that builds a plan is charged a price for it
(`PlanPrice`: the design's tokens and a table of prices per step, `agent.ts:373-414` and
`1189`), whatever its calls used. In all three cases the turn's holds are closed.

`ModelCallsInvariant` holds the inductive invariant `MoneyInv` and its parts:
`SpendInv` (limits), `BookInv` (each call and its reservation agree), `CreditInv`
(each call, its hold, and the scope, the tally and the plan of its turn), `HoldInv`
(what an account was charged and what a month's calls hold).

### `AuthProjection` - a region's copy of what authorizes its requests (`lib/auth-projection`)

| Variable | Code |
|---|---|
| `row`, `open` | `projects`, `api_keys`, `workspace_branches` at home, as committed; and a transaction that has changed a row and not committed |
| `pending`, `nextId`, `home` | `auth_projection_changes` not delivered, their sequence, `auth_projection_regions` |
| `copy`, `region` | the region's copied rows with their `version`; `auth_projection_state` |
| `delivery`, `orphan` | the delivery that holds the region's lock, with the snapshot it reads from; one whose home transaction is gone |
| `check` | `reconcileRegionCopy` between its reads |
| `backup`, `epochs` | a backup of either database; epochs drawn |
| `floor`, `overtaken`, `lost` | history: the oldest contents the copy may still answer; rows queued while a transaction had them open; rows whose record was removed |

| Actions | Code |
|---|---|
| `Write`, `Commit` | a change and its trigger: the id is taken with the statement, seen with the commit |
| `Begin`, `Apply`, `CommitDelivery`, `CopyMoved`, `DeliveryFails` | `deliveryRound`: lock and snapshot, the region's transaction, then home's |
| `Resync`, `CommitResync` | `resync`: the region emptied under a new epoch, then every row recorded at home |
| `HomeLost`, `OrphanEnds`, `LateLock` | a home transaction that times out, with what it had under way in the region; a lock taken with a snapshot from before the last commit |
| `ReadCopy`, `ReadHome`, `QueueStale` | `reconcileRegionCopy`: three reads, each as things are by then |
| `Confirm` | `confirmPropagation` when it answers `confirmed` |
| `RecordLost`, `TakeBackup`, `RestoreHome`, `RestoreRegion` | what the check and the epochs are there for |

`AuthProjectionInvariant` holds the inductive invariant `AuthInv`: of home, of the copy
in step with it, of the delivery under way, of an orphan, of what is answered under a
watermark, and of backups.

### `BoundedCopy` - what the copy promises

The abstract specification `AuthProjection` implements: home changes, the copy
answers contents home has held since a floor that only rises (a watermark, a
confirmation), or nothing. `row` stands for `home`, `floor` for itself, and
`Answer` (what `read.ts` returns) for `answer`. Rows whose record was removed, and
rows the fence overtakes (see the findings), answer nothing in this mapping: the
promise is not kept for those.

### Simplifications

Of model calls:

- Money and tokens are counted in one unit, and a call uses at least one of it and
  at most what was reserved for it (`maxCostOf` is taken for an upper bound).
- One account, with a cap. Accounts without one hold nothing, as in `HoldSkipped`.
- Attempts refused before inference change nothing and are one step (`NotRun`).
- A reservation's expiry lies past the last attempt of its call (`timeoutMs *
  MAX_ATTEMPTS + SETTLE_GRACE_MS`), so it can come before a settlement, not before
  an answer. Provider timeouts are taken to hold.
- A turn's calls begin before it closes, and any of them may outlive it. A turn starts
  with its scope open, and one that makes no call is left out.
- The price of a plan includes its design, which an earlier turn's call made; that call
  is one its own chat does not tally. The price of a single tool sent without the loop
  (`agent.ts:1523-1525`) is not modelled: nothing sends one today, as its comment says.
- `reserveSpend` takes the month of its reservation just before its transaction
  (`spend.ts:132`), and the two are one step. The month credits are held in is read
  apart, and may be over when the account's lock is had (`MonthRead`).

Of the auth projection:

- One region; regions share nothing. Projects and their keys exist from the start
  and keep their region; a branch is copied like a key, and a key that stops being
  copied is like one that is deleted.
- A delivered change is dropped, as pruning does later.
- Contents are numbers in the order home holds them; `marked` is a watermark young
  enough to be trusted. Young watermarks do not age: a delivery every few seconds
  renews them, and a restore takes longer than the bound.
- The region's state is read with the snapshot: what an orphan changes between the
  two the region's own transaction checks again.
- A confirmation is one step, in a state where nothing recorded for the row is left.
- The check takes one row at a time, and its last read and its queueing are one step.
- Backups are taken and restored while nothing is under way.
- Not modelled: rate windows, the modes off and shadow, a copy wired to the wrong
  region, `TRUNCATE`, and the cache of `serving-state.ts`.

Of the queue:

- A pass takes every due job: the limits of a claim (ten, five, two) are above the
  number of jobs. A paused project's jobs are jobs that are not due yet.
- A timeout of ten or thirty minutes does not fall between the three statements of
  one claim.
- What a handler does is not modelled, only that it returns or throws, late or not. A
  purge that names no project and a job of an unknown type are completed without one
  (`worker.ts:214-224`, `463-465`): a handler that returns at once stands for that.
- Finished rows are never pruned and no row disappears under a worker.

Of the ledger:

- A statement of a change touches a table of the project and adds the change to
  its definition. Views, policies and other objects are tables here.
- A restore's claim token is its worker; a worker runs one restore at a time.
- A reconciliation `recoverChange` starts with is some worker's reconciliation
  step just before it.
- A verification's outcome is free for a change. For a restore it must agree with
  the comparison of the catalog (`healthy` only if it is back), and may still be
  short of confirmed, when a resource differs or cannot be read.
- `failed` for a restore that rolled back stands for both ways its record closes
  without effect. Neither can be restored.
- Owners' own SQL (`CHANGE_RECOVERY.md:162`, "a change made outside Backenly") adds
  something to a table, or takes back what it added, while no governed change is open.
  It takes no lock, so in the code it may also fall between the two readings of the
  catalog, where it is recorded as part of the open change and undone with it:
  `RecordsAreExact` would not hold (a hazard in `PROJECT.json`). Nor is it modelled that
  an owner undoes by hand what a governed change did, after which no status can be true.
- Requests agents make to restore a change (`createApprovalRequest` after
  `describeRestoreRequest`) are not in `asked`. No step waits for one: approving it is a
  `StartRestore`, declining it moves no change. They are raised after a preview and
  without the lock, so one may be left pending on a change that was restored meanwhile;
  `RestoredIsAnswered` is therefore said of Backenly's own requests alone (a hazard).
- A restore's COMMIT is known to its caller. If the connection is lost while it is under
  way (`recovery.ts:461`), the code takes the restore for rolled back (950-959), which it
  may not be (a hazard).
- Not modelled: snapshot restores, ranges, previews, resources outside the schema,
  changes grouped under an architecture change, the retention window, vault keys,
  the residency of regional evidence, and a lock connection lost under a
  process that goes on (a hazard in `PROJECT.json`).

## 3. What is checked

Bounds: two workers are the fewest that race, and every hazard listed involves two
calls at a time; in the ledger three rows are a change, a restore of it and either a later
change or a reapply. One fault is enough for every
half-finished state, since a row's repair is done by the next caller without
faults. Symmetry permutes workers and tables in the safety runs only. Deadlock is
not checked in the ledger, for its rows are bounded and people may stop making
changes.

Two tables are needed where a restore could undo half a change or touch what another
did. TLC sees them in `ledger_settles`, with a change and its restore; three rows, for a
reapply, are in `ledger_faults` with one table. `LedgerKeepsHistory` is proved for every
set of tables and any number of rows. Owners' own SQL is in `ledger_races` alone
(`Outside`, one thing that comes and goes); the proofs are for any set of such things.

In the queue two passes are enough for each hazard (a claim against a claim, a sweep
against a late answer), the attempts allowed go from the single one of a restore to
three, which leaves a failure in the middle, and another job of a
pass can only delay one, as the steps of the job itself already may.

Model calls: two calls race for the last unit of a limit (3 and 2, each call at most
2); a tool call's turn, a chat's, or neither, let them share a turn or not; a plan costs
as much as one call may; two months let a call settle, and a turn be charged, in another
than it began in. `MaxFaults` bounds together what seldom happens: deaths, writes that
throw, holds that expire before they are closed and the month's end. Two of them in one
behaviour are, for instance, a hold that expires and the end of the month before its turn
is charged. Symmetry permutes calls, which the run gives equal prices.

Auth projection: a project and a key are the smallest set in which a deletion
takes along a row it does not name. A batch of one makes every delivery of both rows
take two rounds. Two changes can commit against the order of their ids; where
databases are restored, one change does. A delivery that would change nothing but
the round is left out (`AnythingToDo`), which keeps the run finite.

| Run | Instance | Shows |
|---|---|---|
| `ledger_races` | 2 workers, 1 table, 3 rows, an owner's own SQL, no fault | `TypeOK`, `TruthInv`, `StatusTellsTheTruth`, `RestoredIsAnswered`, `RestoredCanBeReapplied`, `RecordsAreExact`, `LifecycleEdges`, `RestoreUndoesOnlyItsOwn` |
| `ledger_faults` | 2 workers, 1 table, 3 rows, 1 fault, no stale readers | `LedgerInv`, `EvidenceInv`, `ClaimInv`, `WholeInv`, `RecordsAreExact`, `RecoveredIsGone`, `HistoryExplains`, `OwedHasExit`, `RestoreUndoesOnlyItsOwn`, `KeepsHistory` |
| `ledger_settles` | 2 workers, 2 tables, 2 rows, 1 fault, fair | `InterruptedSettles`, `KeepsHistory` |
| `queue_jobs` | 2 passes, 1 job, 1 to 3 attempts, 1 fault, slow handlers, fair | `TypeOK`, `EndsForCause`, `OneAttemptIsOne`, `EveryJobEnds` |
| `model_calls` | 2 calls, 2 turns (one of them a chat), 2 months, 2 faults | `TypeOK`, `LedgerWithinLimits`, `BooksBalance`, `BilledIsBooked`, `UseIsCounted`, `OverByOneCall`, `ChargedForAnswers`, `MoneyInv` |
| `auth_copy` | 1 project, 1 key, 2 changes, 1 fault | `TypeOK`, `AuthInv`, `RemovedIsGone`, `AgreementIsCurrent`, `KeepsItsPromise` |
| `auth_recovers` | 1 project, 1 key, 1 change, 1 fault or restore, fair | `AuthInv`, `KeepsItsPromise`, `Converges` |

No run of the ledger has slow owners, and all but `ledger_faults` have stale readers.
A stale reader costs `RecoveredIsGone` and `HistoryExplains`, in behaviours of five rows:
`ledger_stale_reconciler` shows in three what such a reader does, and `ledger_faults`
rules stale readers out to ask what holds otherwise.

`ledger_races` asks of records and of restores what `ledger_faults` asks of them too,
because only there a table may carry, and a restore meet, what an owner did.

`StatusTellsTheTruth` and the two properties with it are claimed of the time before
any fault: a death between a restore's settlement and the step after it leaves a
status behind that nothing repairs. `HistoryExplains` is what remains true then: a
change that says `restored` and is back in the catalog has on record a reapply, one
that did not fail, of the very restore its row names.

`KeepsHistory` is the refinement of `ChangeHistory`, and `KeepsItsPromise` that of
`BoundedCopy`. Faults, stale readers and slow owners cost the first one nothing: what they
spoil is what a status says of the schema, never the schema. `AgreementIsCurrent` is why
epoch and round are enough to tell a copy in step: while they agree, whatever the
copy lacks is still recorded at home.

Fairness of the ledger (`FairSpec`). A call that has begun goes on unless its process dies
(weak fairness of `Continue`); clocks advance (`TimeIsUp`); each region's
scheduler runs `settleInterruptedChangesHere` again and again (`upkeep.ts:61-69`),
so a late row is read and, as the lock is free now and then, settled (strong
fairness of `ReadLate` and `Reconcile`, because other calls take the lock in
between). Nothing is assumed of people and agents: opening a change, restoring,
approving and keeping are never fair. The work of a change (`RunStatement`) is
not either, but the call that runs it ends.

Fairness of the queue. A pass that began goes on unless its process dies: its
handlers return or throw (weak fairness of `Continue`). Clocks advance. Every
minute the scheduler starts a pass over each lane (strong fairness of each lane's
sweep, since the workers at hand may all be busy in between). A handler need never
succeed, a worker may always be late, and nobody need enqueue.

Fairness of the auth projection. Home delivers to each region every few seconds
and a delivery that began goes on (weak fairness of `Begin` and `Deliver`); what is
under way in the region without its home transaction ends; transactions commit.
The hourly check reads every row of the copy again and again (strong fairness of
`ReadCopy`, since a row may leave the copy and come back between two checks) and
goes on once it has. Nobody need change anything, and faults are bounded.

### Where the documents and the code part

Five runs check a sentence of a document or a comment and find a behaviour of the
code that breaks it. The first three sentences are in `docs/CHANGE_RECOVERY.md`.

| Run | Sentence | Behaviour |
|---|---|---|
| `ledger_stale_reconciler` | "`healthy`, `unverified` and `kept` mean this change is in effect" (line 99) | Two reconcilers read one lapsed claim. The first settles it, a person starts another restore, and the second releases the new claim it finds. The restore goes on without its claim: the change is gone and its row says `healthy`. |
| `ledger_kept_undone` | the same | A restore committed but could not be confirmed; its change needs a person, and keeping it says `kept` of a change that is gone. |
| `ledger_stuck_record` | "until that person restores or keeps the stuck change" (line 233) | A process dies inside a restore. The reconciler marks the restore's own row as needing a person; it can be neither restored nor kept, and holds up automatic recovery for the project. |
| `queue_claims` | "two concurrent workers can never claim the same job" (`lib/queue/index.ts:10-11`) | Two passes select one job. The first takes it; the second's update finds nothing to change, but the query after it returns every running job of its list, so both run the handler. |
| `auth_fence` | "every change committed at home before it is in the copy" (`lib/auth-projection/deliver.ts:18-19`), and "confirmed: the region has applied it" (`confirm.ts:21`) | A change's id is taken by its statement. While its transaction is open, a resync or the hourly check queues the row again at a larger id, and its old contents are delivered. The change, committed and delivered afterwards at its smaller id, is refused by the fence, marked delivered and confirmed. The copy answers with the old contents, under a fresh watermark, until the next hourly check. |

The fence alone does this: deliveries to a region are serialized by the lock and
checked against the round they began from, and in the model without the fence
`WatermarkIsTrue` holds, restores included. Removals pass no fence, which is why
`RemovedIsGone` holds with it.

Two sentences more hold only of part of what they say. "It is never counted zero times"
(`credit-holds.ts:28`) and "an account goes over its credits by at most one call" are
`UseIsCounted` and `OverByOneCall`, which are said of the calls a turn is charged for.
Three kinds of call are not. A chat's calls outside its brain's loop are held, and their
holds are closed with the turn, as charged or as released, without their tokens being
charged to anyone. A call that outlives its turn can settle between the charge and the
closing of the turn's holds; its hold is then closed as charged though its tokens were
not. And a used hold that expires while its turn still runs leaves its call uncounted
until the charge, which `UseIsCounted` does say includes it. The hazards are in
`PROJECT.json`.

## 4. What is proved

Every safety property the passing runs check is a theorem, for every value of the constants, and so
are the refinements of `ChangeHistory` and `BoundedCopy`. Each theorem rests on the named assumptions of its
module's constants alone (there are any numbers of workers, tables, rows, passes,
jobs, calls, turns, months, projects, keys and faults), and on nothing else
unless its table says so.

### The ledger

`ChangeLedgerProofs`, `ChangeLedgerClaimProofs` and `ChangeLedgerTruthProofs`, from
`ConstantsAssumption`:

| Theorem | States | Where |
|---|---|---|
| `TypeCorrect` | `Spec => []TypeOK` | always |
| `LedgerInvariant` | `Spec => []LedgerInv` | always |
| `ExactRecords` | `Spec => []RecordsAreExact` | always |
| `RestoresUndoOnlyTheirOwn` | `Spec => RestoreUndoesOnlyItsOwn` | always |
| `RowsFollowTheLifecycle` | `Spec => LifecycleEdges` | always |
| `EvidenceInvariant` | `Spec => []EvidenceInv` | always |
| `OwedIsAnswerable` | `Spec => []OwedHasExit` | always |
| `WholeInvariant` | `Spec => []WholeInv` | always |
| `LedgerKeepsHistory` | `Spec => KeepsHistory`, the refinement of `ChangeHistory` | always |
| `ClaimInvariant` | `Spec => []ClaimInv` | no slow owners, no stale readers |
| `RecoveredStaysGone` | `Spec => []RecoveredIsGone` | the same |
| `HistoryIsExplained` | `Spec => []HistoryExplains` | the same |
| `TruthInvariant` | `Spec => [](faults = 0 => ClaimInv /\ TruthInv)` | no slow owners |
| `HistoryIsTrue` | `Spec => [](faults = 0 => StatusTellsTheTruth)` | the same |
| `RestoredAnswered` | `Spec => [](faults = 0 => RestoredIsAnswered)` | the same |
| `RestoresCanBeTakenBack` | `Spec => [](faults = 0 => RestoredCanBeReapplied)` | the same |

The conditions are the ones the code relies on (a lease of fifteen minutes for work
of seconds, a wait of two seconds for the lock) and they are needed:
`ledger_stale_reconciler` is what a stale reader does. `faults = 0` is needed for the
last four for the reason given in section 3.

*Records.* `RecordsAreExact` is not inductive: nothing in it says why the two
catalog readings that bracket a change see only that change. `LedgerInv` adds
that whoever has an open row holds the lock (`OneAtATime`), that between the two
readings the catalog differs from the checkpoint by that change at most
(`RecordFits`), and that what a restore works from is sealed, with its own target
sealed too (`Restorable`), so it never changes under the restore. With it, a
restore without a conflict finds the tables as its record left them and puts back
a checkpoint that differs from that by its subject only. The edges follow because
every status moves by a compare-and-set over `TRANSITIONS` or by a claim that goes
back to a status it can have come from (`ReturnTo`).

*Evidence.* A change is on no table outside its footprint, and no checkpoint can put
it there (`NeverOn`): until the change closes, its caller holds the lock, so no other
row was opened that could have read its effects. That is what makes the comparison
of a restore with the checkpoint conclusive, and what a person finds when the
process died: `OwedHasExit`.

*History.* That a restore acts on its own change follows from the records. That it acts
on all of it needs `WholeInv`: a closed change is on every table of its footprint
or on none (`RowWhole`), so a restore that finds its tables as the change left them
takes it out of all of them; and the record of a restore tells, table by table,
that the change was there (`TellsAll`), so reapplying it puts all of it back. Between the
commit and the sealing of the record its caller alone knows this (`CallWhole`). Every
step is then of one of four kinds (`StepKinds`): it moves statuses and claims only,
writes one row that was not sealed, runs a statement of the open change, or commits a
restore; and only the last two and the closing of a change move `ChangeHistory`.

*Claims.* Nothing in `RecoveredIsGone` says who else may be restoring the change.
`ClaimInv` adds that a claim has one owner at a time, that a lapsed one is nobody's,
that a reapply in progress is of a change still restored by the very restore it takes
back (`Reappliable`), and that the record of a reapply that may have committed can
no longer be withdrawn or closed as failed (`Lasting`), which explains a restored
change that is in the catalog. A claim is won by the status alone, so `LoadedFits` says
what may have changed since availability was read: a restore that was the last of its
change is so still, if its status allows a claim, because what would end that (another
restore, or a reapply of it) passes through this restore's own row. Most steps leave
rows and calls as the claims need them (`Steady`); the others take or end one claim
and move one row, apart from every other call's (`Moved`, `Apart`).

*Truth.* `StatusTellsTheTruth` speaks of quiet changes, and a step makes a change
quiet only at the end of a protocol of several steps, so `TruthInv` follows it all along:
whatever is in progress is some living call's (`AttendedFits`); a change is in the
catalog, with all it did, exactly when it is not undone, or is undone and put back by a
reapply (`Undone`, `Absent`, `PresenceFits`); and the restore a restored change names
tells all that change did, so reapplying it brings all of it back (`RestoredFits`).
Most steps are quiet: they move no row in or out of the undone ones. Three are not, and are
where the proof is: the commit, which moves the catalog; the settlement, which moves the
status; the step after it, which puts a reapplied change's status right and answers
the requests. That nobody asks for a decision on a change that was restored meanwhile
rests on the lock once more (`AskingFits`): who is about to ask recovers
automatically, and has held the lock since before any restore could commit. A request
that is still open on a change that was restored is one a call is on its way to answer
(`Followed`, then `Answering`). That the two
reconciling steps never happen, and with them stale readers, is part of the theorem.

### The queue

`JobQueueProofs`, from `JobQueueAssumption` (handlers slow or not):

| Theorem | States |
|---|---|
| `QueueTypes` | `Spec => []TypeOK` |
| `QueueInvariant` | `Spec => []QueueInv` |
| `JobsEndForCause` | `Spec => []EndsForCause` |
| `OneAttempt` | `Spec => OneAttemptIsOne` |

Attempts are read by one statement and written by
another, so the column is not the number of failures: two at once may count as one,
and an old number may be written over a newer one. It is never more than the number
of failures, unless the job has already failed as often as it may (`Tally`), and
neither is what any worker has read. So a number that reaches the maximum is backed
by that many failures, which is `EndsForCause`; and it holds however many passes
run one job.

### Model calls

`ModelCallsProofs` and, for what is a sum, `ModelCallsSumProofs`, from
`SpendAssumption`, `CreditAssumption` and `CallsAssumption`. The set of calls need not
be finite: those that have started are.

| Theorem | States |
|---|---|
| `LimitsHold` | `Spec => []LedgerWithinLimits` |
| `UseCounted` | `Spec => []UseIsCounted` |
| `BooksStayBalanced` | `Spec => []BooksBalance` |
| `BillsAreBooked` | `Spec => []BilledIsBooked` |
| `AnswersAreCharged` | `Spec => []ChargedForAnswers` |
| `OneCallOver` | `Spec => []OverByOneCall` |
| `MoneyTypes` | `Spec => []TypeOK` |
| `MoneyInvariant` | `Spec => []MoneyInv` |

The limits need no sum over reservations: one grant
checks and adds in one update, and a settlement takes off what was reserved and adds
no more, because a call costs no more than its worst case (`SpendInv`). The use of a
call is counted because of how three things stand to each other (`Fits`): a sent
call's hold is reserved and live, a call that a scope counted has run, and then its
hold counts, has expired, or its turn has closed. A turn that closed was charged for
what it is billed for, its scope's calls or its tally (`PaidIsCharged`), and whatever a
chat has tallied its scope had counted (`Scoped`, `TallyFits`). Each action moves one
call, one hold or one turn, and the lemmas say what that leaves of `Fits`.

The other properties are sums over sets of calls, folds in the module
`Functions`. `SumTheorems` proves what they need of them: what one more element, one
changed value or a larger set does to a sum. The induction it takes is over
cardinality, by the least number that would refute the claim, since the library's
induction theorems cannot be used here. Then: the books balance because an outcome
and its reservation agree (`Agree`), so no settlement or expiry counts twice; what is charged
is covered by calls that answered and by the prices of plans, because no turn is charged
twice and no call belongs to two (`ChargedOnce`); and a month goes over by one call at most because all
calls but the last one that took credits fitted below the cap when it took them, and
no step since lets a call claim more than it did (`CapKept`): a hold that is settled
claims less, one that is charged moves to `charged` (`PaidIsCharged`), and only
`HoldCredits` adds a claim, having checked the cap of the month it claims in.

### The auth projection

`AuthProjectionProofs`, from `AuthProjectionAssumption`:

| Theorem | States |
|---|---|
| `AuthTypes` | `Spec => []TypeOK` |
| `AuthInvariant` | `Spec => []AuthInv` |
| `RemovedStayGone` | `Spec => []RemovedIsGone` |
| `AgreementCurrent` | `Spec => []AgreementIsCurrent` |
| `CopyKeepsItsPromise` | `Spec => KeepsItsPromise`, the refinement of `BoundedCopy` |

`AgreementIsCurrent` is not inductive: that what the copy misses is recorded does not
say that the fence will let the record in. While home and region agree on epoch and
round, `AuthInv` says both (`InStep`). A delivery applied in the region and not yet
committed at home leaves the region one round ahead, and in step with what home will
say; if home's commit is lost, the rounds differ, and the next delivery resyncs. What
a dead home transaction left under way in the region (an orphan) can still be applied only while
home is where it began. An emptied copy has an epoch nobody had before. And a backup
of either side is in step with the other side or out of match with it, so a restore
cannot make them agree wrongly. In the refinement a home commit is a change, a home restore a restore,
and every other step is a delivery or a stutter.

### How the proofs are laid out

Each step of an invariance proof is one action and, where it disturbs more than
one conjunct, one sub-step per conjunct; what several actions share is a lemma about
the kind of step they are. The inductive invariants, but for the queue's, are invariants
of the runs as well.

Only model-checked, and why:

- `InterruptedSettles`, `EveryJobEnds`, `Converges`: liveness under fairness is out
  of the prover's reach.
- The five properties that are violated, by their counterexamples.

## 5. Plan

Built: the ledger with approvals, the queue, model calls, and the auth projection.
What would be next, in order of what the platform would lose:

1. Proofs: what of `TruthInv` survives the first fault, for the changes it did not hit.
2. The missing events and groups of changes in `ChangeLedger` itself.
3. Maintenance's single flight (with its 32-bit keys), scheduler leadership and
   webhook retries.

Not modelled, and why: the components `PROJECT.json` lists so either keep no state
of their own that a wrong order could spoil (impact, previews, realtime, circuit
breakers), reach state through a modelled part (branches, the executor, autonomy's
repairs through the ledger, purges through the queue), or are calls of other
programs (backups). User interface, SDKs and command line hold no protocol.
