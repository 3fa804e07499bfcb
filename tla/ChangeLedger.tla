----------------------------- MODULE ChangeLedger -----------------------------
(***************************************************************************)
(* The change ledger of one project (lib/changes): governed changes made   *)
(* under the project's lock, verified when they close, recovered           *)
(* automatically when their checks fail, restored, reapplied or kept by    *)
(* people, and settled by the reconciler when a process stops part-way.    *)
(*                                                                         *)
(* A Worker is a call in progress in some process of the platform; the     *)
(* claim token a restore draws is the worker, for each worker runs one     *)
(* restore at a time.  Rows are numbered in the order they are opened,     *)
(* which is the order of seq.                                              *)
(*                                                                         *)
(* The catalog is abstracted to what restores compare: the definition of a *)
(* table is the set of changes that made it what it is.                    *)
(***************************************************************************)
EXTENDS Naturals, FiniteSets, ChangeLifecycle

CONSTANTS
  Worker,      \* concurrent calls: requests, agents, schedulers
  NoWorker,    \* nobody: a free lock, a null recoveryClaim
  Table,       \* the tables of the project's schema
  Outside,     \* what owners change in it by their own SQL
  MaxChanges,  \* bound: rows ever opened
  MaxFaults,   \* bound: processes that die, restores that throw after COMMIT
  SlowOwners,  \* may fifteen minutes pass under a process that is alive?
  StaleReaders \* may a claim change hands under a reconciler that read it as
               \* lapsed and waits, two seconds at most, for the lock?

ASSUME ConstantsAssumption ==
  /\ NoWorker \notin Worker
  /\ MaxChanges \in Nat /\ MaxFaults \in Nat
  /\ Outside \cap (1 .. MaxChanges) = {}
  /\ SlowOwners \in BOOLEAN /\ StaleReaders \in BOOLEAN

ChangeId == 1 .. MaxChanges
NoChange == 0

VARIABLES
  row,      \* the table backend_changes, by id
  live,     \* the catalog: the changes each table's definition carries
  asked,    \* changes Backenly's own request to restore is pending of
  lock,     \* who holds the project's advisory change lock
  pc,       \* what each worker does next
  job,      \* what it is doing it to
  faults

vars == <<row, live, asked, lock, pc, job, faults>>

Catalog == [Table -> SUBSET (ChangeId \cup Outside)]

(***************************************************************************)
(* A row. checkpoint, resultState and footprint are the evidence; sealed   *)
(* says checkpointHash is set; confirmed, that its verification was        *)
(* "confirmed". started is the newest recovery_started event. late says    *)
(* its time is up: the lease of a recovering row has run out, or a row     *)
(* still open was created more than RECOVERY_LEASE_MS ago.                 *)
(***************************************************************************)
Row == [status : RowStatus,
        kind : {"change", "recovery"},
        recoversId : {NoChange} \cup ChangeId,
        recoveredById : {NoChange} \cup ChangeId,
        checkpoint : Catalog,
        resultState : Catalog,
        footprint : SUBSET Table,
        sealed : BOOLEAN,
        confirmed : BOOLEAN,
        recoveryClaim : Worker \cup {NoWorker},
        late : BOOLEAN,
        started : [mode : RecoveryMode, from : ChangeStatus \cup {"never"}]]

NoRow == [status |-> "unopened", kind |-> "change", recoversId |-> NoChange,
          recoveredById |-> NoChange, checkpoint |-> [t \in Table |-> {}],
          resultState |-> [t \in Table |-> {}], footprint |-> {},
          sealed |-> FALSE, confirmed |-> FALSE, recoveryClaim |-> NoWorker,
          late |-> FALSE, started |-> [mode |-> "manual", from |-> "never"]]

(***************************************************************************)
(* A worker's job: the change it recovers or keeps (none for an ordinary   *)
(* change), the row it holds open, the status to give the claim back to    *)
(* and what follows.  A reconciling worker keeps the status it read in     *)
(* from.                                                                   *)
(***************************************************************************)
Step == {"idle", "working", "verifying", "failing", "loaded", "claimed", "queued",
         "restoring", "committed", "settling", "following", "returning",
         "stopping", "asking", "requesting", "declined", "keeping", "answering",
         "reconciling"}

Job == [mode : RecoveryMode,
        change : {NoChange} \cup ChangeId,
        record : {NoChange} \cup ChangeId,
        from : ChangeStatus,
        then : {"idle", "asking", "stopping"}]

NoJob == [mode |-> "manual", change |-> NoChange, record |-> NoChange,
          from |-> "healthy", then |-> "idle"]

TypeOK ==
  /\ row \in [ChangeId -> Row]
  /\ live \in Catalog
  /\ asked \subseteq ChangeId
  /\ lock \in Worker \cup {NoWorker}
  /\ pc \in [Worker -> Step]
  /\ job \in [Worker -> Job]
  /\ faults \in 0 .. MaxFaults

Init ==
  /\ row = [n \in ChangeId |-> NoRow]
  /\ live = [t \in Table |-> {}]
  /\ asked = {}
  /\ lock = NoWorker
  /\ pc = [w \in Worker |-> "idle"]
  /\ job = [w \in Worker |-> NoJob]
  /\ faults = 0

-----------------------------------------------------------------------------
(* The primitives of lifecycle.ts, as the row they leave. *)

\* Rows that are in the database.
Recorded == {n \in ChangeId : row[n].status \notin {"unopened", "withdrawn"}}

\* The number the next row takes: one more than every row opened before it.
NextId(n) == \A m \in ChangeId : (row[m].status = "unopened") <=> (m >= n)

\* transition: compare-and-set on the status, from those with an edge to it.
transitions(n, from, to) == row[n].status \in from /\ canTransition(row[n].status, to)

transition(n, from, to) ==
  IF transitions(n, from, to) THEN [row[n] EXCEPT !.status = to] ELSE row[n]

\* claimRecovery, once its compare-and-set has won.
claimRecovery(n, w) ==
  [row[n] EXCEPT !.status = "recovering", !.recoveryClaim = w, !.late = FALSE]

\* releaseRecovery: only the claim's owner can.
Owns(n, claim) == row[n].status = "recovering" /\ row[n].recoveryClaim = claim

releaseRecovery(n, claim, to) ==
  IF Owns(n, claim)
  THEN [row[n] EXCEPT !.status = to, !.recoveryClaim = NoWorker, !.late = FALSE]
  ELSE row[n]

\* What differs between two readings of the catalog.
diffCatalogs(a, b) == {t \in Table : a[t] # b[t]}

\* The row as allocateRow inserts it: the catalog is read first, under the lock.
allocateRow(kind, recoversId) ==
  [NoRow EXCEPT !.status = "applying", !.kind = kind,
                !.recoversId = recoversId, !.checkpoint = live]

\* Mutant: a status no edge knows.
withEvidenceApplied(n, status) ==
  [row[n] EXCEPT !.status = "applied", !.resultState = live,
                 !.footprint = diffCatalogs(row[n].checkpoint, live)]

\* The row with its evidence: the catalog as the change leaves it.
withEvidence(n, status) ==
  [row[n] EXCEPT !.status = status, !.resultState = live,
                 !.footprint = diffCatalogs(row[n].checkpoint, live)]

\* Mutant: the evidence of a failure is not sealed.
closedUnsealed(n, status) == [withEvidence(n, status) EXCEPT !.late = FALSE]

\* The row closed on a failure, its evidence sealed.
closed(n, status) == [withEvidence(n, status) EXCEPT !.sealed = TRUE, !.late = FALSE]

-----------------------------------------------------------------------------
(* What a worker does next. *)

Goto(w, step, j) == pc' = [pc EXCEPT ![w] = step] /\ job' = [job EXCEPT ![w] = j]

Unlock(w) == lock' = IF lock = w THEN NoWorker ELSE lock

\* Mutant: the lock is not waited for.
lockIgnored(w) == TRUE

\* withChangeLock takes the lock when it is free, and re-enters a lock it holds.
lockAvailable(w) == lock \in {NoWorker, w}

\* The call returns; withChangeLock gives the lock back if it holds it.
Leave(w) == Goto(w, "idle", NoJob) /\ Unlock(w)

\* Mutant: the inner call gives back the lock of the call it runs inside.
LeaveRecordUnlocked(w, step, j) == Goto(w, step, j) /\ Unlock(w)

\* A restore's record has closed. An automatic recovery runs inside the lock of
\* the change it recovers and keeps it; any other restore's lock is its own.
LeaveRecord(w, step, j) ==
  /\ Goto(w, step, j)
  /\ IF j.mode = "automatic" THEN UNCHANGED lock ELSE Unlock(w)

-----------------------------------------------------------------------------
(* withGovernedChange (ledger.ts), for a change. *)

\* Steps of a call that has a row open.
HasRecord == {"working", "restoring", "committed", "verifying"}

\* Bound: the last number is left to the automatic recovery the change may need.
OpenChange(w) ==
  /\ pc[w] = "idle" /\ lockAvailable(w)
  /\ \E n \in ChangeId :
       /\ NextId(n) /\ n < MaxChanges
       /\ row' = [row EXCEPT ![n] = allocateRow("change", NoChange)]
       /\ Goto(w, "working", [NoJob EXCEPT !.record = n])
  /\ lock' = w
  /\ UNCHANGED <<live, asked, faults>>

\* One statement of the change's work reaches a table.
RunStatement(w) ==
  /\ pc[w] = "working"
  /\ \E t \in Table :
       /\ job[w].record \notin live[t]
       /\ live' = [live EXCEPT ![t] = @ \cup {job[w].record}]
  /\ UNCHANGED <<row, asked, lock, pc, job, faults>>

\* It changed nothing: the row is deleted.
DiscardChange(w) ==
  LET n == job[w].record IN
  /\ pc[w] = "working" /\ diffCatalogs(row[n].checkpoint, live) = {}
  /\ row' = [row EXCEPT ![n] = [NoRow EXCEPT !.status = "withdrawn"]]
  /\ Leave(w)
  /\ UNCHANGED <<live, asked, faults>>

\* Its work ended well, or a restore's plan committed: the evidence is written.
Applied(w) ==
  LET n == job[w].record IN
  /\ pc[w] \in {"working", "committed"}
  /\ diffCatalogs(row[n].checkpoint, live) # {}
  /\ row' = [row EXCEPT ![n] = withEvidence(n, "verifying")]
  /\ Goto(w, "verifying", job[w])
  /\ UNCHANGED <<live, asked, lock, faults>>

\* Whether a change that failed is recovered automatically: not when its caller
\* passed autoRecover: false (a maintenance repair, an architecture change).
CloseFailing(w) ==
  \/ Goto(w, "failing", job[w]) /\ UNCHANGED lock
  \/ Leave(w)

\* Its work failed, having changed nothing or something.
ApplyFailed(w) ==
  LET n == job[w].record
      nothing == diffCatalogs(row[n].checkpoint, live) = {} IN
  /\ pc[w] = "working"
  /\ row' = [row EXCEPT ![n] =
       closed(n, IF nothing THEN "failed" ELSE "partially_applied")]
  /\ IF nothing THEN Leave(w) ELSE CloseFailing(w)
  /\ UNCHANGED <<live, asked, faults>>

\* A restore committed and what follows the commit threw: its record closes
\* part-way and the claim is left for the reconciler.
FailedAfterCommit(w) ==
  LET n == job[w].record IN
  /\ pc[w] = "committed" /\ faults < MaxFaults
  /\ faults' = faults + 1
  /\ row' = [row EXCEPT ![n] = closed(n, "partially_applied")]
  /\ Leave(w)
  /\ UNCHANGED <<live, asked>>

\* verifyAgainstCheckpoint: the catalog is back where change c found it.
restoredTo(c) == \A t \in row[c].footprint : live[t] = row[c].checkpoint[t]

\* Protected verification, and the row closes on its outcome: for a change,
\* whatever verifyChange finds; for a restore, the comparison with the
\* checkpoint, unless a resource differs or could not be read.
Verified(w) ==
  LET n == job[w].record
      c == job[w].change IN
  /\ pc[w] = "verifying"
  /\ \E status \in {"healthy", "verification_failed", "unverified"} :
       /\ (c # NoChange /\ status = "healthy") => restoredTo(c)
       /\ row' = [row EXCEPT ![n] = [@ EXCEPT !.status = status, !.sealed = TRUE,
                                     !.confirmed = (status = "healthy"),
                                     !.late = FALSE]]
       /\ IF c # NoChange THEN LeaveRecord(w, "settling", job[w])
          ELSE IF status = "verification_failed" THEN CloseFailing(w)
          ELSE Leave(w)
  /\ UNCHANGED <<live, asked, faults>>

-----------------------------------------------------------------------------
(* recoverAutomatically, inside the lock of the change that failed. *)

\* Another change of the project needs a person.
Stuck(n) == \E m \in ChangeId \ {n} :
              row[m].status \in {"manual_intervention_required", "recovery_failed"}

\* Mutant: a recovered change may be reapplied as well.
reapplicableRecovered(n) ==
  LET target == row[row[n].recoversId] IN
  /\ target.kind = "change" /\ target.recoveredById = n
  /\ target.status \in {"restored", "recovered"}

\* targetOf: n is the latest restore of a change that was confirmed when made.
reapplicable(n) ==
  LET target == row[row[n].recoversId] IN
  /\ target.kind = "change" /\ target.recoveredById = n
  /\ target.status = "restored" /\ target.confirmed

\* availabilityOf: may a restore of n start?
Available(n, mode) ==
  /\ row[n].status \in restorableFrom(mode)
  /\ row[n].kind = "recovery" => reapplicable(n)
  /\ row[n].footprint # {}
  /\ row[n].sealed

\* A reconciler has read a claim of n as lapsed and has not acted on it yet.
ReadAsLapsed(n) == \E w \in Worker : /\ pc[w] = "reconciling"
                                     /\ job[w].change = n /\ job[w].from = "recovering"

\* The row and its target have been read, and a restore may start by them.
Load(w, n, mode) == Goto(w, "loaded", [NoJob EXCEPT !.mode = mode, !.change = n])

RecoverAutomatically(w) ==
  LET n == job[w].record IN
  /\ pc[w] = "failing" /\ ~Stuck(n)
  /\ IF Available(n, "automatic")
     THEN Load(w, n, "automatic") /\ UNCHANGED lock
     ELSE Leave(w)                          \* a person's restore claimed it first
  /\ UNCHANGED <<row, live, asked, faults>>

PauseRecovery(w) ==
  /\ pc[w] = "failing" /\ Stuck(job[w].record)
  /\ Goto(w, "asking", [NoJob EXCEPT !.mode = "automatic", !.change = job[w].record])
  /\ UNCHANGED <<row, live, asked, lock, faults>>

-----------------------------------------------------------------------------
(* recoverChange. It calls reconcileChange first, which any worker may do at  *)
(* any moment below.                                                          *)

\* A person restores a change or reapplies a restore; Backenly undoes a repair.
StartRestore(w) ==
  /\ pc[w] = "idle"
  /\ \E n \in ChangeId, mode \in {"manual", "repair"} :
       /\ mode = "repair" => row[n].kind = "change"
       /\ Available(n, mode)
       /\ Load(w, n, mode)
  /\ UNCHANGED <<row, live, asked, lock, faults>>

\* A person approves the request Backenly made: it is answered, then run. No
\* step waits for an agent's request: approving one is a StartRestore, declining
\* one changes nothing here.
ApproveRestore(w) ==
  /\ pc[w] = "idle"
  /\ \E n \in asked :
       /\ asked' = asked \ {n}
       /\ IF Available(n, "manual") THEN Load(w, n, "manual") ELSE UNCHANGED <<pc, job>>
  /\ UNCHANGED <<row, live, lock, faults>>

\* Mutant: the status is not read again.
mayClaimUnread(n, mode) == row[n].status # "recovering"

mayClaim(n, mode) == row[n].status \in restorableFrom(mode)

\* The claim is won, by the status as it is by now; the recovery_started event
\* is not written yet.
Claim(w) ==
  LET n == job[w].change IN
  /\ pc[w] = "loaded" /\ mayClaim(n, job[w].mode)
  /\ StaleReaders \/ ~ReadAsLapsed(n)
  /\ row' = [row EXCEPT ![n] = claimRecovery(n, w)]
  /\ Goto(w, "claimed", [job[w] EXCEPT !.from = row[n].status])
  /\ UNCHANGED <<live, asked, lock, faults>>

\* It is lost: the status allows no restore any more, or moved between
\* claimRecovery's reading and its compare-and-set.
ClaimLost(w) ==
  /\ pc[w] = "loaded"
  /\ Leave(w)
  /\ UNCHANGED <<row, live, asked, faults>>

RecordStarted(w) ==
  /\ pc[w] = "claimed"
  /\ row' = [row EXCEPT ![job[w].change].started =
                 [mode |-> job[w].mode, from |-> job[w].from]]
  /\ Goto(w, "queued", job[w])
  /\ UNCHANGED <<live, asked, lock, faults>>

\* The restore is a governed change of its own.
OpenRecord(w) ==
  /\ pc[w] = "queued" /\ lockAvailable(w)
  /\ \E n \in ChangeId :
       /\ NextId(n)
       /\ row' = [row EXCEPT ![n] = allocateRow("recovery", job[w].change)]
       /\ Goto(w, "restoring", [job[w] EXCEPT !.record = n])
  /\ lock' = w
  /\ UNCHANGED <<live, asked, faults>>

\* ChangeInProgressError (or, the bound, no number left).
LockRefused(w) ==
  /\ pc[w] = "queued"
  /\ \/ ~lockAvailable(w)
     \/ ~ \E n \in ChangeId : NextId(n)
  /\ Goto(w, "returning", job[w])
  /\ UNCHANGED <<row, live, asked, lock, faults>>

\* Mutant: a restore conflicts only where the change is already gone.
ConflictWhereGone(c) == \E t \in row[c].footprint : live[t] = row[c].checkpoint[t]

\* planRestore: something the change touched no longer looks the way it left it.
Conflict(c) == \E t \in row[c].footprint : live[t] # row[c].resultState[t]

\* CONFLICT, NEEDS_APPROVAL or BLOCKED: the record is withdrawn, nothing ran.
RefuseRestore(w) ==
  /\ pc[w] = "restoring"
  /\ row' = [row EXCEPT ![job[w].record] = [NoRow EXCEPT !.status = "withdrawn"]]
  /\ \E then \in {"asking", "stopping"} :
       /\ Conflict(job[w].change) => then = "stopping"
       /\ LeaveRecord(w, "returning", [job[w] EXCEPT !.then =
            IF job[w].mode = "automatic" THEN then ELSE "idle"])
  /\ UNCHANGED <<live, asked, faults>>

\* A statement failed and the transaction rolled back.
RestoreFailed(w) ==
  LET n == job[w].record
      automatic == job[w].mode = "automatic" IN
  /\ pc[w] = "restoring" /\ ~Conflict(job[w].change)
  /\ row' = [row EXCEPT ![n] = closed(n, "failed")]
  /\ LeaveRecord(w, "returning",
       [job[w] EXCEPT !.from = IF automatic THEN "recovery_failed" ELSE @,
                      !.then = IF automatic THEN "stopping" ELSE "idle"])
  /\ UNCHANGED <<live, asked, faults>>

\* Mutant: the statements of a restore run outside a transaction, and one is lost.
CommitRestorePartly(w) ==
  LET c == job[w].change IN
  /\ pc[w] = "restoring" /\ ~Conflict(c)
  /\ \E t \in row[c].footprint : live' = [live EXCEPT ![t] = row[c].checkpoint[t]]
  /\ Goto(w, "committed", job[w])
  /\ UNCHANGED <<row, asked, lock, faults>>

\* runPlan commits: the tables go back to the checkpoint.
CommitRestore(w) ==
  LET c == job[w].change IN
  /\ pc[w] = "restoring" /\ ~Conflict(c)
  /\ live' = [t \in Table |-> IF t \in row[c].footprint
                              THEN row[c].checkpoint[t] ELSE live[t]]
  /\ Goto(w, "committed", job[w])
  /\ UNCHANGED <<row, asked, lock, faults>>

\* The claim goes back to where it came from (an automatic one that failed, to
\* recovery_failed).
GiveBack(w) ==
  LET c == job[w].change IN
  /\ pc[w] = "returning"
  /\ row' = [row EXCEPT ![c] = releaseRecovery(c, w, job[w].from)]
  /\ IF job[w].then = "idle" THEN Leave(w)
     ELSE Goto(w, job[w].then, job[w]) /\ UNCHANGED lock
  /\ UNCHANGED <<live, asked, faults>>

\* Mutant: the row does not learn which record undid it.
settledAnonymously(c, w, to, r) == releaseRecovery(c, w, to)

\* The claim ends with the change undone by record r. Its loss goes unnoticed.
settled(c, w, to, r) ==
  IF Owns(c, w) THEN [releaseRecovery(c, w, to) EXCEPT !.recoveredById = r]
                ELSE row[c]

\* The record is verified: the change is recovered or restored by it. If not,
\* recovery_failed, and automation stops.
SettleRestore(w) ==
  LET c == job[w].change
      r == job[w].record
      to == IF byBackenly(job[w].mode) THEN "recovered" ELSE "restored" IN
  /\ pc[w] = "settling"
  /\ IF row[r].status = "healthy"
     THEN /\ row' = [row EXCEPT ![c] = settled(c, w, to, r)]
          /\ Goto(w, "following", job[w])
     ELSE /\ row' = [row EXCEPT ![c] = releaseRecovery(c, w, "recovery_failed")]
          /\ Goto(w, "stopping", job[w])
  /\ UNCHANGED <<live, asked, lock, faults>>

\* Mutant: the change a reapply put back stays restored.
reappliedOnlyInHistory(target) == row[target]

\* The change a reapply put back is in effect again.
reapplied(target) == transition(target, {"restored"}, "healthy")

\* Mutant: other requests to restore c stay in the inbox.
answeredNone(c) == asked

\* afterRecovery: every other request to restore c is answered.
answered(c) == asked \ {c}

\* The requests to restore c that are pending are read.
FindRequest(w, c) ==
  IF c \in asked THEN Goto(w, "answering", job[w]) /\ UNCHANGED lock ELSE Leave(w)

\* What follows a confirmed restore.
FollowRestore(w) ==
  LET c == job[w].change
      target == row[c].recoversId IN
  /\ pc[w] = "following"
  /\ IF row[c].kind = "recovery"
     THEN row' = [row EXCEPT ![target] = reapplied(target)] /\ Leave(w)
     ELSE FindRequest(w, c) /\ UNCHANGED row
  /\ UNCHANGED <<live, asked, faults>>

\* Those read are answered, in a statement of its own.
AnswerRequest(w) ==
  /\ pc[w] = "answering"
  /\ asked' = answered(job[w].change)
  /\ Leave(w)
  /\ UNCHANGED <<row, live, faults>>

\* stopAndEscalate.
StopAndEscalate(w) ==
  LET c == job[w].change IN
  /\ pc[w] = "stopping"
  /\ row' = [row EXCEPT ![c] = transition(c,
       {"recovery_failed", "verification_failed", "partially_applied",
        "awaiting_approval"}, "manual_intervention_required")]
  /\ Leave(w)
  /\ UNCHANGED <<live, asked, faults>>

\* escalate: a person decides, if the change still needs one.
Escalate(w) ==
  LET c == job[w].change
      owed == {"verification_failed", "partially_applied", "recovery_failed"} IN
  /\ pc[w] = "asking"
  /\ row' = [row EXCEPT ![c] = transition(c, owed, "awaiting_approval")]
  /\ IF transitions(c, owed, "awaiting_approval")
     THEN Goto(w, "requesting", job[w]) /\ UNCHANGED lock
     ELSE Leave(w)
  /\ UNCHANGED <<live, asked, faults>>

\* Its approval request is created, in a write of its own.
RequestApproval(w) ==
  /\ pc[w] = "requesting"
  /\ asked' = asked \cup {job[w].change}
  /\ Leave(w)
  /\ UNCHANGED <<row, live, faults>>

-----------------------------------------------------------------------------
(* keepChange, from History or by declining Backenly's request. *)

keepableFrom == {"awaiting_approval", "manual_intervention_required"}

kept(n) == [row EXCEPT ![n] = transition(n, keepableFrom, "kept")]

\* From History: the requests to restore it are answered afterwards.
KeepChange(w) ==
  /\ pc[w] = "idle"
  /\ \E n \in ChangeId :
       /\ row[n].kind = "change" /\ row[n].status \in keepableFrom
       /\ row' = kept(n)
       /\ Goto(w, "keeping", [NoJob EXCEPT !.change = n])
  /\ UNCHANGED <<live, asked, lock, faults>>

FollowKeep(w) ==
  /\ pc[w] = "keeping"
  /\ FindRequest(w, job[w].change)
  /\ UNCHANGED <<row, live, asked, faults>>

\* The request is declined first, then its change kept if it may still be.
DeclineRequest(w) ==
  /\ pc[w] = "idle"
  /\ \E n \in asked :
       /\ asked' = asked \ {n}
       /\ Goto(w, "declined", [NoJob EXCEPT !.change = n])
  /\ UNCHANGED <<row, live, lock, faults>>

KeepDeclined(w) ==
  /\ pc[w] = "declined"
  /\ row' = kept(job[w].change)
  /\ Leave(w)
  /\ UNCHANGED <<live, asked, faults>>

-----------------------------------------------------------------------------
\* An owner's own SQL, which no lock keeps out, alters a table and may take that
\* back. One that falls between the two readings of the catalog is read as part
\* of the change that is open, and one that undoes by hand what a change did
\* leaves its status behind: neither is among these.
ChangeOutside ==
  /\ \A w \in Worker : pc[w] \notin HasRecord
  /\ \E t \in Table, x \in Outside :
       live' = [live EXCEPT ![t] = IF x \in @ THEN @ \ {x} ELSE @ \cup {x}]
  /\ UNCHANGED <<row, asked, lock, pc, job, faults>>

-----------------------------------------------------------------------------
(* reconcileChange, and the processes and clocks it is for. *)

\* Mutant: a change is not looked for once its work is done.
InProgressForgetful == {"applying", "recovering"}

\* interruptedChangesWhere: what a process may have stopped working on.
InProgress == {"applying", "verifying", "recovering"}

\* Read outside the lock: the row's time is up.
ReadLate(w, n) ==
  /\ pc[w] = "idle"
  /\ row[n].status \in InProgress /\ row[n].late
  /\ Goto(w, "reconciling", [NoJob EXCEPT !.change = n, !.from = row[n].status])
  /\ UNCHANGED <<row, live, asked, lock, faults>>

\* Someone is still working on the project.
ReconcileBusy(w) ==
  /\ pc[w] = "reconciling" /\ ~lockAvailable(w)
  /\ Leave(w)
  /\ UNCHANGED <<row, live, asked, faults>>

\* r is the newest restore of n, or there is none.
LatestRestore(n, r) ==
  LET records == {m \in Recorded : row[m].kind = "recovery" /\ row[m].recoversId = n} IN
  IF records = {} THEN r = NoChange
                  ELSE r \in records /\ \A m \in records : m <= r

\* Mutant: a restore that was started is taken for done, the catalog unread.
whereItEndedUnread(n, untouched) ==
  IF row[n].started.from # "never"
  THEN IF byBackenly(row[n].started.mode) THEN "recovered" ELSE "restored"
  ELSE "manual_intervention_required"

\* Where an interrupted restore of n ends, from the catalog. Columns are
\* compared by name only, so a table may pass for untouched that is not.
whereItEnded(n, untouched) ==
  IF restoredTo(n)
  THEN IF byBackenly(row[n].started.mode) THEN "recovered" ELSE "restored"
  ELSE IF untouched /\ row[n].started.mode # "automatic"
                    /\ row[n].started.from # "never"
  THEN row[n].started.from
  ELSE "manual_intervention_required"

\* Under the lock, whose taking and return are this one step: nothing else in
\* it changes state. The claim released is the one the row holds by now.
ReconcileRestore(w) ==
  LET n == job[w].change
      claim == row[n].recoveryClaim IN
  /\ pc[w] = "reconciling" /\ lockAvailable(w)
  /\ job[w].from = "recovering" /\ claim # NoWorker
  /\ \E untouched \in {TRUE, ~Conflict(n)}, r \in {NoChange} \cup ChangeId :
       /\ LatestRestore(n, r)
       /\ row' = [row EXCEPT ![n] =
            [releaseRecovery(n, claim, whereItEnded(n, untouched)) EXCEPT
               !.recoveredById = IF restoredTo(n) /\ r # NoChange THEN r ELSE @]]
  /\ Leave(w)
  /\ UNCHANGED <<live, asked, faults>>

\* A change that never closed, or a recovery released since it was read.
ReconcileOpen(w) ==
  LET n == job[w].change
      seen == job[w].from
      last == \A m \in Recorded : m <= n IN
  /\ pc[w] = "reconciling" /\ lockAvailable(w)
  /\ ~ (seen = "recovering" /\ row[n].recoveryClaim # NoWorker)
  /\ row' = [row EXCEPT ![n] =
       IF row[n].status = seen
       THEN [@ EXCEPT !.status = "manual_intervention_required", !.late = FALSE,
                      !.footprint = IF last THEN diffCatalogs(row[n].checkpoint, live)
                                            ELSE row[n].footprint]
       ELSE @]
  /\ Leave(w)
  /\ UNCHANGED <<live, asked, faults>>

\* Steps of a call that has done nothing about its change yet, or is done with it.
Aside == {"idle", "reconciling", "loaded", "keeping", "declined"}

\* A living call works on row n.
WorkedOn(n) == \E w \in Worker : /\ pc[w] \notin Aside
                                 /\ n \in {job[w].change, job[w].record}

\* RECOVERY_LEASE_MS passes.
TimeIsUp(n) ==
  /\ row[n].status \in InProgress /\ ~row[n].late
  /\ SlowOwners \/ ~WorkedOn(n)
  /\ row' = [row EXCEPT ![n].late = TRUE]
  /\ UNCHANGED <<live, asked, lock, pc, job, faults>>

\* The process dies; the lock goes with its session.
Crash(w) ==
  /\ pc[w] # "idle" /\ faults < MaxFaults
  /\ faults' = faults + 1
  /\ Leave(w)
  /\ UNCHANGED <<row, live, asked>>

-----------------------------------------------------------------------------
\* What a call does once it has begun.
Continue(w) ==
  \/ DiscardChange(w) \/ Applied(w) \/ ApplyFailed(w) \/ FailedAfterCommit(w)
  \/ Verified(w) \/ RecoverAutomatically(w) \/ PauseRecovery(w) \/ Claim(w) \/ ClaimLost(w)
  \/ RecordStarted(w) \/ OpenRecord(w) \/ LockRefused(w) \/ RefuseRestore(w)
  \/ RestoreFailed(w) \/ CommitRestore(w) \/ GiveBack(w) \/ SettleRestore(w)
  \/ FollowRestore(w) \/ StopAndEscalate(w) \/ Escalate(w)
  \/ RequestApproval(w) \/ AnswerRequest(w) \/ FollowKeep(w) \/ KeepDeclined(w)

Reconcile(w) == ReconcileRestore(w) \/ ReconcileOpen(w)

Begin(w) == \/ OpenChange(w) \/ StartRestore(w) \/ ApproveRestore(w)
            \/ KeepChange(w) \/ DeclineRequest(w)

Next ==
  \/ \E w \in Worker : Begin(w) \/ RunStatement(w) \/ Continue(w)
  \/ \E w \in Worker : ReconcileBusy(w) \/ Reconcile(w) \/ Crash(w)
  \/ \E w \in Worker, n \in ChangeId : ReadLate(w, n)
  \/ \E n \in ChangeId : TimeIsUp(n)
  \/ ChangeOutside

Spec == Init /\ [][Next]_vars

\* A call that began goes on unless its process dies, clocks advance, and the
\* scheduler of the project's region (upkeep.ts) keeps looking for late rows,
\* finding the lock free now and then. People and agents need never act.
Fairness ==
  /\ \A w \in Worker : WF_vars(Continue(w)) /\ SF_vars(Reconcile(w))
                      /\ WF_vars(ReconcileBusy(w))
  /\ \A n \in ChangeId : /\ WF_vars(TimeIsUp(n))
                         /\ SF_vars(\E w \in Worker : ReadLate(w, n))

FairSpec == Spec /\ Fairness
-----------------------------------------------------------------------------
(* Properties. *)

\* The change a row is about: itself, the one a restore undoes, or the one a
\* reapply (a restore of a restore) puts back.
Subject(n) ==
  LET target == row[n].recoversId IN
  IF row[n].kind = "change" THEN n
  ELSE IF row[target].kind = "change" THEN target
  ELSE row[target].recoversId

\* Nobody is part-way through work on change n.
Quiet(n) == \A w \in Worker :
  \/ pc[w] \in Aside
  \/ /\ job[w].record # n
     /\ job[w].change = NoChange \/ Subject(job[w].change) # n

\* A restore or reapply of n committed and could not be confirmed.
Unconfirmed(n) == \E m \in Recorded :
  /\ row[m].kind = "recovery" /\ Subject(m) = n
  /\ row[m].status \in {"unverified", "verification_failed", "partially_applied"}

\* All of n, or none of it, is in the catalog.
InForce(n) == \A t \in row[n].footprint : n \in live[t]
Gone(n) == \A t \in Table : n \notin live[t]

\* A sealed record tells exactly what its change did: on each table of its
\* footprint its checkpoint and its result differ by that change and nothing
\* else. Restores work from these records alone (plan.ts), so another change
\* landing between the two readings of the catalog would be undone with it.
RecordsAreExact ==
  \A n \in Recorded : row[n].sealed =>
    \A t \in row[n].footprint :
      LET own == {Subject(n)} IN
      /\ row[n].checkpoint[t] # row[n].resultState[t]
      /\ row[n].checkpoint[t] \ own = row[n].resultState[t] \ own

\* A restore takes away, or a reapply puts back, the effects of the change it
\* is about and of no other, on any table, whatever else was made, restored,
\* kept or lost meanwhile (planRestore's conflicts, checked under the lock).
RestoreUndoesOnlyItsOwn ==
  [][\A w \in Worker :
       pc[w] = "restoring" /\ pc'[w] = "committed" =>
         LET own == {Subject(job[w].change)} IN
         \A t \in Table : live'[t] \ own = live[t] \ own]_vars

\* Rows are opened and withdrawn, and otherwise move along TRANSITIONS only,
\* which is what the trigger backend_changes_guard raises on: a call that broke
\* it would fail half-way.
LifecycleEdges ==
  [][\A n \in ChangeId :
       LET from == row[n].status
           to == row'[n].status IN
       from # to => \/ from = "unopened" /\ to = "applying"
                    \/ from = "applying" /\ to = "withdrawn" /\ ~row[n].sealed
                    \/ canTransition(from, to)]_vars

\* History tells the truth: once nobody is at work on a change, one it shows in
\* effect or failed and not undone is in the catalog, and one it shows restored
\* or recovered is gone from it, unless a restore of it could not be confirmed.
StatusTellsTheTruth ==
  \A n \in Recorded :
    row[n].kind = "change" /\ Quiet(n) /\ ~Unconfirmed(n) =>
      /\ row[n].status \in IN_EFFECT \cup {"verification_failed",
             "partially_applied", "awaiting_approval"} => InForce(n)
      /\ row[n].status \in {"restored", "recovered"} => Gone(n)

\* A death between a reapply's settlement and the step after it leaves the
\* change "restored" for good, though it is back in the catalog. History still
\* shows why, whatever died and whoever settled what it left: a restored change
\* that is in the catalog has, on record, a reapply of the very restore its row
\* names, and one that did not fail.
HistoryExplains ==
  \A n \in Recorded :
    row[n].kind = "change" /\ row[n].status = "restored" /\ ~Gone(n) =>
      \E m \in Recorded : /\ row[m].kind = "recovery" /\ row[m].status # "failed"
                          /\ row[m].recoversId = row[n].recoveredById

\* A change Backenly recovered stays recovered: its effects never come back,
\* through a race, a crash or a reapply.
RecoveredIsGone ==
  \A n \in Recorded : row[n].kind = "change" /\ row[n].status = "recovered" => Gone(n)

\* A change that failed its checks and was not recovered can be answered by a
\* person, by restoring it or by keeping it, wherever its process died: no sweep
\* looks for it, so nothing else would.
OwedHasExit ==
  \A n \in Recorded :
    row[n].kind = "change" /\ row[n].status \in RECOVERY_OWED =>
      Available(n, "manual") \/ row[n].status \in keepableFrom

\* Once a change is restored, the request Backenly made to restore it is not left
\* in the inbox (afterRecovery: "approving it later would find nothing to
\* restore"). An agent's request is another matter: it is raised after a preview
\* and without the lock, and may arrive when the others have been answered.
RestoredIsAnswered ==
  \A n \in asked : Quiet(n) => row[n].status \notin {"restored", "recovered"}

\* A restore that was confirmed can be taken back: it is the one History
\* offers to reapply, and its record allows it.
RestoredCanBeReapplied ==
  \A n \in Recorded :
    row[n].kind = "change" /\ Quiet(n)
    /\ row[n].status = "restored" /\ row[n].confirmed =>
      \E r \in Recorded : r = row[n].recoveredById /\ Available(r, "manual")

\* No row is left in progress for ever: a change that opens closes, and a claim
\* is given back or settled, by the call itself or by the reconciler after it.
InterruptedSettles ==
  \A n \in ChangeId :
    LET open == row[n].status \in {"applying", "verifying", "recovering"} IN
    open ~> ~open

-----------------------------------------------------------------------------
(* What the documents say of the ledger and the code does not keep. *)

\* CHANGE_RECOVERY.md: "healthy, unverified and kept mean this change is in
\* effect and nothing is pending". A reconciler that read a claim as lapsed
\* before it waited for the lock releases whatever claim it finds afterwards.
HealthyIsInForce ==
  \A n \in Recorded :
    row[n].kind = "change" /\ Quiet(n) /\ row[n].status = "healthy" => InForce(n)

\* The same sentence, of kept: keepChange does not ask whether a restore that
\* could not be confirmed has already taken the change out.
KeptIsInForce ==
  \A n \in Recorded :
    row[n].kind = "change" /\ Quiet(n) /\ row[n].status = "kept" => InForce(n)

\* CHANGE_RECOVERY.md: automatic recovery waits "until that person restores or
\* keeps the stuck change". The record of a restore whose process died can be
\* neither.
StuckHasExit ==
  \A n \in Recorded : row[n].status = "manual_intervention_required" =>
    row[n].kind = "change" \/ Available(n, "manual")
=============================================================================
