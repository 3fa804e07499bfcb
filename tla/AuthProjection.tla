---------------------------- MODULE AuthProjection ----------------------------
(***************************************************************************)
(* Delivering a region its copy of what authorizes its requests            *)
(* (lib/auth-projection): the triggers that record changes, deliveries by  *)
(* several processes with their fence, rounds and epochs, the copy emptied *)
(* and delivered afresh, the check of the copy against home, and the wait  *)
(* of a caller who must know that its change has arrived.                  *)
(*                                                                         *)
(* Home's database and the region's commit separately: a delivery can      *)
(* commit there and not here.  One region is modelled, for regions share   *)
(* nothing.                                                                *)
(***************************************************************************)
EXTENDS Integers, FiniteSets, FiniteSetsExt

CONSTANTS
  Project,
  Member,    \* keys and branches
  ProjectOf,
  Rank,      \* the order in which rows are queued again
  Batch,     \* changes delivered per round
  MaxEdits,  \* bound: changes of rows
  Restores,  \* whether a side may be restored from a backup
  MaxFaults  \* bound: transactions lost, records removed, late locks, restores

Row == Project \cup Member

ASSUME AuthProjectionAssumption ==
  /\ Project \cap Member = {}
  /\ IsFiniteSet(Row)
  /\ ProjectOf \in [Member -> Project]
  /\ Rank \in [Row -> Nat]
  /\ \A r, s \in Row : Rank[r] = Rank[s] => r = s
  /\ Batch \in Nat \ {0}
  /\ MaxEdits \in Nat /\ MaxFaults \in Nat
  /\ Restores \in BOOLEAN

VARIABLES
  row,      \* home: projects, api_keys, workspace_branches
  open,     \* home: a transaction that has changed a row and not committed
  pending,  \* home: auth_projection_changes not delivered
  nextId,   \* home: their sequence
  home,     \* home: auth_projection_regions
  copy,     \* region: the copied rows
  region,   \* region: auth_projection_state
  delivery, \* the delivery that holds the region's lock
  orphan,   \* one whose home transaction is gone
  check,    \* reconcileRegionCopy
  epochs,   \* epochs drawn (randomUUID)
  floor,    \* history: the oldest contents the copy may still answer
  overtaken, \* history: rows queued while a transaction had them open
  lost,      \* history: rows whose record was removed undelivered
  backup,    \* one backup of home's database or of the region's
  edits, faults

homeVars == <<row, open, pending, nextId, home>>
regionVars == <<copy, region>>
history == <<floor, overtaken, lost>>
vars == <<homeVars, regionVars, delivery, orphan, check, epochs, history, backup, edits, faults>>

-----------------------------------------------------------------------------
(* Contents are numbered in the order home holds them; Gone is the last. *)

Gone == MaxEdits + 2
Contents == 1 .. Gone

Change == [id : Nat, row : Row]
NoTransaction == [id |-> 0, content |-> 0]

\* version: the change the row was delivered at.
Copied == [content : 0 .. Gone - 1, version : Nat]
Missing == [content |-> 0, version |-> 0]

\* epoch 0: no row.
State == [epoch : Nat, round : Nat]

\* marked: the watermark is set, and young enough to be trusted (isFreshAge).
RegionState == [epoch : Nat, round : Nat, marked : BOOLEAN]

\* at: the home state the delivery read. rows, changes: its snapshot.
Delivery == [step : {"idle", "matched", "mismatched", "applied", "emptied"},
             at : State, rows : [Row -> 0 .. Gone], changes : SUBSET Change, drained : BOOLEAN]

NoContents == [r \in Row |-> 0]

Idle == [step |-> "idle", at |-> [epoch |-> 0, round |-> 0], rows |-> NoContents,
         changes |-> {}, drained |-> FALSE]

Check == [step : {"idle", "read", "stale"}, rows : SUBSET Row, content : 0 .. Gone]

Unchecked == [step |-> "idle", rows |-> {}, content |-> 0]

\* What a backup holds: home's tables, or the region's.
Home == [row |-> row, pending |-> pending, nextId |-> nextId, home |-> home]
Region == [copy |-> copy, region |-> region]
NoBackup == [of |-> "none", tables |-> <<>>]

Backups ==
  [of : {"home"}, tables : [row : [Row -> Contents], pending : SUBSET Change, nextId : Nat, home : State]]
  \cup [of : {"region"}, tables : [copy : [Row -> Copied], region : RegionState]]
  \cup {NoBackup}

TypeOK ==
  /\ row \in [Row -> Contents]
  /\ open \in [Row -> [id : Nat, content : 0 .. Gone]]
  /\ pending \subseteq Change
  /\ nextId \in Nat
  /\ home \in State
  /\ copy \in [Row -> Copied]
  /\ region \in RegionState
  /\ delivery \in Delivery /\ orphan \in Delivery
  /\ check \in Check
  /\ epochs \in Nat
  /\ floor \in [Row -> Contents]
  /\ overtaken \subseteq Row /\ lost \subseteq Row
  /\ backup \in Backups
  /\ edits \in 0 .. MaxEdits /\ faults \in 0 .. MaxFaults

Init ==
  /\ row = [r \in Row |-> 1]
  /\ open = [r \in Row |-> NoTransaction]
  /\ pending = {}
  /\ nextId = 1
  /\ home = [epoch |-> 0, round |-> 0]
  /\ copy = [r \in Row |-> Missing]
  /\ region = [epoch |-> 0, round |-> 0, marked |-> FALSE]
  /\ delivery = Idle /\ orphan = Idle
  /\ check = Unchecked
  /\ epochs = 0
  /\ backup = NoBackup
  /\ floor = [r \in Row |-> 1]
  /\ overtaken = {} /\ lost = {}
  /\ edits = 0 /\ faults = 0

-----------------------------------------------------------------------------
(* Home's rows change: each change in a transaction of its own, whose       *)
(* trigger records it under the next id; it is seen when it commits, which  *)
(* need not be in the order of the ids.                                     *)

Fault == faults < MaxFaults /\ faults' = faults + 1

Members(p) == {m \in Member : ProjectOf[m] = p}

\* A project leaves with its keys and branches.
With(r) == {r} \cup (IF r \in Project THEN Members(r) ELSE {})

Free(r) == open[r] = NoTransaction

\* The statement changes the row, locks it, and records the change.
Write(r, content) ==
  /\ row[r] # Gone /\ edits < MaxEdits
  /\ Free(r)
  /\ r \in Member => open[ProjectOf[r]].content # Gone
  /\ content = Gone => \A m \in With(r) : Free(m)
  /\ open' = [open EXCEPT ![r] = [id |-> nextId, content |-> content]]
  /\ nextId' = nextId + 1
  /\ edits' = edits + 1
  /\ UNCHANGED <<row, pending, home, regionVars, delivery, orphan, check, epochs, history, backup, faults>>

Commit(r) ==
  /\ ~Free(r)
  /\ row' = [s \in Row |-> IF s = r THEN open[r].content
                           ELSE IF open[r].content = Gone /\ s \in With(r) THEN Gone
                           ELSE row[s]]
  /\ pending' = pending \cup {[id |-> open[r].id, row |-> r]}
  /\ open' = [open EXCEPT ![r] = NoTransaction]
  /\ UNCHANGED <<nextId, home, regionVars, delivery, orphan, check, epochs, history, backup, edits, faults>>

\* Something removes a record before it is delivered.
RecordLost(c) ==
  /\ Fault
  /\ pending' = pending \ {c}
  /\ lost' = lost \cup With(c.row)
  /\ UNCHANGED <<row, open, nextId, home, regionVars, delivery, orphan, check, epochs,
                 floor, overtaken, backup, edits>>

\* Rows recorded as changed by a resync or a check, under the next ids: what a
\* transaction still open has recorded comes before them.
Queue(rows) ==
  /\ pending' = pending \cup
       {[id |-> nextId + Cardinality({s \in rows : Rank[s] < Rank[r]}), row |-> r] : r \in rows}
  /\ nextId' = nextId + Cardinality(rows)
  /\ overtaken' = overtaken \cup {r \in rows : ~Free(r)}

-----------------------------------------------------------------------------
(* deliveryRound *)

\* Mutant: the round is not compared.
MatchingEpoch(h) == h.epoch # 0 /\ region.epoch = h.epoch

Matching(h) == h.epoch # 0 /\ region.epoch = h.epoch /\ region.round = h.round

\* Bound: a delivery that would change nothing but the round is left out.
AnythingToDo == pending # {} \/ ~Matching(home) \/ ~region.marked \/ floor # row

Changes == {c \in pending : Cardinality({d \in pending : d.id < c.id}) < Batch}

\* Mutant: every delivery moves the watermark.
DrainedAlways == TRUE

Drained == Cardinality(pending) <= Batch

\* The transaction takes the region's lock (pg_try_advisory_xact_lock) and its
\* snapshot: home's rows, the oldest changes, and whether these are all. The
\* region's state is read after it, which an orphan cannot tell from before.
Begin ==
  /\ delivery.step = "idle" /\ AnythingToDo
  /\ delivery' = [step |-> IF Matching(home) THEN "matched" ELSE "mismatched", at |-> home,
                  rows |-> row, changes |-> Changes, drained |-> Drained]
  /\ UNCHANGED <<homeVars, regionVars, orphan, check, epochs, history, backup, edits, faults>>

Named(d) == {c.row : c \in d.changes}

\* currentState: each row at the newest of its changes.
Version(d, r) == Max({c.id : c \in {e \in d.changes : e.row = r}})

\* Mutant: a deleted project leaves its keys behind.
RemovedAlone(d) == {s \in Named(d) : d.rows[s] = Gone}

\* Mutant: removals are held up by the fence.
RemovedFenced(d) ==
  UNION {With(r) : r \in {s \in Named(d) : d.rows[s] = Gone /\ copy[s].version < Version(d, s)}}

\* Removals, which no fence holds up; a project's with its keys and branches.
Removed(d) == UNION {With(r) : r \in {s \in Named(d) : d.rows[s] = Gone}}

\* Mutant: a row that is gone is written like any other.
applyGone(d) ==
  [r \in Row |->
    IF r \in Named(d) /\ copy[r].version < Version(d, r)
    THEN [content |-> d.rows[r], version |-> Version(d, r)]
    ELSE copy[r]]

\* An older change never overwrites a newer one.
apply(d) ==
  [r \in Row |->
    IF r \in Removed(d) THEN Missing
    ELSE IF r \in Named(d) /\ copy[r].version < Version(d, r)
    THEN [content |-> d.rows[r], version |-> Version(d, r)]
    ELSE copy[r]]

\* The region's transaction: the rows, the round and the watermark, if the copy
\* is still the one the home transaction read.
ApplyInRegion(d) ==
  /\ d.step = "matched" /\ Matching(d.at)
  /\ copy' = apply(d)
  /\ region' = [region EXCEPT !.round = @ + 1, !.marked = @ \/ d.drained]
  /\ floor' = IF d.drained THEN [r \in Row |-> Max({floor[r], d.rows[r]})] ELSE floor
  /\ UNCHANGED <<epochs, overtaken, lost>>

\* resync: the region first, emptied under a new epoch ...
EmptyRegion(d) ==
  /\ d.step = "mismatched"
  /\ epochs' = epochs + 1
  /\ copy' = [r \in Row |-> Missing]
  /\ region' = [epoch |-> epochs + 1, round |-> 0, marked |-> FALSE]
  /\ UNCHANGED history

Apply ==
  /\ ApplyInRegion(delivery)
  /\ delivery' = [delivery EXCEPT !.step = "applied"]
  /\ UNCHANGED <<homeVars, orphan, check, backup, edits, faults>>

\* CopyMovedError: both transactions roll back.
CopyMoved ==
  /\ delivery.step = "matched" /\ ~Matching(delivery.at)
  /\ delivery' = Idle
  /\ UNCHANGED <<homeVars, regionVars, orphan, check, epochs, history, backup, edits, faults>>

\* Home commits second. A record removed meanwhile cannot be updated.
RecordDelivered ==
  /\ delivery.step = "applied" /\ delivery.changes \subseteq pending
  /\ pending' = pending \ delivery.changes
  /\ home' = [home EXCEPT !.round = @ + 1]
  /\ UNCHANGED <<nextId, overtaken>>

CommitDelivery ==
  /\ RecordDelivered
  /\ delivery' = Idle
  /\ UNCHANGED <<row, open, regionVars, orphan, check, epochs, floor, lost, backup, edits, faults>>

DeliveryFails ==
  /\ delivery.step = "applied" /\ ~(delivery.changes \subseteq pending)
  /\ delivery' = Idle
  /\ UNCHANGED <<homeVars, regionVars, orphan, check, epochs, history, backup, edits, faults>>

Resync ==
  /\ EmptyRegion(delivery)
  /\ delivery' = [delivery EXCEPT !.step = "emptied", !.at = [epoch |-> epochs', round |-> 0]]
  /\ UNCHANGED <<homeVars, orphan, check, backup, edits, faults>>

\* ... then home, with a change for every row of the snapshot.
RecordResync ==
  /\ delivery.step = "emptied"
  /\ Queue({r \in Row : delivery.rows[r] # Gone})
  /\ home' = delivery.at

CommitResync ==
  /\ RecordResync
  /\ delivery' = Idle
  /\ UNCHANGED <<row, open, regionVars, orphan, check, epochs, floor, lost, backup, edits, faults>>

\* The home transaction times out or loses its connection, and its lock with it.
\* What it had under way in the region goes on.
HomeLost ==
  /\ Fault
  /\ delivery.step # "idle"
  /\ delivery' = Idle
  /\ orphan' = IF delivery.step \in {"matched", "mismatched"} THEN delivery ELSE orphan
  /\ UNCHANGED <<homeVars, regionVars, check, epochs, history, backup, edits>>

\* It commits in the region what home will not, or finds that the copy moved.
OrphanEnds ==
  /\ orphan.step # "idle"
  /\ \/ ApplyInRegion(orphan) \/ EmptyRegion(orphan)
     \/ UNCHANGED <<regionVars, epochs, history>>
  /\ orphan' = Idle
  /\ UNCHANGED <<homeVars, delivery, check, backup, edits, faults>>

\* The lock is taken by the statement that takes the snapshot, and after it: a
\* delivery that began before the last one committed gets the lock, and sees a
\* round that the region has left. It empties the copy; home, which has moved,
\* refuses what it writes.
LateLock ==
  /\ Fault /\ orphan = Idle
  /\ RecordDelivered \/ RecordResync
  /\ delivery' = Idle
  /\ orphan' = [Idle EXCEPT !.step = "mismatched", !.at = home, !.rows = row]
  /\ UNCHANGED <<row, open, regionVars, check, epochs, floor, lost, backup, edits>>

-----------------------------------------------------------------------------
inFlight == {c.row : c \in pending}

\* confirmPropagation, when it answers "confirmed": its caller's change has
\* committed, and nothing that was recorded for the row by then is left. (One
\* that answers "pending" changes nothing.) A deletion is confirmed of all the
\* project had.
Confirm(r) ==
  /\ r \notin inFlight
  /\ r \in Member => row[ProjectOf[r]] # Gone
  /\ floor' = [s \in Row |->
       IF s = r \/ (row[r] = Gone /\ s \in With(r)) THEN row[r] ELSE floor[s]]
  /\ UNCHANGED <<homeVars, regionVars, delivery, orphan, check, epochs, overtaken, lost, backup, edits, faults>>

-----------------------------------------------------------------------------
(* reconcileRegionCopy, of one row: three reads, each as things are by then. *)

ReadCopy(r) ==
  /\ check.step = "idle" /\ copy[r] # Missing
  /\ check' = [step |-> "read", rows |-> {r}, content |-> copy[r].content]
  /\ UNCHANGED <<homeVars, regionVars, delivery, orphan, epochs, history, backup, edits, faults>>

\* Mutant: only rows that are gone count as stale.
ReadHomeGone ==
  /\ check.step = "read"
  /\ check' = IF \A r \in check.rows : row[r] # Gone THEN Unchecked
              ELSE [check EXCEPT !.step = "stale", !.content = 0]
  /\ UNCHANGED <<homeVars, regionVars, delivery, orphan, epochs, history, backup, edits, faults>>

\* A copied row is stale that is gone at home, or holds other contents.
ReadHome ==
  /\ check.step = "read"
  /\ check' = IF \A r \in check.rows : row[r] = check.content THEN Unchecked
              ELSE [check EXCEPT !.step = "stale", !.content = 0]
  /\ UNCHANGED <<homeVars, regionVars, delivery, orphan, epochs, history, backup, edits, faults>>

\* Unless a delivery already carries it.
QueueStale ==
  /\ check.step = "stale"
  /\ IF check.rows \cap inFlight = {} THEN Queue(check.rows)
     ELSE UNCHANGED <<pending, nextId, overtaken>>
  /\ check' = Unchecked
  /\ UNCHANGED <<row, open, home, regionVars, delivery, orphan, epochs, floor, lost, backup, edits, faults>>

-----------------------------------------------------------------------------
(* A side is restored. That takes longer than any transaction, and longer    *)
(* than a watermark is trusted.                                              *)

NothingUnderWay == delivery = Idle /\ orphan = Idle /\ check = Unchecked

TakeBackup ==
  /\ Restores /\ backup = NoBackup /\ faults < MaxFaults /\ NothingUnderWay /\ \A r \in Row : Free(r)
  /\ backup' \in {[of |-> "home", tables |-> Home], [of |-> "region", tables |-> Region]}
  /\ UNCHANGED <<homeVars, regionVars, delivery, orphan, check, epochs, history, edits, faults>>

RestoreHome ==
  /\ backup.of = "home" /\ Fault /\ NothingUnderWay
  /\ row' = backup.tables.row /\ pending' = backup.tables.pending
  /\ nextId' = backup.tables.nextId /\ home' = backup.tables.home
  /\ open' = [r \in Row |-> NoTransaction]
  /\ region' = [region EXCEPT !.marked = FALSE]
  /\ floor' = row'
  /\ backup' = NoBackup
  /\ UNCHANGED <<copy, delivery, orphan, check, epochs, overtaken, lost, edits>>

RestoreRegion ==
  /\ backup.of = "region" /\ Fault /\ NothingUnderWay
  /\ copy' = backup.tables.copy
  /\ region' = [backup.tables.region EXCEPT !.marked = FALSE]
  /\ backup' = NoBackup
  /\ UNCHANGED <<homeVars, delivery, orphan, check, epochs, history, edits>>

-----------------------------------------------------------------------------
Deliver ==
  \/ Apply \/ CopyMoved \/ CommitDelivery \/ DeliveryFails \/ Resync \/ CommitResync

Next ==
  \/ \E r \in Row : \/ \E content \in {edits + 2, Gone} : Write(r, content)
                    \/ Commit(r) \/ Confirm(r) \/ ReadCopy(r)
  \/ \E c \in pending : RecordLost(c)
  \/ Begin \/ Deliver \/ HomeLost \/ LateLock \/ OrphanEnds
  \/ ReadHome \/ QueueStale
  \/ TakeBackup \/ RestoreHome \/ RestoreRegion

Spec == Init /\ [][Next]_vars

\* Transactions end; home delivers every few seconds, and goes on with what it
\* has begun; the copy is checked every hour.
Fairness ==
  /\ \A r \in Row : WF_vars(Commit(r))
  /\ WF_vars(Begin \/ Deliver)
  /\ WF_vars(OrphanEnds)
  /\ WF_vars(ReadHome \/ QueueStale)
  /\ \A r \in Row : SF_vars(ReadCopy(r))

FairSpec == Spec /\ Fairness

-----------------------------------------------------------------------------
(* Properties. *)

\* What the region answers: a key or a branch only with its project (read.ts).
Answer(r) ==
  IF region.marked /\ (r \in Member => copy[ProjectOf[r]] # Missing) THEN copy[r].content ELSE 0

\* "Every change committed at home before [the watermark] is in the copy"
\* (deliver.ts), and every change confirmed: of the rows that the copy holds.
WatermarkIsTrue == \A r \in Row \ lost : Answer(r) = 0 \/ Answer(r) >= floor[r]

\* A row removed at home before the watermark, or confirmed removed, is never
\* answered, however transactions, deliveries, checks and lost commits interleave.
RemovedIsGone == \A r \in Row \ lost : floor[r] = Gone => Answer(r) = 0

\* While both sides agree on epoch and round, what the copy holds and home does
\* not is in a recorded change: a delivery of what is recorded brings the copy up
\* to date, and nothing else was missed.
AgreementIsCurrent ==
  Matching(home) => \A r \in Row \ (lost \cup overtaken) :
    copy[r] = Missing \/ copy[r].content = row[r] \/ \E c \in pending : r \in With(c.row)

Bounded == INSTANCE BoundedCopy WITH
  home <- row,
  answer <- [r \in Row |-> IF r \in lost \cup overtaken \/ Answer(r) = 0 THEN -1 ELSE Answer(r)]

\* The copy implements BoundedCopy, but for rows whose record was lost or
\* overtaken.
KeepsItsPromise == Bounded!Spec

\* Whatever was lost, the copy comes to agree with home and to be trusted: lost
\* commits by an epoch's end, lost records by the check.
Converges ==
  <>[](region.marked /\ \A r \in Row : copy[r] = Missing \/ copy[r].content = row[r])
=============================================================================
