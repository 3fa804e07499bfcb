------------------------ MODULE ChangeLedgerInvariant ------------------------
(***************************************************************************)
(* The inductive invariant of ChangeLedger: what is true between any two   *)
(* steps, and makes its safety properties true for every number of calls,  *)
(* tables, rows and faults.                                                *)
(***************************************************************************)
EXTENDS ChangeLedger

\* Steps at which a worker has a row open, and what the row says then.
Applying == {"working", "restoring", "committed"}

\* Steps of a restore that has a claim to give back or to settle.
Claiming == {"claimed", "queued", "restoring", "committed", "settling", "returning"}

\* The statuses a claim comes from and may go back to.
ReturnTo == IN_EFFECT \cup RECOVERY_OWED

\* Steps about a change that no restore need be possible of.
Deciding == {"reconciling", "declined", "keeping", "answering"}

\* A job names the change and the row its step is about.
StepFits(s, j) ==
  /\ s \in HasRecord \cup {"failing", "settling"} => j.record \in ChangeId
  /\ s \in Claiming \cup {"loaded", "following", "stopping", "asking", "requesting",
                          "declined", "keeping", "answering"}
       => j.change \in ChangeId
  /\ s \in {"working", "failing"} => j.change = NoChange
  /\ s # "reconciling" /\ j.change # NoChange => j.from \in ReturnTo
  /\ s = "reconciling" => j.from \in InProgress

JobFits(w) == StepFits(pc[w], job[w])

\* Whoever has a row open, or recovers automatically, holds the change lock.
HoldsAt(s, j) == s \in HasRecord \cup {"failing"} \/ j.mode = "automatic"

Holds(w) == HoldsAt(pc[w], job[w])

OneAtATime == \A w \in Worker : Holds(w) => lock = w

\* A row that may be restored: its evidence is sealed, and if it records a
\* restore, so is that of the change it undid.
Restorable(n) ==
  /\ n \in ChangeId /\ row[n].sealed
  /\ row[n].kind = "recovery" =>
       LET target == row[n].recoversId IN
       target \in ChangeId /\ row[target].sealed /\ row[target].kind = "change"

RowFits(n) ==
  /\ row[n].sealed =>
       row[n].status \notin {"unopened", "withdrawn", "applying", "verifying"}
  /\ row[n].status = "recovering" => row[n].sealed /\ row[n].recoveryClaim \in Worker
  /\ row[n].kind = "recovery" => Restorable(row[n].recoversId)
  /\ row[n].started.from \in ReturnTo \cup {"never"}
  /\ row[n].recoveryClaim # NoWorker => row[n].status = "recovering"

\* The record tells what its change did and nothing else.
Exact(n) ==
  \A t \in row[n].footprint :
    LET own == {Subject(n)} IN
    /\ row[n].checkpoint[t] # row[n].resultState[t]
    /\ row[n].checkpoint[t] \ own = row[n].resultState[t] \ own

\* The row a worker has open is its own, not yet sealed, and the catalog differs
\* from its checkpoint by the change it is about at most.
RecordFits(w) ==
  LET n == job[w].record
      c == job[w].change IN
  /\ pc[w] \in HasRecord =>
       /\ ~row[n].sealed
       /\ IF c = NoChange THEN row[n].kind = "change"
          ELSE row[n].kind = "recovery" /\ row[n].recoversId = c
  /\ pc[w] \in Applying => row[n].status = "applying"
  /\ pc[w] = "verifying" => row[n].status = "verifying" /\ Exact(n)
  /\ pc[w] = "restoring" => live = row[n].checkpoint
  /\ pc[w] \in {"working", "committed"} =>
       \A t \in Table : live[t] \ {Subject(n)} = row[n].checkpoint[t] \ {Subject(n)}

\* The change a worker restores can be, and one that failed is sealed.
ChangeFits(w) ==
  /\ pc[w] \notin Deciding /\ job[w].change # NoChange => Restorable(job[w].change)
  /\ pc[w] = "failing" => Restorable(job[w].record)

\* The inductive invariant: everything above, of every call and every row. The
\* records of changes are exact because the lock of withChangeLock is held from
\* the first reading of the catalog to the second.
LedgerInv ==
  /\ TypeOK
  /\ OneAtATime
  /\ \A w \in Worker : JobFits(w) /\ RecordFits(w) /\ ChangeFits(w)
  /\ \A n \in ChangeId : RowFits(n) /\ (row[n].sealed => Exact(n))
-----------------------------------------------------------------------------
(* What the rows give evidence of, whatever dies and however slow it is.    *)

\* Nothing of change n is on table t, and no restore can put it there.
NeverOn(n, t) == n \notin live[t] /\ \A m \in ChangeId : n \notin row[m].checkpoint[t]

\* A row without sealed evidence never closed or was given up by the reconciler;
\* a change that closed having done something tells where it did it.
EvidenceFits(n) ==
  /\ row[n].sealed \/ row[n].status \in
       {"unopened", "withdrawn", "applying", "verifying",
        "manual_intervention_required", "kept"}
  /\ row[n].status = "unopened" => \A t \in Table : NeverOn(n, t)
  /\ row[n].kind = "change" =>
       /\ \A t \in Table : n \notin row[n].checkpoint[t]
       /\ row[n].status = "verifying" \/ (row[n].sealed /\ row[n].status # "failed")
            => row[n].footprint # {}
       /\ row[n].sealed => \A t \in Table \ row[n].footprint : NeverOn(n, t)

\* Until a change closes, no other row was opened that could have read it.
WorkFits(w) ==
  LET n == job[w].record IN
  /\ pc[w] = "working" => \A m \in ChangeId, t \in Table : n \notin row[m].checkpoint[t]
  /\ pc[w] = "verifying" /\ job[w].change = NoChange =>
       \A t \in Table \ row[n].footprint : NeverOn(n, t)

\* What a row lets its reader conclude, between any two steps and wherever a call
\* died: an unsealed row never closed or was given up, and a change that closed
\* having done something names every table it is on.
EvidenceInv ==
  /\ \A n \in ChangeId : EvidenceFits(n)
  /\ \A w \in Worker : WorkFits(w)

-----------------------------------------------------------------------------
(* Wholeness, whatever dies, however slow owners and however stale readers   *)
(* are: a change that closed is in the catalog with all it did, or not at all. *)

\* The record r of a restore of change n tells all n did: reapplying it, which
\* goes back to r's checkpoint, puts all of n back.
TellsAll(r, n) ==
  \A t \in row[n].footprint : t \in row[r].footprint /\ n \in row[r].checkpoint[t]

RowWhole(n) ==
  LET target == row[n].recoversId IN
  /\ row[n].sealed /\ row[n].kind = "change" => InForce(n) \/ Gone(n)
  /\ row[n].sealed /\ row[n].kind = "recovery" /\ row[n].footprint # {} =>
       (row[target].kind = "change" => TellsAll(n, target))

\* The change a call has closed but not sealed is in force; the one it has undone
\* is gone, and the record shows that it was not.
CallWhole(w) ==
  LET c == job[w].change
      r == job[w].record IN
  /\ pc[w] = "committed" /\ row[c].kind = "change" =>
       Gone(c) /\ \A t \in row[c].footprint : c \in row[r].checkpoint[t]
  /\ pc[w] = "verifying" =>
       IF c = NoChange THEN InForce(r) ELSE row[c].kind = "change" => TellsAll(r, c)

WholeInv ==
  /\ \A n \in ChangeId : RowWhole(n)
  /\ \A w \in Worker : CallWhole(w)

\* What a change made is known once its evidence is sealed.
Made(n) == IF row[n].kind = "change" /\ row[n].sealed THEN row[n].footprint ELSE {}
On(n) == {t \in Table : n \in live[t]}

History == INSTANCE ChangeHistory WITH
  Change <- ChangeId,
  made <- [n \in ChangeId |-> Made(n)],
  on <- [n \in ChangeId |-> On(n)]

\* The ledger implements ChangeHistory: a restore that commits undoes or reapplies
\* one change, all of it, and nothing else does; also where it was begun twice,
\* given up half-way or taken over.
KeepsHistory == History!Spec

-----------------------------------------------------------------------------
(* Claims, where no owner is slow and no reader stale: a claim has one       *)
(* owner, and its change moves through that owner or, once it died, the      *)
(* reconciler.                                                               *)

Prompt == ~SlowOwners /\ ~StaleReaders

\* Worker u restores n and has not settled it, or given it back, yet.
Claims(u, n) ==
  n # NoChange /\ pc[u] \in Claiming \cup {"verifying"} /\ job[u].change = n

Abandoned(n) == \A u \in Worker : ~Claims(u, n)

\* Restore r is the last restore of the change it undid, which is still restored.
Reappliable(r) == LET target == row[row[r].recoversId] IN
                  target.status = "restored" /\ target.recoveredById = r

\* A reapply of restore r is on record, and can no longer fail or be withdrawn.
Lasting(m) ==
  /\ row[m].kind = "recovery"
  /\ row[m].status \notin {"unopened", "withdrawn", "failed"}
  /\ \A u \in Worker : pc[u] = "restoring" => job[u].record # m

ReappliedOnRecord(r) == \E m \in ChangeId : Lasting(m) /\ row[m].recoversId = r

RowClaimFits(n) ==
  /\ row[n].status = "recovering" /\ row[n].kind = "recovery" => Reappliable(n)
  /\ row[n].status = "recovering" /\ row[n].late => Abandoned(n)
  /\ row[n].kind = "change" /\ row[n].status = "recovered" => Gone(n)
  /\ row[n].kind = "change" /\ row[n].status = "restored" /\ ~Gone(n) =>
       ReappliedOnRecord(row[n].recoveredById)

\* A reapply that was settled and has not put its change back in History is alone.
Following(w) ==
  LET r == job[w].change IN
  /\ row[r].status \in {"restored", "recovered"} /\ Reappliable(r)
  /\ \A u \in Worker \ {w} : pc[u] = "following" => job[u].change # r

ClaimFits(w) ==
  LET c == job[w].change
      r == job[w].record IN
  /\ Claims(w, c) => Owns(c, w)
  /\ pc[w] = "reconciling" /\ job[w].from = "recovering" => Abandoned(c)
  /\ pc[w] = "settling" =>
       /\ row[r].sealed /\ row[r].kind = "recovery" /\ row[r].recoversId = c
       /\ row[c].kind = "change" /\ row[r].status = "healthy" => Gone(c)
  /\ pc[w] = "following" /\ row[c].kind = "recovery" => Following(w)

ClaimsFit ==
  /\ \A n \in ChangeId : RowClaimFits(n)
  /\ \A w \in Worker : ClaimFits(w)

\* A reapply that was possible when its restore was read is still, if its claim
\* can be won.
LoadedFits(w) ==
  LET c == job[w].change IN
  pc[w] = "loaded" /\ row[c].kind = "recovery" /\ row[c].status \in restorableFrom("manual")
    => Reappliable(c)

\* What claims promise between any two steps: one owner each, nobody's once their
\* time is up, and never of a reapply whose change has moved on.
ClaimInv == ClaimsFit /\ \A w \in Worker : LoadedFits(w)

-----------------------------------------------------------------------------
(* Truth, until something dies and where no owner is slow: what History says *)
(* of a change is what the catalog says, as soon as nobody is at work on it. *)

\* The statuses of a change that was undone, and those a confirmed restore has
\* while it can be taken back.
Ended == {"restored", "recovered"}
Standing == {"healthy", "recovery_failed", "manual_intervention_required"}

\* The statuses of a restore that could not be confirmed.
Doubtful == {"unverified", "verification_failed", "partially_applied"}

\* A living call has row n open.
Works(u, n) == pc[u] \in HasRecord /\ job[u].record = n

\* Whatever is in progress is so for a living call, and what has closed is sealed.
AttendedFits(n) ==
  /\ ~row[n].late
  /\ row[n].status = "recovering" => \E u \in Worker : Claims(u, n)
  /\ row[n].status \in {"applying", "verifying"} => \E u \in Worker : Works(u, n)
  /\ row[n].sealed \/ row[n].status \in {"unopened", "withdrawn", "applying", "verifying"}

\* Call w has committed a restore of n and its row does not say so yet.
Midway(w, n) == pc[w] \in {"committed", "verifying", "settling"} /\ job[w].change = n

\* What n did has been undone, settled or not; and if n is a change, it has not
\* been put back since by a reapply.
Undone(n) == row[n].status \in Ended \/ \E w \in Worker : Midway(w, n)

Absent(n) == Undone(n) /\ ~(row[n].status = "restored" /\ Undone(row[n].recoveredById))

\* A change is in the catalog, with all it did, or out of it.
PresenceFits(n) ==
  row[n].kind = "change" /\ row[n].sealed /\ ~Unconfirmed(n) =>
    IF Absent(n) THEN Gone(n) ELSE InForce(n)

\* A restore of n that was settled is still being followed up.
Followed(n) == \E u \in Worker : pc[u] = "following" /\ job[u].change = n

\* The restore a restored change names tells all that change did.
RestoredFits(n) ==
  LET r == row[n].recoveredById IN
  /\ r # NoChange => row[r].status # "unopened"
  /\ row[n].kind = "change" /\ row[n].status = "restored" =>
       /\ r \in ChangeId /\ row[r].kind = "recovery" /\ row[r].recoversId = n
       /\ row[r].sealed /\ row[r].confirmed /\ row[r].footprint # {}
       /\ ~Unconfirmed(n) => \A t \in row[n].footprint :
                               t \in row[r].footprint /\ n \in row[r].checkpoint[t]
       /\ row[r].status \in Ended => Followed(r)

ConfirmedFits(n) ==
  row[n].kind = "recovery" /\ row[n].confirmed =>
    row[n].status \in Standing \cup Ended \cup {"recovering"}

\* The request to restore n that was found is about to be answered.
Answering(n) == \E u \in Worker : pc[u] = "answering" /\ job[u].change = n

AskedFits(n) ==
  n \in asked => /\ row[n].kind = "change" /\ row[n].sealed
                 /\ row[n].status \in Ended => Followed(n) \/ Answering(n)

\* What a call that restores c knows of c, and of the record r it makes of it.
RestoringFits(w) ==
  LET c == job[w].change
      r == job[w].record
      known == row[c].kind = "change" /\ ~Unconfirmed(c) IN
  c # NoChange =>
    /\ row[c].kind = "recovery" => row[c].confirmed /\ job[w].from \in Standing
    /\ pc[w] \in HasRecord \cup {"settling"} =>
         /\ \A n \in ChangeId : row[n].recoveredById # r
         /\ known => \A t \in row[c].footprint : c \in row[r].checkpoint[t]
    /\ pc[w] \in {"verifying", "settling"} =>
         /\ row[r].footprint # {}
         /\ known => row[c].footprint \subseteq row[r].footprint
    /\ pc[w] = "settling" => \/ row[r].status = "healthy" /\ row[r].confirmed
                             \/ row[r].status \in Doubtful

\* A call that is about to ask for a decision works under the lock, so nobody can
\* have undone the change meanwhile. What is decided of is a change that closed.
AskingFits(w) ==
  LET c == job[w].change
      r == job[w].record IN
  /\ pc[w] # "reconciling"
  /\ pc[w] \in {"declined", "keeping", "answering"} => row[c].kind = "change" /\ row[c].sealed
  /\ pc[w] = "verifying" /\ c = NoChange => InForce(r)
  /\ pc[w] = "failing" => row[r].kind = "change"
  /\ job[w].mode = "automatic" /\ c # NoChange => row[c].kind = "change"
  /\ pc[w] \in {"asking", "requesting"} \/ job[w].then = "asking" =>
       job[w].mode = "automatic"
  /\ pc[w] = "requesting" => ~Undone(c)

TruthInv ==
  /\ \A n \in ChangeId : /\ AttendedFits(n) /\ PresenceFits(n) /\ RestoredFits(n)
                         /\ ConfirmedFits(n) /\ AskedFits(n)
  /\ \A w \in Worker : RestoringFits(w) /\ AskingFits(w)
===============================================================================
