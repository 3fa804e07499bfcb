------------------------ MODULE ChangeLedgerClaimProofs ------------------------
(***************************************************************************)
(* More theorems about ChangeLedger.  Whatever dies and however slow it    *)
(* is: what rows give evidence of, that a change that is owed a decision   *)
(* can be given one, and that changes come and go whole (the refinement of *)
(* ChangeHistory).  Where no owner is slow and no reader stale: that a     *)
(* claim has one owner, that a recovered change stays gone and that        *)
(* History explains a restored one that is not.                            *)
(***************************************************************************)
EXTENDS ChangeLedgerProofs

-----------------------------------------------------------------------------
(* Steps at which rows only move keep what the evidence shows.             *)

\* Every change is where it was.
SameOn == \A n \in ChangeId, t \in Table : n \in live'[t] <=> n \in live[t]

LEMMA StillOn ==
  ASSUME UNCHANGED live
  PROVE  SameOn
BY DEF SameOn

LEMMA NeverOnStays ==
  ASSUME RowsMove, SameOn, NEW n \in ChangeId, NEW t \in Table, NeverOn(n, t)
  PROVE  NeverOn(n, t)'
BY DEF NeverOn, RowsMove, Moves, SameOn

\* Where a row that never closed, or failed having done nothing, may go.
LEMMA EndsStay ==
  ASSUME NEW to
  PROVE  /\ \A from \in {"unopened", "withdrawn", "failed"} : ~canTransition(from, to)
         /\ canTransition("manual_intervention_required", to) => to \in {"recovering", "kept"}
         /\ canTransition("kept", to) => to = "recovering"
BY DEF canTransition, TRANSITIONS, ChangeStatus

LEMMA CalmEvidence ==
  ASSUME Base, EvidenceInv, RowsMove, Edges, SameOn,
         \A u \in Worker : pc'[u] \in {"working", "verifying"} =>
                             pc'[u] = pc[u] /\ job'[u] = job[u]
  PROVE  EvidenceInv'
<1>1. ASSUME NEW n \in ChangeId PROVE EvidenceFits(n)'
  <2>1. Moves(n, row'[n]) /\ Edge(n, row'[n]) /\ EvidenceFits(n)
    BY DEF RowsMove, Edges, EvidenceInv
  <2>2. /\ row'[n].kind = row[n].kind /\ row'[n].checkpoint = row[n].checkpoint
        /\ row'[n].footprint = row[n].footprint /\ row'[n].sealed = row[n].sealed
    BY <2>1 DEF Moves
  <2>3. ASSUME NEW t \in Table PROVE NeverOn(n, t) => NeverOn(n, t)'
    BY NeverOnStays
  <2>4. row'[n].status # row[n].status =>
          /\ row[n].status \notin {"unopened", "withdrawn", "failed", "applying", "verifying"}
          /\ row'[n].status \notin {"unopened", "withdrawn", "applying", "verifying"}
          /\ canTransition(row[n].status, row'[n].status)
    BY <2>1, EndsStay DEF Moves, Edge, Unsettled
  <2>5. (row[n].sealed \/ row[n].status \in
           {"unopened", "withdrawn", "applying", "verifying",
            "manual_intervention_required", "kept"})'
    <3>1. row'[n].status = "recovering" => row[n].sealed
      BY <2>1, <2>2 DEF Moves
    <3>. QED  BY <2>1, <2>2, <2>4, <3>1, EndsStay DEF EvidenceFits
  <2>6. (row[n].status = "unopened" => \A t \in Table : NeverOn(n, t))'
    BY <2>1, <2>3, <2>4 DEF EvidenceFits
  <2>7. (row[n].kind = "change" => \A t \in Table : n \notin row[n].checkpoint[t])'
    BY <2>1, <2>2 DEF EvidenceFits
  <2>8. (row[n].kind = "change"
         /\ (row[n].status = "verifying" \/ (row[n].sealed /\ row[n].status # "failed"))
           => row[n].footprint # {})'
    BY <2>1, <2>2, <2>4 DEF EvidenceFits
  <2>9. (row[n].kind = "change" /\ row[n].sealed =>
           \A t \in Table \ row[n].footprint : NeverOn(n, t))'
    BY <2>1, <2>2, <2>3 DEF EvidenceFits
  <2>. QED  BY <2>5, <2>6, <2>7, <2>8, <2>9 DEF EvidenceFits
<1>2. ASSUME NEW w \in Worker PROVE WorkFits(w)'
  <2>1. CASE pc'[w] \notin {"working", "verifying"}
    BY <2>1 DEF WorkFits
  <2>2. CASE pc'[w] \in {"working", "verifying"}
    <3>. PICK n : n = job[w].record
      OBVIOUS
    <3>1. pc'[w] = pc[w] /\ job'[w] = job[w] /\ WorkFits(w)
      BY <2>2 DEF EvidenceInv
    <3>2. n \in ChangeId
      BY <2>2, <3>1, OwnRecord DEF HasRecord
    <3>3. row'[n].footprint = row[n].footprint
          /\ \A m \in ChangeId : row'[m].checkpoint = row[m].checkpoint
      BY <3>2 DEF RowsMove, Moves
    <3>4. ASSUME NEW t \in Table PROVE NeverOn(n, t) => NeverOn(n, t)'
      BY <3>2, NeverOnStays
    <3>. QED  BY <3>1, <3>3, <3>4 DEF WorkFits
  <2>. QED  BY <2>1, <2>2
<1>. QED  BY <1>1, <1>2 DEF EvidenceInv

\* No call opens or closes a row of its own.
Rests == \A u \in Worker : pc'[u] \in HasRecord =>
                             pc'[u] = pc[u] /\ job'[u] = job[u]

LEMMA GotoRests ==
  ASSUME TypeOK, NEW w \in Worker, NEW s, NEW j, Goto(w, s, j),
         s \notin HasRecord
  PROVE  Rests
BY DEF TypeOK, Goto, Rests

LEMMA LeaveRests ==
  ASSUME TypeOK, NEW w \in Worker, Leave(w)
  PROVE  Rests
BY GotoRests DEF Leave, HasRecord, Applying

LEMMA LoadRests ==
  ASSUME TypeOK, NEW w \in Worker, NEW n, NEW mode, Load(w, n, mode)
  PROVE  Rests
BY GotoRests DEF Load, HasRecord

LEMMA FindRests ==
  ASSUME TypeOK, NEW w \in Worker, NEW c, FindRequest(w, c)
  PROVE  Rests
BY GotoRests, LeaveRests DEF FindRequest, HasRecord

\* The steps of a call at which rows only move.
Moving(w) ==
  \/ StartRestore(w) \/ ApproveRestore(w) \/ RecoverAutomatically(w) \/ PauseRecovery(w)
  \/ Claim(w) \/ RecordStarted(w) \/ LockRefused(w) \/ GiveBack(w) \/ SettleRestore(w)
  \/ FollowRestore(w) \/ StopAndEscalate(w) \/ Escalate(w)
  \/ ReconcileRestore(w) \/ LeavesOnly(w) \/ Keeps(w)

LEMMA MovingCalm ==
  ASSUME Base, NEW w \in Worker, Moving(w)
  PROVE  RowsMove /\ SameOn /\ Rests
<1>. USE DEF Base, TypeInv
<1>1. RowsMove
  BY StartRestoreFits, RecoverAutomaticallyFits, PauseRecoveryFits, ClaimStepFits,
     RecordStartedFits, LockRefusedFits, GiveBackFits, SettleRestoreFits,
     FollowRestoreFits, StopAndEscalateFits, EscalateFits, ReconcileRestoreFits,
     LeavesFit, KeepsFit DEF Moving
<1>2. UNCHANGED live
  <2>1. CASE LeavesOnly(w)
    BY <2>1 DEF LeavesOnly, RequestApproval, ReconcileBusy, Crash, ClaimLost, AnswerRequest
  <2>2. CASE Keeps(w)
    BY <2>2 DEF Keeps, KeepChange, FollowKeep, DeclineRequest, KeepDeclined
  <2>3. CASE GiveBack(w) \/ SettleRestore(w) \/ FollowRestore(w) \/ StopAndEscalate(w)
             \/ Escalate(w) \/ ReconcileRestore(w)
    BY <2>3 DEF GiveBack, SettleRestore, FollowRestore, StopAndEscalate, Escalate,
                ReconcileRestore
  <2>4. CASE StartRestore(w) \/ ApproveRestore(w) \/ RecoverAutomatically(w)
             \/ PauseRecovery(w) \/ Claim(w) \/ RecordStarted(w) \/ LockRefused(w)
    BY <2>4 DEF StartRestore, ApproveRestore, RecoverAutomatically, PauseRecovery,
                Claim, RecordStarted, LockRefused
  <2>. QED  BY <2>1, <2>2, <2>3, <2>4 DEF Moving
<1>. SUFFICES Rests
  BY <1>1, <1>2, StillOn
<1>3. CASE StartRestore(w) \/ ApproveRestore(w) \/ RecoverAutomatically(w)
  BY <1>3, LoadRests, LeaveRests
  DEF StartRestore, ApproveRestore, RecoverAutomatically, Rests
<1>4. CASE \/ PauseRecovery(w) \/ Claim(w) \/ RecordStarted(w) \/ LockRefused(w)
           \/ SettleRestore(w)
  BY <1>4, GotoRests
  DEF PauseRecovery, Claim, RecordStarted, LockRefused, SettleRestore, HasRecord
<1>5. CASE GiveBack(w)
  <2>1. job[w].then \in {"idle", "asking", "stopping"}
    BY OwnJob DEF Job
  <2>. QED  BY <1>5, <2>1, GotoRests, LeaveRests DEF GiveBack, HasRecord
<1>6. CASE Escalate(w)
  BY <1>6, GotoRests, LeaveRests DEF Escalate, HasRecord
<1>7. CASE FollowRestore(w) \/ StopAndEscalate(w) \/ ReconcileRestore(w) \/ LeavesOnly(w)
  BY <1>7, LeaveRests, FindRests
  DEF FollowRestore, StopAndEscalate, ReconcileRestore, LeavesOnly, RequestApproval,
      ReconcileBusy, Crash, ClaimLost, AnswerRequest
<1>8. CASE Keeps(w)
  BY <1>8, GotoRests, LeaveRests, FindRests
  DEF Keeps, KeepChange, FollowKeep, DeclineRequest, KeepDeclined, HasRecord
<1>. QED  BY <1>3, <1>4, <1>5, <1>6, <1>7, <1>8 DEF Moving

LEMMA ReadLateCalm ==
  ASSUME Base, NEW w \in Worker, NEW n \in ChangeId, ReadLate(w, n)
  PROVE  RowsMove /\ SameOn /\ Rests
<1>1. RowsMove /\ SameOn
  BY ReadLateFits, StillOn DEF ReadLate
<1>2. TypeOK /\ Goto(w, "reconciling", [NoJob EXCEPT !.change = n, !.from = row[n].status])
  BY DEF ReadLate, Base, TypeInv
<1>3. Rests
  BY <1>2, GotoRests DEF HasRecord, Applying
<1>. QED  BY <1>1, <1>3

\* What no call does: a clock advances, or an owner alters a table.
LEMMA BystandersCalm ==
  ASSUME Base, ChangeOutside \/ \E n \in ChangeId : TimeIsUp(n)
  PROVE  RowsMove /\ SameOn /\ Rests
<1>1. RowsMove /\ UNCHANGED <<pc, job>>
  BY TimeIsUpFits, ChangeOutsideFits DEF TimeIsUp, ChangeOutside
<1>2. CASE ChangeOutside
  <2>. PICK t \in Table, x \in Outside :
         live' = [live EXCEPT ![t] = IF x \in @ THEN @ \ {x} ELSE @ \cup {x}]
    BY <1>2 DEF ChangeOutside
  <2>1. ASSUME NEW n \in ChangeId, NEW u \in Table PROVE n \in live'[u] <=> n \in live[u]
    <3>1. n # x
      BY ConstantsAssumption DEF ChangeId
    <3>. QED  BY <3>1 DEF Base, TypeInv, TypeOK, Catalog
  <2>. QED  BY <1>1, <2>1 DEF SameOn, Rests
<1>3. CASE \E n \in ChangeId : TimeIsUp(n)
  BY <1>1, <1>3, StillOn DEF TimeIsUp, Rests
<1>. QED  BY <1>2, <1>3

LEMMA MovingEvidence ==
  ASSUME Base, EvidenceInv, Next,
         \/ \E w \in Worker : Moving(w)
         \/ \E w \in Worker, n \in ChangeId : ReadLate(w, n)
         \/ ChangeOutside
         \/ \E n \in ChangeId : TimeIsUp(n)
  PROVE  EvidenceInv'
<1>1. Edges
  BY EveryEdge
<1>2. RowsMove /\ SameOn /\ Rests
  BY MovingCalm, ReadLateCalm, BystandersCalm
<1>. QED  BY <1>1, <1>2, CalmEvidence DEF Rests, HasRecord

-----------------------------------------------------------------------------
(* Steps at which a call writes the row it has open. *)

\* What the row now carries was in the catalog, or in the row before.
LEMMA PutEvidence ==
  ASSUME Base, EvidenceInv, NEW w \in Worker, Alone(w), NEW n \in ChangeId, NEW r,
         row' = [row EXCEPT ![n] = r], UNCHANGED live,
         \A t \in Table : r.checkpoint[t] \subseteq live[t] \cup row[n].checkpoint[t],
         EvidenceFits(n)', WorkFits(w)'
  PROVE  EvidenceInv'
<1>1. row'[n] = r /\ \A m \in ChangeId \ {n} : row'[m] = row[m]
  BY DEF Base, TypeInv, TypeOK
<1>2. ASSUME NEW m \in ChangeId \ {n} PROVE EvidenceFits(m)'
  <2>1. ASSUME NEW t \in Table PROVE NeverOn(m, t) => NeverOn(m, t)'
    BY <1>1 DEF NeverOn
  <2>2. row'[m] = row[m] /\ EvidenceFits(m)
    BY <1>1 DEF EvidenceInv
  <2>. QED  BY <2>1, <2>2 DEF EvidenceFits
<1>3. ASSUME NEW u \in Worker \ {w} PROVE WorkFits(u)'
  <2>1. pc'[u] \notin {"working", "verifying"}
    BY DEF Alone, Holds, HoldsAt, HasRecord, Applying
  <2>. QED  BY <2>1 DEF WorkFits
<1>. QED  BY <1>2, <1>3 DEF EvidenceInv

LEMMA OpenChangeEvidence ==
  ASSUME Base, EvidenceInv, NEW w \in Worker, OpenChange(w)
  PROVE  EvidenceInv'
<1>. PICK n \in ChangeId :
       /\ NextId(n)
       /\ row' = [row EXCEPT ![n] = allocateRow("change", NoChange)]
       /\ Goto(w, "working", [NoJob EXCEPT !.record = n])
  BY DEF OpenChange
<1>. PICK r : r = allocateRow("change", NoChange)
  OBVIOUS
<1>1. r.status = "applying" /\ ~r.sealed /\ r.kind = "change" /\ r.checkpoint = live
  BY NewRow
<1>2. row'[n] = r /\ \A m \in ChangeId \ {n} : row'[m] = row[m]
  BY DEF Base, TypeInv, TypeOK
<1>3. pc'[w] = "working" /\ job'[w].record = n
  BY DEF Goto, NoJob, Base, TypeInv, TypeOK
<1>4. row[n].status = "unopened"
  BY DEF NextId, ChangeId
<1>5. \A t \in Table : NeverOn(n, t)
  BY <1>4 DEF EvidenceInv, EvidenceFits
<1>6. EvidenceFits(n)'
  BY <1>1, <1>2, <1>5 DEF EvidenceFits, NeverOn
<1>7. WorkFits(w)'
  BY <1>1, <1>2, <1>3, <1>5 DEF WorkFits, NeverOn
<1>8. Alone(w)
  BY GotoAlone DEF OpenChange
<1>. QED  BY <1>1, <1>6, <1>7, <1>8, PutEvidence DEF OpenChange

LEMMA OpenRecordEvidence ==
  ASSUME Base, EvidenceInv, NEW w \in Worker, OpenRecord(w)
  PROVE  EvidenceInv'
<1>. PICK c : c = job[w].change
  OBVIOUS
<1>. PICK n \in ChangeId :
       /\ NextId(n)
       /\ row' = [row EXCEPT ![n] = allocateRow("recovery", c)]
       /\ Goto(w, "restoring", [job[w] EXCEPT !.record = n])
  BY DEF OpenRecord
<1>. PICK r : r = allocateRow("recovery", c)
  OBVIOUS
<1>1. r.status = "applying" /\ ~r.sealed /\ r.kind = "recovery" /\ r.checkpoint = live
  BY DEF allocateRow, NoRow
<1>2. row'[n] = r /\ pc'[w] = "restoring"
  BY DEF Base, TypeInv, TypeOK, Goto
<1>3. EvidenceFits(n)' /\ WorkFits(w)'
  BY <1>1, <1>2 DEF EvidenceFits, WorkFits
<1>4. Alone(w)
  BY GotoAlone DEF OpenRecord
<1>. QED  BY <1>1, <1>3, <1>4, PutEvidence DEF OpenRecord

LEMMA WithdrawEvidence ==
  ASSUME Base, EvidenceInv, NEW w \in Worker, DiscardChange(w) \/ RefuseRestore(w)
  PROVE  EvidenceInv'
<1>. PICK n : n = job[w].record
  OBVIOUS
<1>. PICK r : r = [NoRow EXCEPT !.status = "withdrawn"]
  OBVIOUS
<1>1. n \in ChangeId /\ Holds(w)
  BY OwnRecord DEF DiscardChange, RefuseRestore, HasRecord, Applying
<1>2. row' = [row EXCEPT ![n] = r] /\ UNCHANGED live
  BY DEF DiscardChange, RefuseRestore
<1>3. r.status = "withdrawn" /\ ~r.sealed /\ \A t \in Table : r.checkpoint[t] = {}
  BY DEF NoRow
<1>. PICK s, j : Goto(w, s, j) /\ s \notin {"working", "verifying"}
  BY DEF DiscardChange, RefuseRestore, Leave, LeaveRecord
<1>4. row'[n] = r /\ pc'[w] \notin {"working", "verifying"}
  BY <1>1, <1>2 DEF Base, TypeInv, TypeOK, Goto
<1>5. EvidenceFits(n)' /\ WorkFits(w)'
  BY <1>3, <1>4 DEF EvidenceFits, WorkFits
<1>6. Alone(w)
  BY <1>1, GotoAlone
<1>. QED  BY <1>1, <1>2, <1>3, <1>5, <1>6, PutEvidence

\* Where the catalog is as it was when change n began, n has done nothing.
LEMMA NothingThere ==
  ASSUME NEW n \in ChangeId, NEW t \in Table,
         \A m \in ChangeId : n \notin row[m].checkpoint[t],
         t \notin diffCatalogs(row[n].checkpoint, live)
  PROVE  NeverOn(n, t)
BY DEF NeverOn, diffCatalogs

LEMMA AppliedEvidence ==
  ASSUME Base, EvidenceInv, NEW w \in Worker, Applied(w)
  PROVE  EvidenceInv'
<1>. PICK n : n = job[w].record
  OBVIOUS
<1>. PICK r : r = withEvidence(n, "verifying")
  OBVIOUS
<1>1. /\ n \in ChangeId /\ Holds(w) /\ ~row[n].sealed /\ RecordFits(w)
      /\ pc[w] \in {"working", "committed"} /\ WorkFits(w) /\ EvidenceFits(n)
  BY OwnRecord DEF Applied, HasRecord, Applying, EvidenceInv
<1>2. /\ ~r.sealed /\ r.status = "verifying" /\ r.kind = row[n].kind
      /\ r.checkpoint = row[n].checkpoint
      /\ r.footprint = diffCatalogs(row[n].checkpoint, live)
  BY <1>1, EvidenceRow DEF ChangeStatus
<1>3. /\ row' = [row EXCEPT ![n] = r] /\ Goto(w, "verifying", job[w])
      /\ UNCHANGED live /\ r.footprint # {}
  BY <1>2 DEF Applied
<1>4. /\ row'[n] = r /\ \A m \in ChangeId \ {n} : row'[m] = row[m]
      /\ pc'[w] = "verifying" /\ job'[w] = job[w]
  BY <1>1, <1>3 DEF Goto, Base, TypeInv, TypeOK
<1>5. ASSUME job[w].change = NoChange, NEW t \in Table \ r.footprint PROVE NeverOn(n, t)'
  <2>1. pc[w] = "working"
    BY <1>1, <1>5, OwnJob DEF Base, StepFits, Claiming, ChangeId, NoChange
  <2>2. NeverOn(n, t)
    BY <1>1, <1>2, <2>1, NothingThere DEF WorkFits
  <2>. QED  BY <1>2, <1>3, <1>4, <2>2 DEF NeverOn
<1>6. EvidenceFits(n)' /\ WorkFits(w)'
  BY <1>1, <1>2, <1>3, <1>4, <1>5 DEF EvidenceFits, WorkFits
<1>7. Alone(w)
  BY <1>1, <1>3, GotoAlone
<1>. QED  BY <1>1, <1>2, <1>3, <1>6, <1>7, PutEvidence

\* A row closes on a failure with what its change did.
LEMMA ClosedEvidence ==
  ASSUME Base, EvidenceInv, NEW w \in Worker, pc[w] \in Applying,
         NEW n \in ChangeId, n = job[w].record,
         NEW status \in {"failed", "partially_applied"},
         row[n].kind = "change" =>
           /\ pc[w] = "working"
           /\ status # "failed" => diffCatalogs(row[n].checkpoint, live) # {},
         row' = [row EXCEPT ![n] = closed(n, status)], UNCHANGED live,
         NEW s, NEW j, Goto(w, s, j), s \notin {"working", "verifying"}
  PROVE  EvidenceInv'
<1>. PICK r : r = closed(n, status)
  OBVIOUS
<1>1. Holds(w) /\ ~row[n].sealed /\ WorkFits(w) /\ EvidenceFits(n) /\ row[n] \in Row
  BY OwnRecord DEF HasRecord, Applying, EvidenceInv
<1>2. /\ r.sealed /\ r.kind = row[n].kind /\ r.checkpoint = row[n].checkpoint
      /\ r.footprint = diffCatalogs(row[n].checkpoint, live)
  BY <1>1, ClosedRow
<1>3. r.status = status
  BY <1>1 DEF closed, withEvidence, Row
<1>4. /\ row'[n] = r /\ \A m \in ChangeId \ {n} : row'[m] = row[m]
      /\ pc'[w] = s
  BY DEF Goto, Base, TypeInv, TypeOK
<1>5. ASSUME row[n].kind = "change", NEW t \in Table \ r.footprint PROVE NeverOn(n, t)'
  <2>1. NeverOn(n, t)
    BY <1>1, <1>2, <1>5, NothingThere DEF WorkFits
  <2>. QED  BY <1>2, <1>4, <2>1 DEF NeverOn
<1>6. EvidenceFits(n)'
  BY <1>1, <1>2, <1>3, <1>4, <1>5 DEF EvidenceFits
<1>7. WorkFits(w)'
  BY <1>4 DEF WorkFits
<1>8. Alone(w)
  BY <1>1, GotoAlone
<1>. QED  BY <1>2, <1>6, <1>7, <1>8, PutEvidence

LEMMA FailedEvidence ==
  ASSUME Base, EvidenceInv, NEW w \in Worker,
         ApplyFailed(w) \/ FailedAfterCommit(w) \/ RestoreFailed(w)
  PROVE  EvidenceInv'
<1>. PICK n : n = job[w].record
  OBVIOUS
<1>1. n \in ChangeId /\ RecordFits(w) /\ pc[w] \in Applying
  BY OwnRecord DEF ApplyFailed, FailedAfterCommit, RestoreFailed, HasRecord, Applying
<1>2. CASE ApplyFailed(w)
  <2>. PICK nothing \in BOOLEAN :
         /\ nothing = (diffCatalogs(row[n].checkpoint, live) = {})
         /\ row' = [row EXCEPT ![n] =
              closed(n, IF nothing THEN "failed" ELSE "partially_applied")]
         /\ Leave(w) \/ CloseFailing(w)
    BY <1>2 DEF ApplyFailed
  <2>. PICK status : status = IF nothing THEN "failed" ELSE "partially_applied"
    OBVIOUS
  <2>1. \E s, j : Goto(w, s, j) /\ s \notin {"working", "verifying"}
    BY DEF CloseFailing, Leave
  <2>2. pc[w] = "working" /\ UNCHANGED live
    BY <1>2 DEF ApplyFailed
  <2>. QED  BY <1>1, <2>1, <2>2, ClosedEvidence
<1>3. CASE FailedAfterCommit(w) \/ RestoreFailed(w)
  <2>1. row[n].kind = "recovery"
    <3>1. job[w].change # NoChange
      BY <1>3, OwnJob DEF FailedAfterCommit, RestoreFailed, Base, StepFits, Claiming,
                          ChangeId, NoChange
    <3>. QED  BY <1>1, <3>1 DEF RecordFits, HasRecord, Applying
  <2>2. \E s, j : Goto(w, s, j) /\ s \notin {"working", "verifying"}
    BY <1>3 DEF FailedAfterCommit, RestoreFailed, Leave, LeaveRecord
  <2>3. PICK status \in {"failed", "partially_applied"} :
          row' = [row EXCEPT ![n] = closed(n, status)]
    BY <1>3 DEF FailedAfterCommit, RestoreFailed
  <2>4. UNCHANGED live
    BY <1>3 DEF FailedAfterCommit, RestoreFailed
  <2>. QED  BY <1>1, <2>1, <2>2, <2>3, <2>4, ClosedEvidence
<1>. QED  BY <1>2, <1>3

LEMMA VerifiedEvidence ==
  ASSUME Base, EvidenceInv, NEW w \in Worker, Verified(w)
  PROVE  EvidenceInv'
<1>. PICK n : n = job[w].record
  OBVIOUS
<1>. PICK status \in {"healthy", "verification_failed", "unverified"} :
       /\ row' = [row EXCEPT ![n] = [@ EXCEPT !.status = status, !.sealed = TRUE,
                                     !.confirmed = (status = "healthy"),
                                     !.late = FALSE]]
       /\ LeaveRecord(w, "settling", job[w]) \/ CloseFailing(w) \/ Leave(w)
  BY DEF Verified
<1>1. /\ n \in ChangeId /\ Holds(w) /\ ~row[n].sealed /\ RecordFits(w)
      /\ row[n] \in Row /\ EvidenceFits(n) /\ WorkFits(w) /\ pc[w] = "verifying"
  BY OwnRecord DEF Verified, HasRecord, EvidenceInv
<1>. PICK b \in BOOLEAN : b = (status = "healthy")
  OBVIOUS
<1>. PICK r : r = [row[n] EXCEPT !.status = status, !.sealed = TRUE,
                                 !.confirmed = b, !.late = FALSE]
  OBVIOUS
<1>2. row' = [row EXCEPT ![n] = r] /\ UNCHANGED live
  BY DEF Verified
<1>3. /\ r.sealed = TRUE /\ r.status = status /\ r.kind = row[n].kind
      /\ r.checkpoint = row[n].checkpoint /\ r.footprint = row[n].footprint
  BY <1>1 DEF Row
<1>. PICK s, j : Goto(w, s, j) /\ s \notin {"working", "verifying"}
  BY DEF LeaveRecord, CloseFailing, Leave
<1>4. /\ row'[n] = r /\ \A m \in ChangeId \ {n} : row'[m] = row[m]
      /\ pc'[w] = s
  BY <1>1, <1>2 DEF Goto, Base, TypeInv, TypeOK
<1>5. row[n].kind = "change" => job[w].change = NoChange
  BY <1>1 DEF RecordFits, HasRecord
<1>6. row[n].status = "verifying"
  BY <1>1 DEF RecordFits
<1>7. ASSUME row[n].kind = "change", NEW t \in Table \ r.footprint PROVE NeverOn(n, t)'
  <2>1. NeverOn(n, t)
    BY <1>1, <1>3, <1>5, <1>7 DEF WorkFits
  <2>. QED  BY <1>2, <1>3, <1>4, <2>1 DEF NeverOn
<1>8. EvidenceFits(n)'
  BY <1>1, <1>3, <1>4, <1>6, <1>7 DEF EvidenceFits
<1>9. WorkFits(w)'
  BY <1>4 DEF WorkFits
<1>10. Alone(w)
  BY <1>1, GotoAlone
<1>11. \A t \in Table : r.checkpoint[t] \subseteq live[t] \cup row[n].checkpoint[t]
  BY <1>3
<1>12. n \in ChangeId /\ row' = [row EXCEPT ![n] = r] /\ UNCHANGED live
  BY <1>1, <1>2
<1>. QED  BY <1>8, <1>9, <1>10, <1>11, <1>12, PutEvidence

LEMMA ReconcileOpenEvidence ==
  ASSUME Base, EvidenceInv, NEW w \in Worker, ReconcileOpen(w), Next
  PROVE  EvidenceInv'
<1>. PICK n : n = job[w].change
  OBVIOUS
<1>. PICK F : F = IF \A m \in Recorded : m <= n
                  THEN diffCatalogs(row[n].checkpoint, live) ELSE row[n].footprint
  OBVIOUS
<1>. PICK r : r = [row[n] EXCEPT !.status = "manual_intervention_required",
                                 !.late = FALSE, !.footprint = F]
  OBVIOUS
<1>1. row' = [row EXCEPT ![n] = IF row[n].status = job[w].from THEN r ELSE row[n]]
  BY Zenon DEF ReconcileOpen
<1>2. Leave(w) /\ lockAvailable(w) /\ UNCHANGED live
  BY DEF ReconcileOpen
<1>3. CASE n \in ChangeId /\ row[n].status = job[w].from
  <2>1. row[n] \in Row /\ RowFits(n) /\ row' = [row EXCEPT ![n] = r] /\ EvidenceFits(n)
    BY <1>1, <1>3, GetType DEF Base, TypeInv, RowsFit, EvidenceInv
  <2>2. row[n].status \in {"applying", "verifying"} /\ ~row[n].sealed
    <3>1. job[w].from \in InProgress
      BY OwnJob DEF ReconcileOpen, Base, StepFits
    <3>. QED  BY <1>3, <2>1, <3>1, ConstantsAssumption
              DEF ReconcileOpen, InProgress, RowFits
  <2>3. /\ ~r.sealed /\ r.status = "manual_intervention_required"
        /\ r.kind = row[n].kind /\ r.checkpoint = row[n].checkpoint
    BY <2>1, <2>2 DEF Row
  <2>4. row'[n] = r /\ pc'[w] = "idle"
    BY <1>2, <1>3, <2>1 DEF Base, TypeInv, TypeOK, Leave, Goto
  <2>5. EvidenceFits(n)' /\ WorkFits(w)'
    BY <2>1, <2>2, <2>3, <2>4 DEF EvidenceFits, WorkFits
  <2>6. Alone(w)
    BY <1>2, GotoAlone DEF Leave
  <2>. QED  BY <1>2, <1>3, <2>1, <2>3, <2>5, <2>6, PutEvidence
<1>4. CASE ~ (n \in ChangeId /\ row[n].status = job[w].from)
  <2>1. UNCHANGED row
    BY <1>1, <1>4 DEF Base, TypeInv, TypeOK
  <2>. QED  BY <1>2, <2>1, UnchangedMoves, SameEdges, StillOn, LeaveRests, CalmEvidence
            DEF Rests, HasRecord, Base, TypeInv
<1>. QED  BY <1>3, <1>4

-----------------------------------------------------------------------------
(* Steps that write to the catalog. *)

\* A change appears on a table through its own statement, or from a checkpoint.
LEMMA CatalogEvidence ==
  ASSUME Base, EvidenceInv, NEW w \in Worker, Alone(w), UNCHANGED row, WorkFits(w)',
         \A n \in ChangeId, t \in Table :
           (row[n].sealed \/ row[n].status = "unopened") /\ NeverOn(n, t) => n \notin live'[t]
  PROVE  EvidenceInv'
<1>1. ASSUME NEW n \in ChangeId PROVE EvidenceFits(n)'
  <2>1. ASSUME NEW t \in Table, row[n].sealed \/ row[n].status = "unopened"
        PROVE  NeverOn(n, t) => NeverOn(n, t)'
    BY <2>1 DEF NeverOn
  <2>2. EvidenceFits(n)
    BY DEF EvidenceInv
  <2>. QED  BY <2>1, <2>2 DEF EvidenceFits
<1>2. ASSUME NEW u \in Worker \ {w} PROVE WorkFits(u)'
  <2>1. pc'[u] \notin {"working", "verifying"}
    BY DEF Alone, Holds, HoldsAt, HasRecord, Applying
  <2>. QED  BY <2>1 DEF WorkFits
<1>. QED  BY <1>1, <1>2 DEF EvidenceInv

LEMMA RunStatementEvidence ==
  ASSUME Base, EvidenceInv, NEW w \in Worker, RunStatement(w)
  PROVE  EvidenceInv'
<1>. PICK n : n = job[w].record
  OBVIOUS
<1>. PICK t \in Table : live' = [live EXCEPT ![t] = @ \cup {n}]
  BY DEF RunStatement
<1>1. n \in ChangeId /\ Holds(w) /\ ~row[n].sealed /\ RecordFits(w) /\ WorkFits(w)
  BY OwnRecord DEF RunStatement, HasRecord, Applying, EvidenceInv
<1>2. pc[w] = "working" /\ UNCHANGED <<row, pc, job>>
  BY DEF RunStatement
<1>3. row[n].status = "applying"
  BY <1>1, <1>2 DEF RecordFits, Applying
<1>4. ASSUME NEW m \in ChangeId, NEW u \in Table, m # n, NeverOn(m, u)
      PROVE  m \notin live'[u]
  BY <1>4 DEF NeverOn, Base, TypeInv, TypeOK, Catalog
<1>5. Alone(w)
  BY <1>1, <1>2 DEF Alone, Base, OneAtATime
<1>6. WorkFits(w)'
  BY <1>1, <1>2 DEF WorkFits
<1>. QED  BY <1>1, <1>2, <1>3, <1>4, <1>5, <1>6, CatalogEvidence

LEMMA CommitRestoreEvidence ==
  ASSUME Base, EvidenceInv, NEW w \in Worker, CommitRestore(w)
  PROVE  EvidenceInv'
<1>. PICK c : c = job[w].change
  OBVIOUS
<1>1. c \in ChangeId /\ Holds(w)
  BY OwnJob, OwnRecord DEF CommitRestore, HasRecord, Applying, Base, StepFits, Claiming
<1>2. UNCHANGED row /\ Goto(w, "committed", job[w])
  BY DEF CommitRestore
<1>3. ASSUME NEW n \in ChangeId, NEW t \in Table, NeverOn(n, t) PROVE n \notin live'[t]
  BY <1>1, <1>3 DEF CommitRestore, NeverOn
<1>4. Alone(w)
  BY <1>1, <1>2, GotoAlone
<1>5. WorkFits(w)'
  BY <1>2 DEF WorkFits, Goto, Base, TypeInv, TypeOK
<1>. QED  BY <1>2, <1>3, <1>4, <1>5, CatalogEvidence

-----------------------------------------------------------------------------
(* The evidence holds, and a change that is owed a decision can be given one. *)

LEMMA EvidenceInit == Init => EvidenceInv
<1>. SUFFICES ASSUME Init PROVE EvidenceInv
  OBVIOUS
<1>1. ASSUME NEW n \in ChangeId PROVE EvidenceFits(n)
  BY <1>1 DEF Init, NoRow, EvidenceFits, NeverOn
<1>2. ASSUME NEW w \in Worker PROVE WorkFits(w)
  BY <1>2 DEF Init, WorkFits
<1>. QED  BY <1>1, <1>2 DEF EvidenceInv

LEMMA EvidenceStep ==
  ASSUME Base, EvidenceInv, [Next]_vars
  PROVE  EvidenceInv'
<1>1. CASE UNCHANGED vars
  BY <1>1, UnchangedMoves, SameEdges, StillOn, CalmEvidence DEF vars
<1>2. ASSUME NEW w \in Worker, Begin(w) \/ RunStatement(w), Next PROVE EvidenceInv'
  BY <1>2, OpenChangeEvidence, MovingEvidence, RunStatementEvidence
  DEF Begin, Moving, Keeps
<1>3. ASSUME NEW w \in Worker, Continue(w), Next PROVE EvidenceInv'
  BY <1>3, WithdrawEvidence, AppliedEvidence, FailedEvidence, VerifiedEvidence,
     OpenRecordEvidence, CommitRestoreEvidence, MovingEvidence
  DEF Continue, Moving, LeavesOnly, Keeps
<1>4. ASSUME NEW w \in Worker, ReconcileBusy(w) \/ Reconcile(w) \/ Crash(w), Next
      PROVE  EvidenceInv'
  BY <1>4, ReconcileOpenEvidence, MovingEvidence DEF Reconcile, Moving, LeavesOnly
<1>. QED  BY <1>1, <1>2, <1>3, <1>4, MovingEvidence DEF Next

\* What rows give evidence of, in every reachable state: a sealed change is on no
\* table outside its footprint and no restore can put it there.
THEOREM EvidenceInvariant == Spec => []EvidenceInv
<1>1. LedgerInv /\ EvidenceInv /\ [Next]_vars => EvidenceInv'
  BY LedgerInvBase, EvidenceStep
<1>. QED  BY <1>1, EvidenceInit, LedgerInvariant, PTL DEF Spec

\* A change that is owed a decision can be restored or kept by a person: its
\* evidence was sealed when it closed, whatever died since.
THEOREM OwedIsAnswerable == Spec => []OwedHasExit
<1>1. EvidenceInv => OwedHasExit
  <2>. SUFFICES ASSUME EvidenceInv, NEW n \in Recorded, row[n].kind = "change",
                       row[n].status \in RECOVERY_OWED, row[n].status \notin keepableFrom
                PROVE  Available(n, "manual")
    BY DEF OwedHasExit
  <2>1. row[n].status \in {"partially_applied", "verification_failed", "recovery_failed"}
    BY DEF RECOVERY_OWED, keepableFrom
  <2>2. EvidenceFits(n)
    BY DEF EvidenceInv, Recorded
  <2>3. row[n].sealed /\ row[n].footprint # {}
    BY <2>1, <2>2 DEF EvidenceFits
  <2>. QED  BY <2>3 DEF Available, restorableFrom
<1>. QED  BY <1>1, EvidenceInvariant, PTL

-----------------------------------------------------------------------------
(* Wholeness: a change that closed is in the catalog with all it did, or not *)
(* at all, and restores take it out and put it back.                         *)

LEMMA SealedWhole ==
  ASSUME Base, WholeInv, SealedStay, NEW n \in ChangeId, row[n].sealed,
         row[n].kind = "change" => InForce(n)' \/ Gone(n)'
  PROVE  RowWhole(n)'
<1>1. /\ row'[n].sealed /\ SameRecord(n) /\ RowWhole(n) /\ RowFits(n)
      /\ row[n].kind \in {"change", "recovery"}
  BY GetType DEF SealedStay, WholeInv, Base, RowsFit, TypeInv, Row
<1>2. CASE row[n].kind = "change"
  BY <1>1, <1>2 DEF SameRecord, RowWhole
<1>3. CASE row[n].kind = "recovery"
  <2>. PICK m : m = row[n].recoversId
    OBVIOUS
  <2>1. row[m].sealed /\ m \in ChangeId
    BY <1>1, <1>3 DEF RowFits, Restorable
  <2>2. SameRecord(m) /\ (TellsAll(n, m) => TellsAll(n, m)')
    BY <1>1, <2>1 DEF SealedStay, SameRecord, TellsAll
  <2>. QED  BY <1>1, <1>3, <2>2 DEF SameRecord, RowWhole
<1>. QED  BY <1>1, <1>2, <1>3

\* Steps at which rows only move.
LEMMA CalmWhole ==
  ASSUME Base, WholeInv, RowsMove, SameOn, Rests
  PROVE  WholeInv'
<1>1. SealedStay /\ \A n \in ChangeId : SameRecord(n) /\ row'[n].sealed = row[n].sealed
  BY RowsMoveRecords DEF RowsMove, Moves
<1>0. ASSUME NEW n \in ChangeId PROVE (InForce(n) => InForce(n)') /\ (Gone(n) => Gone(n)')
  <2>1. row[n].footprint \subseteq Table
    BY GetType DEF Base, TypeInv, Row
  <2>. QED  BY <1>1, <2>1 DEF SameRecord, SameOn, InForce, Gone
<1>2. ASSUME NEW n \in ChangeId PROVE RowWhole(n)'
  <2>1. CASE row[n].sealed
    <3>1. row[n].kind = "change" => InForce(n)' \/ Gone(n)'
      BY <1>0, <2>1 DEF WholeInv, RowWhole
    <3>. QED  BY <1>1, <2>1, <3>1, SealedWhole
  <2>2. CASE ~row[n].sealed
    BY <1>1, <2>2 DEF RowWhole
  <2>. QED  BY <2>1, <2>2
<1>3. ASSUME NEW u \in Worker PROVE CallWhole(u)'
  <2>1. CASE pc'[u] \notin HasRecord
    BY <2>1 DEF CallWhole, HasRecord, Applying
  <2>2. CASE pc'[u] \in HasRecord
    <3>. PICK c : c = job[u].change
      OBVIOUS
    <3>. PICK r : r = job[u].record
      OBVIOUS
    <3>1. /\ pc'[u] = pc[u] /\ job'[u] = job[u] /\ CallWhole(u)
          /\ r \in ChangeId /\ SameRecord(r)
      BY <1>1, <2>2, OwnRecord DEF Rests, WholeInv
    <3>2. c # NoChange => c \in ChangeId /\ SameRecord(c)
      BY <1>1, OwnJob DEF Base, Job
    <3>3. pc[u] = "committed" => c # NoChange
      BY OwnJob DEF Base, StepFits, Claiming, ChangeId, NoChange
    <3>4. c # NoChange => (TellsAll(r, c) => TellsAll(r, c)')
      BY <3>1, <3>2 DEF TellsAll, SameRecord
    <3>5. pc[u] = "committed" => CallWhole(u)'
      BY <1>0, <3>1, <3>2, <3>3 DEF CallWhole, SameRecord
    <3>6. pc[u] = "verifying" => CallWhole(u)'
      BY <1>0, <3>1, <3>2, <3>4 DEF CallWhole, SameRecord
    <3>. QED  BY <3>1, <3>5, <3>6 DEF CallWhole
  <2>. QED  BY <2>1, <2>2
<1>. QED  BY <1>2, <1>3 DEF WholeInv

\* Call w, alone under the lock, writes row n, which is not sealed yet.
Writes(w, n) ==
  /\ Alone(w) /\ SealedStay /\ UNCHANGED live
  /\ n \in ChangeId /\ ~row[n].sealed /\ \A m \in ChangeId \ {n} : row'[m] = row[m]
  /\ row'[n].sealed /\ row'[n].kind = "change" => InForce(n)'
  /\ RowWhole(n)' /\ CallWhole(w)'

LEMMA OthersWhole ==
  ASSUME NEW w \in Worker, Alone(w)
  PROVE  \A u \in Worker \ {w} : CallWhole(u)'
BY DEF Alone, Holds, HoldsAt, HasRecord, Applying, CallWhole

LEMMA WritesWhole ==
  ASSUME Base, WholeInv, NEW w \in Worker, NEW n, Writes(w, n)
  PROVE  WholeInv'
<1>1. ASSUME NEW m \in ChangeId \ {n} PROVE RowWhole(m)'
  <2>1. CASE row[m].sealed
    <3>1. row[m].kind = "change" => InForce(m)' \/ Gone(m)'
      BY <2>1 DEF Writes, WholeInv, RowWhole, InForce, Gone
    <3>. QED  BY <2>1, <3>1, SealedWhole DEF Writes
  <2>2. CASE ~row[m].sealed
    BY <2>2 DEF Writes, RowWhole
  <2>. QED  BY <2>1, <2>2
<1>2. \A u \in Worker : CallWhole(u)'
  BY OthersWhole DEF Writes
<1>. QED  BY <1>1, <1>2 DEF Writes, WholeInv

-----------------------------------------------------------------------------
(* Which calls write which rows. *)

\* A row that is opened or withdrawn.
LEMMA UnsealedWrites ==
  ASSUME Base, NEW w \in Worker, NEW s, NEW j, Goto(w, s, j), Holds(w) \/ lockAvailable(w),
         s \notin {"committed", "verifying"},
         NEW n \in ChangeId, ~row[n].sealed, NEW r \in Row, RowSound(r), ~r.sealed,
         row' = [row EXCEPT ![n] = r], UNCHANGED live
  PROVE  Writes(w, n)
<1>1. SealedStay /\ row'[n] = r /\ \A m \in ChangeId \ {n} : row'[m] = row[m]
  BY PutRow DEF Base, TypeInv, TypeOK
<1>2. pc'[w] = s
  BY DEF Goto, Base, TypeInv, TypeOK
<1>. QED  BY <1>1, <1>2, GotoAlone DEF Writes, RowWhole, CallWhole

LEMMA OpensWrite ==
  ASSUME Base, NEW w \in Worker, OpenChange(w) \/ OpenRecord(w)
  PROVE  \E n : Writes(w, n)
<1>1. CASE OpenChange(w)
  <2>. PICK n \in ChangeId :
         /\ NextId(n)
         /\ row' = [row EXCEPT ![n] = allocateRow("change", NoChange)]
         /\ Goto(w, "working", [NoJob EXCEPT !.record = n])
    BY <1>1 DEF OpenChange
  <2>. PICK r : r = allocateRow("change", NoChange)
    OBVIOUS
  <2>1. lockAvailable(w) /\ UNCHANGED live
    BY <1>1 DEF OpenChange
  <2>2. r \in Row /\ RowSound(r) /\ ~r.sealed
    BY NewRow
  <2>3. row' = [row EXCEPT ![n] = r] /\ ~row[n].sealed
    BY UnopenedUnsealed
  <2>4. \E s, j : Goto(w, s, j) /\ s \notin {"committed", "verifying"}
    OBVIOUS
  <2>. QED  BY <2>1, <2>2, <2>3, <2>4, UnsealedWrites
<1>2. CASE OpenRecord(w)
  <2>. PICK c : c = job[w].change
    OBVIOUS
  <2>. PICK n \in ChangeId :
         /\ NextId(n)
         /\ row' = [row EXCEPT ![n] = allocateRow("recovery", c)]
         /\ Goto(w, "restoring", [job[w] EXCEPT !.record = n])
    BY <1>2 DEF OpenRecord
  <2>1. lockAvailable(w) /\ UNCHANGED live
    BY <1>2 DEF OpenRecord
  <2>2. c \in {NoChange} \cup ChangeId /\ Restorable(c)
    <3>1. c \in ChangeId /\ c # NoChange
      BY <1>2, OwnJob DEF OpenRecord, Base, StepFits, Claiming, ChangeId, NoChange
    <3>. QED  BY <1>2, <3>1, OwnChange DEF OpenRecord, Deciding
  <2>. PICK r : r = allocateRow("recovery", c)
    OBVIOUS
  <2>3. r \in Row /\ RowSound(r) /\ ~r.sealed
    BY <2>2, NewRow
  <2>4. row' = [row EXCEPT ![n] = r] /\ ~row[n].sealed
    BY UnopenedUnsealed
  <2>5. \E s, j : Goto(w, s, j) /\ s \notin {"committed", "verifying"}
    OBVIOUS
  <2>. QED  BY <2>1, <2>3, <2>4, <2>5, UnsealedWrites
<1>. QED  BY <1>1, <1>2

LEMMA WithdrawsWrite ==
  ASSUME Base, NEW w \in Worker, DiscardChange(w) \/ RefuseRestore(w)
  PROVE  \E n : Writes(w, n)
<1>. PICK n : n = job[w].record
  OBVIOUS
<1>1. n \in ChangeId /\ Holds(w) /\ ~row[n].sealed
  BY OwnRecord DEF DiscardChange, RefuseRestore, HasRecord, Applying
<1>2. row' = [row EXCEPT ![n] = [NoRow EXCEPT !.status = "withdrawn"]] /\ UNCHANGED live
  BY DEF DiscardChange, RefuseRestore
<1>3. \E s, j : Goto(w, s, j) /\ s \notin {"committed", "verifying"}
  BY DEF DiscardChange, RefuseRestore, Leave, LeaveRecord
<1>. QED  BY <1>1, <1>2, <1>3, WithdrawnRow, UnsealedWrites

\* What the work of a change has made of the catalog carries the change.
LEMMA WorkShows ==
  ASSUME Base, EvidenceInv, NEW w \in Worker, pc[w] = "working", NEW n, n = job[w].record,
         NEW t \in diffCatalogs(row[n].checkpoint, live)
  PROVE  n \in live[t]
<1>1. /\ n \in ChangeId /\ RecordFits(w) /\ job[w].change = NoChange
      /\ row[n].kind = "change"
  BY OwnRecord, OwnJob DEF RecordFits, HasRecord, Applying, StepFits, Base
<1>2. t \in Table /\ row[n].checkpoint[t] # live[t]
  BY DEF diffCatalogs
<1>3. live[t] \ {n} = row[n].checkpoint[t] \ {n} /\ n \notin row[n].checkpoint[t]
  BY <1>1, <1>2 DEF RecordFits, Subject, EvidenceInv, EvidenceFits
<1>. SUFFICES ASSUME n \notin live[t] PROVE FALSE
  OBVIOUS
<1>4. \A x : x \in live[t] <=> x \in row[n].checkpoint[t]
  BY <1>3
<1>. QED  BY <1>2, <1>4

\* What a restore that has committed made of it no longer shows the change, where
\* its checkpoint does.
LEMMA UndoneShows ==
  ASSUME Base, WholeInv, NEW w \in Worker, pc[w] = "committed", NEW c, c = job[w].change,
         NEW r, r = job[w].record, row[c].kind = "change"
  PROVE  \A t \in row[c].footprint : /\ t \in diffCatalogs(row[r].checkpoint, live)
                                      /\ c \in row[r].checkpoint[t]
<1>1. c \in ChangeId
  BY OwnJob DEF Base, StepFits, Claiming
<1>2. row[c].footprint \subseteq Table
  BY <1>1, GetType DEF Base, TypeInv, Row
<1>3. Gone(c) /\ \A t \in row[c].footprint : c \in row[r].checkpoint[t]
  BY DEF WholeInv, CallWhole
<1>. QED  BY <1>2, <1>3 DEF Gone, diffCatalogs

\* The change of a restore, and its record.
LEMMA OwnRestore ==
  ASSUME Base, NEW w \in Worker, pc[w] \in HasRecord, job[w].change # NoChange
  PROVE  LET c == job[w].change
             r == job[w].record IN
         /\ c \in ChangeId /\ Restorable(c) /\ row[c].sealed /\ row[c].kind \in {"change", "recovery"}
         /\ row[r].kind = "recovery" /\ row[r].recoversId = c
<1>1. job[w].change \in ChangeId /\ pc[w] \notin Deciding
  BY OwnJob DEF Base, Job, HasRecord, Deciding
<1>. QED  BY <1>1, OwnRecord, OwnChange, GetType
          DEF Restorable, RecordFits, Base, TypeInv, Row

LEMMA AppliedWrites ==
  ASSUME Base, EvidenceInv, WholeInv, NEW w \in Worker, Applied(w)
  PROVE  \E n : Writes(w, n)
<1>. PICK n : n = job[w].record
  OBVIOUS
<1>. PICK c : c = job[w].change
  OBVIOUS
<1>. PICK r : r = withEvidence(n, "verifying")
  OBVIOUS
<1>1. /\ n \in ChangeId /\ Holds(w) /\ ~row[n].sealed /\ pc[w] \in {"working", "committed"}
      /\ pc[w] \in HasRecord
  BY OwnRecord DEF Applied, HasRecord, Applying
<1>2. /\ r \in Row /\ RowSound(r) /\ ~r.sealed
      /\ r.checkpoint = row[n].checkpoint
      /\ r.footprint = diffCatalogs(row[n].checkpoint, live)
  BY <1>1, EvidenceRow DEF ChangeStatus
<1>3. row' = [row EXCEPT ![n] = r] /\ Goto(w, "verifying", job[w]) /\ UNCHANGED live
  BY DEF Applied
<1>4. /\ SealedStay /\ row'[n] = r /\ \A m \in ChangeId \ {n} : row'[m] = row[m]
      /\ pc'[w] = "verifying" /\ job'[w] = job[w]
  BY <1>1, <1>2, <1>3, PutRow DEF Goto, Base, TypeInv, TypeOK
<1>5. Alone(w)
  BY <1>1, <1>3, GotoAlone
<1>6. CASE c = NoChange
  <2>1. pc[w] = "working"
    <3>1. pc[w] = "committed" => job[w].change \in ChangeId
      BY OwnJob DEF Base, StepFits, Claiming
    <3>. QED  BY <1>1, <1>6, <3>1 DEF ChangeId, NoChange
  <2>2. \A t \in r.footprint : n \in live[t]
    BY <1>2, <2>1, WorkShows
  <2>3. CallWhole(w)'
    BY <1>3, <1>4, <1>6, <2>2 DEF CallWhole, InForce
  <2>. QED  BY <1>1, <1>2, <1>3, <1>4, <1>5, <2>3 DEF Writes, RowWhole
<1>7. CASE c # NoChange
  <2>1. c \in ChangeId /\ row[c].sealed /\ pc[w] = "committed"
    BY <1>1, <1>7, OwnRestore, OwnJob DEF Base, StepFits
  <2>2. row'[c] = row[c]
    BY <1>1, <1>4, <2>1
  <2>3. row[c].kind = "change" => TellsAll(n, c)'
    BY <1>2, <1>4, <2>1, <2>2, UndoneShows DEF TellsAll
  <2>4. CallWhole(w)'
    BY <1>4, <1>7, <2>2, <2>3 DEF CallWhole
  <2>. QED  BY <1>1, <1>2, <1>3, <1>4, <1>5, <2>4 DEF Writes, RowWhole
<1>. QED  BY <1>6, <1>7

\* A row that closes on a failure.
LEMMA ClosedWrites ==
  ASSUME Base, NEW w \in Worker, pc[w] \in Applying, NEW n, n = job[w].record,
         NEW status \in {"failed", "partially_applied"},
         row' = [row EXCEPT ![n] = closed(n, status)], UNCHANGED live,
         NEW s, NEW j, Goto(w, s, j), s \notin HasRecord,
         row[n].kind = "change" =>
           \A t \in diffCatalogs(row[n].checkpoint, live) : n \in live[t],
         NEW m, m = row[n].recoversId,
         row[n].kind = "recovery" => m \in ChangeId /\ row[m].sealed,
         row[n].kind = "recovery" /\ row[m].kind = "change"
           /\ diffCatalogs(row[n].checkpoint, live) # {} =>
             \A t \in row[m].footprint : /\ t \in diffCatalogs(row[n].checkpoint, live)
                                         /\ m \in row[n].checkpoint[t]
  PROVE  Writes(w, n)
<1>. PICK r : r = closed(n, status)
  OBVIOUS
<1>1. n \in ChangeId /\ Holds(w) /\ ~row[n].sealed
  BY OwnRecord DEF HasRecord, Applying
<1>2. /\ r \in Row /\ RowSound(r) /\ r.sealed /\ r.kind = row[n].kind
      /\ r.recoversId = m /\ r.checkpoint = row[n].checkpoint
      /\ r.footprint = diffCatalogs(row[n].checkpoint, live)
  BY <1>1, ClosedRow
<1>3. /\ SealedStay /\ row'[n] = r /\ \A u \in ChangeId \ {n} : row'[u] = row[u]
      /\ pc'[w] = s
  BY <1>1, <1>2, PutRow DEF Goto, Base, TypeInv, TypeOK
<1>4. Alone(w)
  BY <1>1, GotoAlone
<1>5. row'[n].kind = "change" => InForce(n)'
  BY <1>2, <1>3 DEF InForce
<1>6. CallWhole(w)'
  BY <1>3 DEF CallWhole, HasRecord, Applying
<1>7. RowWhole(n)'
  <2>1. CASE row[n].kind = "recovery"
    <3>1. row'[m] = row[m] /\ m # n
      BY <1>1, <1>3, <2>1
    <3>2. r.footprint # {} /\ row[m].kind = "change" => TellsAll(n, m)'
      BY <1>2, <1>3, <2>1, <3>1 DEF TellsAll
    <3>. QED  BY <1>2, <1>3, <2>1, <3>1, <3>2 DEF RowWhole
  <2>2. CASE row[n].kind # "recovery"
    BY <1>2, <1>3, <1>5, <2>2 DEF RowWhole
  <2>. QED  BY <2>1, <2>2
<1>. QED  BY <1>1, <1>3, <1>4, <1>5, <1>6, <1>7 DEF Writes

LEMMA FailuresWrite ==
  ASSUME Base, EvidenceInv, WholeInv, NEW w \in Worker,
         ApplyFailed(w) \/ FailedAfterCommit(w) \/ RestoreFailed(w)
  PROVE  \E n : Writes(w, n)
<1>. PICK n : n = job[w].record
  OBVIOUS
<1>. PICK m : m = row[n].recoversId
  OBVIOUS
<1>1. n \in ChangeId /\ RecordFits(w) /\ pc[w] \in Applying
  BY OwnRecord DEF ApplyFailed, FailedAfterCommit, RestoreFailed, HasRecord, Applying
<1>2. UNCHANGED live /\ \E s, j : Goto(w, s, j) /\ s \notin HasRecord
  BY DEF ApplyFailed, FailedAfterCommit, RestoreFailed, CloseFailing, Leave, LeaveRecord,
         HasRecord, Applying
<1>3. CASE ApplyFailed(w)
  <2>. PICK nothing \in BOOLEAN :
         /\ nothing = (diffCatalogs(row[n].checkpoint, live) = {})
         /\ row' = [row EXCEPT ![n] =
              closed(n, IF nothing THEN "failed" ELSE "partially_applied")]
    BY <1>3 DEF ApplyFailed
  <2>. PICK status : status = IF nothing THEN "failed" ELSE "partially_applied"
    OBVIOUS
  <2>1. pc[w] = "working" /\ row[n].kind = "change"
    BY <1>1, <1>3, OwnJob DEF ApplyFailed, RecordFits, HasRecord, Base, StepFits
  <2>2. \A t \in diffCatalogs(row[n].checkpoint, live) : n \in live[t]
    BY <2>1, WorkShows
  <2>. QED  BY <1>1, <1>2, <2>1, <2>2, ClosedWrites
<1>4. CASE FailedAfterCommit(w) \/ RestoreFailed(w)
  <2>. PICK status \in {"failed", "partially_applied"} :
         row' = [row EXCEPT ![n] = closed(n, status)]
    BY <1>4 DEF FailedAfterCommit, RestoreFailed
  <2>1. job[w].change # NoChange /\ pc[w] \in {"committed", "restoring"}
    BY <1>4, OwnJob DEF FailedAfterCommit, RestoreFailed, Base, StepFits, Claiming,
                        ChangeId, NoChange
  <2>2. row[n].kind = "recovery" /\ m = job[w].change /\ m \in ChangeId /\ row[m].sealed
    BY <1>1, <2>1, OwnRestore DEF HasRecord
  <2>3. pc[w] = "restoring" => diffCatalogs(row[n].checkpoint, live) = {}
    BY <1>1 DEF RecordFits, diffCatalogs
  <2>4. row[m].kind = "change" /\ diffCatalogs(row[n].checkpoint, live) # {} =>
          \A t \in row[m].footprint : /\ t \in diffCatalogs(row[n].checkpoint, live)
                                      /\ m \in row[n].checkpoint[t]
    BY <2>1, <2>2, <2>3, UndoneShows
  <2>. QED  BY <1>1, <1>2, <2>2, <2>4, ClosedWrites
<1>. QED  BY <1>3, <1>4

LEMMA VerifiedWrites ==
  ASSUME Base, WholeInv, NEW w \in Worker, Verified(w)
  PROVE  \E n : Writes(w, n)
<1>. PICK n : n = job[w].record
  OBVIOUS
<1>. PICK c : c = job[w].change
  OBVIOUS
<1>. PICK status \in {"healthy", "verification_failed", "unverified"} :
       /\ row' = [row EXCEPT ![n] = [@ EXCEPT !.status = status, !.sealed = TRUE,
                                     !.confirmed = (status = "healthy"),
                                     !.late = FALSE]]
       /\ LeaveRecord(w, "settling", job[w]) \/ CloseFailing(w) \/ Leave(w)
  BY DEF Verified
<1>1. /\ n \in ChangeId /\ Holds(w) /\ ~row[n].sealed /\ RecordFits(w) /\ RowFits(n)
      /\ row[n] \in Row /\ pc[w] = "verifying" /\ pc[w] \in HasRecord /\ CallWhole(w)
  BY OwnRecord DEF Verified, HasRecord, WholeInv
<1>. PICK b \in BOOLEAN : b = (status = "healthy")
  OBVIOUS
<1>. PICK r : r = [row[n] EXCEPT !.status = status, !.sealed = TRUE,
                                 !.confirmed = b, !.late = FALSE]
  OBVIOUS
<1>2. row' = [row EXCEPT ![n] = r] /\ UNCHANGED live
  BY DEF Verified
<1>3. /\ r \in Row /\ r.sealed = TRUE /\ r.status = status /\ r.started = row[n].started
      /\ r.recoveryClaim = row[n].recoveryClaim
      /\ r.kind = row[n].kind /\ r.recoversId = row[n].recoversId
      /\ r.checkpoint = row[n].checkpoint /\ r.footprint = row[n].footprint
  <2>1. status \in RowStatus
    BY DEF RowStatus, ChangeStatus
  <2>. QED  BY <1>1, <2>1 DEF Row
<1>4. RowSound(r)
  BY <1>1, <1>3 DEF RowFits, RowSound, Unsettled
<1>. PICK s, j : Goto(w, s, j) /\ s \notin HasRecord
  BY DEF LeaveRecord, CloseFailing, Leave, HasRecord, Applying
<1>5. /\ SealedStay /\ row'[n] = r /\ \A m \in ChangeId \ {n} : row'[m] = row[m]
      /\ pc'[w] = s
  BY <1>1, <1>2, <1>3, <1>4, PutRow DEF Goto, Base, TypeInv, TypeOK
<1>6. Alone(w) /\ CallWhole(w)'
  BY <1>1, <1>5, GotoAlone DEF CallWhole, HasRecord, Applying
<1>7. CASE c = NoChange
  <2>1. row[n].kind = "change" /\ InForce(n)
    BY <1>1, <1>7 DEF RecordFits, CallWhole
  <2>2. InForce(n)'
    BY <1>2, <1>3, <1>5, <2>1 DEF InForce
  <2>3. RowWhole(n)'
    BY <1>3, <1>5, <2>1, <2>2 DEF RowWhole
  <2>. QED  BY <1>1, <1>2, <1>5, <1>6, <2>2, <2>3 DEF Writes
<1>8. CASE c # NoChange
  <2>1. c \in ChangeId /\ row[c].sealed /\ row[n].kind = "recovery" /\ row[n].recoversId = c
    BY <1>1, <1>8, OwnRestore
  <2>2. row'[c] = row[c]
    BY <1>1, <1>5, <2>1
  <2>3. row[c].kind = "change" => TellsAll(n, c)'
    BY <1>1, <1>3, <1>5, <1>8, <2>2 DEF CallWhole, TellsAll
  <2>4. RowWhole(n)'
    BY <1>3, <1>5, <2>1, <2>2, <2>3 DEF RowWhole
  <2>. QED  BY <1>1, <1>2, <1>3, <1>5, <1>6, <2>1, <2>4 DEF Writes
<1>. QED  BY <1>7, <1>8

\* A row given up by the reconciler has not been sealed.
LEMMA ReconcileOpenWrites ==
  ASSUME Base, NEW w \in Worker, ReconcileOpen(w)
  PROVE  UNCHANGED row \/ \E n : Writes(w, n)
<1>. PICK n : n = job[w].change
  OBVIOUS
<1>. PICK F : F = IF \A m \in Recorded : m <= n
                  THEN diffCatalogs(row[n].checkpoint, live) ELSE row[n].footprint
  OBVIOUS
<1>. PICK r : r = [row[n] EXCEPT !.status = "manual_intervention_required",
                                 !.late = FALSE, !.footprint = F]
  OBVIOUS
<1>1. row' = [row EXCEPT ![n] = IF row[n].status = job[w].from THEN r ELSE row[n]]
  BY Zenon DEF ReconcileOpen
<1>2. Goto(w, "idle", NoJob) /\ lockAvailable(w) /\ UNCHANGED live
  BY DEF ReconcileOpen, Leave
<1>3. CASE n \in ChangeId /\ row[n].status = job[w].from
  <2>1. row[n] \in Row /\ RowFits(n) /\ row' = [row EXCEPT ![n] = r]
    BY <1>1, <1>3, GetType DEF Base, TypeInv, RowsFit
  <2>2. row[n].status \in {"applying", "verifying"} /\ ~row[n].sealed
    <3>1. job[w].from \in InProgress
      BY OwnJob DEF ReconcileOpen, Base, StepFits
    <3>. QED  BY <1>3, <2>1, <3>1, ConstantsAssumption
              DEF ReconcileOpen, InProgress, RowFits
  <2>3. F \in SUBSET Table /\ "manual_intervention_required" \in RowStatus
    BY <2>1 DEF Row, diffCatalogs, RowStatus, ChangeStatus
  <2>4. /\ r \in Row /\ ~r.sealed /\ r.status = "manual_intervention_required"
        /\ r.kind = row[n].kind /\ r.recoversId = row[n].recoversId
        /\ r.started = row[n].started /\ r.recoveryClaim = row[n].recoveryClaim
    BY <2>1, <2>2, <2>3 DEF Row
  <2>5. RowSound(r)
    BY <2>1, <2>4 DEF RowFits, RowSound
  <2>. QED  BY <1>2, <1>3, <2>1, <2>2, <2>4, <2>5, UnsealedWrites
<1>4. CASE ~ (n \in ChangeId /\ row[n].status = job[w].from)
  BY <1>1, <1>4 DEF Base, TypeInv, TypeOK
<1>. QED  BY <1>3, <1>4

-----------------------------------------------------------------------------
(* The steps that write to the catalog. *)

LEMMA CatalogWhole ==
  ASSUME Base, WholeInv, NEW w \in Worker, Alone(w), UNCHANGED row, CallWhole(w)',
         \A n \in ChangeId : row[n].sealed /\ row[n].kind = "change"
                               => InForce(n)' \/ Gone(n)'
  PROVE  WholeInv'
<1>1. SealedStay
  BY UnchangedMoves, RowsMoveRecords
<1>2. ASSUME NEW n \in ChangeId PROVE RowWhole(n)'
  BY <1>1, SealedWhole DEF RowWhole
<1>3. \A u \in Worker : CallWhole(u)'
  BY OthersWhole
<1>. QED  BY <1>2, <1>3 DEF WholeInv

\* A statement puts its own change on a table, which has not closed.
LEMMA RunStatementShows ==
  ASSUME Base, NEW w \in Worker, RunStatement(w), NEW n, n = job[w].record
  PROVE  /\ n \in ChangeId /\ ~row[n].sealed /\ Alone(w) /\ UNCHANGED <<row, pc, job>>
         /\ \E t \in Table : On(n)' = On(n) \cup {t}
         /\ \A m \in ChangeId \ {n}, t \in Table : m \in live'[t] <=> m \in live[t]
<1>1. n \in ChangeId /\ Holds(w) /\ ~row[n].sealed
  BY OwnRecord DEF RunStatement, HasRecord, Applying
<1>2. UNCHANGED <<row, pc, job>>
  BY DEF RunStatement
<1>3. Alone(w)
  BY <1>1, <1>2 DEF Alone, Base, OneAtATime
<1>. PICK t \in Table : live' = [live EXCEPT ![t] = @ \cup {n}]
  BY DEF RunStatement
<1>4. \A u \in Table : live'[u] = IF u = t THEN live[u] \cup {n} ELSE live[u]
  BY DEF Base, TypeInv, TypeOK, Catalog
<1>5. On(n)' = On(n) \cup {t}
  BY <1>4 DEF On
<1>. QED  BY <1>1, <1>2, <1>3, <1>4, <1>5

\* A restore that commits takes out all of the change it is about, or puts all of
\* it back, or there was nothing of it to restore.
LEMMA CommitSwitches ==
  ASSUME Base, EvidenceInv, WholeInv, NEW w \in Worker, CommitRestore(w),
         NEW c, c = job[w].change, NEW n, n = Subject(c)
  PROVE  /\ n \in ChangeId /\ row[n].sealed /\ row[n].kind = "change" /\ c \in ChangeId
         /\ \A m \in ChangeId \ {n}, t \in Table : m \in live'[t] <=> m \in live[t]
         /\ row[c].kind = "change" => c = n /\ InForce(n) /\ Gone(n)'
         /\ row[c].kind = "recovery" =>
              \/ \A t \in Table : live'[t] = live[t]
              \/ Gone(n) /\ InForce(n)'
<1>1. /\ pc[w] = "restoring" /\ UNCHANGED row /\ ~Conflict(c)
      /\ live' = [t \in Table |-> IF t \in row[c].footprint
                                  THEN row[c].checkpoint[t] ELSE live[t]]
  BY DEF CommitRestore
<1>2. c \in ChangeId /\ Restorable(c) /\ row[c].kind \in {"change", "recovery"}
  <2>1. job[w].change \in ChangeId /\ job[w].change # NoChange
    BY <1>1, OwnJob DEF Base, StepFits, Claiming, ChangeId, NoChange
  <2>. QED  BY <1>1, <2>1, OwnRestore DEF HasRecord, Applying
<1>3. n \in ChangeId /\ row[n].sealed /\ row[n].kind = "change"
  BY <1>2 DEF Restorable, Subject
<1>4. /\ row[c].footprint \subseteq Table /\ row[n].footprint \subseteq Table
      /\ EvidenceFits(n) /\ Exact(c) /\ RowWhole(c)
  BY <1>2, <1>3, GetType
  DEF Base, TypeInv, Row, EvidenceInv, RowsFit, Restorable, WholeInv
<1>5. \A m \in ChangeId \ {n}, t \in Table : m \in live'[t] <=> m \in live[t]
  <2>1. \A t \in Table : live'[t] \ {n} = live[t] \ {n}
    BY RestoreIsExact
  <2>. QED  BY <2>1
<1>6. \A t \in row[c].footprint :
        /\ live[t] = row[c].resultState[t] /\ live'[t] = row[c].checkpoint[t]
        /\ n \in row[c].resultState[t] <=> n \notin row[c].checkpoint[t]
  <2>. SUFFICES ASSUME NEW t \in row[c].footprint
                PROVE  /\ live[t] = row[c].resultState[t] /\ live'[t] = row[c].checkpoint[t]
                       /\ n \in row[c].resultState[t] <=> n \notin row[c].checkpoint[t]
    OBVIOUS
  <2>1. live[t] = row[c].resultState[t] /\ live'[t] = row[c].checkpoint[t]
    BY <1>1, <1>4 DEF Conflict
  <2>2. /\ row[c].checkpoint[t] # row[c].resultState[t]
        /\ row[c].checkpoint[t] \ {n} = row[c].resultState[t] \ {n}
    BY <1>4 DEF Exact
  <2>3. n \in row[c].resultState[t] <=> n \notin row[c].checkpoint[t]
    <3>. SUFFICES ASSUME ~ (n \in row[c].resultState[t] <=> n \notin row[c].checkpoint[t])
                  PROVE  FALSE
      OBVIOUS
    <3>1. \A x : x \in row[c].checkpoint[t] <=> x \in row[c].resultState[t]
      BY <2>2
    <3>. QED  BY <2>2, <3>1
  <2>. QED  BY <2>1, <2>3
<1>7. CASE row[c].kind = "change"
  <2>1. c = n
    BY <1>7 DEF Subject
  <2>2. InForce(n)
    BY <1>3, <1>4, <1>6, <2>1 DEF InForce, EvidenceFits
  <2>3. ASSUME NEW t \in Table PROVE n \notin live'[t]
    <3>1. CASE t \in row[n].footprint
      BY <1>3, <1>4, <1>6, <2>1, <3>1 DEF EvidenceFits
    <3>2. CASE t \notin row[n].footprint
      BY <1>1, <1>3, <1>4, <2>1, <3>2 DEF EvidenceFits, NeverOn
    <3>. QED  BY <3>1, <3>2
  <2>. QED  BY <1>2, <1>3, <1>5, <1>7, <2>1, <2>2, <2>3 DEF Gone
<1>8. CASE row[c].kind = "recovery"
  <2>1. n = row[c].recoversId /\ row[c].sealed
    BY <1>2, <1>8 DEF Restorable, Subject
  <2>2. CASE row[c].footprint = {}
    <3>1. \A t \in Table : live'[t] = live[t]
      BY <1>1, <2>2
    <3>. QED  BY <1>2, <1>3, <1>5, <1>8, <3>1
  <2>3. CASE row[c].footprint # {}
    <3>1. TellsAll(c, n)
      BY <1>3, <1>4, <1>8, <2>1, <2>3 DEF RowWhole
    <3>2. InForce(n)'
      BY <1>1, <1>6, <3>1 DEF InForce, TellsAll
    <3>3. ASSUME NEW t \in Table PROVE n \notin live[t]
      <4>1. CASE t \in row[n].footprint
        BY <1>6, <3>1, <4>1 DEF TellsAll
      <4>2. CASE t \notin row[n].footprint
        BY <1>3, <1>4, <4>2 DEF EvidenceFits, NeverOn
      <4>. QED  BY <4>1, <4>2
    <3>. QED  BY <1>2, <1>3, <1>5, <1>8, <3>2, <3>3 DEF Gone
  <2>. QED  BY <2>2, <2>3
<1>. QED  BY <1>2, <1>7, <1>8

LEMMA RunStatementWhole ==
  ASSUME Base, WholeInv, NEW w \in Worker, RunStatement(w)
  PROVE  WholeInv'
<1>. PICK n : n = job[w].record
  OBVIOUS
<1>1. /\ n \in ChangeId /\ ~row[n].sealed /\ Alone(w) /\ UNCHANGED <<row, pc, job>>
      /\ \A m \in ChangeId \ {n}, t \in Table : m \in live'[t] <=> m \in live[t]
  BY RunStatementShows
<1>2. ASSUME NEW m \in ChangeId, row[m].sealed, row[m].kind = "change"
      PROVE  InForce(m)' \/ Gone(m)'
  <2>1. row[m].footprint \subseteq Table /\ m # n /\ (InForce(m) \/ Gone(m))
    BY <1>1, <1>2, GetType DEF Base, TypeInv, Row, WholeInv, RowWhole
  <2>. QED  BY <1>1, <1>2, <2>1 DEF InForce, Gone
<1>3. CallWhole(w)'
  BY <1>1 DEF RunStatement, CallWhole
<1>. QED  BY <1>1, <1>2, <1>3, CatalogWhole

LEMMA CommitRestoreWhole ==
  ASSUME Base, EvidenceInv, WholeInv, NEW w \in Worker, CommitRestore(w)
  PROVE  WholeInv'
<1>. PICK c : c = job[w].change
  OBVIOUS
<1>. PICK n : n = Subject(c)
  OBVIOUS
<1>. PICK r : r = job[w].record
  OBVIOUS
<1>1. /\ n \in ChangeId /\ row[n].sealed /\ row[n].kind = "change" /\ c \in ChangeId
      /\ \A m \in ChangeId \ {n}, t \in Table : m \in live'[t] <=> m \in live[t]
      /\ row[c].kind = "change" => c = n /\ InForce(n) /\ Gone(n)'
      /\ row[c].kind = "recovery" =>
           \/ \A t \in Table : live'[t] = live[t]
           \/ Gone(n) /\ InForce(n)'
  BY CommitSwitches
<1>2. /\ UNCHANGED row /\ Goto(w, "committed", job[w]) /\ Holds(w)
      /\ pc[w] = "restoring" /\ RecordFits(w) /\ row[c].kind \in {"change", "recovery"}
  BY <1>1, OwnRecord, GetType DEF CommitRestore, HasRecord, Applying, Base, TypeInv, Row
<1>3. Alone(w) /\ pc'[w] = "committed" /\ job'[w] = job[w]
  BY <1>2, GotoAlone DEF Goto, Base, TypeInv, TypeOK
<1>4. ASSUME NEW m \in ChangeId, row[m].sealed, row[m].kind = "change"
      PROVE  InForce(m)' \/ Gone(m)'
  <2>1. row[m].footprint \subseteq Table /\ (InForce(m) \/ Gone(m))
    BY <1>4, GetType DEF Base, TypeInv, Row, WholeInv, RowWhole
  <2>2. (\A t \in Table : m \in live'[t] <=> m \in live[t]) => InForce(m)' \/ Gone(m)'
    BY <1>2, <2>1 DEF InForce, Gone
  <2>. QED  BY <1>1, <1>2, <1>4, <2>2
<1>5. CallWhole(w)'
  <2>1. ASSUME row[c].kind = "change", NEW t \in row[c].footprint
        PROVE  c \in row[r].checkpoint[t]
    BY <1>1, <1>2, <2>1 DEF RecordFits, InForce
  <2>. QED  BY <1>1, <1>2, <1>3, <2>1 DEF CallWhole
<1>. QED  BY <1>2, <1>3, <1>4, <1>5, CatalogWhole

-----------------------------------------------------------------------------
(* Every step is of one of four kinds; all of them keep changes whole.       *)

LEMMA ActionKinds ==
  ASSUME Base, EvidenceInv, WholeInv, [Next]_vars
  PROVE  \/ \E w \in Worker : Moving(w) \/ RunStatement(w) \/ CommitRestore(w)
         \/ \E w \in Worker, n \in ChangeId : ReadLate(w, n) \/ Writes(w, n)
         \/ ChangeOutside \/ \E n \in ChangeId : TimeIsUp(n)
         \/ UNCHANGED <<row, live>> /\ Rests
<1>0. \A w \in Worker : \A n : Writes(w, n) => n \in ChangeId
  BY DEF Writes
<1>1. CASE UNCHANGED vars
  BY <1>1 DEF vars, Rests
<1>2. ASSUME NEW w \in Worker, Begin(w) \/ RunStatement(w)
      PROVE  \/ Moving(w) \/ RunStatement(w) \/ \E n : Writes(w, n)
  BY <1>2, OpensWrite DEF Begin, Moving, Keeps
<1>3. ASSUME NEW w \in Worker, Continue(w)
      PROVE  \/ Moving(w) \/ CommitRestore(w) \/ \E n : Writes(w, n)
  BY <1>3, OpensWrite, WithdrawsWrite, AppliedWrites, FailuresWrite, VerifiedWrites
  DEF Continue, Moving, LeavesOnly, Keeps
<1>4. ASSUME NEW w \in Worker, ReconcileBusy(w) \/ Reconcile(w) \/ Crash(w)
      PROVE  \/ Moving(w)
             \/ UNCHANGED <<row, live>> /\ Rests
             \/ \E n : Writes(w, n)
  <2>1. CASE ReconcileOpen(w) /\ UNCHANGED row
    BY <2>1, LeaveRests DEF ReconcileOpen, Base, TypeInv
  <2>. QED  BY <1>4, <2>1, ReconcileOpenWrites DEF Reconcile, Moving, LeavesOnly
<1>. QED  BY <1>0, <1>1, <1>2, <1>3, <1>4 DEF Next

LEMMA StepKinds ==
  ASSUME Base, EvidenceInv, WholeInv, [Next]_vars
  PROVE  \/ RowsMove /\ SameOn /\ Rests
         \/ \E w \in Worker, n \in ChangeId : Writes(w, n)
         \/ \E w \in Worker : RunStatement(w) \/ CommitRestore(w)
<1>1. CASE UNCHANGED <<row, live>> /\ Rests
  BY <1>1, UnchangedMoves, StillOn
<1>. QED  BY <1>1, ActionKinds, MovingCalm, ReadLateCalm, BystandersCalm

LEMMA WholeInit == Init => WholeInv
<1>. SUFFICES ASSUME Init PROVE WholeInv
  OBVIOUS
<1>1. \A n \in ChangeId : RowWhole(n)
  BY DEF Init, NoRow, RowWhole
<1>2. \A w \in Worker : CallWhole(w)
  BY DEF Init, CallWhole
<1>. QED  BY <1>1, <1>2 DEF WholeInv

LEMMA WholeStep ==
  ASSUME Base, EvidenceInv, WholeInv, [Next]_vars
  PROVE  WholeInv'
BY StepKinds, CalmWhole, WritesWhole, RunStatementWhole, CommitRestoreWhole

\* A change that closed is in the catalog with all it did, or not at all, in every
\* reachable state, whatever died and however slow or stale a process was.
THEOREM WholeInvariant == Spec => []WholeInv
<1>1. LedgerInv /\ EvidenceInv /\ WholeInv /\ [Next]_vars => WholeInv'
  BY LedgerInvBase, WholeStep
<1>. QED  BY <1>1, WholeInit, LedgerInvariant, EvidenceInvariant, PTL DEF Spec

-----------------------------------------------------------------------------
(* The refinement of ChangeHistory. *)

\* What ChangeHistory sees.
MadeByAll == [n \in ChangeId |-> Made(n)]
OnByAll == [n \in ChangeId |-> On(n)]

LEMMA HistoryInit == Init => History!Init
<1>. SUFFICES ASSUME Init PROVE History!Init
  OBVIOUS
<1>1. \A n \in ChangeId : Made(n) = {} /\ On(n) = {}
  BY DEF Init, NoRow, Made, On
<1>. QED  BY <1>1 DEF History!Init, History!None

\* A change in force is on the tables of its footprint and on no other.
SeenWhole == \A n \in ChangeId : row[n].kind = "change" /\ row[n].sealed =>
  /\ InForce(n) => On(n) = Made(n)
  /\ Gone(n) => On(n) = {}

LEMMA OnWhole == TypeOK /\ EvidenceInv => SeenWhole
<1>. SUFFICES ASSUME TypeOK, EvidenceInv, NEW n \in ChangeId,
                     row[n].kind = "change", row[n].sealed
              PROVE  /\ InForce(n) => On(n) = Made(n)
                     /\ Gone(n) => On(n) = {}
  BY DEF SeenWhole
<1>1. row[n].footprint \subseteq Table /\ EvidenceFits(n)
  BY GetType DEF Row, EvidenceInv
<1>2. \A t \in Table \ row[n].footprint : n \notin live[t]
  BY <1>1 DEF EvidenceFits, NeverOn
<1>. QED  BY <1>1, <1>2 DEF InForce, Gone, On, Made

LEMMA SameHistory ==
  ASSUME \A n \in ChangeId : Made(n)' = Made(n) /\ On(n)' = On(n)
  PROVE  UNCHANGED History!vars
BY DEF History!vars

LEMMA OnSame ==
  ASSUME NEW n, \A t \in Table : n \in live'[t] <=> n \in live[t]
  PROVE  On(n)' = On(n)
BY DEF On

LEMMA CalmHistory ==
  ASSUME RowsMove, SameOn
  PROVE  UNCHANGED History!vars
<1>1. ASSUME NEW n \in ChangeId PROVE Made(n)' = Made(n) /\ On(n)' = On(n)
  BY OnSame DEF RowsMove, Moves, Made, SameOn
<1>. QED  BY <1>1, SameHistory

\* A row that is sealed closes its change, if it made anything.
LEMMA WritesHistory ==
  ASSUME TypeOK', EvidenceInv', NEW w \in Worker, NEW n \in ChangeId, Writes(w, n)
  PROVE  [History!Next]_(History!vars)
<1>1. /\ \A m \in ChangeId : On(m)' = On(m)
      /\ \A m \in ChangeId \ {n} : Made(m)' = Made(m)
      /\ Made(n) = {}
  BY DEF Writes, On, Made
<1>2. CASE Made(n)' = {}
  BY <1>1, <1>2, SameHistory
<1>3. CASE Made(n)' # {}
  <2>1. (row[n].kind = "change" /\ row[n].sealed)' /\ InForce(n)'
    BY <1>3 DEF Made, Writes
  <2>2. On(n)' = Made(n)'
    <3>1. SeenWhole'
      BY OnWhole, PTL
    <3>. QED  BY <2>1, <3>1 DEF SeenWhole
  <2>3. UNCHANGED OnByAll /\ MadeByAll' = [MadeByAll EXCEPT ![n] = OnByAll[n]]
    BY <1>1, <2>2 DEF OnByAll, MadeByAll
  <2>4. History!Close(n)
    BY <1>1, <1>3, <2>2, <2>3 DEF History!Close, OnByAll, MadeByAll
  <2>. QED  BY <2>4 DEF History!Next
<1>. QED  BY <1>2, <1>3

LEMMA RunStatementHistory ==
  ASSUME Base, NEW w \in Worker, RunStatement(w)
  PROVE  History!Next
<1>. PICK n : n = job[w].record
  OBVIOUS
<1>1. /\ n \in ChangeId /\ ~row[n].sealed /\ UNCHANGED row
      /\ \A m \in ChangeId \ {n}, t \in Table : m \in live'[t] <=> m \in live[t]
  BY RunStatementShows
<1>. PICK t \in Table : On(n)' = On(n) \cup {t}
  BY RunStatementShows
<1>2. Made(n) = {} /\ \A m \in ChangeId : Made(m)' = Made(m)
  BY <1>1 DEF Made
<1>3. OnByAll' = [OnByAll EXCEPT ![n] = @ \cup {t}] /\ UNCHANGED MadeByAll
  BY <1>1, <1>2, OnSame DEF OnByAll, MadeByAll
<1>4. History!Work(n)
  BY <1>1, <1>2, <1>3 DEF History!Work, OnByAll, MadeByAll
<1>. QED  BY <1>1, <1>4 DEF History!Next

LEMMA CommitHistory ==
  ASSUME Base, EvidenceInv, WholeInv, TypeOK', EvidenceInv', NEW w \in Worker, CommitRestore(w)
  PROVE  [History!Next]_(History!vars)
<1>. PICK c : c = job[w].change
  OBVIOUS
<1>. PICK n : n = Subject(c)
  OBVIOUS
<1>1. /\ n \in ChangeId /\ row[n].sealed /\ row[n].kind = "change" /\ c \in ChangeId
      /\ \A m \in ChangeId \ {n}, t \in Table : m \in live'[t] <=> m \in live[t]
      /\ row[c].kind = "change" => c = n /\ InForce(n) /\ Gone(n)'
      /\ row[c].kind = "recovery" =>
           \/ \A t \in Table : live'[t] = live[t]
           \/ Gone(n) /\ InForce(n)'
  BY CommitSwitches
<1>2. UNCHANGED row /\ row[c].kind \in {"change", "recovery"} /\ TypeOK
  BY <1>1, GetType DEF CommitRestore, Base, TypeInv, Row
<1>3. \A m \in ChangeId : Made(m)' = Made(m)
  BY <1>2 DEF Made
<1>4. \A m \in ChangeId \ {n} : On(m)' = On(m)
  BY <1>1, OnSame
<1>5. (InForce(n)' => On(n)' = Made(n)') /\ (Gone(n)' => On(n)' = {})
  <2>1. (row[n].kind = "change" /\ row[n].sealed)'
    BY <1>1, <1>2
  <2>2. SeenWhole'
    BY OnWhole, PTL
  <2>. QED  BY <1>1, <2>1, <2>2 DEF SeenWhole
<1>6. (InForce(n) => On(n) = Made(n)) /\ (Gone(n) => On(n) = {})
  BY <1>1, <1>2, OnWhole DEF SeenWhole
<1>7. CASE On(n)' = On(n)
  BY <1>3, <1>4, <1>7, SameHistory
<1>8. CASE On(n)' # On(n)
  <2>1. \/ On(n) = Made(n) /\ On(n)' = {}
        \/ On(n) = {} /\ On(n)' = Made(n)
    BY <1>1, <1>2, <1>3, <1>5, <1>6, <1>8, OnSame
  <2>2. /\ OnByAll' = [OnByAll EXCEPT ![n] = On(n)'] /\ UNCHANGED MadeByAll
        /\ OnByAll[n] = On(n) /\ MadeByAll[n] = Made(n) /\ Made(n) # {}
    BY <1>1, <1>3, <1>4, <1>8, <2>1 DEF OnByAll, MadeByAll
  <2>3. History!Undo(n) \/ History!Redo(n)
    BY <2>1, <2>2 DEF History!Undo, History!Redo, OnByAll, MadeByAll
  <2>. QED  BY <1>1, <2>3 DEF History!Next
<1>. QED  BY <1>7, <1>8

LEMMA HistoryStep ==
  ASSUME Base, EvidenceInv, WholeInv, TypeOK', EvidenceInv', [Next]_vars
  PROVE  [History!Next]_(History!vars)
BY StepKinds, CalmHistory, WritesHistory, RunStatementHistory, CommitHistory

\* The ledger implements ChangeHistory: a restore acts on its own footprint, on all
\* of it, and on nothing else (recovery.ts, plan.ts), for any number of calls,
\* faults, slow owners and stale readers.
THEOREM LedgerKeepsHistory == Spec => KeepsHistory
<1>1. LedgerInv /\ LedgerInv' /\ EvidenceInv /\ EvidenceInv' /\ WholeInv /\ [Next]_vars
        => [History!Next]_(History!vars)
  BY LedgerInvBase, HistoryStep DEF LedgerInv
<1>. QED  BY <1>1, HistoryInit, LedgerInvariant, EvidenceInvariant, WholeInvariant, PTL
          DEF Spec, KeepsHistory, History!Spec

-----------------------------------------------------------------------------
(* Claims, where no owner is slow and no reader stale.                     *)

Known == Base /\ EvidenceInv /\ ClaimInv

\* No claim can change hands under a reconciler that has read it as lapsed.
Timely == ~SlowOwners /\ (StaleReaders => \A n \in ChangeId : ~ReadAsLapsed(n))

\* Back where it was found, a change that closed is on no table.
LEMMA RestoredGone ==
  ASSUME EvidenceInv, NEW n \in ChangeId, row[n].kind = "change", row[n].sealed,
         restoredTo(n)
  PROVE  Gone(n)
<1>. SUFFICES ASSUME NEW t \in Table PROVE n \notin live[t]
  BY DEF Gone
<1>1. EvidenceFits(n)
  BY DEF EvidenceInv
<1>2. CASE t \in row[n].footprint
  BY <1>1, <1>2 DEF EvidenceFits, restoredTo
<1>3. CASE t \notin row[n].footprint
  BY <1>1, <1>3 DEF EvidenceFits, NeverOn
<1>. QED  BY <1>2, <1>3

LEMMA ClaimOwned ==
  ASSUME Known, NEW u \in Worker, NEW n, Claims(u, n)
  PROVE  /\ n \in ChangeId /\ row[n].status = "recovering" /\ row[n].recoveryClaim = u
         /\ row[n].sealed
<1>1. n \in ChangeId
  BY OwnJob DEF Claims, Known, Base, Job
<1>2. ClaimFits(u) /\ RowFits(n)
  BY <1>1 DEF Known, ClaimInv, ClaimsFit, Base, RowsFit
<1>. QED  BY <1>1, <1>2 DEF ClaimFits, Claims, Owns, RowFits

\* The statuses a claim has, and those it may end with.
Held == {"recovering", "restored", "recovered"}

LEMMA HeldSealed ==
  ASSUME Known, NEW n \in ChangeId, row[n].status \in Held
  PROVE  row[n].sealed
BY DEF Known, EvidenceInv, EvidenceFits, Held

Same(u) == pc'[u] = pc[u] /\ job'[u] = job[u]

\* What a row must keep for every claim to be as good as it was.
SteadyRow(m) ==
  /\ row[m].status \in Held =>
       /\ row'[m].status = row[m].status /\ row'[m].kind = row[m].kind
       /\ row'[m].recoversId = row[m].recoversId
       /\ row'[m].recoveryClaim = row[m].recoveryClaim
       /\ row'[m].recoveredById = row[m].recoveredById
  /\ row'[m].status \in Held => row[m].status \in Held
  /\ row'[m].status = "recovering" /\ row'[m].late => row[m].late \/ Abandoned(m)
  /\ row[m].sealed /\ row'[m].status = "healthy" => row[m].status = "healthy"
  /\ Lasting(m) => /\ row'[m].kind = "recovery" /\ row'[m].recoversId = row[m].recoversId
                   /\ row'[m].status \notin {"unopened", "withdrawn", "failed"}

SteadyRows == SealedStay /\ \A m \in ChangeId : SteadyRow(m)

\* Call w takes no claim up, follows nothing and opens no row that others rely on.
SteadyCall(w) ==
  /\ \A u \in Worker \ {w} : Same(u)
  /\ \A n : Claims(w, n)' => Claims(w, n)
  /\ pc'[w] = "following" => pc[w] = "following" /\ job'[w] = job[w]
  /\ pc'[w] = "restoring" =>
       \/ pc[w] = "restoring" /\ job'[w].record = job[w].record
       \/ row[job'[w].record].status = "unopened"

\* What is gone of a change that closed does not come back.
GoneStays == \A n \in ChangeId : row[n].sealed /\ Gone(n) => Gone(n)'

Steady(w) == SteadyRows /\ SteadyCall(w) /\ GoneStays

LEMMA SteadyClaims ==
  ASSUME NEW w, SteadyCall(w), NEW n
  PROVE  /\ \A u \in Worker : Claims(u, n)' => Claims(u, n)
         /\ Abandoned(n) => Abandoned(n)'
<1>1. ASSUME NEW u \in Worker PROVE Claims(u, n)' => Claims(u, n)
  BY DEF SteadyCall, Same, Claims
<1>. QED  BY <1>1 DEF Abandoned

LEMMA SteadyLasting ==
  ASSUME NEW w, Steady(w), NEW m \in ChangeId, Lasting(m)
  PROVE  Lasting(m)' /\ row'[m].recoversId = row[m].recoversId
<1>1. SteadyRow(m) /\ SteadyCall(w)
  BY DEF Steady, SteadyRows
<1>2. ASSUME NEW u \in Worker, pc'[u] = "restoring" PROVE job'[u].record # m
  BY <1>1, <1>2 DEF SteadyCall, Same, Lasting
<1>. QED  BY <1>1, <1>2 DEF SteadyRow, Lasting

LEMMA SteadyReappliable ==
  ASSUME Known, SteadyRows, NEW r \in ChangeId, row[r].status \in Held,
         row[r].kind = "recovery", Reappliable(r)
  PROVE  Reappliable(r)'
<1>. PICK x : x = row[r].recoversId
  OBVIOUS
<1>1. x \in ChangeId
  BY DEF Known, Base, RowsFit, RowFits, Restorable
<1>2. SteadyRow(r) /\ SteadyRow(x)
  BY <1>1 DEF SteadyRows
<1>. QED  BY <1>2 DEF SteadyRow, Reappliable, Held

LEMMA SteadyRowFits ==
  ASSUME Known, NEW w, Steady(w), NEW n \in ChangeId
  PROVE  RowClaimFits(n)'
<1>1. SteadyRow(n) /\ RowClaimFits(n) /\ SteadyRows /\ SteadyCall(w)
  BY DEF Steady, SteadyRows, Known, ClaimInv, ClaimsFit
<1>2. row[n].status \in Held /\ Gone(n) => Gone(n)'
  BY HeldSealed DEF Steady, GoneStays
<1>3. row'[n].status \in Held => row[n].status \in Held /\ row'[n].status = row[n].status
                              /\ row'[n].kind = row[n].kind
                              /\ row'[n].recoveredById = row[n].recoveredById
  BY <1>1 DEF SteadyRow
<1>4. (row[n].status = "recovering" /\ row[n].kind = "recovery" => Reappliable(n))'
  BY <1>1, <1>3, SteadyReappliable DEF RowClaimFits, Held
<1>5. (row[n].status = "recovering" /\ row[n].late => Abandoned(n))'
  BY <1>1, <1>3, SteadyClaims DEF RowClaimFits, SteadyRow, Held
<1>6. (row[n].kind = "change" /\ row[n].status = "recovered" => Gone(n))'
  BY <1>1, <1>2, <1>3 DEF RowClaimFits, Held
<1>7. (row[n].kind = "change" /\ row[n].status = "restored" /\ ~Gone(n) =>
         ReappliedOnRecord(row[n].recoveredById))'
  <2>. SUFFICES ASSUME (row[n].kind = "change" /\ row[n].status = "restored" /\ ~Gone(n))'
                PROVE  ReappliedOnRecord(row[n].recoveredById)'
    OBVIOUS
  <2>1. ReappliedOnRecord(row[n].recoveredById)
    BY <1>1, <1>2, <1>3 DEF RowClaimFits, Held
  <2>2. PICK m \in ChangeId : Lasting(m) /\ row[m].recoversId = row[n].recoveredById
    BY <2>1 DEF ReappliedOnRecord
  <2>3. Lasting(m)' /\ row'[m].recoversId = row[m].recoversId
    BY <2>2, SteadyLasting
  <2>. QED  BY <1>3, <2>2, <2>3 DEF ReappliedOnRecord, Held
<1>. QED  BY <1>4, <1>5, <1>6, <1>7 DEF RowClaimFits

LEMMA SteadyCallFits ==
  ASSUME Known, NEW w, Steady(w), NEW u \in Worker, Same(u)
  PROVE  ClaimFits(u)'
<1>. PICK c : c = job[u].change
  OBVIOUS
<1>. PICK r : r = job[u].record
  OBVIOUS
<1>1. ClaimFits(u) /\ SteadyRows /\ SteadyCall(w) /\ StepFits(pc[u], job[u])
  BY OwnJob DEF Steady, Known, ClaimInv, ClaimsFit, Base
<1>2. pc'[u] = pc[u] /\ job'[u] = job[u]
  BY DEF Same
<1>3. (Claims(u, c) => Owns(c, u))'
  <2>. SUFFICES ASSUME Claims(u, c)' PROVE Owns(c, u)'
    OBVIOUS
  <2>1. Claims(u, c)
    BY <1>2 DEF Claims
  <2>2. /\ c \in ChangeId /\ row[c].status = "recovering" /\ row[c].recoveryClaim = u
    BY <2>1, ClaimOwned
  <2>3. SteadyRow(c)
    BY <1>1, <2>2 DEF SteadyRows
  <2>. QED  BY <2>2, <2>3 DEF SteadyRow, Owns, Held
<1>4. (pc[u] = "reconciling" /\ job[u].from = "recovering" => Abandoned(c))'
  BY <1>1, <1>2, SteadyClaims DEF ClaimFits
<1>5. (pc[u] = "settling" =>
         /\ row[r].sealed /\ row[r].kind = "recovery" /\ row[r].recoversId = c
         /\ row[c].kind = "change" /\ row[r].status = "healthy" => Gone(c))'
  <2>. SUFFICES ASSUME pc[u] = "settling"
                PROVE  (/\ row[r].sealed /\ row[r].kind = "recovery" /\ row[r].recoversId = c
                        /\ row[c].kind = "change" /\ row[r].status = "healthy" => Gone(c))'
    BY <1>2
  <2>1. r \in ChangeId /\ c \in ChangeId /\ c # NoChange
    BY <1>1 DEF StepFits, Claiming, ChangeId, NoChange
  <2>2. row[c].status = "recovering" /\ row[c].sealed
    BY <2>1, ClaimOwned DEF Claims, Claiming
  <2>3. SteadyRow(r) /\ SteadyRow(c) /\ SealedStay
    BY <1>1, <2>1 DEF SteadyRows
  <2>4. /\ row[r].sealed /\ row[r].kind = "recovery" /\ row[r].recoversId = c
        /\ row[c].kind = "change" /\ row[r].status = "healthy" => Gone(c)
    BY <1>1 DEF ClaimFits
  <2>5. row'[r].sealed /\ row'[r].kind = "recovery" /\ row'[r].recoversId = c
    BY <2>1, <2>3, <2>4 DEF SealedStay, SameRecord
  <2>6. (row[c].kind = "change" /\ row[r].status = "healthy" => Gone(c))'
    BY <2>1, <2>2, <2>3, <2>4 DEF SteadyRow, Held, Steady, GoneStays
  <2>. QED  BY <2>5, <2>6
<1>6. (pc[u] = "following" /\ row[c].kind = "recovery" => Following(u))'
  <2>. SUFFICES ASSUME pc[u] = "following", row'[c].kind = "recovery"
                PROVE  Following(u)'
    BY <1>2
  <2>1. c \in ChangeId /\ c # NoChange
    BY <1>1 DEF StepFits, ChangeId, NoChange
  <2>2. row[c].sealed
    BY <2>1, OwnChange DEF Known, Restorable, Deciding
  <2>3. row[c].kind = "recovery"
    BY <1>1, <2>1, <2>2 DEF SteadyRows, SealedStay, SameRecord
  <2>4. Following(u)
    BY <1>1, <2>3 DEF ClaimFits
  <2>5. row[c].status \in {"restored", "recovered"} /\ Reappliable(c) /\ SteadyRow(c)
    BY <1>1, <2>1, <2>4 DEF Following, SteadyRows
  <2>6. Reappliable(c)'
    BY <1>1, <2>1, <2>3, <2>5, SteadyReappliable DEF Held
  <2>7. ASSUME NEW v \in Worker \ {u}, pc'[v] = "following" PROVE job'[v].change # c
    <3>1. pc[v] = "following" /\ job'[v] = job[v]
      BY <1>1, <2>7 DEF SteadyCall, Same
    <3>. QED  BY <2>4, <3>1 DEF Following
  <2>. QED  BY <1>2, <2>5, <2>6, <2>7 DEF SteadyRow, Following, Held
<1>. QED  BY <1>2, <1>3, <1>4, <1>5, <1>6 DEF ClaimFits

\* A call that is not left with something of its own to know knows enough.
LEMMA SteadyOwnFits ==
  ASSUME Known, NEW w \in Worker, Steady(w),
         pc'[w] \notin {"reconciling", "settling", "following"}
  PROVE  ClaimFits(w)'
<1>. SUFFICES ASSUME NEW c, c = job'[w].change, Claims(w, c)' PROVE Owns(c, w)'
  BY DEF ClaimFits
<1>1. Claims(w, c)
  BY DEF Steady, SteadyCall
<1>2. c \in ChangeId /\ row[c].status = "recovering" /\ row[c].recoveryClaim = w
  BY <1>1, ClaimOwned
<1>3. SteadyRow(c)
  BY <1>2 DEF Steady, SteadyRows
<1>. QED  BY <1>2, <1>3 DEF SteadyRow, Owns, Held

LEMMA SteadyStep ==
  ASSUME Known, NEW w, Steady(w),
         Same(w) \/ pc'[w] \notin {"reconciling", "settling", "following"} \/ ClaimFits(w)'
  PROVE  ClaimsFit'
<1>1. ASSUME NEW u \in Worker PROVE ClaimFits(u)'
  <2>1. CASE u = w
    BY <2>1, SteadyCallFits, SteadyOwnFits
  <2>2. CASE u # w
    <3>1. Same(u)
      BY <2>2 DEF Steady, SteadyCall
    <3>. QED  BY <3>1, SteadyCallFits
  <2>. QED  BY <2>1, <2>2
<1>. QED  BY <1>1, SteadyRowFits DEF ClaimInv, ClaimsFit

-----------------------------------------------------------------------------
(* The rows that steady steps leave. *)

LEMMA SameSteady ==
  ASSUME UNCHANGED row
  PROVE  SteadyRows
BY DEF SteadyRows, SealedStay, SameRecord, SteadyRow, Lasting

\* A row nobody has sealed is written by the call that has it open.
LEMMA PutSteady ==
  ASSUME Known, NEW n \in ChangeId, NEW r, ~row[n].sealed, r.status \notin Held,
         row' = [row EXCEPT ![n] = r],
         Lasting(n) => /\ r.kind = "recovery" /\ r.recoversId = row[n].recoversId
                       /\ r.status \notin {"unopened", "withdrawn", "failed"}
  PROVE  SteadyRows
<1>1. row'[n] = r /\ \A m \in ChangeId \ {n} : row'[m] = row[m]
  BY DEF Known, Base, TypeInv, TypeOK
<1>2. row[n].status \notin Held
  BY HeldSealed
<1>3. SteadyRow(n)
  BY <1>1, <1>2 DEF SteadyRow, Held
<1>4. \A m \in ChangeId \ {n} : SteadyRow(m)
  BY <1>1 DEF SteadyRow, Lasting
<1>5. SealedStay
  BY <1>1 DEF SealedStay, SameRecord
<1>. QED  BY <1>3, <1>4, <1>5 DEF SteadyRows

\* A row moves by a compare-and-set that neither takes nor ends a claim.
LEMMA TransitionSteady ==
  ASSUME Known, NEW n, NEW from, NEW to, from \cap Held = {},
         to \in {"manual_intervention_required", "awaiting_approval", "kept"},
         row' = [row EXCEPT ![n] = transition(n, from, to)]
  PROVE  SteadyRows
<1>1. CASE n \notin ChangeId
  BY <1>1, SameSteady DEF Known, Base, TypeInv, TypeOK
<1>2. CASE n \in ChangeId
  <2>1. row'[n] = transition(n, from, to) /\ \A m \in ChangeId \ {n} : row'[m] = row[m]
    BY <1>2 DEF Known, Base, TypeInv, TypeOK
  <2>2. row[n] \in Row
    BY <1>2, GetType DEF Known, Base, TypeInv
  <2>3. /\ row'[n].kind = row[n].kind /\ row'[n].recoversId = row[n].recoversId
        /\ row'[n].recoveryClaim = row[n].recoveryClaim /\ row'[n].late = row[n].late
        /\ row'[n].recoveredById = row[n].recoveredById /\ row'[n].sealed = row[n].sealed
        /\ row'[n].checkpoint = row[n].checkpoint
        /\ row'[n].resultState = row[n].resultState
        /\ row'[n].footprint = row[n].footprint
        /\ \/ row'[n].status = row[n].status
           \/ row[n].status \in from /\ row'[n].status = to
    BY <2>1, <2>2 DEF transition, transitions, Row
  <2>4. SteadyRow(n)
    BY <2>3 DEF SteadyRow, Held, Lasting
  <2>5. \A m \in ChangeId \ {n} : SteadyRow(m)
    BY <2>1 DEF SteadyRow, Lasting
  <2>6. SealedStay
    BY <2>1, <2>3 DEF SealedStay, SameRecord
  <2>. QED  BY <2>4, <2>5, <2>6 DEF SteadyRows
<1>. QED  BY <1>1, <1>2

\* Only the start of a restore is noted, or that time is up on an abandoned row.
LEMMA NoteSteady ==
  ASSUME Known, NEW n \in ChangeId, NEW r, row' = [row EXCEPT ![n] = r],
         /\ r.status = row[n].status /\ r.kind = row[n].kind
         /\ r.recoversId = row[n].recoversId /\ r.recoveryClaim = row[n].recoveryClaim
         /\ r.recoveredById = row[n].recoveredById /\ r.sealed = row[n].sealed
         /\ r.checkpoint = row[n].checkpoint /\ r.resultState = row[n].resultState
         /\ r.footprint = row[n].footprint,
         r.late => row[n].late \/ Abandoned(n)
  PROVE  SteadyRows
<1>1. row'[n] = r /\ \A m \in ChangeId \ {n} : row'[m] = row[m]
  BY DEF Known, Base, TypeInv, TypeOK
<1>2. \A m \in ChangeId : SteadyRow(m)
  BY <1>1 DEF SteadyRow, Lasting
<1>3. SealedStay
  BY <1>1 DEF SealedStay, SameRecord
<1>. QED  BY <1>2, <1>3 DEF SteadyRows

-----------------------------------------------------------------------------
(* Where steady steps take a call. *)

\* A step that goes on with a claim it has, or has none.
LEMMA GotoSteady ==
  ASSUME Known, NEW w \in Worker, NEW s, NEW j, Goto(w, s, j),
         s \notin {"following", "restoring"},
         j.change # NoChange /\ s \in Claiming \cup {"verifying"} => Claims(w, j.change)
  PROVE  /\ SteadyCall(w) /\ pc'[w] = s /\ job'[w] = j
<1>1. /\ pc'[w] = s /\ job'[w] = j /\ \A u \in Worker \ {w} : Same(u)
  BY DEF Known, Base, TypeInv, TypeOK, Goto, Same
<1>. QED  BY <1>1 DEF SteadyCall, Claims

LEMMA LeaveSteady ==
  ASSUME Known, NEW w \in Worker, Leave(w)
  PROVE  SteadyCall(w) /\ pc'[w] = "idle"
BY GotoSteady DEF Leave, Claiming

LEMMA StillSteady ==
  ASSUME NEW w, UNCHANGED <<pc, job>>
  PROVE  SteadyCall(w) /\ \A u \in Worker : Same(u)
BY DEF SteadyCall, Same, Claims

LEMMA LiveSteady ==
  ASSUME UNCHANGED live
  PROVE  GoneStays
BY DEF GoneStays, Gone

\* The claim a call in a restore's steps is about.
LEMMA OwnClaim ==
  ASSUME Known, NEW w \in Worker, pc[w] \in Claiming
  PROVE  /\ Claims(w, job[w].change) /\ job[w].change \in ChangeId
         /\ row[job[w].change].status = "recovering"
         /\ row[job[w].change].recoveryClaim = w
         /\ row[job[w].change] \in Row /\ Restorable(job[w].change)
<1>1. job[w].change \in ChangeId /\ job[w].change # NoChange
  BY OwnJob DEF Known, Base, StepFits, ChangeId, NoChange
<1>2. Claims(w, job[w].change)
  BY <1>1 DEF Claims
<1>. QED  BY <1>1, <1>2, ClaimOwned, OwnChange, GetType
          DEF Known, Base, TypeInv, Claiming, Deciding

-----------------------------------------------------------------------------
(* The steps at which a call writes a row of its own. *)

LEMMA OpenSteady ==
  ASSUME Known, NEW w \in Worker, NEW n \in ChangeId, NEW kind, NEW c, NEW s, NEW j,
         NextId(n), row' = [row EXCEPT ![n] = allocateRow(kind, c)], Goto(w, s, j),
         UNCHANGED live, j.record = n, s \in {"working", "restoring"},
         s = "restoring" => pc[w] = "queued" /\ j.change = job[w].change
  PROVE  ClaimsFit'
<1>1. row[n].status = "unopened" /\ ~row[n].sealed
  BY UnopenedUnsealed DEF NextId, ChangeId, Known
<1>2. allocateRow(kind, c).status \notin Held
  BY DEF allocateRow, NoRow, Held
<1>3. SteadyRows
  BY <1>1, <1>2, PutSteady DEF Lasting
<1>4. /\ pc'[w] = s /\ job'[w] = j /\ \A u \in Worker \ {w} : Same(u)
  BY DEF Known, Base, TypeInv, TypeOK, Goto, Same
<1>5. SteadyCall(w)
  BY <1>1, <1>4 DEF SteadyCall, Claims, Claiming
<1>6. GoneStays
  BY LiveSteady
<1>. QED  BY <1>3, <1>4, <1>5, <1>6, SteadyStep DEF Steady

LEMMA OpenClaims ==
  ASSUME Known, NEW w \in Worker, OpenChange(w) \/ OpenRecord(w)
  PROVE  ClaimsFit'
<1>1. CASE OpenChange(w)
  <2>. PICK n \in ChangeId :
         /\ NextId(n) /\ row' = [row EXCEPT ![n] = allocateRow("change", NoChange)]
         /\ Goto(w, "working", [NoJob EXCEPT !.record = n])
    BY <1>1 DEF OpenChange
  <2>1. [NoJob EXCEPT !.record = n].record = n /\ UNCHANGED live
    BY <1>1 DEF NoJob, OpenChange
  <2>. QED  BY <2>1, OpenSteady
<1>2. CASE OpenRecord(w)
  <2>. PICK n \in ChangeId :
         /\ NextId(n) /\ row' = [row EXCEPT ![n] = allocateRow("recovery", job[w].change)]
         /\ Goto(w, "restoring", [job[w] EXCEPT !.record = n])
    BY <1>2 DEF OpenRecord
  <2>. PICK j : j = [job[w] EXCEPT !.record = n]
    OBVIOUS
  <2>1. j.record = n /\ j.change = job[w].change
    BY OwnJob DEF Known, Base, Job
  <2>2. pc[w] = "queued" /\ UNCHANGED live
    BY <1>2 DEF OpenRecord
  <2>. QED  BY <2>1, <2>2, OpenSteady
<1>. QED  BY <1>1, <1>2

\* A step that goes back with the claim it had.
LEMMA ReturnSteady ==
  ASSUME Known, NEW w \in Worker, NEW j, pc[w] \in Claiming, j.change = job[w].change,
         Goto(w, "returning", j)
  PROVE  SteadyCall(w) /\ pc'[w] = "returning"
<1>1. Claims(w, j.change)
  BY OwnClaim
<1>. QED  BY <1>1, GotoSteady

LEMMA WithdrawClaims ==
  ASSUME Known, NEW w \in Worker, DiscardChange(w) \/ RefuseRestore(w)
  PROVE  ClaimsFit'
<1>. PICK n : n = job[w].record
  OBVIOUS
<1>. PICK r : r = [NoRow EXCEPT !.status = "withdrawn"]
  OBVIOUS
<1>1. n \in ChangeId /\ ~row[n].sealed /\ RecordFits(w) /\ pc[w] \in {"working", "restoring"}
  BY OwnRecord DEF DiscardChange, RefuseRestore, HasRecord, Applying, Known
<1>2. row' = [row EXCEPT ![n] = r] /\ UNCHANGED live
  BY DEF DiscardChange, RefuseRestore
<1>3. r.status \notin Held
  BY DEF NoRow, Held
<1>4. ~Lasting(n)
  <2>1. CASE pc[w] = "working"
    <3>1. job[w].change = NoChange
      BY <2>1, OwnJob DEF Known, Base, StepFits
    <3>. QED  BY <1>1, <2>1, <3>1 DEF RecordFits, HasRecord, Applying, Lasting
  <2>2. CASE pc[w] = "restoring"
    BY <2>2 DEF Lasting
  <2>. QED  BY <1>1, <2>1, <2>2
<1>5. SteadyRows
  BY <1>1, <1>2, <1>3, <1>4, PutSteady
<1>6. SteadyCall(w) /\ pc'[w] \in {"idle", "returning"}
  <2>1. CASE DiscardChange(w)
    BY <2>1, LeaveSteady DEF DiscardChange
  <2>2. CASE RefuseRestore(w)
    <3>1. PICK then, j : /\ Goto(w, "returning", j)
                         /\ j = [job[w] EXCEPT !.then = then]
      BY <2>2 DEF RefuseRestore, LeaveRecord
    <3>2. j.change = job[w].change
      BY <3>1, OwnJob DEF Known, Base, Job
    <3>3. pc[w] \in Claiming
      BY <2>2 DEF RefuseRestore, Claiming
    <3>. QED  BY <3>1, <3>2, <3>3, ReturnSteady
  <2>. QED  BY <2>1, <2>2
<1>7. GoneStays
  BY <1>2, LiveSteady
<1>. QED  BY <1>5, <1>6, <1>7, SteadyStep DEF Steady

LEMMA AppliedClaims ==
  ASSUME Known, NEW w \in Worker, Applied(w)
  PROVE  ClaimsFit'
<1>. PICK n : n = job[w].record
  OBVIOUS
<1>. PICK r : r = withEvidence(n, "verifying")
  OBVIOUS
<1>1. n \in ChangeId /\ ~row[n].sealed /\ pc[w] \in {"working", "committed"}
  BY OwnRecord DEF Applied, HasRecord, Applying, Known
<1>2. r.status = "verifying" /\ r.kind = row[n].kind /\ r.recoversId = row[n].recoversId
  BY <1>1, EvidenceRow DEF ChangeStatus, Known
<1>3. /\ row' = [row EXCEPT ![n] = r] /\ Goto(w, "verifying", job[w]) /\ UNCHANGED live
  BY DEF Applied
<1>4. SteadyRows
  BY <1>1, <1>2, <1>3, PutSteady DEF Held, Lasting
<1>5. job[w].change # NoChange => Claims(w, job[w].change)
  BY <1>1, OwnJob DEF Known, Base, StepFits, Claims, Claiming
<1>6. SteadyCall(w) /\ pc'[w] = "verifying"
  BY <1>3, <1>5, GotoSteady
<1>7. GoneStays
  BY <1>3, LiveSteady
<1>. QED  BY <1>4, <1>6, <1>7, SteadyStep DEF Steady

LEMMA FailedClaims ==
  ASSUME Known, NEW w \in Worker,
         ApplyFailed(w) \/ FailedAfterCommit(w) \/ RestoreFailed(w)
  PROVE  ClaimsFit'
<1>. PICK n : n = job[w].record
  OBVIOUS
<1>. PICK status \in {"failed", "partially_applied"} :
       row' = [row EXCEPT ![n] = closed(n, status)]
  BY DEF ApplyFailed, FailedAfterCommit, RestoreFailed
<1>. PICK r : r = closed(n, status)
  OBVIOUS
<1>1. /\ n \in ChangeId /\ ~row[n].sealed /\ RecordFits(w) /\ row[n] \in Row
      /\ pc[w] \in {"working", "committed", "restoring"}
  BY OwnRecord DEF ApplyFailed, FailedAfterCommit, RestoreFailed, HasRecord, Applying, Known
<1>2. r.status = status /\ r.kind = row[n].kind /\ r.recoversId = row[n].recoversId
  BY <1>1 DEF closed, withEvidence, Row
<1>3. status = "failed" => ~Lasting(n)
  <2>1. CASE ApplyFailed(w)
    <3>1. pc[w] = "working" /\ job[w].change = NoChange
      BY <2>1, OwnJob DEF ApplyFailed, Known, Base, StepFits
    <3>. QED  BY <1>1, <3>1 DEF RecordFits, HasRecord, Applying, Lasting
  <2>2. CASE FailedAfterCommit(w)
    <3>1. closed(n, status) = closed(n, "partially_applied")
      BY <1>1, <2>2 DEF FailedAfterCommit, Known, Base, TypeInv, TypeOK
    <3>2. closed(n, "partially_applied").status = "partially_applied"
      BY <1>1 DEF closed, withEvidence, Row
    <3>. QED  BY <1>2, <3>1, <3>2
  <2>3. CASE RestoreFailed(w)
    BY <2>3 DEF RestoreFailed, Lasting
  <2>. QED  BY <2>1, <2>2, <2>3
<1>4. SteadyRows
  <2>1. r.status \notin Held /\ r.status \notin {"unopened", "withdrawn"}
    BY <1>2 DEF Held
  <2>2. Lasting(n) => row[n].kind = "recovery" /\ r.status # "failed"
    BY <1>2, <1>3 DEF Lasting
  <2>. QED  BY <1>1, <1>2, <2>1, <2>2, PutSteady
<1>5. SteadyCall(w) /\ pc'[w] \in {"idle", "failing", "returning"}
  <2>1. CASE ApplyFailed(w)
    <3>1. Leave(w) \/ Goto(w, "failing", job[w])
      BY <2>1 DEF ApplyFailed, CloseFailing
    <3>. QED  BY <3>1, LeaveSteady, GotoSteady DEF Claiming
  <2>2. CASE FailedAfterCommit(w)
    BY <2>2, LeaveSteady DEF FailedAfterCommit
  <2>3. CASE RestoreFailed(w)
    <3>1. PICK from, then, j : /\ Goto(w, "returning", j)
                               /\ j = [job[w] EXCEPT !.from = from, !.then = then]
      BY <2>3 DEF RestoreFailed, LeaveRecord
    <3>2. j.change = job[w].change
      BY <3>1, OwnJob DEF Known, Base, Job
    <3>3. pc[w] \in Claiming
      BY <2>3 DEF RestoreFailed, Claiming
    <3>. QED  BY <3>1, <3>2, <3>3, ReturnSteady
  <2>. QED  BY <2>1, <2>2, <2>3
<1>6. GoneStays
  BY LiveSteady DEF ApplyFailed, FailedAfterCommit, RestoreFailed
<1>. QED  BY <1>4, <1>5, <1>6, SteadyStep DEF Steady

\* A restore's record closes healthy only where the change it undid is gone.
LEMMA VerifiedClaims ==
  ASSUME Known, NEW w \in Worker, Verified(w)
  PROVE  ClaimsFit'
<1>. PICK n : n = job[w].record
  OBVIOUS
<1>. PICK c : c = job[w].change
  OBVIOUS
<1>. PICK status \in {"healthy", "verification_failed", "unverified"} :
       /\ (c # NoChange /\ status = "healthy") => restoredTo(c)
       /\ row' = [row EXCEPT ![n] = [@ EXCEPT !.status = status, !.sealed = TRUE,
                                     !.confirmed = (status = "healthy"),
                                     !.late = FALSE]]
       /\ IF c # NoChange THEN LeaveRecord(w, "settling", job[w])
          ELSE IF status = "verification_failed" THEN CloseFailing(w)
          ELSE Leave(w)
  BY DEF Verified
<1>1. /\ n \in ChangeId /\ ~row[n].sealed /\ RecordFits(w)
      /\ row[n] \in Row /\ pc[w] = "verifying"
  BY OwnRecord DEF Verified, HasRecord, Known
<1>. PICK b \in BOOLEAN : b = (status = "healthy")
  OBVIOUS
<1>. PICK r : r = [row[n] EXCEPT !.status = status, !.sealed = TRUE,
                                 !.confirmed = b, !.late = FALSE]
  OBVIOUS
<1>2. row' = [row EXCEPT ![n] = r] /\ UNCHANGED live
  BY DEF Verified
<1>3. /\ r.sealed = TRUE /\ r.status = status /\ r.kind = row[n].kind
      /\ r.recoversId = row[n].recoversId
  BY <1>1 DEF Row
<1>4. SteadyRows
  <2>1. r.status \notin Held /\ r.status \notin {"unopened", "withdrawn", "failed"}
    BY <1>3 DEF Held
  <2>2. Lasting(n) => row[n].kind = "recovery"
    BY DEF Lasting
  <2>. QED  BY <1>1, <1>2, <1>3, <2>1, <2>2, PutSteady
<1>5. GoneStays
  BY <1>2, LiveSteady
<1>6. CASE c = NoChange
  <2>1. Leave(w) \/ Goto(w, "failing", job[w])
    BY <1>6 DEF CloseFailing
  <2>2. SteadyCall(w) /\ pc'[w] \in {"idle", "failing"}
    BY <2>1, LeaveSteady, GotoSteady DEF Claiming
  <2>. QED  BY <1>4, <1>5, <2>2, SteadyStep DEF Steady
<1>7. CASE c # NoChange
  <2>1. Claims(w, c)
    BY <1>1, <1>7 DEF Claims
  <2>2. Goto(w, "settling", job[w])
    BY <1>7 DEF LeaveRecord
  <2>3. SteadyCall(w) /\ pc'[w] = "settling" /\ job'[w] = job[w]
    BY <2>1, <2>2, GotoSteady
  <2>4. c \in ChangeId /\ row[c].status = "recovering" /\ row[c].recoveryClaim = w
        /\ row[c].sealed
    BY <2>1, ClaimOwned
  <2>5. row[n].kind = "recovery" /\ row[n].recoversId = c
    BY <1>1, <1>7 DEF RecordFits, HasRecord
  <2>6. row'[n] = r /\ row'[c] = row[c]
    BY <1>1, <1>2, <2>4 DEF Known, Base, TypeInv, TypeOK
  <2>7. row'[c].kind = "change" /\ row'[n].status = "healthy" => Gone(c)'
    <3>1. row[c].kind = "change" /\ status = "healthy" => Gone(c)
      BY <1>7, <2>4, RestoredGone DEF Known
    <3>. QED  BY <1>2, <1>3, <2>6, <3>1 DEF Gone
  <2>8. job'[w].change = c /\ job'[w].record = n
    BY <2>3
  <2>9. Owns(c, w)'
    BY <2>4, <2>6 DEF Owns
  <2>10. row'[n].sealed /\ row'[n].kind = "recovery" /\ row'[n].recoversId = c
    BY <1>3, <2>5, <2>6
  <2>11. ClaimFits(w)'
    BY <2>3, <2>7, <2>8, <2>9, <2>10 DEF ClaimFits
  <2>. QED  BY <1>4, <1>5, <2>3, <2>11, SteadyStep DEF Steady
<1>. QED  BY <1>6, <1>7

LEMMA ReconcileOpenClaims ==
  ASSUME Known, NEW w \in Worker, ReconcileOpen(w)
  PROVE  ClaimsFit'
<1>. PICK n : n = job[w].change
  OBVIOUS
<1>. PICK F : F = IF \A m \in Recorded : m <= n
                  THEN diffCatalogs(row[n].checkpoint, live) ELSE row[n].footprint
  OBVIOUS
<1>. PICK r : r = [row[n] EXCEPT !.status = "manual_intervention_required",
                                 !.late = FALSE, !.footprint = F]
  OBVIOUS
<1>1. row' = [row EXCEPT ![n] = IF row[n].status = job[w].from THEN r ELSE row[n]]
  BY Zenon DEF ReconcileOpen
<1>2. SteadyCall(w) /\ pc'[w] = "idle" /\ GoneStays
  BY LeaveSteady, LiveSteady DEF ReconcileOpen
<1>3. SteadyRows
  <2>1. CASE n \in ChangeId /\ row[n].status = job[w].from
    <3>1. row[n] \in Row /\ RowFits(n) /\ row' = [row EXCEPT ![n] = r]
      BY <1>1, <2>1, GetType DEF Known, Base, TypeInv, RowsFit
    <3>2. ~row[n].sealed
      <4>1. job[w].from \in InProgress
        BY OwnJob DEF ReconcileOpen, Known, Base, StepFits
      <4>. QED  BY <2>1, <3>1, <4>1, ConstantsAssumption
                DEF ReconcileOpen, InProgress, RowFits
    <3>3. /\ r.status = "manual_intervention_required" /\ r.kind = row[n].kind
          /\ r.recoversId = row[n].recoversId
      BY <3>1 DEF Row
    <3>. QED  BY <2>1, <3>1, <3>2, <3>3, PutSteady DEF Held, Lasting
  <2>2. CASE ~ (n \in ChangeId /\ row[n].status = job[w].from)
    <3>1. UNCHANGED row
      BY <1>1, <2>2 DEF Known, Base, TypeInv, TypeOK
    <3>. QED  BY <3>1, SameSteady
  <2>. QED  BY <2>1, <2>2
<1>. QED  BY <1>2, <1>3, SteadyStep DEF Steady

-----------------------------------------------------------------------------
(* Steps that leave the rows as they are, or move one along.               *)

\* A call leaves, or none moves.
LEMMA LeaveClaims ==
  ASSUME Known, NEW w \in Worker, Leave(w), SteadyRows, UNCHANGED live
  PROVE  ClaimsFit'
BY LeaveSteady, LiveSteady, SteadyStep DEF Steady

LEMMA StillClaims ==
  ASSUME Known, UNCHANGED <<pc, job>>, SteadyRows, GoneStays
  PROVE  ClaimsFit'
<1>. PICK w : w = NoWorker
  OBVIOUS
<1>1. SteadyCall(w) /\ pc'[w] = pc[w] /\ job'[w] = job[w]
  BY StillSteady
<1>. QED  BY <1>1, SteadyStep DEF Steady, Same

\* A call goes on with the claim it has, or has none.
LEMMA GotoClaims ==
  ASSUME Known, NEW w \in Worker, NEW s, NEW j, Goto(w, s, j), SteadyRows, UNCHANGED live,
         s \notin {"following", "restoring", "settling", "reconciling"},
         j.change # NoChange /\ s \in Claiming \cup {"verifying"} => Claims(w, j.change)
  PROVE  ClaimsFit'
<1>1. SteadyCall(w) /\ pc'[w] = s
  BY GotoSteady
<1>. QED  BY <1>1, LiveSteady, SteadyStep DEF Steady

LEMMA WaitingClaims ==
  ASSUME Known, NEW w \in Worker, PauseRecovery(w) \/ LockRefused(w)
  PROVE  ClaimsFit'
<1>1. SteadyRows /\ UNCHANGED live
  BY SameSteady DEF PauseRecovery, LockRefused
<1>2. CASE PauseRecovery(w)
  BY <1>1, <1>2, GotoClaims DEF PauseRecovery, Claiming
<1>3. CASE LockRefused(w)
  <2>1. Goto(w, "returning", job[w]) /\ Claims(w, job[w].change)
    BY <1>3, OwnClaim DEF LockRefused, Claiming
  <2>. QED  BY <1>1, <2>1, GotoClaims
<1>. QED  BY <1>2, <1>3

LEMMA RecordStartedClaims ==
  ASSUME Known, NEW w \in Worker, RecordStarted(w)
  PROVE  ClaimsFit'
<1>. PICK c : c = job[w].change
  OBVIOUS
<1>1. c \in ChangeId /\ row[c] \in Row /\ Claims(w, c)
  BY OwnClaim DEF RecordStarted, Claiming
<1>. PICK r : r = [row[c] EXCEPT !.started = [mode |-> job[w].mode, from |-> job[w].from]]
  OBVIOUS
<1>2. /\ row' = [row EXCEPT ![c] = r] /\ UNCHANGED live /\ Goto(w, "queued", job[w])
  BY DEF RecordStarted
<1>3. /\ r.status = row[c].status /\ r.kind = row[c].kind
      /\ r.recoversId = row[c].recoversId /\ r.recoveryClaim = row[c].recoveryClaim
      /\ r.recoveredById = row[c].recoveredById /\ r.sealed = row[c].sealed
      /\ r.checkpoint = row[c].checkpoint /\ r.resultState = row[c].resultState
      /\ r.footprint = row[c].footprint /\ r.late = row[c].late
  BY <1>1 DEF Row
<1>4. r.late => row[c].late \/ Abandoned(c)
  BY <1>3, Zenon
<1>5. SteadyRows
  BY <1>1, <1>2, <1>3, <1>4, NoteSteady
<1>. QED  BY <1>1, <1>2, <1>5, GotoClaims

LEMMA EscalatingClaims ==
  ASSUME Known, NEW w \in Worker, StopAndEscalate(w) \/ Escalate(w)
  PROVE  ClaimsFit'
<1>1. SteadyRows /\ UNCHANGED live
  BY TransitionSteady DEF StopAndEscalate, Escalate, Held
<1>2. Leave(w) \/ Goto(w, "requesting", job[w])
  BY DEF StopAndEscalate, Escalate
<1>. QED  BY <1>1, <1>2, LeaveClaims, GotoClaims DEF Claiming

\* The requests that are pending are looked for.
LEMMA FindClaims ==
  ASSUME Known, NEW w \in Worker, NEW c, FindRequest(w, c), UNCHANGED <<row, live>>
  PROVE  ClaimsFit'
<1>1. SteadyRows
  BY SameSteady
<1>2. CASE Leave(w)
  BY <1>1, <1>2, LeaveClaims
<1>3. CASE Goto(w, "answering", job[w])
  BY <1>1, <1>3, GotoClaims DEF Claiming
<1>. QED  BY <1>2, <1>3 DEF FindRequest

LEMMA KeepClaims ==
  ASSUME Known, NEW w \in Worker, Keeps(w)
  PROVE  ClaimsFit'
<1>1. ASSUME NEW n, row' = kept(n) PROVE SteadyRows
  BY <1>1, TransitionSteady DEF kept, keepableFrom, Held
<1>2. CASE KeepChange(w)
  <2>. PICK n \in ChangeId : row' = kept(n) /\ Goto(w, "keeping", [NoJob EXCEPT !.change = n])
    BY <1>2 DEF KeepChange
  <2>. QED  BY <1>1, <1>2, GotoClaims DEF KeepChange, Claiming
<1>3. CASE FollowKeep(w)
  BY <1>3, FindClaims DEF FollowKeep
<1>4. CASE DeclineRequest(w)
  <2>. PICK n : Goto(w, "declined", [NoJob EXCEPT !.change = n])
    BY <1>4 DEF DeclineRequest
  <2>. QED  BY <1>4, SameSteady, GotoClaims DEF DeclineRequest, Claiming
<1>5. CASE KeepDeclined(w)
  BY <1>1, <1>5, LeaveClaims DEF KeepDeclined
<1>. QED  BY <1>2, <1>3, <1>4, <1>5 DEF Keeps

\* Late is what nobody works on any more.
LEMMA TimeIsUpClaims ==
  ASSUME Known, Timely, NEW n \in ChangeId, TimeIsUp(n)
  PROVE  ClaimsFit'
<1>. PICK r : r = [row[n] EXCEPT !.late = TRUE]
  OBVIOUS
<1>1. row[n] \in Row
  BY GetType DEF Known, Base, TypeInv
<1>2. /\ r.status = row[n].status /\ r.kind = row[n].kind
      /\ r.recoversId = row[n].recoversId /\ r.recoveryClaim = row[n].recoveryClaim
      /\ r.recoveredById = row[n].recoveredById /\ r.sealed = row[n].sealed
      /\ r.checkpoint = row[n].checkpoint /\ r.resultState = row[n].resultState
      /\ r.footprint = row[n].footprint
  BY <1>1 DEF Row
<1>3. row' = [row EXCEPT ![n] = r]
  BY DEF TimeIsUp
<1>4. Abandoned(n)
  BY DEF TimeIsUp, Timely, WorkedOn, Aside, Abandoned, Claims, Claiming
<1>5. SteadyRows
  BY <1>2, <1>3, <1>4, NoteSteady
<1>. QED  BY <1>5, LiveSteady, StillClaims DEF TimeIsUp

LEMMA ReadLateClaims ==
  ASSUME Known, NEW w \in Worker, NEW n \in ChangeId, ReadLate(w, n)
  PROVE  ClaimsFit'
<1>. PICK j : j = [NoJob EXCEPT !.change = n, !.from = row[n].status]
  OBVIOUS
<1>1. j.change = n /\ j.from = row[n].status /\ Goto(w, "reconciling", j)
  BY DEF ReadLate, NoJob
<1>2. SteadyCall(w) /\ pc'[w] = "reconciling" /\ job'[w] = j
  BY <1>1, GotoSteady DEF Claiming
<1>3. row[n].status = "recovering" => Abandoned(n)
  BY DEF ReadLate, Known, ClaimInv, ClaimsFit, RowClaimFits
<1>4. Abandoned(n) => Abandoned(n)'
  BY <1>2, SteadyClaims
<1>5. ClaimFits(w)'
  BY <1>1, <1>2, <1>3, <1>4 DEF ClaimFits, Claims, Claiming
<1>. QED  BY <1>2, <1>5, SameSteady, LiveSteady, SteadyStep DEF Steady, ReadLate

\* A statement is of a change that has not closed.
LEMMA RunStatementClaims ==
  ASSUME Known, NEW w \in Worker, RunStatement(w)
  PROVE  ClaimsFit'
<1>1. job[w].record \in ChangeId /\ ~row[job[w].record].sealed
  BY OwnRecord DEF RunStatement, HasRecord, Applying, Known
<1>2. GoneStays
  <2>. SUFFICES ASSUME NEW n \in ChangeId, row[n].sealed, Gone(n), NEW t \in Table
                PROVE  n \notin live'[t]
    BY DEF GoneStays, Gone
  <2>1. n # job[w].record
    BY <1>1
  <2>2. live'[t] \subseteq live[t] \cup {job[w].record}
    BY DEF RunStatement, Known, Base, TypeInv, TypeOK, Catalog
  <2>. QED  BY <2>1, <2>2 DEF Gone
<1>. QED  BY <1>2, SameSteady, StillClaims DEF RunStatement

LEMMA LeavingClaims ==
  ASSUME Known, NEW w \in Worker, LeavesOnly(w)
  PROVE  ClaimsFit'
BY LeaveClaims, SameSteady
DEF LeavesOnly, RequestApproval, ReconcileBusy, Crash, ClaimLost, AnswerRequest

LEMMA OutsideClaims ==
  ASSUME Known, ChangeOutside
  PROVE  ClaimsFit'
<1>1. SameOn
  BY BystandersCalm DEF Known
<1>2. GoneStays
  BY <1>1 DEF SameOn, GoneStays, Gone
<1>. QED  BY <1>2, SameSteady, StillClaims DEF ChangeOutside

\* A row is read, and nothing is claimed yet.
LEMMA LoadClaims ==
  ASSUME Known, NEW w \in Worker,
         StartRestore(w) \/ ApproveRestore(w) \/ RecoverAutomatically(w)
  PROVE  ClaimsFit'
<1>1. SteadyRows /\ UNCHANGED live
  BY SameSteady DEF StartRestore, ApproveRestore, RecoverAutomatically
<1>2. ASSUME NEW n, NEW mode, Load(w, n, mode) PROVE ClaimsFit'
  BY <1>1, <1>2, GotoClaims DEF Load, Claiming
<1>3. CASE UNCHANGED <<pc, job>>
  BY <1>1, <1>3, LiveSteady, StillClaims
<1>4. CASE Leave(w)
  BY <1>1, <1>4, LeaveClaims
<1>. QED  BY <1>2, <1>3, <1>4 DEF StartRestore, ApproveRestore, RecoverAutomatically

-----------------------------------------------------------------------------
(* A claim is taken, ends, or a change is in effect again: one row moves,  *)
(* and what other calls and rows rely on does not depend on it.            *)

Moved(w, c) ==
  /\ \A u \in Worker \ {w} : Same(u)
  /\ \A m \in ChangeId \ {c} : row'[m] = row[m]
  /\ row'[c].kind = row[c].kind /\ row'[c].recoversId = row[c].recoversId
  /\ row[c].sealed => row'[c].sealed
  /\ row'[c].status \notin {"unopened", "withdrawn", "failed"}
  /\ pc'[w] # "restoring"
  /\ \A m : Claims(w, m)' => Claims(w, m) \/ m = c
  /\ pc'[w] = "following" => job'[w].change = c

ApartFrom(u, c) ==
  LET r == job[u].change IN
  /\ ~Claims(u, c)
  /\ pc[u] = "reconciling" /\ job[u].from = "recovering" => r # c \/ Abandoned(c)'
  /\ pc[u] = "settling" => job[u].record # c \/ row'[c].status # "healthy"
  /\ pc[u] = "following" /\ row[r].kind = "recovery" => r # c /\ row[r].recoversId # c

Apart(w, c) ==
  /\ \A u \in Worker \ {w} : ApartFrom(u, c)
  /\ \A r \in ChangeId \ {c} : row[r].status = "recovering" /\ row[r].kind = "recovery" =>
                                 row[r].recoversId # c

LEMMA MovedAbandoned ==
  ASSUME NEW w, NEW c, Moved(w, c), NEW m, m # c, Abandoned(m)
  PROVE  Abandoned(m)'
<1>1. ASSUME NEW u \in Worker PROVE ~Claims(u, m)'
  BY DEF Moved, Same, Claims, Abandoned
<1>. QED  BY <1>1 DEF Abandoned

LEMMA MovedOnRecord ==
  ASSUME NEW w, NEW c, Moved(w, c), NEW r, ReappliedOnRecord(r)
  PROVE  ReappliedOnRecord(r)'
<1>. PICK m \in ChangeId : Lasting(m) /\ row[m].recoversId = r
  BY DEF ReappliedOnRecord
<1>1. row'[m].kind = row[m].kind /\ row'[m].recoversId = r
      /\ row'[m].status \notin {"unopened", "withdrawn", "failed"}
  BY DEF Moved, Lasting
<1>2. ASSUME NEW u \in Worker, pc'[u] = "restoring" PROVE job'[u].record # m
  BY <1>2 DEF Moved, Same, Lasting
<1>3. Lasting(m)'
  BY <1>1, <1>2 DEF Lasting
<1>. QED  BY <1>1, <1>3 DEF ReappliedOnRecord

LEMMA MovedReappliable ==
  ASSUME Known, NEW w, NEW c, Moved(w, c), NEW r \in ChangeId, row[r].kind = "recovery",
         Reappliable(r), row[r].recoversId # c
  PROVE  Reappliable(r)'
<1>. PICK x : x = row[r].recoversId
  OBVIOUS
<1>1. x \in ChangeId
  BY DEF Known, Base, RowsFit, RowFits, Restorable
<1>2. row'[r].recoversId = x /\ row'[x] = row[x]
  BY <1>1 DEF Moved
<1>. QED  BY <1>2 DEF Reappliable

LEMMA MovedRowFits ==
  ASSUME Known, NEW w, NEW c, Moved(w, c), Apart(w, c), UNCHANGED live,
         NEW n \in ChangeId, n # c
  PROVE  RowClaimFits(n)'
<1>1. RowClaimFits(n) /\ row'[n] = row[n] /\ Gone(n)' = Gone(n)
  BY DEF Known, ClaimInv, ClaimsFit, Moved, Gone
<1>2. (row[n].status = "recovering" /\ row[n].kind = "recovery" => Reappliable(n))'
  BY <1>1, MovedReappliable DEF Apart, RowClaimFits
<1>3. (row[n].status = "recovering" /\ row[n].late => Abandoned(n))'
  BY <1>1, MovedAbandoned DEF RowClaimFits
<1>4. (row[n].kind = "change" /\ row[n].status = "restored" /\ ~Gone(n) =>
         ReappliedOnRecord(row[n].recoveredById))'
  BY <1>1, MovedOnRecord DEF RowClaimFits
<1>5. (row[n].kind = "change" /\ row[n].status = "recovered" => Gone(n))'
  BY <1>1 DEF RowClaimFits
<1>. QED  BY <1>2, <1>3, <1>4, <1>5 DEF RowClaimFits

LEMMA MovedCallFits ==
  ASSUME Known, NEW w, NEW c, Moved(w, c), Apart(w, c), UNCHANGED live,
         NEW u \in Worker, u # w
  PROVE  ClaimFits(u)'
<1>. PICK d : d = job[u].change
  OBVIOUS
<1>. PICK r : r = job[u].record
  OBVIOUS
<1>1. ClaimFits(u) /\ StepFits(pc[u], job[u]) /\ ApartFrom(u, c)
  BY OwnJob DEF Known, ClaimInv, ClaimsFit, Base, Apart
<1>2. pc'[u] = pc[u] /\ job'[u] = job[u]
  BY DEF Moved, Same
<1>3. (Claims(u, d) => Owns(d, u))'
  <2>. SUFFICES ASSUME Claims(u, d)' PROVE Owns(d, u)'
    OBVIOUS
  <2>1. Claims(u, d)
    BY <1>2 DEF Claims
  <2>2. /\ d \in ChangeId /\ row[d].status = "recovering" /\ row[d].recoveryClaim = u
    BY <2>1, ClaimOwned
  <2>3. row'[d] = row[d]
    BY <1>1, <2>1, <2>2 DEF ApartFrom, Moved
  <2>. QED  BY <2>2, <2>3 DEF Owns
<1>4. (pc[u] = "reconciling" /\ job[u].from = "recovering" => Abandoned(d))'
  <2>. SUFFICES ASSUME pc[u] = "reconciling", job[u].from = "recovering"
                PROVE  Abandoned(d)'
    BY <1>2
  <2>1. CASE d = c
    BY <1>1, <2>1 DEF ApartFrom
  <2>2. CASE d # c
    BY <1>1, <2>2, MovedAbandoned DEF ClaimFits
  <2>. QED  BY <2>1, <2>2
<1>5. (pc[u] = "settling" =>
         /\ row[r].sealed /\ row[r].kind = "recovery" /\ row[r].recoversId = d
         /\ row[d].kind = "change" /\ row[r].status = "healthy" => Gone(d))'
  <2>. SUFFICES ASSUME pc[u] = "settling"
                PROVE  (/\ row[r].sealed /\ row[r].kind = "recovery" /\ row[r].recoversId = d
                        /\ row[d].kind = "change" /\ row[r].status = "healthy" => Gone(d))'
    BY <1>2
  <2>1. r \in ChangeId /\ d \in ChangeId
    BY <1>1 DEF StepFits, Claiming
  <2>2. /\ row[r].sealed /\ row[r].kind = "recovery" /\ row[r].recoversId = d
        /\ row[d].kind = "change" /\ row[r].status = "healthy" => Gone(d)
    BY <1>1 DEF ClaimFits
  <2>3. /\ row'[r].sealed /\ row'[r].kind = "recovery" /\ row'[r].recoversId = d
        /\ row'[d].kind = row[d].kind
    BY <2>1, <2>2 DEF Moved
  <2>4. row'[r].status = "healthy" => row[r].status = "healthy"
    BY <1>1, <2>1 DEF ApartFrom, Moved
  <2>. QED  BY <2>2, <2>3, <2>4 DEF Gone
<1>6. (pc[u] = "following" /\ row[d].kind = "recovery" => Following(u))'
  <2>. SUFFICES ASSUME pc[u] = "following", row'[d].kind = "recovery"
                PROVE  Following(u)'
    BY <1>2
  <2>1. d \in ChangeId
    BY <1>1 DEF StepFits
  <2>2. row[d].kind = "recovery"
    BY <2>1 DEF Moved
  <2>3. Following(u) /\ d # c /\ row[d].recoversId # c
    BY <1>1, <2>2 DEF ClaimFits, ApartFrom
  <2>4. Reappliable(d)'
    BY <2>1, <2>2, <2>3, MovedReappliable DEF Following
  <2>5. row'[d] = row[d]
    BY <2>1, <2>3 DEF Moved
  <2>6. ASSUME NEW v \in Worker \ {u}, pc'[v] = "following" PROVE job'[v].change # d
    BY <2>3, <2>6 DEF Moved, Same, Following
  <2>. QED  BY <1>2, <2>3, <2>4, <2>5, <2>6 DEF Following
<1>. QED  BY <1>2, <1>3, <1>4, <1>5, <1>6 DEF ClaimFits

LEMMA MovedStep ==
  ASSUME Known, NEW w \in Worker, NEW c \in ChangeId, Moved(w, c), Apart(w, c),
         UNCHANGED live, RowClaimFits(c)', ClaimFits(w)'
  PROVE  ClaimsFit'
<1>1. ASSUME NEW n \in ChangeId PROVE RowClaimFits(n)'
  BY MovedRowFits
<1>2. ASSUME NEW u \in Worker PROVE ClaimFits(u)'
  BY MovedCallFits
<1>. QED  BY <1>1, <1>2 DEF ClaimInv, ClaimsFit

\* A claim is won only of a row that no call claims, follows or reads as lapsed.
LEMMA TakenClaims ==
  ASSUME Known, Timely, NEW w \in Worker, Claim(w)
  PROVE  ClaimsFit'
<1>. PICK n : n = job[w].change
  OBVIOUS
<1>. PICK j : j = [job[w] EXCEPT !.from = row[n].status]
  OBVIOUS
<1>0. pc[w] = "loaded" /\ n \in ChangeId /\ n # NoChange /\ job[w] \in Job /\ UNCHANGED live
  BY OwnJob DEF Claim, Known, Base, StepFits, ChangeId, NoChange
<1>1. /\ row[n].status \in ReturnTo /\ row[n].sealed /\ row[n] \in Row
      /\ row[n].kind = "recovery" => Reappliable(n)
  <2>1. mayClaim(n, job[w].mode)
    BY DEF Claim
  <2>2. row[n].status \in ReturnTo /\ row[n].status \in restorableFrom("manual")
    BY <2>1, MayClaimStatus DEF ReturnTo, restorableFrom
  <2>3. Restorable(n)
    BY <1>0, OwnChange DEF Deciding, Known
  <2>. QED  BY <1>0, <2>2, <2>3, GetType
            DEF Restorable, LoadedFits, Known, ClaimInv, Base, TypeInv
<1>2. row[n].status \notin {"recovering", "restored", "recovered"}
  BY <1>1 DEF ReturnTo, IN_EFFECT, RECOVERY_OWED
<1>3. j.change = n /\ Goto(w, "claimed", j)
  BY <1>0 DEF Job, Claim
<1>4. pc'[w] = "claimed" /\ job'[w] = j /\ \A u \in Worker \ {w} : Same(u)
  BY <1>3 DEF Known, Base, TypeInv, TypeOK, Goto, Same
<1>5. row'[n] = claimRecovery(n, w) /\ \A m \in ChangeId \ {n} : row'[m] = row[m]
  BY <1>0 DEF Claim, Known, Base, TypeInv, TypeOK
<1>6. /\ row'[n].status = "recovering" /\ row'[n].recoveryClaim = w
      /\ row'[n].late = FALSE /\ row'[n].kind = row[n].kind
      /\ row'[n].recoversId = row[n].recoversId /\ row'[n].sealed = row[n].sealed
  <2>1. row[n] \in Row
    BY <1>1
  <2>. PICK q : q = [row[n] EXCEPT !.status = "recovering", !.recoveryClaim = w,
                                   !.late = FALSE]
    OBVIOUS
  <2>2. /\ q.status = "recovering" /\ q.recoveryClaim = w /\ q.late = FALSE
        /\ q.kind = row[n].kind /\ q.recoversId = row[n].recoversId
        /\ q.sealed = row[n].sealed
    BY <2>1 DEF Row
  <2>3. row'[n] = q
    BY <1>5 DEF claimRecovery
  <2>. QED  BY <2>2, <2>3
<1>7. \A u \in Worker : ~Claims(u, n)
  BY <1>2, ClaimOwned
<1>8. Moved(w, n)
  <2>1. \A m : Claims(w, m)' => m = n
    BY <1>3, <1>4 DEF Claims
  <2>. QED  BY <1>4, <1>5, <1>6, <2>1 DEF Moved
<1>9. Apart(w, n)
  <2>1. ASSUME NEW u \in Worker \ {w} PROVE ApartFrom(u, n)
    <3>. PICK r : r = job[u].change
      OBVIOUS
    <3>0. ~ReadAsLapsed(n)
      BY <1>0 DEF Claim, Timely
    <3>1. pc[u] = "reconciling" /\ job[u].from = "recovering" => r # n
      BY <3>0 DEF ReadAsLapsed
    <3>2. pc[u] = "following" /\ row[r].kind = "recovery" => r # n /\ row[r].recoversId # n
      BY <1>2 DEF Known, ClaimInv, ClaimsFit, ClaimFits, Following, Reappliable
    <3>. QED  BY <1>6, <1>7, <3>1, <3>2 DEF ApartFrom
  <2>2. \A r \in ChangeId \ {n} : row[r].status = "recovering" /\ row[r].kind = "recovery" =>
                                    row[r].recoversId # n
    BY <1>2 DEF Known, ClaimInv, ClaimsFit, RowClaimFits, Reappliable
  <2>. QED  BY <2>1, <2>2 DEF Apart
<1>10. RowClaimFits(n)'
  <2>1. row[n].kind = "recovery" => Reappliable(n) /\ row[n].recoversId # n
    BY <1>1, <1>2 DEF Reappliable
  <2>2. row'[n].kind = "recovery" => Reappliable(n)'
    BY <1>0, <1>6, <1>8, <2>1, MovedReappliable
  <2>. QED  BY <1>6, <2>2 DEF RowClaimFits
<1>11. ClaimFits(w)'
  BY <1>3, <1>4, <1>6 DEF ClaimFits, Owns
<1>. QED  BY <1>0, <1>8, <1>9, <1>10, <1>11, MovedStep

-----------------------------------------------------------------------------
(* A claim ends.                                                           *)

\* A change that is shown undone is gone.
GoneIfSettled(c, to) == row[c].kind = "change" /\ to \in {"recovered", "restored"} => Gone(c)

\* A claim of c ends: nobody has it any more.
ClaimEnds(w, c, to) ==
  /\ row[c].status = "recovering" /\ to \in Released
  /\ row'[c].status = to /\ row'[c].kind = row[c].kind /\ row'[c].late = FALSE
  /\ row'[c].recoversId = row[c].recoversId /\ row'[c].sealed = row[c].sealed
  /\ \A m \in ChangeId \ {c} : row'[m] = row[m]
  /\ \A u \in Worker \ {w} : Same(u) /\ ~Claims(u, c)
  /\ \A m : ~Claims(w, m)'
  /\ GoneIfSettled(c, to)

LEMMA EndedMoved ==
  ASSUME Known, NEW w \in Worker, NEW c \in ChangeId, NEW to, ClaimEnds(w, c, to),
         pc'[w] # "restoring", pc'[w] = "following" => job'[w].change = c
  PROVE  Moved(w, c) /\ Abandoned(c)'
<1>1. Moved(w, c)
  BY DEF ClaimEnds, Released, ReturnTo, IN_EFFECT, RECOVERY_OWED, Moved
<1>2. ASSUME NEW u \in Worker PROVE ~Claims(u, c)'
  BY DEF ClaimEnds, Same, Claims
<1>. QED  BY <1>1, <1>2 DEF Abandoned

LEMMA EndedApart ==
  ASSUME Known, NEW w \in Worker, NEW c \in ChangeId, NEW to, ClaimEnds(w, c, to), Abandoned(c)'
  PROVE  Apart(w, c)
<1>1. ASSUME NEW u \in Worker \ {w} PROVE ApartFrom(u, c)
  <2>. PICK r : r = job[u].change
    OBVIOUS
  <2>1. ClaimFits(u)
    BY DEF Known, ClaimInv, ClaimsFit
  <2>2. pc[u] = "following" /\ row[r].kind = "recovery" => r # c /\ row[r].recoversId # c
    BY <2>1 DEF ClaimFits, Following, Reappliable, ClaimEnds
  <2>3. pc[u] = "settling" => job[u].record # c
    <3>. SUFFICES ASSUME pc[u] = "settling", job[u].record = c PROVE FALSE
      OBVIOUS
    <3>1. row[c].kind = "recovery" /\ row[c].recoversId = r
      BY <2>1 DEF ClaimFits
    <3>2. row[r].status = "recovering"
      BY OwnClaim DEF Claiming
    <3>3. row[r].status = "restored"
      BY <3>1 DEF ClaimEnds, Known, ClaimInv, ClaimsFit, RowClaimFits, Reappliable
    <3>. QED  BY <3>2, <3>3
  <2>. QED  BY <2>2, <2>3 DEF ApartFrom, ClaimEnds
<1>2. \A r \in ChangeId \ {c} : row[r].status = "recovering" /\ row[r].kind = "recovery" =>
                                  row[r].recoversId # c
  BY DEF ClaimEnds, Known, ClaimInv, ClaimsFit, RowClaimFits, Reappliable
<1>. QED  BY <1>1, <1>2 DEF Apart

LEMMA EndedRow ==
  ASSUME Known, NEW w \in Worker, NEW c \in ChangeId, NEW to, ClaimEnds(w, c, to), UNCHANGED live
  PROVE  RowClaimFits(c)'
<1>1. row'[c].status # "recovering"
  BY DEF ClaimEnds, Released, ReturnTo, IN_EFFECT, RECOVERY_OWED
<1>2. row'[c].kind = "change" /\ row'[c].status \in {"recovered", "restored"} => Gone(c)'
  BY DEF ClaimEnds, GoneIfSettled, Gone
<1>. QED  BY <1>1, <1>2 DEF RowClaimFits

LEMMA EndedClaims ==
  ASSUME Known, NEW w \in Worker, NEW c \in ChangeId, NEW to, ClaimEnds(w, c, to),
         UNCHANGED live,
         pc'[w] \in {"idle", "asking", "stopping"}
           \/ (pc'[w] = "following" /\ job'[w].change = c /\ ClaimFits(w)')
  PROVE  ClaimsFit'
<1>1. Moved(w, c) /\ Abandoned(c)'
  BY EndedMoved
<1>2. ClaimFits(w)'
  BY DEF ClaimFits, Claims, Claiming
<1>. QED  BY <1>1, <1>2, EndedApart, EndedRow, MovedStep

\* What the end of a claim writes.
EndsAs(r, c, to) ==
  /\ r.status = to /\ r.kind = row[c].kind /\ r.late = FALSE
  /\ r.recoversId = row[c].recoversId /\ r.sealed = row[c].sealed

LEMMA ReleasedRow ==
  ASSUME Known, NEW c \in ChangeId, NEW claim, Owns(c, claim), NEW to \in Released
  PROVE  EndsAs(releaseRecovery(c, claim, to), c, to) /\ releaseRecovery(c, claim, to) \in Row
<1>. PICK r : r = releaseRecovery(c, claim, to)
  OBVIOUS
<1>1. to \in RowStatus
  BY DEF Released, ReturnTo, IN_EFFECT, RECOVERY_OWED, RowStatus, ChangeStatus
<1>2. row[c] \in Row /\ r \in Row
  BY <1>1, GetType, ReleaseType DEF Known, Base, TypeInv
<1>3. r = [row[c] EXCEPT !.status = to, !.recoveryClaim = NoWorker, !.late = FALSE]
  BY DEF releaseRecovery
<1>4. /\ r.status = to /\ r.kind = row[c].kind /\ r.late = FALSE
      /\ r.recoversId = row[c].recoversId /\ r.sealed = row[c].sealed
  BY <1>2, <1>3 DEF Row
<1>. QED  BY <1>2, <1>4 DEF EndsAs

LEMMA AnsweredRow ==
  ASSUME NEW c, NEW to, NEW q \in Row, EndsAs(q, c, to), NEW by
  PROVE  EndsAs([q EXCEPT !.recoveredById = by], c, to)
<1>. PICK r : r = [q EXCEPT !.recoveredById = by]
  OBVIOUS
<1>1. /\ r.status = q.status /\ r.kind = q.kind /\ r.late = q.late
      /\ r.recoversId = q.recoversId /\ r.sealed = q.sealed
  BY DEF Row
<1>. QED  BY <1>1 DEF EndsAs

\* What settles or comes back is the call's own claim.
LEMMA OwnEnded ==
  ASSUME Known, NEW w \in Worker, pc[w] \in Claiming, NEW c, c = job[w].change,
         NEW to \in Released, GoneIfSettled(c, to), NEW r, EndsAs(r, c, to),
         row' = [row EXCEPT ![c] = r], \A u \in Worker \ {w} : Same(u), \A m : ~Claims(w, m)'
  PROVE  ClaimEnds(w, c, to)
<1>1. c \in ChangeId /\ row[c].status = "recovering" /\ row[c].recoveryClaim = w
  BY OwnClaim
<1>2. row'[c] = r /\ \A m \in ChangeId \ {c} : row'[m] = row[m]
  BY <1>1 DEF Known, Base, TypeInv, TypeOK
<1>3. \A u \in Worker \ {w} : ~Claims(u, c)
  BY <1>1, ClaimOwned
<1>. QED  BY <1>1, <1>2, <1>3 DEF ClaimEnds, EndsAs, GoneIfSettled

LEMMA RestingCall ==
  ASSUME Known, NEW w \in Worker, NEW s, NEW j, Goto(w, s, j),
         s \in {"idle", "asking", "stopping", "following"}
  PROVE  /\ pc'[w] = s /\ job'[w] = j /\ \A u \in Worker \ {w} : Same(u)
         /\ \A m : ~Claims(w, m)'
<1>1. pc'[w] = s /\ job'[w] = j /\ \A u \in Worker \ {w} : Same(u)
  BY DEF Known, Base, TypeInv, TypeOK, Goto, Same
<1>. QED  BY <1>1 DEF Claims, Claiming

LEMMA GiveBackClaims ==
  ASSUME Known, NEW w \in Worker, GiveBack(w)
  PROVE  ClaimsFit'
<1>. PICK c : c = job[w].change
  OBVIOUS
<1>. PICK to : to = job[w].from
  OBVIOUS
<1>. PICK r : r = releaseRecovery(c, w, to)
  OBVIOUS
<1>1. /\ c \in ChangeId /\ Owns(c, w) /\ row[c] \in Row /\ pc[w] \in Claiming
  BY OwnClaim DEF GiveBack, Claiming, Owns
<1>2. to \in ReturnTo /\ job[w].then \in {"idle", "asking", "stopping"}
  BY <1>1, OwnJob DEF GiveBack, Known, Base, StepFits, Job, ChangeId, NoChange
<1>3. to \in Released /\ to \notin {"recovered", "restored"}
  BY <1>2 DEF Released, ReturnTo, IN_EFFECT, RECOVERY_OWED
<1>4. row' = [row EXCEPT ![c] = r] /\ UNCHANGED live
  BY DEF GiveBack
<1>5. EndsAs(r, c, to)
  BY <1>1, <1>3, ReleasedRow
<1>6. PICK s, j : Goto(w, s, j) /\ s \in {"idle", "asking", "stopping"}
  BY <1>2 DEF GiveBack, Leave
<1>7. /\ pc'[w] \in {"idle", "asking", "stopping"} /\ \A u \in Worker \ {w} : Same(u)
      /\ \A m : ~Claims(w, m)'
  BY <1>6, RestingCall
<1>8. GoneIfSettled(c, to)
  BY <1>3 DEF GoneIfSettled
<1>9. ClaimEnds(w, c, to)
  BY <1>1, <1>3, <1>4, <1>5, <1>7, <1>8, OwnEnded
<1>. QED  BY <1>1, <1>4, <1>7, <1>9, EndedClaims

LEMMA SettleRestoreClaims ==
  ASSUME Known, NEW w \in Worker, SettleRestore(w)
  PROVE  ClaimsFit'
<1>. PICK c : c = job[w].change
  OBVIOUS
<1>. PICK n : n = job[w].record
  OBVIOUS
<1>1. /\ c \in ChangeId /\ Owns(c, w) /\ row[c] \in Row /\ pc[w] \in Claiming
  BY OwnClaim DEF SettleRestore, Claiming, Owns
<1>2. CASE row[n].status = "healthy"
  <2>. PICK to \in {"recovered", "restored"} : row' = [row EXCEPT ![c] = settled(c, w, to, n)]
    BY <1>2 DEF SettleRestore
  <2>. PICK q : q = releaseRecovery(c, w, to)
    OBVIOUS
  <2>. PICK r : r = [q EXCEPT !.recoveredById = n]
    OBVIOUS
  <2>1. row' = [row EXCEPT ![c] = r] /\ UNCHANGED live /\ Goto(w, "following", job[w])
    BY <1>1, <1>2 DEF SettleRestore, settled
  <2>2. EndsAs(r, c, to) /\ to \in Released
    <3>2. to \in Released
      BY DEF Released
    <3>. QED  BY <1>1, <3>2, ReleasedRow, AnsweredRow
  <2>3. GoneIfSettled(c, to)
    BY <1>2 DEF SettleRestore, Known, ClaimInv, ClaimsFit, ClaimFits, GoneIfSettled
  <2>4. ClaimEnds(w, c, to) /\ pc'[w] = "following" /\ job'[w] = job[w]
    <3>1. /\ pc'[w] = "following" /\ job'[w] = job[w] /\ \A u \in Worker \ {w} : Same(u)
          /\ \A m : ~Claims(w, m)'
      BY <2>1, RestingCall
    <3>. QED  BY <1>1, <2>1, <2>2, <2>3, <3>1, OwnEnded
  <2>5. row'[c].kind = "recovery" => Following(w)'
    <3>. SUFFICES ASSUME row[c].kind = "recovery" PROVE Following(w)'
      BY <2>4 DEF ClaimEnds
    <3>1. Moved(w, c)
      BY <1>1, <2>4, EndedMoved
    <3>2. Reappliable(c) /\ row[c].recoversId # c /\ row[c].status = "recovering"
      BY <1>1 DEF Known, ClaimInv, ClaimsFit, RowClaimFits, Reappliable, Owns
    <3>3. Reappliable(c)'
      BY <1>1, <3>1, <3>2, MovedReappliable
    <3>4. ASSUME NEW u \in Worker \ {w}, pc'[u] = "following" PROVE job'[u].change # c
      <4>1. pc[u] = "following" /\ job'[u] = job[u] /\ ClaimFits(u)
        BY <3>1, <3>4 DEF Moved, Same, Known, ClaimInv, ClaimsFit
      <4>. QED  BY <3>2, <4>1 DEF ClaimFits, Following
    <3>. QED  BY <2>4, <3>3, <3>4 DEF Following, ClaimEnds
  <2>6. ClaimFits(w)'
    BY <2>4, <2>5 DEF ClaimFits, Claims, Claiming
  <2>. QED  BY <1>1, <2>1, <2>4, <2>6, EndedClaims
<1>3. CASE row[n].status # "healthy"
  <2>. PICK r : r = releaseRecovery(c, w, "recovery_failed")
    OBVIOUS
  <2>1. row' = [row EXCEPT ![c] = r] /\ UNCHANGED live /\ Goto(w, "stopping", job[w])
    BY <1>3 DEF SettleRestore
  <2>2. "recovery_failed" \in Released /\ GoneIfSettled(c, "recovery_failed")
    BY DEF Released, ReturnTo, RECOVERY_OWED, GoneIfSettled
  <2>3. EndsAs(r, c, "recovery_failed")
    BY <1>1, <2>2, ReleasedRow
  <2>4. /\ pc'[w] = "stopping" /\ \A u \in Worker \ {w} : Same(u)
        /\ \A m : ~Claims(w, m)'
    BY <2>1, RestingCall
  <2>5. ClaimEnds(w, c, "recovery_failed")
    BY <1>1, <2>1, <2>2, <2>3, <2>4, OwnEnded
  <2>. QED  BY <1>1, <2>1, <2>4, <2>5, EndedClaims
<1>. QED  BY <1>2, <1>3

\* The reconciler ends a claim that nobody has: a change that it finds undone is
\* gone, and it gives back the status the claim was won from otherwise.
LEMMA ReconcileRestoreClaims ==
  ASSUME Known, NEW w \in Worker, ReconcileRestore(w)
  PROVE  ClaimsFit'
<1>. PICK c : c = job[w].change
  OBVIOUS
<1>. PICK claim : claim = row[c].recoveryClaim
  OBVIOUS
<1>1. pc[w] = "reconciling" /\ job[w].from = "recovering" /\ claim # NoWorker
  BY DEF ReconcileRestore
<1>. PICK untouched, by :
       row' = [row EXCEPT ![c] =
         [releaseRecovery(c, claim, whereItEnded(c, untouched)) EXCEPT !.recoveredById = by]]
  BY DEF ReconcileRestore
<1>2. Leave(w) /\ UNCHANGED live
  BY DEF ReconcileRestore
<1>3. CASE c \notin ChangeId
  <2>1. UNCHANGED row
    BY <1>3 DEF Known, Base, TypeInv, TypeOK
  <2>. QED  BY <1>2, <2>1, SameSteady, LeaveClaims
<1>4. CASE c \in ChangeId
  <2>. PICK to : to = whereItEnded(c, untouched)
    OBVIOUS
  <2>. PICK q : q = releaseRecovery(c, claim, to)
    OBVIOUS
  <2>. PICK r : r = [q EXCEPT !.recoveredById = by]
    OBVIOUS
  <2>1. /\ row[c].status = "recovering" /\ Owns(c, claim) /\ row[c].sealed
        /\ row[c] \in Row /\ RowFits(c)
    BY <1>1, <1>4, GetType DEF Known, Base, TypeInv, RowsFit, RowFits, Owns
  <2>2. to \in Released
    BY <2>1 DEF whereItEnded, Released, RowFits, RECOVERY_OWED, ReturnTo
  <2>3. GoneIfSettled(c, to)
    <3>1. to \in {"recovered", "restored"} => restoredTo(c)
      BY <2>1 DEF whereItEnded, RowFits, ReturnTo, IN_EFFECT, RECOVERY_OWED
    <3>. QED  BY <1>4, <2>1, <3>1, RestoredGone DEF Known, GoneIfSettled
  <2>4. row' = [row EXCEPT ![c] = r]
    OBVIOUS
  <2>5. EndsAs(r, c, to)
    BY <1>4, <2>1, <2>2, ReleasedRow, AnsweredRow
  <2>6. row'[c] = r /\ \A m \in ChangeId \ {c} : row'[m] = row[m]
    BY <1>4, <2>4 DEF Known, Base, TypeInv, TypeOK
  <2>7. pc'[w] = "idle" /\ \A u \in Worker \ {w} : Same(u)
    BY <1>2 DEF Leave, Known, Base, TypeInv, TypeOK, Goto, Same
  <2>8. Abandoned(c)
    BY <1>1 DEF Known, ClaimInv, ClaimsFit, ClaimFits
  <2>9. ClaimEnds(w, c, to)
    BY <2>1, <2>2, <2>3, <2>5, <2>6, <2>7, <2>8
    DEF ClaimEnds, EndsAs, Abandoned, Claims, Claiming
  <2>. QED  BY <1>2, <1>4, <2>7, <2>9, EndedClaims
<1>. QED  BY <1>3, <1>4

-----------------------------------------------------------------------------
(* A reapply is followed, and a restore reaches the catalog.               *)

\* The change a reapply put back was restored, and by the restore taken back: no
\* other call and no other claim relies on that.
LEMMA FollowRestoreClaims ==
  ASSUME Known, NEW w \in Worker, FollowRestore(w)
  PROVE  ClaimsFit'
<1>. PICK c : c = job[w].change
  OBVIOUS
<1>. PICK x : x = row[c].recoversId
  OBVIOUS
<1>1. pc[w] = "following" /\ UNCHANGED live
  BY DEF FollowRestore
<1>2. CASE row[c].kind # "recovery"
  BY <1>1, <1>2, FindClaims DEF FollowRestore
<1>3. CASE row[c].kind = "recovery"
  <2>0. Leave(w)
    BY <1>3 DEF FollowRestore
  <2>1. c \in ChangeId /\ Following(w)
    BY <1>1, <1>3, OwnJob DEF Known, Base, StepFits, ClaimInv, ClaimsFit, ClaimFits
  <2>2. /\ row[x].status = "restored" /\ row[x].recoveredById = c
        /\ row[c].status \in {"restored", "recovered"}
    BY <2>1 DEF Following, Reappliable
  <2>3. x \in ChangeId /\ row[x].kind = "change" /\ row[x].sealed
    <3>1. c # NoChange
      BY <2>1 DEF ChangeId, NoChange
    <3>. QED  BY <1>1, <1>3, <3>1, OwnChange DEF Known, Restorable, Deciding
  <2>4. row[x] \in Row
    BY <2>3, GetType DEF Known, Base, TypeInv
  <2>. PICK r : r = [row[x] EXCEPT !.status = "healthy"]
    OBVIOUS
  <2>5. row' = [row EXCEPT ![x] = r]
    <3>1. transition(x, {"restored"}, "healthy") = r
      BY <2>2 DEF transition, transitions, canTransition, TRANSITIONS, ChangeStatus
    <3>. QED  BY <1>3, <3>1 DEF FollowRestore, reapplied
  <2>6. /\ r.status = "healthy" /\ r.kind = row[x].kind
        /\ r.recoversId = row[x].recoversId /\ r.sealed = row[x].sealed
    BY <2>4 DEF Row
  <2>7. row'[x] = r /\ \A m \in ChangeId \ {x} : row'[m] = row[m]
    BY <2>3, <2>5 DEF Known, Base, TypeInv, TypeOK
  <2>8. /\ pc'[w] = "idle" /\ \A u \in Worker \ {w} : Same(u)
        /\ \A m : ~Claims(w, m)'
    BY <2>0, RestingCall DEF Leave
  <2>9. Moved(w, x)
    BY <2>6, <2>7, <2>8 DEF Moved
  <2>10. Apart(w, x)
    <3>1. ASSUME NEW u \in Worker \ {w} PROVE ApartFrom(u, x)
      <4>. PICK d : d = job[u].change
        OBVIOUS
      <4>1. ClaimFits(u)
        BY DEF Known, ClaimInv, ClaimsFit
      <4>2. ~Claims(u, x)
        BY <2>2, ClaimOwned
      <4>3. pc[u] = "reconciling" /\ job[u].from = "recovering" => d # x \/ Abandoned(x)'
        <5>1. \A v \in Worker : ~Claims(v, x)'
          <6>1. ASSUME NEW v \in Worker \ {w} PROVE ~Claims(v, x)'
            <7>1. ~Claims(v, x)
              BY <2>2, ClaimOwned
            <7>. QED  BY <2>8, <7>1 DEF Claims, Same
          <6>. QED  BY <2>8, <6>1
        <5>. QED  BY <5>1 DEF Abandoned
      <4>4. pc[u] = "settling" => job[u].record # x
        BY <2>3, <4>1 DEF ClaimFits
      <4>5. pc[u] = "following" /\ row[d].kind = "recovery" => d # x /\ row[d].recoversId # x
        BY <2>1, <2>2, <2>3, <4>1 DEF ClaimFits, Following, Reappliable
      <4>. QED  BY <4>2, <4>3, <4>4, <4>5 DEF ApartFrom
    <3>2. \A m \in ChangeId \ {x} : row[m].status = "recovering" /\ row[m].kind = "recovery" =>
                                      row[m].recoversId # x
      BY <2>2 DEF Known, ClaimInv, ClaimsFit, RowClaimFits, Reappliable
    <3>. QED  BY <3>1, <3>2 DEF Apart
  <2>11. RowClaimFits(x)'
    BY <2>6, <2>7 DEF RowClaimFits
  <2>12. ClaimFits(w)'
    BY <2>8 DEF ClaimFits
  <2>. QED  BY <1>1, <2>3, <2>9, <2>10, <2>11, <2>12, MovedStep
<1>. QED  BY <1>2, <1>3

\* A restore takes away a change that is claimed. A reapply puts back one that is
\* restored, and from here on the row of the reapply explains it.
LEMMA CommitRestoreClaims ==
  ASSUME Known, NEW w \in Worker, CommitRestore(w)
  PROVE  ClaimsFit'
<1>. PICK c : c = job[w].change
  OBVIOUS
<1>. PICK n : n = job[w].record
  OBVIOUS
<1>. PICK x : x = Subject(c)
  OBVIOUS
<1>1. /\ pc[w] = "restoring" /\ UNCHANGED <<row, lock>> /\ Goto(w, "committed", job[w])
  BY DEF CommitRestore
<1>2. /\ pc'[w] = "committed" /\ job'[w] = job[w] /\ \A u \in Worker \ {w} : Same(u)
  BY <1>1 DEF Known, Base, TypeInv, TypeOK, Goto, Same
<1>3. Claims(w, c) /\ c \in ChangeId /\ row[c].status = "recovering" /\ Restorable(c)
  BY <1>1, OwnClaim DEF Claiming
<1>4. /\ n \in ChangeId /\ row[n].status = "applying" /\ row[n].kind = "recovery"
      /\ row[n].recoversId = c
  <2>1. n \in ChangeId /\ RecordFits(w) /\ c # NoChange
    BY <1>1, <1>3, OwnRecord DEF HasRecord, Applying, Known, ChangeId, NoChange
  <2>. QED  BY <1>1, <2>1 DEF RecordFits, HasRecord, Applying
<1>5. ASSUME NEW m \in ChangeId, m # x PROVE Gone(m)' = Gone(m)
  <2>1. \A t \in Table : live'[t] \ {x} = live[t] \ {x}
    BY <1>3, RestoreIsExact DEF CommitRestore, Known
  <2>. QED  BY <1>5, <2>1 DEF Gone
<1>6. ASSUME NEW u \in Worker, NEW m PROVE Claims(u, m)' = Claims(u, m)
  BY <1>1, <1>2 DEF Claims, Same, Claiming
<1>7. ASSUME NEW m \in ChangeId, Lasting(m) PROVE Lasting(m)'
  BY <1>1, <1>2, <1>7 DEF Lasting, Same
<1>8. Lasting(n)'
  <2>1. ASSUME NEW u \in Worker, pc'[u] = "restoring" PROVE FALSE
    <3>1. u # w /\ pc[u] = "restoring"
      BY <1>2, <2>1 DEF Same
    <3>. QED  BY <1>1, <3>1 DEF Known, Base, OneAtATime, Holds, HoldsAt, HasRecord, Applying
  <2>. QED  BY <1>1, <1>4, <2>1 DEF Lasting
<1>9. \/ row[c].kind = "change" /\ x = c
      \/ row[c].kind = "recovery" /\ row[x].status = "restored" /\ row[x].recoveredById = c
  <2>1. row[c].kind \in {"change", "recovery"}
    BY <1>3, GetType DEF Known, Base, TypeInv, Row
  <2>2. row[c].kind = "recovery" => Reappliable(c) /\ row[row[c].recoversId].kind = "change"
    BY <1>3 DEF Known, ClaimInv, ClaimsFit, RowClaimFits, Restorable
  <2>. QED  BY <2>1, <2>2 DEF Subject, Reappliable
<1>10. ASSUME NEW m \in ChangeId PROVE RowClaimFits(m)'
  <2>1. RowClaimFits(m) /\ Reappliable(m)' = Reappliable(m) /\ Abandoned(m)' = Abandoned(m)
    BY <1>1, <1>6 DEF Known, ClaimInv, ClaimsFit, Reappliable, Abandoned
  <2>2. row[m].kind = "change" /\ row[m].status = "recovered" => Gone(m)'
    BY <1>3, <1>5, <1>9, <2>1 DEF RowClaimFits
  <2>3. row[m].kind = "change" /\ row[m].status = "restored" /\ ~Gone(m)' =>
          ReappliedOnRecord(row[m].recoveredById)'
    <3>1. CASE m # x
      BY <1>1, <1>5, <1>7, <2>1, <3>1 DEF RowClaimFits, ReappliedOnRecord
    <3>2. CASE m = x
      BY <1>1, <1>3, <1>4, <1>8, <1>9, <3>2 DEF ReappliedOnRecord
    <3>. QED  BY <3>1, <3>2
  <2>. QED  BY <1>1, <2>1, <2>2, <2>3 DEF RowClaimFits
<1>11. ASSUME NEW u \in Worker PROVE ClaimFits(u)'
  <2>1. CASE u = w
    BY <1>1, <1>2, <1>3, <2>1, ClaimOwned DEF ClaimFits, Owns
  <2>2. CASE u # w
    <3>. PICK d : d = job[u].change
      OBVIOUS
    <3>. PICK r : r = job[u].record
      OBVIOUS
    <3>1. ClaimFits(u) /\ pc'[u] = pc[u] /\ job'[u] = job[u]
      BY <1>2, <2>2 DEF Same, Known, ClaimInv, ClaimsFit
    <3>2. Claims(u, d)' => Owns(d, u)'
      BY <1>1, <1>6, <3>1 DEF ClaimFits, Owns
    <3>3. pc[u] = "reconciling" /\ job[u].from = "recovering" => Abandoned(d)'
      BY <1>6, <3>1 DEF ClaimFits, Abandoned
    <3>4. pc[u] = "settling" =>
            /\ row[r].sealed /\ row[r].kind = "recovery" /\ row[r].recoversId = d
            /\ row[d].kind = "change" /\ row[r].status = "healthy" => Gone(d)'
      <4>. SUFFICES ASSUME pc[u] = "settling"
                    PROVE  d # x /\ d \in ChangeId
        BY <1>5, <3>1 DEF ClaimFits
      <4>1. d \in ChangeId /\ row[d].status = "recovering" /\ row[d].recoveryClaim = u
        BY OwnClaim DEF Claiming
      <4>2. row[c].recoveryClaim = w
        BY <1>3, ClaimOwned
      <4>. QED  BY <1>9, <2>2, <4>1, <4>2
    <3>5. pc[u] = "following" /\ row[d].kind = "recovery" => Following(u)'
      <4>. SUFFICES ASSUME pc[u] = "following", row[d].kind = "recovery"
                    PROVE  Following(u)'
        OBVIOUS
      <4>1. Following(u) /\ Reappliable(d)' = Reappliable(d)
        BY <1>1, <3>1 DEF ClaimFits, Reappliable
      <4>2. ASSUME NEW v \in Worker \ {u}, pc'[v] = "following" PROVE job'[v].change # d
        BY <1>2, <4>1, <4>2 DEF Same, Following
      <4>. QED  BY <1>1, <3>1, <4>1, <4>2 DEF Following
    <3>. QED  BY <1>1, <3>1, <3>2, <3>3, <3>4, <3>5 DEF ClaimFits
  <2>. QED  BY <2>1, <2>2
<1>. QED  BY <1>10, <1>11 DEF ClaimInv, ClaimsFit

-----------------------------------------------------------------------------
(* A reapply that has been read is possible until its claim is won or lost. *)

\* A restored row stays restored, by the same record, until a reapply follows.
RestoredBy(x) == row'[x].status = "restored" /\ row'[x].recoveredById = row[x].recoveredById

PutsBack(w, x) == LET c == job[w].change IN
                  FollowRestore(w) /\ row[c].kind = "recovery" /\ row[c].recoversId = x

LEMMA PutRestored ==
  ASSUME TypeOK, NEW x \in ChangeId, row[x].status = "restored", NEW n, NEW r,
         row' = [row EXCEPT ![n] = r],
         n = x => r.status = "restored" /\ r.recoveredById = row[x].recoveredById
  PROVE  RestoredBy(x)
BY DEF RestoredBy, TypeOK

LEMMA MovingRestored ==
  ASSUME Known, NEW x \in ChangeId, row[x].status = "restored", NEW w \in Worker, Moving(w)
  PROVE  RestoredBy(x) \/ PutsBack(w, x)
<1>. PICK c : c = job[w].change
  OBVIOUS
<1>0. TypeOK /\ row[x] \in Row /\ RowFits(x)
  BY GetType DEF Known, Base, TypeInv, RowsFit
<1>1. CASE UNCHANGED row
  BY <1>1 DEF RestoredBy
<1>2. ASSUME NEW n, NEW from, NEW to, "restored" \notin from,
             row' = [row EXCEPT ![n] = transition(n, from, to)]
      PROVE  RestoredBy(x)
  BY <1>0, <1>2, PutRestored DEF transition, transitions
<1>3. CASE Claim(w)
  <2>1. row[c].status \in ReturnTo
    BY <1>3, MayClaimStatus DEF Claim
  <2>2. c # x
    BY <2>1 DEF ReturnTo, IN_EFFECT, RECOVERY_OWED
  <2>. QED  BY <1>0, <1>3, <2>2, PutRestored DEF Claim
<1>4. CASE RecordStarted(w)
  <2>. PICK r : r = [row[c] EXCEPT !.started = [mode |-> job[w].mode, from |-> job[w].from]]
    OBVIOUS
  <2>1. c = x => r.status = row[x].status /\ r.recoveredById = row[x].recoveredById
    BY <1>0 DEF Row
  <2>. QED  BY <1>0, <1>4, <2>1, PutRestored DEF RecordStarted
<1>5. CASE GiveBack(w) \/ SettleRestore(w)
  <2>1. ~Owns(x, w)
    BY DEF Owns
  <2>2. \E r : row' = [row EXCEPT ![c] = r] /\ (c = x => r = row[x])
    BY <1>5, <2>1 DEF GiveBack, SettleRestore, settled, releaseRecovery
  <2>. QED  BY <1>0, <2>2, PutRestored
<1>6. CASE ReconcileRestore(w)
  <2>1. c # x
    BY <1>0, <1>6 DEF ReconcileRestore, RowFits
  <2>. QED  BY <1>0, <1>6, <2>1, PutRestored DEF ReconcileRestore
<1>7. CASE FollowRestore(w)
  <2>1. CASE row[c].kind = "recovery"
    BY <1>0, <1>7, <2>1, PutRestored DEF FollowRestore, PutsBack
  <2>. QED  BY <1>1, <1>7, <2>1 DEF FollowRestore
<1>8. CASE StopAndEscalate(w) \/ Escalate(w) \/ KeepChange(w) \/ KeepDeclined(w)
  <2>1. CASE StopAndEscalate(w)
    BY <1>2, <2>1 DEF StopAndEscalate
  <2>2. CASE Escalate(w)
    BY <1>2, <2>2 DEF Escalate
  <2>3. CASE KeepChange(w) \/ KeepDeclined(w)
    <3>1. PICK n : row' = kept(n)
      BY <2>3 DEF KeepChange, KeepDeclined
    <3>. QED  BY <1>2, <3>1 DEF kept, keepableFrom
  <2>. QED  BY <1>8, <2>1, <2>2, <2>3
<1>9. CASE \/ StartRestore(w) \/ ApproveRestore(w) \/ RecoverAutomatically(w)
           \/ PauseRecovery(w) \/ LockRefused(w) \/ FollowKeep(w) \/ DeclineRequest(w)
  BY <1>1, <1>9 DEF StartRestore, ApproveRestore, RecoverAutomatically, PauseRecovery,
                    LockRefused, FollowKeep, DeclineRequest
<1>10. CASE LeavesOnly(w)
  BY <1>1, <1>10 DEF LeavesOnly, RequestApproval, ReconcileBusy, Crash, ClaimLost, AnswerRequest
<1>. QED  BY <1>3, <1>4, <1>5, <1>6, <1>7, <1>8, <1>9, <1>10 DEF Moving, Keeps

LEMMA StaysRestored ==
  ASSUME Known, WholeInv, [Next]_vars, NEW x \in ChangeId, row[x].status = "restored"
  PROVE  RestoredBy(x) \/ \E w \in Worker : PutsBack(w, x)
<1>0. TypeOK /\ row[x] \in Row /\ row[x].sealed
  BY GetType, HeldSealed DEF Known, Base, TypeInv, Held
<1>1. CASE UNCHANGED row
  BY <1>1 DEF RestoredBy
<1>2. ASSUME NEW w \in Worker, NEW n \in ChangeId, Writes(w, n) PROVE RestoredBy(x)
  <2>1. row'[x] = row[x]
    BY <1>0, <1>2 DEF Writes
  <2>. QED  BY <2>1 DEF RestoredBy
<1>3. ASSUME NEW n \in ChangeId, TimeIsUp(n) PROVE RestoredBy(x)
  <2>1. n # x
    BY <1>3 DEF TimeIsUp, InProgress
  <2>2. row'[x] = row[x]
    BY <1>0, <1>3, <2>1 DEF TimeIsUp, TypeOK
  <2>. QED  BY <2>2 DEF RestoredBy
<1>4. \A w \in Worker, n \in ChangeId : ReadLate(w, n) => UNCHANGED row
  BY DEF ReadLate
<1>5. \A w \in Worker : RunStatement(w) \/ CommitRestore(w) => UNCHANGED row
  BY DEF RunStatement, CommitRestore
<1>6. ChangeOutside => UNCHANGED row
  BY DEF ChangeOutside
<1>. QED  BY <1>1, <1>2, <1>3, <1>4, <1>5, <1>6, ActionKinds, MovingRestored DEF Known

\* A call is loaded by reading a row that may be restored.
LEMMA NewlyLoaded ==
  ASSUME TypeOK, [Next]_vars, NEW w \in Worker, pc'[w] = "loaded", ~Same(w)
  PROVE  UNCHANGED row /\ \E n, mode : Available(n, mode) /\ job'[w].change = n
<1>. DEFINE Goal == UNCHANGED row /\ \E n, mode : Available(n, mode) /\ job'[w].change = n
<1>1. ASSUME NEW u \in Worker, NEW s, NEW j, Goto(u, s, j)
      PROVE  u = w /\ s = "loaded"
  BY <1>1 DEF TypeOK, Goto, Same
<1>2. ASSUME NEW u \in Worker PROVE ~Leave(u)
  BY <1>1 DEF Leave
<1>3. ASSUME NEW u \in Worker PROVE ~CloseFailing(u)
  BY <1>1, <1>2 DEF CloseFailing
<1>4. ASSUME NEW u \in Worker, NEW s, NEW j, LeaveRecord(u, s, j) PROVE s = "loaded"
  BY <1>1, <1>4 DEF LeaveRecord
<1>5. ASSUME NEW u \in Worker, NEW n, NEW mode, Load(u, n, mode), Available(n, mode),
             UNCHANGED row
      PROVE  Goal
  <2>. PICK j : j = [NoJob EXCEPT !.mode = mode, !.change = n]
    OBVIOUS
  <2>0. Goto(u, "loaded", j) /\ j.change = n
    BY <1>5 DEF Load, NoJob
  <2>1. job'[w].change = n
    BY <1>1, <2>0 DEF Goto, TypeOK
  <2>. QED  BY <1>5, <2>1
<1>6. ~ UNCHANGED <<pc, job>>
  BY DEF Same
<1>. HIDE DEF Goal
<1>7. ASSUME NEW u \in Worker, Begin(u) PROVE Goal
  <2>1. ~OpenChange(u) /\ ~KeepChange(u) /\ ~DeclineRequest(u)
    <3>1. OpenChange(u) \/ KeepChange(u) \/ DeclineRequest(u)
            => \E s \in {"working", "keeping", "declined"} : \E j : Goto(u, s, j)
      BY DEF OpenChange, KeepChange, DeclineRequest
    <3>. QED  BY <1>1, <3>1
  <2>2. StartRestore(u) => Goal
    BY <1>5 DEF StartRestore
  <2>3. ApproveRestore(u) => Goal
    BY <1>5, <1>6 DEF ApproveRestore
  <2>. QED  BY <1>7, <2>1, <2>2, <2>3 DEF Begin
<1>8. ASSUME NEW u \in Worker
      PROVE  ~RunStatement(u) /\ ~ReconcileBusy(u) /\ ~Reconcile(u) /\ ~Crash(u)
  BY <1>2, <1>6 DEF RunStatement, ReconcileBusy, Reconcile, ReconcileRestore, ReconcileOpen, Crash
<1>9. ~ChangeOutside /\ (\A n : ~TimeIsUp(n)) /\ ~UNCHANGED vars
  BY <1>6 DEF ChangeOutside, TimeIsUp, vars
<1>10. ASSUME NEW u \in Worker, NEW n PROVE ~ReadLate(u, n)
  BY <1>1 DEF ReadLate
<1>11. ASSUME NEW u \in Worker, Continue(u) PROVE Goal
  <2>1. ~DiscardChange(u) /\ ~FailedAfterCommit(u) /\ ~ClaimLost(u) /\ ~AnswerRequest(u)
        /\ ~StopAndEscalate(u) /\ ~RequestApproval(u) /\ ~KeepDeclined(u)
    BY <1>2 DEF DiscardChange, FailedAfterCommit, ClaimLost, AnswerRequest,
                StopAndEscalate, RequestApproval, KeepDeclined
  <2>2. /\ ~Applied(u) /\ ~RecordStarted(u) /\ ~LockRefused(u) /\ ~SettleRestore(u)
        /\ ~CommitRestore(u)
    BY <1>1 DEF Applied, RecordStarted, LockRefused, SettleRestore, CommitRestore
  <2>3. ~ApplyFailed(u) /\ ~Verified(u)
    BY <1>2, <1>3, <1>4 DEF ApplyFailed, Verified
  <2>4. ~Escalate(u) /\ ~FollowRestore(u) /\ ~FollowKeep(u)
    BY <1>1, <1>2 DEF Escalate, FollowRestore, FollowKeep, FindRequest
  <2>5. ~RefuseRestore(u) /\ ~RestoreFailed(u)
    BY <1>4 DEF RefuseRestore, RestoreFailed
  <2>6. ~GiveBack(u)
    <3>1. job[u].then # "loaded"
      BY DEF TypeOK, Job
    <3>. QED  BY <1>1, <1>2, <3>1 DEF GiveBack
  <2>7. RecoverAutomatically(u) => Goal
    BY <1>2, <1>5 DEF RecoverAutomatically
  <2>8. ~PauseRecovery(u) /\ ~OpenRecord(u) /\ ~Claim(u)
    <3>1. ~PauseRecovery(u)
      BY <1>1 DEF PauseRecovery
    <3>2. OpenRecord(u) => \E j : Goto(u, "restoring", j)
      BY DEF OpenRecord
    <3>3. ~Claim(u)
      BY <1>1 DEF Claim
    <3>. QED  BY <1>1, <3>1, <3>2, <3>3
  <2>. QED  BY <1>11, <2>1, <2>2, <2>3, <2>4, <2>5, <2>6, <2>7, <2>8 DEF Continue
<1>12. Goal
  BY <1>7, <1>8, <1>9, <1>10, <1>11 DEF Next
<1>. QED  BY <1>12 DEF Goal

\* The target of a reapply that was read moves on only with a claim of the reapply.
LEMMA ReadStays ==
  ASSUME Known, WholeInv, [Next]_vars, NEW w \in Worker, pc[w] = "loaded", Same(w),
         NEW c, c = job[w].change, row'[c].kind = "recovery",
         row'[c].status \in restorableFrom("manual")
  PROVE  Reappliable(c)'
<1>. PICK x : x = row[c].recoversId
  OBVIOUS
<1>1. c \in ChangeId /\ Restorable(c) /\ RowFits(c) /\ TypeOK
  <2>1. c \in ChangeId /\ c # NoChange
    BY OwnJob DEF Known, Base, StepFits, ChangeId, NoChange
  <2>. QED  BY <2>1, OwnChange DEF Deciding, Known, Base, TypeInv, RowsFit
<1>2. SealedStay
  BY StepKinds, RowsMoveRecords DEF Known, Writes, SealedStay, SameRecord, RunStatement, CommitRestore
<1>3. /\ row[c].kind = "recovery" /\ row'[c].recoversId = x
      /\ x \in ChangeId /\ row[x].sealed /\ row[x].kind = "change"
  BY <1>1, <1>2 DEF Restorable, SealedStay, SameRecord
<1>4. row'[c].status \in ReturnTo
  BY DEF restorableFrom, ReturnTo
<1>5. Reappliable(c)
  <2>1. CASE row[c].status \in restorableFrom("manual")
    BY <1>3, <2>1 DEF Known, ClaimInv, LoadedFits
  <2>2. CASE row[c].status = "recovering"
    BY <1>1, <1>3, <2>2 DEF Known, ClaimInv, ClaimsFit, RowClaimFits
  <2>3. CASE row[c].status = "restored"
    <3>1. PICK u \in Worker : PutsBack(u, c)
      BY <1>1, <1>4, <2>3, StaysRestored DEF RestoredBy, ReturnTo, IN_EFFECT, RECOVERY_OWED
    <3>2. row[job[u].change].kind = "recovery" /\ row[job[u].change].recoversId = c
          /\ pc[u] = "following"
      BY <3>1 DEF PutsBack, FollowRestore
    <3>3. job[u].change \in ChangeId /\ job[u].change # NoChange
      BY <3>2, OwnJob DEF Known, Base, StepFits, ChangeId, NoChange
    <3>4. Restorable(job[u].change)
      BY <3>2, <3>3, OwnChange DEF Known, Deciding
    <3>. QED  BY <1>3, <3>2, <3>4 DEF Restorable
  <2>4. CASE row[c].status \notin restorableFrom("manual") \cup {"recovering", "restored"}
    <3>1. row'[c].status # row[c].status /\ ~UNCHANGED vars
      BY <2>4 DEF vars
    <3>2. Edge(c, row'[c])
      BY <1>1, <3>1, EveryEdge DEF Edges, Known
    <3>3. canTransition(row[c].status, row'[c].status)
      BY <1>1, <1>4, <3>1, <3>2 DEF Edge, Restorable, RowFits
    <3>4. row[c].status \in {"unopened", "withdrawn", "applying", "verifying", "failed", "recovered"}
      BY <1>1, <2>4, GetType DEF restorableFrom, IN_EFFECT, RECOVERY_OWED, Row, RowStatus, ChangeStatus
    <3>5. row[c].status \in {"failed", "recovered"}
      BY <1>1, <3>4 DEF RowFits, Restorable
    <3>. QED  BY <3>3, <3>5 DEF canTransition, TRANSITIONS, ChangeStatus
  <2>. QED  BY <2>1, <2>2, <2>3, <2>4
<1>6. row[x].status = "restored" /\ row[x].recoveredById = c
  BY <1>5 DEF Reappliable
<1>7. ~ \E u \in Worker : PutsBack(u, x)
  <2>. SUFFICES ASSUME NEW u \in Worker, PutsBack(u, x) PROVE FALSE
    OBVIOUS
  <2>. PICK d : d = job[u].change
    OBVIOUS
  <2>1. Following(u) /\ row[d].recoversId = x
    BY DEF PutsBack, FollowRestore, Known, ClaimInv, ClaimsFit, ClaimFits
  <2>2. d = c /\ row[c].status \in {"restored", "recovered"}
    BY <1>6, <2>1 DEF Following, Reappliable
  <2>3. row' = [row EXCEPT ![x] = reapplied(x)]
    BY DEF PutsBack, FollowRestore
  <2>4. row'[c] = row[c]
    BY <1>1, <1>3, <2>3 DEF TypeOK
  <2>. QED  BY <1>4, <2>2, <2>4 DEF ReturnTo, IN_EFFECT, RECOVERY_OWED
<1>. QED  BY <1>3, <1>6, <1>7, StaysRestored DEF RestoredBy, Reappliable

LEMMA LoadedStep ==
  ASSUME Known, WholeInv, [Next]_vars
  PROVE  \A w \in Worker : LoadedFits(w)'
<1>. SUFFICES ASSUME NEW w \in Worker, NEW c, c = job'[w].change, pc'[w] = "loaded",
                     row'[c].kind = "recovery", row'[c].status \in restorableFrom("manual")
              PROVE  Reappliable(c)'
  BY DEF LoadedFits
<1>1. CASE Same(w)
  BY <1>1, ReadStays DEF Same
<1>2. CASE ~Same(w)
  <2>1. UNCHANGED row /\ \E mode : Available(c, mode)
    BY <1>2, NewlyLoaded DEF Known, Base, TypeInv
  <2>. QED  BY <2>1 DEF Available, reapplicable, Reappliable
<1>. QED  BY <1>1, <1>2

-----------------------------------------------------------------------------
(* The theorems about claims.                                              *)

LEMMA ClaimInit == Init => ClaimInv
<1>. SUFFICES ASSUME Init PROVE ClaimInv
  OBVIOUS
<1>1. \A n \in ChangeId : RowClaimFits(n)
  BY DEF Init, NoRow, RowClaimFits
<1>2. \A w \in Worker : ClaimFits(w)
  BY DEF Init, ClaimFits, Claims, Claiming
<1>3. \A w \in Worker : LoadedFits(w)
  BY DEF Init, LoadedFits
<1>. QED  BY <1>1, <1>2, <1>3 DEF ClaimInv, ClaimsFit

LEMMA ClaimsFitStep ==
  ASSUME Timely, Known, [Next]_vars
  PROVE  ClaimsFit'
<1>1. ASSUME NEW w \in Worker, Continue(w) PROVE ClaimsFit'
  BY <1>1, WithdrawClaims, AppliedClaims, FailedClaims, VerifiedClaims, LoadClaims,
     TakenClaims, WaitingClaims, RecordStartedClaims, OpenClaims, CommitRestoreClaims,
     GiveBackClaims, SettleRestoreClaims, FollowRestoreClaims, EscalatingClaims,
     LeavingClaims, KeepClaims
  DEF Continue, LeavesOnly, Keeps
<1>2. ASSUME NEW w \in Worker, Begin(w) \/ RunStatement(w) PROVE ClaimsFit'
  BY <1>2, OpenClaims, LoadClaims, KeepClaims, RunStatementClaims DEF Begin, Keeps
<1>3. ASSUME NEW w \in Worker, ReconcileBusy(w) \/ Reconcile(w) \/ Crash(w) PROVE ClaimsFit'
  BY <1>3, LeavingClaims, ReconcileRestoreClaims, ReconcileOpenClaims DEF Reconcile, LeavesOnly
<1>4. ASSUME NEW w \in Worker, NEW n \in ChangeId, ReadLate(w, n) PROVE ClaimsFit'
  BY <1>4, ReadLateClaims
<1>5. ASSUME NEW n \in ChangeId, TimeIsUp(n) PROVE ClaimsFit'
  BY <1>5, TimeIsUpClaims
<1>6. CASE UNCHANGED vars
  BY <1>6, SameSteady, LiveSteady, StillClaims DEF vars
<1>. QED  BY <1>1, <1>2, <1>3, <1>4, <1>5, <1>6, OutsideClaims DEF Next

LEMMA ClaimStep ==
  ASSUME Timely, Known, WholeInv, [Next]_vars
  PROVE  ClaimInv'
BY ClaimsFitStep, LoadedStep DEF ClaimInv

\* A claim has one owner, and its change is moved by that owner alone, or by the
\* reconciler once the owner has died: where a lease outlasts the call that took
\* it (RECOVERY_LEASE_MS) and a reconciler's reading outlasts its wait for the
\* lock, however many calls die, restore the same change or reapply it.
THEOREM ClaimInvariant == Prompt => (Spec => []ClaimInv)
<1>. SUFFICES ASSUME Prompt PROVE Spec => []ClaimInv
  OBVIOUS
<1>1. Init => ClaimInv
  BY ClaimInit
<1>2. LedgerInv /\ EvidenceInv /\ WholeInv /\ ClaimInv /\ [Next]_vars => ClaimInv'
  BY ClaimStep, LedgerInvBase DEF Known, Prompt, Timely
<1>. QED  BY <1>1, <1>2, LedgerInvariant, EvidenceInvariant, WholeInvariant, PTL DEF Spec

\* A change Backenly recovered stays recovered, for any number of calls, rows and
\* deaths: the claim of a change is settled as recovered only where the catalog
\* shows it gone, and a reapply can start, and go on, only while the change is
\* restored by the very restore it takes back (targetOf, releaseRecovery).
THEOREM RecoveredStaysGone == Prompt => (Spec => []RecoveredIsGone)
<1>. SUFFICES ASSUME Prompt PROVE Spec => []RecoveredIsGone
  OBVIOUS
<1>1. ClaimInv => RecoveredIsGone
  BY DEF ClaimInv, ClaimsFit, RowClaimFits, RecoveredIsGone, Recorded
<1>2. Prompt => (Spec => []ClaimInv)
  BY ClaimInvariant
<1>. QED  BY <1>1, <1>2, PTL

\* A restored change that is back in the catalog is explained by a row of the
\* ledger: a reapply of the restore it names, which did not fail.
THEOREM HistoryIsExplained == Prompt => (Spec => []HistoryExplains)
<1>. SUFFICES ASSUME Prompt PROVE Spec => []HistoryExplains
  OBVIOUS
<1>1. ClaimInv => HistoryExplains
  <2>. SUFFICES ASSUME ClaimInv, NEW n \in Recorded, row[n].kind = "change",
                       row[n].status = "restored", ~Gone(n)
                PROVE  \E m \in Recorded : /\ row[m].kind = "recovery" /\ row[m].status # "failed"
                                           /\ row[m].recoversId = row[n].recoveredById
    BY DEF HistoryExplains
  <2>1. ReappliedOnRecord(row[n].recoveredById)
    BY DEF ClaimInv, ClaimsFit, RowClaimFits, Recorded
  <2>. QED  BY <2>1 DEF ReappliedOnRecord, Lasting, Recorded
<1>2. Prompt => (Spec => []ClaimInv)
  BY ClaimInvariant
<1>. QED  BY <1>1, <1>2, PTL
===============================================================================
