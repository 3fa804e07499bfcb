-------------------------- MODULE ChangeLedgerProofs --------------------------
(***************************************************************************)
(* Theorems about ChangeLedger, for any number of calls, tables, rows and  *)
(* faults.                                                                 *)
(***************************************************************************)
EXTENDS ChangeLedgerInvariant, TLAPS

-----------------------------------------------------------------------------
(* The primitives return rows. *)

LEMMA NoRowType == NoRow \in Row
BY DEF NoRow, Row, RowStatus, ChangeStatus, Catalog, RecoveryMode

LEMMA GetType ==
  ASSUME TypeOK, NEW n \in ChangeId
  PROVE  row[n] \in Row
BY DEF TypeOK

LEMMA PutType ==
  ASSUME TypeOK, NEW n, NEW r, n \in ChangeId => r \in Row,
         row' = [row EXCEPT ![n] = r]
  PROVE  row' \in [ChangeId -> Row]
BY DEF TypeOK

LEMMA MoveType ==
  ASSUME NEW r \in Row, NEW s \in RowStatus, NEW u \in Worker \cup {NoWorker}
  PROVE  /\ [r EXCEPT !.status = s] \in Row
         /\ [r EXCEPT !.status = s, !.recoveryClaim = u, !.late = FALSE] \in Row
BY DEF Row

LEMMA FieldType ==
  ASSUME NEW r \in Row, NEW s \in RowStatus, NEW m \in {NoChange} \cup ChangeId,
         NEW b \in BOOLEAN, NEW F \in SUBSET Table
  PROVE  /\ [r EXCEPT !.recoveredById = m] \in Row
         /\ [r EXCEPT !.late = TRUE] \in Row
         /\ [r EXCEPT !.sealed = TRUE, !.late = FALSE] \in Row
         /\ [r EXCEPT !.status = s, !.sealed = TRUE, !.confirmed = b,
                      !.late = FALSE] \in Row
         /\ [r EXCEPT !.status = s, !.late = FALSE, !.footprint = F] \in Row
BY DEF Row

LEMMA StatusType ==
  /\ ChangeStatus \subseteq RowStatus
  /\ {"unopened", "withdrawn"} \subseteq RowStatus
BY DEF RowStatus

LEMMA TransitionType ==
  ASSUME TypeOK, NEW n \in ChangeId, NEW from, NEW to \in RowStatus
  PROVE  transition(n, from, to) \in Row
BY GetType, MoveType DEF transition

LEMMA ClaimType ==
  ASSUME TypeOK, NEW n \in ChangeId, NEW w \in Worker
  PROVE  claimRecovery(n, w) \in Row
<1>1. "recovering" \in RowStatus
  BY DEF RowStatus, ChangeStatus
<1>. QED  BY <1>1, GetType, MoveType DEF claimRecovery

LEMMA ReleaseType ==
  ASSUME TypeOK, NEW n \in ChangeId, NEW claim, NEW to \in RowStatus
  PROVE  releaseRecovery(n, claim, to) \in Row
BY GetType, MoveType DEF releaseRecovery

LEMMA SettledType ==
  ASSUME TypeOK, NEW n \in ChangeId, NEW w, NEW to \in RowStatus,
         NEW r \in {NoChange} \cup ChangeId
  PROVE  settled(n, w, to, r) \in Row
BY GetType, ReleaseType, FieldType DEF settled

LEMMA EvidenceType ==
  ASSUME TypeOK, NEW n \in ChangeId, NEW status \in RowStatus
  PROVE  withEvidence(n, status) \in Row
<1>1. ASSUME NEW r \in Row, NEW F \in SUBSET Table
      PROVE  [r EXCEPT !.status = status, !.resultState = live, !.footprint = F] \in Row
  BY DEF TypeOK, Row
<1>2. diffCatalogs(row[n].checkpoint, live) \in SUBSET Table
  BY DEF diffCatalogs
<1>. QED  BY <1>1, <1>2, GetType DEF withEvidence

LEMMA ClosedType ==
  ASSUME TypeOK, NEW n \in ChangeId, NEW status \in RowStatus
  PROVE  closed(n, status) \in Row
<1>1. ASSUME NEW r \in Row PROVE [r EXCEPT !.sealed = TRUE, !.late = FALSE] \in Row
  BY DEF Row
<1>. QED  BY <1>1, EvidenceType DEF closed

LEMMA AllocateType ==
  ASSUME TypeOK, NEW kind \in {"change", "recovery"},
         NEW c \in {NoChange} \cup ChangeId
  PROVE  allocateRow(kind, c) \in Row
<1>1. "applying" \in RowStatus
  BY DEF RowStatus, ChangeStatus
<1>2. ASSUME NEW r \in Row
      PROVE  [r EXCEPT !.status = "applying", !.kind = kind, !.recoversId = c,
                       !.checkpoint = live] \in Row
  BY <1>1 DEF TypeOK, Row
<1>. QED  BY <1>2, NoRowType DEF allocateRow

LEMMA WithdrawnType == [NoRow EXCEPT !.status = "withdrawn"] \in Row
BY NoRowType, MoveType, StatusType

-----------------------------------------------------------------------------
(* Jobs and steps. *)

LEMMA NoJobType == NoJob \in Job
BY DEF NoJob, Job, RecoveryMode, ChangeStatus

LEMMA JobType ==
  ASSUME NEW j \in Job, NEW mode \in RecoveryMode, NEW from \in ChangeStatus,
         NEW n \in {NoChange} \cup ChangeId, NEW then \in {"idle", "asking", "stopping"}
  PROVE  /\ [j EXCEPT !.record = n] \in Job
         /\ [j EXCEPT !.then = then] \in Job
         /\ [j EXCEPT !.from = from] \in Job
         /\ [j EXCEPT !.change = n] \in Job
         /\ [j EXCEPT !.from = from, !.then = then] \in Job
         /\ [j EXCEPT !.mode = mode, !.change = n] \in Job
         /\ [j EXCEPT !.change = n, !.from = from] \in Job
BY DEF Job

LEMMA GotoType ==
  ASSUME TypeOK, NEW w \in Worker, NEW s \in Step, NEW j \in Job, Goto(w, s, j)
  PROVE  pc' \in [Worker -> Step] /\ job' \in [Worker -> Job]
BY DEF TypeOK, Goto

LEMMA UnlockType ==
  ASSUME TypeOK, NEW w \in Worker, Unlock(w)
  PROVE  lock' \in Worker \cup {NoWorker}
BY DEF TypeOK, Unlock

LEMMA LeaveType ==
  ASSUME TypeOK, NEW w \in Worker, Leave(w)
  PROVE  /\ pc' \in [Worker -> Step] /\ job' \in [Worker -> Job]
         /\ lock' \in Worker \cup {NoWorker}
<1>1. "idle" \in Step
  BY DEF Step
<1>. QED  BY <1>1, NoJobType, GotoType, UnlockType DEF Leave

LEMMA LeaveRecordType ==
  ASSUME TypeOK, NEW w \in Worker, NEW s \in Step, NEW j \in Job, LeaveRecord(w, s, j)
  PROVE  /\ pc' \in [Worker -> Step] /\ job' \in [Worker -> Job]
         /\ lock' \in Worker \cup {NoWorker}
BY GotoType, UnlockType DEF LeaveRecord, TypeOK

LEMMA CloseFailingType ==
  ASSUME TypeOK, NEW w \in Worker, CloseFailing(w)
  PROVE  /\ pc' \in [Worker -> Step] /\ job' \in [Worker -> Job]
         /\ lock' \in Worker \cup {NoWorker}
<1>1. "failing" \in Step /\ job[w] \in Job
  BY DEF Step, TypeOK
<1>. QED  BY <1>1, GotoType, LeaveType DEF CloseFailing, TypeOK



-----------------------------------------------------------------------------
(* Every action keeps the types, and the jobs fit to their steps. *)

TypeInv == TypeOK /\ \A w \in Worker : JobFits(w)

LEMMA GotoFits ==
  ASSUME TypeInv, NEW w \in Worker, NEW s, NEW j, Goto(w, s, j), StepFits(s, j)
  PROVE  \A u \in Worker : JobFits(u)'
BY DEF TypeInv, TypeOK, JobFits, Goto

LEMMA NoJobFits == StepFits("idle", NoJob)
BY DEF StepFits, NoJob, HasRecord, Applying, Claiming

LEMMA LeaveFits ==
  ASSUME TypeInv, NEW w \in Worker, Leave(w)
  PROVE  \A u \in Worker : JobFits(u)'
BY GotoFits, NoJobFits DEF Leave

\* A step that leaves pc and job alone.
LEMMA SameJobsFit ==
  ASSUME TypeInv, UNCHANGED <<pc, job>>
  PROVE  \A u \in Worker : JobFits(u)'
BY DEF TypeInv, JobFits

LEMMA OpenChangeType ==
  ASSUME TypeInv, NEW w \in Worker, OpenChange(w)
  PROVE  TypeInv'
<1>. PICK n \in ChangeId :
       /\ row' = [row EXCEPT ![n] = allocateRow("change", NoChange)]
       /\ Goto(w, "working", [NoJob EXCEPT !.record = n])
  BY DEF OpenChange
<1>. USE DEF TypeInv
<1>. DEFINE j == [NoJob EXCEPT !.record = n]
<1>1. "working" \in Step /\ j \in Job
  BY NoJobType, JobType DEF Step, Job
<1>2. row' \in [ChangeId -> Row]
  BY AllocateType, PutType
<1>3. StepFits("working", j)
  BY DEF StepFits, NoJob, Claiming
<1>4. \A u \in Worker : JobFits(u)'
  BY <1>3, GotoFits
<1>. QED  BY <1>1, <1>2, <1>4, GotoType DEF TypeOK, OpenChange

LEMMA RunStatementType ==
  ASSUME TypeInv, NEW w \in Worker, RunStatement(w)
  PROVE  TypeInv'
<1>. USE DEF TypeInv
<1>. PICK t \in Table :
       /\ job[w].record \notin live[t]
       /\ live' = [live EXCEPT ![t] = @ \cup {job[w].record}]
  BY DEF RunStatement
<1>1. job[w].record \in ChangeId
  BY DEF RunStatement, JobFits, StepFits, HasRecord, Applying
<1>2. live' \in Catalog
  BY <1>1 DEF TypeOK, Catalog
<1>. QED  BY <1>2, SameJobsFit DEF TypeOK, RunStatement

LEMMA OwnJob ==
  ASSUME TypeInv, NEW w \in Worker
  PROVE  job[w] \in Job /\ StepFits(pc[w], job[w])
BY DEF TypeInv, TypeOK, JobFits

LEMMA DiscardChangeType ==
  ASSUME TypeInv, NEW w \in Worker, DiscardChange(w)
  PROVE  TypeInv'
<1>1. row' \in [ChangeId -> Row]
  BY WithdrawnType, PutType DEF DiscardChange, TypeInv
<1>. QED  BY <1>1, LeaveType, LeaveFits DEF DiscardChange, TypeInv, TypeOK

LEMMA AppliedType ==
  ASSUME TypeInv, NEW w \in Worker, Applied(w)
  PROVE  TypeInv'
<1>1. "verifying" \in RowStatus /\ "verifying" \in Step
  BY DEF RowStatus, ChangeStatus, Step
<1>2. row' \in [ChangeId -> Row]
  BY <1>1, EvidenceType, PutType DEF Applied, TypeInv
<1>3. StepFits("verifying", job[w])
  BY OwnJob DEF Applied, StepFits, HasRecord, Applying, Claiming
<1>4. Goto(w, "verifying", job[w])
  BY DEF Applied
<1>. QED  BY <1>1, <1>2, <1>3, <1>4, OwnJob, GotoType, GotoFits DEF Applied, TypeInv, TypeOK

LEMMA CloseFailingFits ==
  ASSUME TypeInv, NEW w \in Worker, CloseFailing(w), StepFits("failing", job[w])
  PROVE  \A u \in Worker : JobFits(u)'
BY GotoFits, LeaveFits DEF CloseFailing

LEMMA ApplyFailedType ==
  ASSUME TypeInv, NEW w \in Worker, ApplyFailed(w)
  PROVE  TypeInv'
<1>1. "failed" \in RowStatus /\ "partially_applied" \in RowStatus
  BY DEF RowStatus, ChangeStatus
<1>2. row' \in [ChangeId -> Row]
  BY <1>1, ClosedType, PutType DEF ApplyFailed, TypeInv
<1>3. StepFits("failing", job[w])
  BY OwnJob DEF ApplyFailed, StepFits, HasRecord, Applying, Claiming
<1>4. Leave(w) \/ CloseFailing(w)
  BY DEF ApplyFailed
<1>. QED  BY <1>2, <1>3, <1>4, LeaveType, LeaveFits, CloseFailingType, CloseFailingFits
          DEF ApplyFailed, TypeInv, TypeOK

LEMMA FailedAfterCommitType ==
  ASSUME TypeInv, NEW w \in Worker, FailedAfterCommit(w)
  PROVE  TypeInv'
<1>1. "partially_applied" \in RowStatus
  BY DEF RowStatus, ChangeStatus
<1>2. row' \in [ChangeId -> Row]
  BY <1>1, ClosedType, PutType DEF FailedAfterCommit, TypeInv
<1>3. faults' \in 0 .. MaxFaults
  BY ConstantsAssumption DEF FailedAfterCommit, TypeInv, TypeOK
<1>. QED  BY <1>2, <1>3, LeaveType, LeaveFits DEF FailedAfterCommit, TypeInv, TypeOK

LEMMA LeaveRecordFits ==
  ASSUME TypeInv, NEW w \in Worker, NEW s, NEW j, LeaveRecord(w, s, j), StepFits(s, j)
  PROVE  \A u \in Worker : JobFits(u)'
BY GotoFits DEF LeaveRecord

LEMMA VerifiedType ==
  ASSUME TypeInv, NEW w \in Worker, Verified(w)
  PROVE  TypeInv'
<1>. DEFINE n == job[w].record
            c == job[w].change
<1>. PICK status \in {"healthy", "verification_failed", "unverified"} :
       /\ row' = [row EXCEPT ![n] = [@ EXCEPT !.status = status, !.sealed = TRUE,
                                     !.confirmed = (status = "healthy"),
                                     !.late = FALSE]]
       /\ IF c # NoChange THEN LeaveRecord(w, "settling", job[w])
          ELSE IF status = "verification_failed" THEN CloseFailing(w)
          ELSE Leave(w)
  BY DEF Verified
<1>1. status \in RowStatus /\ "settling" \in Step
  BY DEF RowStatus, ChangeStatus, Step
<1>2. row' \in [ChangeId -> Row]
  <2>1. ASSUME NEW b \in BOOLEAN, n \in ChangeId
        PROVE  [row[n] EXCEPT !.status = status, !.sealed = TRUE,
                              !.confirmed = b, !.late = FALSE] \in Row
    BY <2>1, <1>1, GetType, FieldType DEF TypeInv
  <2>2. (status = "healthy") \in BOOLEAN
    OBVIOUS
  <2>3. n \in ChangeId =>
          [row[n] EXCEPT !.status = status, !.sealed = TRUE,
                         !.confirmed = (status = "healthy"), !.late = FALSE] \in Row
    BY <2>1, <2>2, Zenon
  <2>. QED  BY <2>3, PutType DEF TypeInv
<1>3. CASE c # NoChange
  <2>1. StepFits("settling", job[w])
    BY <1>3, OwnJob DEF Verified, StepFits, HasRecord, Applying, Claiming, Job
  <2>. QED  BY <1>1, <1>2, <1>3, <2>1, OwnJob, LeaveRecordType, LeaveRecordFits
            DEF Verified, TypeInv, TypeOK
<1>4. CASE c = NoChange
  <2>1. StepFits("failing", job[w])
    BY <1>4, OwnJob DEF Verified, StepFits, HasRecord, Applying, Claiming
  <2>. QED  BY <1>2, <1>4, <2>1, LeaveType, LeaveFits, CloseFailingType, CloseFailingFits
            DEF Verified, TypeInv, TypeOK
<1>. QED  BY <1>3, <1>4

\* A job that only names a change, or is to restore it once it has been read.
LEMMA NamedJob ==
  ASSUME NEW n \in ChangeId, NEW mode \in RecoveryMode
  PROVE  LET j == [NoJob EXCEPT !.change = n]
             k == [NoJob EXCEPT !.mode = mode, !.change = n] IN
         /\ j \in Job /\ k \in Job
         /\ j.change = n /\ k.change = n
         /\ \A s \in {"keeping", "declined"} : StepFits(s, j)
         /\ StepFits("loaded", k)
<1>1. \A j \in Job : /\ [j EXCEPT !.change = n] \in Job
                     /\ [j EXCEPT !.mode = mode, !.change = n] \in Job
  BY DEF Job
<1>2. "healthy" \in ReturnTo
  BY DEF ReturnTo, IN_EFFECT
<1>. QED  BY <1>1, <1>2, NoJobType DEF NoJob, StepFits, HasRecord, Claiming

LEMMA LoadType ==
  ASSUME TypeInv, NEW w \in Worker, NEW n \in ChangeId, NEW mode \in RecoveryMode,
         Load(w, n, mode)
  PROVE  /\ pc' \in [Worker -> Step] /\ job' \in [Worker -> Job]
         /\ \A u \in Worker : JobFits(u)'
<1>1. "loaded" \in Step
  BY DEF Step
<1>. QED  BY <1>1, NamedJob, GotoType, GotoFits DEF Load, TypeInv

\* What a restore may start from is a status to go back to.
LEMMA MayClaimStatus ==
  ASSUME NEW n, NEW mode, mayClaim(n, mode)
  PROVE  row[n].status \in ReturnTo /\ row[n].status \in ChangeStatus
BY DEF mayClaim, restorableFrom, ReturnTo, IN_EFFECT, RECOVERY_OWED, ChangeStatus

LEMMA ClaimStepType ==
  ASSUME TypeInv, NEW w \in Worker, Claim(w)
  PROVE  TypeInv'
<1>. DEFINE n == job[w].change
            j == [job[w] EXCEPT !.from = row[n].status]
<1>1. /\ n \in ChangeId /\ "claimed" \in Step /\ job[w] \in Job /\ pc[w] = "loaded"
      /\ StepFits(pc[w], job[w])
  BY OwnJob DEF Claim, StepFits, Step
<1>2. row[n].status \in ReturnTo /\ row[n].status \in ChangeStatus
  BY MayClaimStatus DEF Claim
<1>3. j \in Job
  BY <1>1, <1>2 DEF Job
<1>4. StepFits("claimed", j)
  BY <1>1, <1>2 DEF Job, StepFits, HasRecord, Claiming
<1>5. row' \in [ChangeId -> Row]
  BY <1>1, ClaimType, PutType DEF Claim, TypeInv
<1>. QED  BY <1>1, <1>3, <1>4, <1>5, GotoType, GotoFits DEF Claim, TypeInv, TypeOK

LEMMA ClaimLostType ==
  ASSUME TypeInv, NEW w \in Worker, ClaimLost(w)
  PROVE  TypeInv'
BY LeaveType, LeaveFits DEF ClaimLost, TypeInv, TypeOK

LEMMA RecoverAutomaticallyType ==
  ASSUME TypeInv, NEW w \in Worker, RecoverAutomatically(w)
  PROVE  TypeInv'
<1>1. job[w].record \in ChangeId /\ "automatic" \in RecoveryMode
  BY OwnJob DEF RecoverAutomatically, StepFits, RecoveryMode
<1>2. CASE Available(job[w].record, "automatic")
  BY <1>1, <1>2, LoadType DEF RecoverAutomatically, TypeInv, TypeOK
<1>3. CASE ~Available(job[w].record, "automatic")
  BY <1>3, LeaveType, LeaveFits DEF RecoverAutomatically, TypeInv, TypeOK
<1>. QED  BY <1>2, <1>3

LEMMA PauseRecoveryType ==
  ASSUME TypeInv, NEW w \in Worker, PauseRecovery(w)
  PROVE  TypeInv'
<1>. DEFINE j == [NoJob EXCEPT !.mode = "automatic", !.change = job[w].record]
<1>1. job[w].record \in ChangeId /\ "automatic" \in RecoveryMode /\ "asking" \in Step
  BY OwnJob DEF PauseRecovery, StepFits, RecoveryMode, Step
<1>2. j \in Job
  BY <1>1, NoJobType DEF Job
<1>3. StepFits("asking", j)
  BY <1>1 DEF StepFits, NoJob, HasRecord, Applying, Claiming, ReturnTo, IN_EFFECT
<1>. QED  BY <1>1, <1>2, <1>3, GotoType, GotoFits DEF PauseRecovery, TypeInv, TypeOK

LEMMA StartRestoreType ==
  ASSUME TypeInv, NEW w \in Worker, StartRestore(w)
  PROVE  TypeInv'
<1>. PICK n \in ChangeId, mode \in {"manual", "repair"} :
       Available(n, mode) /\ Load(w, n, mode)
  BY DEF StartRestore
<1>1. mode \in RecoveryMode
  BY DEF RecoveryMode
<1>. QED  BY <1>1, LoadType DEF StartRestore, TypeInv, TypeOK

LEMMA ApproveRestoreType ==
  ASSUME TypeInv, NEW w \in Worker, ApproveRestore(w)
  PROVE  TypeInv'
<1>. PICK n \in asked :
       /\ asked' = asked \ {n}
       /\ IF Available(n, "manual") THEN Load(w, n, "manual")
          ELSE UNCHANGED <<pc, job>>
  BY DEF ApproveRestore
<1>1. n \in ChangeId /\ "manual" \in RecoveryMode
  BY DEF TypeInv, TypeOK, RecoveryMode
<1>2. CASE Available(n, "manual")
  BY <1>1, <1>2, LoadType DEF ApproveRestore, TypeInv, TypeOK
<1>3. CASE ~Available(n, "manual")
  BY <1>3, SameJobsFit DEF ApproveRestore, TypeInv, TypeOK
<1>. QED  BY <1>2, <1>3

LEMMA RecordStartedType ==
  ASSUME TypeInv, NEW w \in Worker, RecordStarted(w)
  PROVE  TypeInv'
<1>. DEFINE n == job[w].change
            e == [mode |-> job[w].mode, from |-> job[w].from]
<1>1. n \in ChangeId /\ "queued" \in Step /\ job[w] \in Job /\ row[n] \in Row
  BY OwnJob DEF RecordStarted, StepFits, Claiming, Step, TypeInv, TypeOK
<1>2. ASSUME NEW r \in Row
      PROVE  [r EXCEPT !.started = e] \in Row
  BY <1>1 DEF Row, Job
<1>3. row' = [row EXCEPT ![n] = [row[n] EXCEPT !.started = e]]
  BY DEF RecordStarted
<1>4. row' \in [ChangeId -> Row]
  BY <1>1, <1>2, <1>3, PutType DEF TypeInv
<1>5. StepFits("queued", job[w])
  BY OwnJob DEF RecordStarted, StepFits, HasRecord, Applying, Claiming
<1>. QED  BY <1>1, <1>4, <1>5, GotoType, GotoFits DEF RecordStarted, TypeInv, TypeOK

LEMMA OpenRecordType ==
  ASSUME TypeInv, NEW w \in Worker, OpenRecord(w)
  PROVE  TypeInv'
<1>. DEFINE c == job[w].change
<1>. PICK n \in ChangeId :
       /\ row' = [row EXCEPT ![n] = allocateRow("recovery", c)]
       /\ Goto(w, "restoring", [job[w] EXCEPT !.record = n])
  BY DEF OpenRecord
<1>. DEFINE j == [job[w] EXCEPT !.record = n]
<1>1. c \in ChangeId /\ "restoring" \in Step /\ job[w] \in Job /\ pc[w] = "queued"
  BY OwnJob DEF OpenRecord, StepFits, Claiming, Step, TypeInv, TypeOK
<1>2. j \in Job
  BY <1>1 DEF Job
<1>3. row' \in [ChangeId -> Row]
  BY <1>1, AllocateType, PutType DEF TypeInv
<1>4. StepFits("restoring", j)
  BY <1>1, OwnJob DEF Job, StepFits, HasRecord, Applying, Claiming
<1>. QED  BY <1>1, <1>2, <1>3, <1>4, GotoType, GotoFits DEF OpenRecord, TypeInv, TypeOK

LEMMA LockRefusedType ==
  ASSUME TypeInv, NEW w \in Worker, LockRefused(w)
  PROVE  TypeInv'
<1>1. StepFits("returning", job[w]) /\ "returning" \in Step
  BY OwnJob DEF LockRefused, StepFits, HasRecord, Applying, Claiming, Step
<1>. QED  BY <1>1, OwnJob, GotoType, GotoFits DEF LockRefused, TypeInv, TypeOK

LEMMA RefuseRestoreType ==
  ASSUME TypeInv, NEW w \in Worker, RefuseRestore(w)
  PROVE  TypeInv'
<1>. PICK then \in {"asking", "stopping"} :
       LeaveRecord(w, "returning", [job[w] EXCEPT !.then =
         IF job[w].mode = "automatic" THEN then ELSE "idle"])
  BY DEF RefuseRestore
<1>. DEFINE after == IF job[w].mode = "automatic" THEN then ELSE "idle"
            j == [job[w] EXCEPT !.then = after]
<1>1. j \in Job /\ "returning" \in Step
  BY OwnJob DEF Job, Step
<1>2. StepFits("returning", j)
  BY OwnJob DEF RefuseRestore, Job, StepFits, HasRecord, Applying, Claiming
<1>3. row' \in [ChangeId -> Row]
  BY WithdrawnType, PutType DEF RefuseRestore, TypeInv
<1>. QED  BY <1>1, <1>2, <1>3, LeaveRecordType, LeaveRecordFits
          DEF RefuseRestore, TypeInv, TypeOK

LEMMA RestoreFailedType ==
  ASSUME TypeInv, NEW w \in Worker, RestoreFailed(w)
  PROVE  TypeInv'
<1>. DEFINE automatic == job[w].mode = "automatic"
            from == IF automatic THEN "recovery_failed" ELSE job[w].from
            then == IF automatic THEN "stopping" ELSE "idle"
            j == [job[w] EXCEPT !.from = from, !.then = then]
<1>1. LeaveRecord(w, "returning", j)
  BY DEF RestoreFailed
<1>2. j \in Job /\ "returning" \in Step /\ "failed" \in RowStatus
  BY OwnJob DEF Job, Step, ChangeStatus, RowStatus
<1>3. StepFits("returning", j)
  BY OwnJob DEF RestoreFailed, Job, StepFits, HasRecord, Applying, Claiming,
                ReturnTo, RECOVERY_OWED
<1>4. row' \in [ChangeId -> Row]
  BY <1>2, ClosedType, PutType DEF RestoreFailed, TypeInv
<1>. QED  BY <1>1, <1>2, <1>3, <1>4, LeaveRecordType, LeaveRecordFits
          DEF RestoreFailed, TypeInv, TypeOK

LEMMA CommitRestoreType ==
  ASSUME TypeInv, NEW w \in Worker, CommitRestore(w)
  PROVE  TypeInv'
<1>1. StepFits("committed", job[w]) /\ "committed" \in Step /\ job[w].change \in ChangeId
  BY OwnJob DEF CommitRestore, StepFits, HasRecord, Applying, Claiming, Step
<1>2. row[job[w].change].checkpoint \in Catalog
  BY <1>1 DEF TypeInv, TypeOK, Row
<1>3. live' \in Catalog
  BY <1>2 DEF CommitRestore, TypeInv, TypeOK, Catalog
<1>. QED  BY <1>1, <1>3, OwnJob, GotoType, GotoFits DEF CommitRestore, TypeInv, TypeOK

LEMMA GiveBackType ==
  ASSUME TypeInv, NEW w \in Worker, GiveBack(w)
  PROVE  TypeInv'
<1>. DEFINE c == job[w].change
<1>1. c \in ChangeId /\ job[w].from \in ReturnTo
  BY OwnJob DEF GiveBack, StepFits, Claiming, ChangeId, NoChange
<1>2. job[w].from \in RowStatus
  BY <1>1 DEF ReturnTo, IN_EFFECT, RECOVERY_OWED, RowStatus, ChangeStatus
<1>3. row' \in [ChangeId -> Row]
  BY <1>2, ReleaseType, PutType DEF GiveBack, TypeInv
<1>4. CASE job[w].then = "idle"
  BY <1>3, <1>4, LeaveType, LeaveFits DEF GiveBack, TypeInv, TypeOK
<1>5. CASE job[w].then # "idle"
  <2>1. job[w].then \in {"asking", "stopping"}
    BY <1>5, OwnJob DEF Job
  <2>2. job[w].then \in Step /\ StepFits(job[w].then, job[w])
    BY <1>1, <2>1 DEF Step, StepFits, HasRecord, Applying, Claiming
  <2>. QED  BY <1>3, <1>5, <2>2, OwnJob, GotoType, GotoFits DEF GiveBack, TypeInv, TypeOK
<1>. QED  BY <1>4, <1>5

LEMMA SettleRestoreType ==
  ASSUME TypeInv, NEW w \in Worker, SettleRestore(w)
  PROVE  TypeInv'
<1>. DEFINE c == job[w].change
            r == job[w].record
            to == IF byBackenly(job[w].mode) THEN "recovered" ELSE "restored"
<1>1. c \in ChangeId /\ r \in ChangeId
  BY OwnJob DEF SettleRestore, StepFits, Claiming
<1>2. to \in RowStatus /\ "recovery_failed" \in RowStatus
  BY DEF RowStatus, ChangeStatus
<1>3. row' \in [ChangeId -> Row]
  BY <1>1, <1>2, SettledType, ReleaseType, PutType DEF SettleRestore, TypeInv
<1>4. /\ "following" \in Step /\ StepFits("following", job[w])
      /\ "stopping" \in Step /\ StepFits("stopping", job[w])
  BY OwnJob DEF SettleRestore, Step, StepFits, HasRecord, Applying, Claiming
<1>5. Goto(w, "following", job[w]) \/ Goto(w, "stopping", job[w])
  BY DEF SettleRestore
<1>. QED  BY <1>3, <1>4, <1>5, OwnJob, GotoType, GotoFits DEF SettleRestore, TypeInv, TypeOK

\* A call that looks for the requests to restore a change keeps its job.
LEMMA FindRequestType ==
  ASSUME TypeInv, NEW w \in Worker, NEW c, FindRequest(w, c),
         pc[w] \in {"following", "keeping"}
  PROVE  /\ pc' \in [Worker -> Step] /\ job' \in [Worker -> Job]
         /\ lock' \in Worker \cup {NoWorker}
         /\ \A u \in Worker : JobFits(u)'
<1>1. "answering" \in Step /\ job[w] \in Job /\ StepFits("answering", job[w])
  BY OwnJob DEF Step, StepFits, HasRecord, Claiming
<1>2. CASE Goto(w, "answering", job[w]) /\ UNCHANGED lock
  BY <1>1, <1>2, GotoType, GotoFits DEF TypeInv, TypeOK
<1>3. CASE Leave(w)
  BY <1>3, LeaveType, LeaveFits DEF TypeInv
<1>. QED  BY <1>2, <1>3 DEF FindRequest

LEMMA FollowRestoreType ==
  ASSUME TypeInv, NEW w \in Worker, FollowRestore(w)
  PROVE  TypeInv'
<1>. DEFINE c == job[w].change
            target == row[c].recoversId
<1>1. "healthy" \in RowStatus
  BY DEF RowStatus, ChangeStatus
<1>2. row' \in [ChangeId -> Row]
  <2>1. target \in ChangeId => reapplied(target) \in Row
    BY <1>1, TransitionType DEF reapplied, TypeInv
  <2>. QED  BY <2>1, PutType DEF FollowRestore, TypeInv, TypeOK
<1>. QED  BY <1>2, FindRequestType, LeaveType, LeaveFits
          DEF FollowRestore, TypeInv, TypeOK

LEMMA AnswerRequestType ==
  ASSUME TypeInv, NEW w \in Worker, AnswerRequest(w)
  PROVE  TypeInv'
<1>1. asked' \subseteq ChangeId
  BY DEF AnswerRequest, answered, TypeInv, TypeOK
<1>. QED  BY <1>1, LeaveType, LeaveFits DEF AnswerRequest, TypeInv, TypeOK

LEMMA StopAndEscalateType ==
  ASSUME TypeInv, NEW w \in Worker, StopAndEscalate(w)
  PROVE  TypeInv'
<1>1. "manual_intervention_required" \in RowStatus
  BY DEF RowStatus, ChangeStatus
<1>2. row' \in [ChangeId -> Row]
  BY <1>1, TransitionType, PutType DEF StopAndEscalate, TypeInv
<1>. QED  BY <1>2, LeaveType, LeaveFits DEF StopAndEscalate, TypeInv, TypeOK

LEMMA EscalateType ==
  ASSUME TypeInv, NEW w \in Worker, Escalate(w)
  PROVE  TypeInv'
<1>1. "awaiting_approval" \in RowStatus
  BY DEF RowStatus, ChangeStatus
<1>2. row' \in [ChangeId -> Row]
  BY <1>1, TransitionType, PutType DEF Escalate, TypeInv
<1>3. "requesting" \in Step /\ StepFits("requesting", job[w])
  BY OwnJob DEF Escalate, Step, StepFits, HasRecord, Applying, Claiming
<1>4. (Goto(w, "requesting", job[w]) /\ UNCHANGED lock) \/ Leave(w)
  BY DEF Escalate
<1>. QED  BY <1>2, <1>3, <1>4, OwnJob, GotoType, GotoFits, LeaveType, LeaveFits
          DEF Escalate, TypeInv, TypeOK

LEMMA RequestApprovalType ==
  ASSUME TypeInv, NEW w \in Worker, RequestApproval(w)
  PROVE  TypeInv'
<1>1. asked' \subseteq ChangeId
  BY OwnJob DEF RequestApproval, StepFits, TypeInv, TypeOK
<1>. QED  BY <1>1, LeaveType, LeaveFits DEF RequestApproval, TypeInv, TypeOK

LEMMA KeptType ==
  ASSUME TypeInv, NEW n \in ChangeId
  PROVE  kept(n) \in [ChangeId -> Row]
<1>1. "kept" \in RowStatus
  BY DEF RowStatus, ChangeStatus
<1>2. transition(n, keepableFrom, "kept") \in Row
  BY <1>1, TransitionType DEF TypeInv
<1>. QED  BY <1>2 DEF kept, TypeInv, TypeOK

LEMMA KeepChangeType ==
  ASSUME TypeInv, NEW w \in Worker, KeepChange(w)
  PROVE  TypeInv'
<1>. PICK n \in ChangeId :
       row' = kept(n) /\ Goto(w, "keeping", [NoJob EXCEPT !.change = n])
  BY DEF KeepChange
<1>1. "keeping" \in Step /\ "manual" \in RecoveryMode
  BY DEF Step, RecoveryMode
<1>. QED  BY <1>1, KeptType, NamedJob, GotoType, GotoFits DEF KeepChange, TypeInv, TypeOK

LEMMA FollowKeepType ==
  ASSUME TypeInv, NEW w \in Worker, FollowKeep(w)
  PROVE  TypeInv'
BY FindRequestType DEF FollowKeep, TypeInv, TypeOK

LEMMA DeclineRequestType ==
  ASSUME TypeInv, NEW w \in Worker, DeclineRequest(w)
  PROVE  TypeInv'
<1>. PICK n \in asked :
       asked' = asked \ {n} /\ Goto(w, "declined", [NoJob EXCEPT !.change = n])
  BY DEF DeclineRequest
<1>1. "declined" \in Step /\ n \in ChangeId /\ "manual" \in RecoveryMode
  BY DEF Step, TypeInv, TypeOK, RecoveryMode
<1>. QED  BY <1>1, NamedJob, GotoType, GotoFits DEF DeclineRequest, TypeInv, TypeOK

LEMMA KeepDeclinedType ==
  ASSUME TypeInv, NEW w \in Worker, KeepDeclined(w)
  PROVE  TypeInv'
<1>1. job[w].change \in ChangeId
  BY OwnJob DEF KeepDeclined, StepFits
<1>. QED  BY <1>1, KeptType, LeaveType, LeaveFits DEF KeepDeclined, TypeInv, TypeOK

LEMMA ChangeOutsideType ==
  ASSUME TypeInv, ChangeOutside
  PROVE  TypeInv'
<1>1. live' \in Catalog
  BY DEF ChangeOutside, TypeInv, TypeOK, Catalog
<1>. QED  BY <1>1, SameJobsFit DEF ChangeOutside, TypeInv, TypeOK

LEMMA ReadLateType ==
  ASSUME TypeInv, NEW w \in Worker, NEW n \in ChangeId, ReadLate(w, n)
  PROVE  TypeInv'
<1>. DEFINE j == [NoJob EXCEPT !.change = n, !.from = row[n].status]
<1>1. j \in Job /\ "reconciling" \in Step
  BY NoJobType DEF ReadLate, InProgress, ChangeStatus, Job, Step
<1>2. StepFits("reconciling", j)
  BY DEF ReadLate, StepFits, NoJob, HasRecord, Applying, Claiming
<1>. QED  BY <1>1, <1>2, GotoType, GotoFits DEF ReadLate, TypeInv, TypeOK

LEMMA ReconcileBusyType ==
  ASSUME TypeInv, NEW w \in Worker, ReconcileBusy(w)
  PROVE  TypeInv'
BY LeaveType, LeaveFits DEF ReconcileBusy, TypeInv, TypeOK

LEMMA WhereItEndedType ==
  ASSUME TypeOK, NEW n \in ChangeId, NEW untouched
  PROVE  whereItEnded(n, untouched) \in ChangeStatus
<1>1. row[n].started.from \in ChangeStatus \cup {"never"}
  BY DEF TypeOK, Row
<1>. QED  BY <1>1 DEF whereItEnded, ChangeStatus

LEMMA ReconcileRestoreType ==
  ASSUME TypeInv, NEW w \in Worker, ReconcileRestore(w)
  PROVE  TypeInv'
<1>. DEFINE n == job[w].change
<1>. PICK untouched \in {TRUE, ~Conflict(n)}, r \in {NoChange} \cup ChangeId :
       row' = [row EXCEPT ![n] =
            [releaseRecovery(n, row[n].recoveryClaim, whereItEnded(n, untouched)) EXCEPT
               !.recoveredById = IF restoredTo(n) /\ r # NoChange THEN r ELSE @]]
  BY DEF ReconcileRestore
<1>. DEFINE released == releaseRecovery(n, row[n].recoveryClaim, whereItEnded(n, untouched))
            by == IF restoredTo(n) /\ r # NoChange THEN r ELSE released.recoveredById
<1>1. n \in ChangeId => [released EXCEPT !.recoveredById = by] \in Row
  <2>1. SUFFICES ASSUME n \in ChangeId
                 PROVE  [released EXCEPT !.recoveredById = by] \in Row
    OBVIOUS
  <2>2. released \in Row
    BY <2>1, ReleaseType, WhereItEndedType, StatusType DEF TypeInv
  <2>3. by \in {NoChange} \cup ChangeId
    BY <2>2 DEF Row
  <2>. HIDE DEF released, by
  <2>. QED  BY <2>2, <2>3 DEF Row
<1>2. row' \in [ChangeId -> Row]
  BY <1>1, PutType DEF TypeInv
<1>. QED  BY <1>2, LeaveType, LeaveFits DEF ReconcileRestore, TypeInv, TypeOK

LEMMA ReconcileOpenType ==
  ASSUME TypeInv, NEW w \in Worker, ReconcileOpen(w)
  PROVE  TypeInv'
<1>. DEFINE n == job[w].change
            last == \A m \in Recorded : m <= n
            F == IF last THEN diffCatalogs(row[n].checkpoint, live) ELSE row[n].footprint
            stopped == [row[n] EXCEPT !.status = "manual_intervention_required",
                                     !.late = FALSE, !.footprint = F]
<1>1. row' = [row EXCEPT ![n] = IF row[n].status = job[w].from THEN stopped ELSE row[n]]
  BY Zenon DEF ReconcileOpen
<1>2. n \in ChangeId => stopped \in Row
  <2>1. SUFFICES ASSUME n \in ChangeId PROVE stopped \in Row
    OBVIOUS
  <2>2. row[n] \in Row /\ "manual_intervention_required" \in RowStatus
    BY <2>1, GetType DEF TypeInv, RowStatus, ChangeStatus
  <2>3. F \in SUBSET Table
    BY <2>2 DEF Row, diffCatalogs
  <2>. HIDE DEF F
  <2>. QED  BY <2>2, <2>3, FieldType
<1>3. row' \in [ChangeId -> Row]
  BY <1>1, <1>2, GetType, PutType DEF TypeInv
<1>. QED  BY <1>3, LeaveType, LeaveFits DEF ReconcileOpen, TypeInv, TypeOK

LEMMA TimeIsUpType ==
  ASSUME TypeInv, NEW n \in ChangeId, TimeIsUp(n)
  PROVE  TypeInv'
<1>1. row' = [row EXCEPT ![n] = [row[n] EXCEPT !.late = TRUE]]
  BY DEF TimeIsUp
<1>2. [row[n] EXCEPT !.late = TRUE] \in Row
  <2>1. ASSUME NEW r \in Row PROVE [r EXCEPT !.late = TRUE] \in Row
    BY DEF Row
  <2>. QED  BY <2>1, GetType DEF TypeInv
<1>3. row' \in [ChangeId -> Row]
  BY <1>1, <1>2, PutType DEF TypeInv
<1>. QED  BY <1>3, SameJobsFit DEF TimeIsUp, TypeInv, TypeOK

LEMMA CrashType ==
  ASSUME TypeInv, NEW w \in Worker, Crash(w)
  PROVE  TypeInv'
<1>1. faults' \in 0 .. MaxFaults
  BY ConstantsAssumption DEF Crash, TypeInv, TypeOK
<1>. QED  BY <1>1, LeaveType, LeaveFits DEF Crash, TypeInv, TypeOK

\* No step of any call leaves the types, or takes a job to a step it does not fit.
LEMMA TypeStep == TypeInv /\ [Next]_vars => TypeInv'
<1>. SUFFICES ASSUME TypeInv, [Next]_vars PROVE TypeInv'
  OBVIOUS
<1>1. CASE UNCHANGED vars
  BY <1>1, SameJobsFit DEF TypeInv, TypeOK, vars
<1>2. ASSUME NEW w \in Worker, Begin(w) PROVE TypeInv'
  BY <1>2, OpenChangeType, StartRestoreType, ApproveRestoreType, KeepChangeType,
     DeclineRequestType DEF Begin
<1>3. ASSUME NEW w \in Worker, Continue(w) PROVE TypeInv'
  BY <1>3, DiscardChangeType, AppliedType, ApplyFailedType, FailedAfterCommitType,
     VerifiedType, RecoverAutomaticallyType, PauseRecoveryType, ClaimStepType,
     ClaimLostType, RecordStartedType,
     OpenRecordType, LockRefusedType, RefuseRestoreType, RestoreFailedType,
     CommitRestoreType, GiveBackType, SettleRestoreType, FollowRestoreType,
     StopAndEscalateType, EscalateType, RequestApprovalType, AnswerRequestType,
     FollowKeepType, KeepDeclinedType DEF Continue
<1>4. ASSUME NEW w \in Worker, Reconcile(w) PROVE TypeInv'
  BY <1>4, ReconcileRestoreType, ReconcileOpenType DEF Reconcile
<1>. QED
  BY <1>1, <1>2, <1>3, <1>4, RunStatementType, ReconcileBusyType, CrashType,
     ReadLateType, TimeIsUpType, ChangeOutsideType DEF Next

LEMMA TypeInit == Init => TypeInv
<1>. SUFFICES ASSUME Init PROVE TypeInv
  OBVIOUS
<1>1. faults \in 0 .. MaxFaults /\ "idle" \in Step
  BY ConstantsAssumption DEF Init, Step
<1>2. TypeOK
  BY <1>1, NoRowType, NoJobType DEF Init, TypeOK, Catalog
<1>. QED  BY <1>2, NoJobFits DEF TypeInv, JobFits, Init

\* Every reachable state is well typed, for any number of calls, tables, rows
\* and faults.
THEOREM TypeCorrect == Spec => []TypeOK
<1>1. TypeInv => TypeOK
  BY DEF TypeInv
<1>. QED  BY <1>1, TypeInit, TypeStep, PTL DEF Spec

-----------------------------------------------------------------------------
(* One worker at a time holds the change lock. *)

LEMMA NoJobHolds == ~HoldsAt("idle", NoJob)
BY DEF HoldsAt, HasRecord, Applying, NoJob

LEMMA GotoHolds ==
  ASSUME TypeInv, OneAtATime, NEW w \in Worker, NEW s, NEW j, Goto(w, s, j),
         UNCHANGED lock, HoldsAt(s, j) => lock = w
  PROVE  OneAtATime'
BY DEF TypeInv, TypeOK, OneAtATime, Holds, Goto

\* Giving the lock back takes it from nobody else.
LEMMA UnlockHolds ==
  ASSUME TypeInv, OneAtATime, NEW w \in Worker, NEW s, NEW j, Goto(w, s, j),
         Unlock(w), ~HoldsAt(s, j)
  PROVE  OneAtATime'
BY DEF TypeInv, TypeOK, OneAtATime, Holds, Goto, Unlock

LEMMA LeaveHolds ==
  ASSUME TypeInv, OneAtATime, NEW w \in Worker, Leave(w)
  PROVE  OneAtATime'
BY UnlockHolds, NoJobHolds DEF Leave

\* Taking it is possible only when nobody else holds it.
LEMMA TakeHolds ==
  ASSUME TypeInv, OneAtATime, NEW w \in Worker, NEW s, NEW j, Goto(w, s, j),
         lockAvailable(w), lock' = w
  PROVE  OneAtATime'
BY ConstantsAssumption
   DEF TypeInv, TypeOK, OneAtATime, Holds, Goto, lockAvailable

LEMMA LeaveRecordHolds ==
  ASSUME TypeInv, OneAtATime, NEW w \in Worker, Holds(w),
         NEW s \in {"settling", "returning"}, NEW j \in Job, LeaveRecord(w, s, j)
  PROVE  OneAtATime'
<1>1. CASE j.mode = "automatic"
  BY <1>1, GotoHolds DEF LeaveRecord, OneAtATime
<1>2. CASE j.mode # "automatic"
  BY <1>2, UnlockHolds DEF LeaveRecord, HoldsAt, HasRecord, Applying
<1>. QED  BY <1>1, <1>2

LEMMA OneAtATimeStep ==
  ASSUME TypeInv, OneAtATime, [Next]_vars
  PROVE  OneAtATime'
<1>. USE DEF HoldsAt, HasRecord, Applying
<1>1. CASE UNCHANGED vars
  BY <1>1 DEF vars, OneAtATime, Holds
<1>2. ASSUME NEW w \in Worker, OpenChange(w) \/ OpenRecord(w) PROVE OneAtATime'
  BY <1>2, TakeHolds DEF OpenChange, OpenRecord
<1>3. ASSUME NEW w \in Worker, StartRestore(w) \/ ApproveRestore(w) \/ KeepChange(w)
                               \/ DeclineRequest(w)
      PROVE  OneAtATime'
  <2>1. ASSUME NEW n, NEW mode \in {"manual", "repair"}, Load(w, n, mode),
               UNCHANGED lock
        PROVE  OneAtATime'
    BY <2>1, GotoHolds DEF Load, NoJob
  <2>2. CASE StartRestore(w)
    BY <2>1, <2>2 DEF StartRestore
  <2>3. CASE ApproveRestore(w)
    BY <2>1, <2>3 DEF ApproveRestore, OneAtATime, Holds
  <2>4. CASE KeepChange(w) \/ DeclineRequest(w)
    BY <2>4, GotoHolds DEF KeepChange, DeclineRequest, NoJob
  <2>. QED  BY <1>3, <2>2, <2>3, <2>4
<1>4. ASSUME NEW w \in Worker, RunStatement(w) PROVE OneAtATime'
  BY <1>4 DEF RunStatement, OneAtATime, Holds
<1>5. ASSUME NEW w \in Worker, ReconcileBusy(w) \/ Reconcile(w) \/ Crash(w)
      PROVE  OneAtATime'
  BY <1>5, LeaveHolds DEF ReconcileBusy, Reconcile, ReconcileRestore, ReconcileOpen, Crash
<1>6. ASSUME NEW w \in Worker, NEW n \in ChangeId, ReadLate(w, n) PROVE OneAtATime'
  BY <1>6, GotoHolds DEF ReadLate, NoJob
<1>7. ASSUME \/ \E n \in ChangeId : TimeIsUp(n)
             \/ ChangeOutside
      PROVE  OneAtATime'
  BY <1>7 DEF TimeIsUp, ChangeOutside, OneAtATime, Holds
<1>8. ASSUME NEW w \in Worker, Continue(w) PROVE OneAtATime'
  <2>1. CASE DiscardChange(w) \/ FailedAfterCommit(w) \/ StopAndEscalate(w)
             \/ RequestApproval(w) \/ ClaimLost(w) \/ AnswerRequest(w)
             \/ KeepDeclined(w)
    BY <2>1, LeaveHolds DEF DiscardChange, FailedAfterCommit, StopAndEscalate,
                            RequestApproval, ClaimLost, AnswerRequest, KeepDeclined
  <2>2. CASE Applied(w) \/ CommitRestore(w)
    BY <2>2, GotoHolds DEF Applied, CommitRestore, OneAtATime, Holds
  <2>3. ASSUME pc[w] \in {"working", "verifying"}, CloseFailing(w) PROVE OneAtATime'
    BY <2>3, GotoHolds, LeaveHolds DEF CloseFailing, OneAtATime, Holds
  <2>4. CASE ApplyFailed(w)
    BY <2>3, <2>4, LeaveHolds DEF ApplyFailed
  <2>5. CASE Verified(w)
    <3>1. pc[w] = "verifying"
      BY <2>5 DEF Verified
    <3>2. LeaveRecord(w, "settling", job[w]) \/ CloseFailing(w) \/ Leave(w)
      BY <2>5 DEF Verified
    <3>. QED  BY <2>3, <3>1, <3>2, LeaveHolds, LeaveRecordHolds, OwnJob DEF Holds
  <2>6. CASE RecoverAutomatically(w)
    BY <2>6, GotoHolds, LeaveHolds DEF RecoverAutomatically, Load, OneAtATime, Holds
  <2>7. CASE PauseRecovery(w)
    BY <2>7, GotoHolds DEF PauseRecovery, OneAtATime, Holds
  <2>8. CASE RecordStarted(w) \/ LockRefused(w) \/ SettleRestore(w)
    BY <2>8, GotoHolds DEF RecordStarted, LockRefused, SettleRestore, OneAtATime, Holds
  <2>9. CASE GiveBack(w)
    <3>1. job[w].then \in {"idle", "asking", "stopping"}
      BY OwnJob DEF Job
    <3>. QED  BY <2>9, <3>1, GotoHolds, LeaveHolds DEF GiveBack, OneAtATime, Holds
  <2>10. CASE Escalate(w)
    BY <2>10, GotoHolds, LeaveHolds DEF Escalate, OneAtATime, Holds
  <2>11. CASE RefuseRestore(w)
    <3>. PICK then \in {"asking", "stopping"} :
           LeaveRecord(w, "returning", [job[w] EXCEPT !.then =
             IF job[w].mode = "automatic" THEN then ELSE "idle"])
      BY <2>11 DEF RefuseRestore
    <3>1. [job[w] EXCEPT !.then =
             IF job[w].mode = "automatic" THEN then ELSE "idle"] \in Job
      BY OwnJob DEF Job
    <3>. QED  BY <2>11, <3>1, LeaveRecordHolds DEF RefuseRestore, Holds
  <2>12. CASE RestoreFailed(w)
    <3>. DEFINE automatic == job[w].mode = "automatic"
                j == [job[w] EXCEPT
                        !.from = IF automatic THEN "recovery_failed" ELSE @,
                        !.then = IF automatic THEN "stopping" ELSE "idle"]
    <3>1. LeaveRecord(w, "returning", j)
      BY <2>12 DEF RestoreFailed
    <3>2. j \in Job
      BY OwnJob DEF Job, ChangeStatus
    <3>. QED  BY <2>12, <3>1, <3>2, LeaveRecordHolds DEF RestoreFailed, Holds
  <2>13. CASE Claim(w)
    BY <2>13, GotoHolds, OwnJob DEF Claim, OneAtATime, Holds, Job
  <2>14. CASE FollowRestore(w) \/ FollowKeep(w)
    <3>1. FindRequest(w, job[w].change) \/ Leave(w)
      BY <2>14 DEF FollowRestore, FollowKeep
    <3>2. pc[w] \in {"following", "keeping"}
      BY <2>14 DEF FollowRestore, FollowKeep
    <3>. QED  BY <3>1, <3>2, GotoHolds, LeaveHolds DEF FindRequest, OneAtATime, Holds
  <2>. QED
    BY <1>2, <1>8, <2>1, <2>2, <2>4, <2>5, <2>6, <2>7, <2>8, <2>9, <2>10, <2>11, <2>12,
       <2>13, <2>14 DEF Continue
<1>. QED  BY <1>1, <1>2, <1>3, <1>4, <1>5, <1>6, <1>7, <1>8 DEF Next, Begin, Continue

-----------------------------------------------------------------------------
(* Records that are sealed stay as they are. *)

SameRecord(n) ==
  /\ row'[n].kind = row[n].kind /\ row'[n].recoversId = row[n].recoversId
  /\ row'[n].checkpoint = row[n].checkpoint
  /\ row'[n].resultState = row[n].resultState
  /\ row'[n].footprint = row[n].footprint

SealedStay == \A n \in ChangeId : row[n].sealed => row'[n].sealed /\ SameRecord(n)

LEMMA RestorableStays ==
  ASSUME SealedStay, NEW n, Restorable(n)
  PROVE  Restorable(n)'
BY DEF SealedStay, SameRecord, Restorable

LEMMA SubjectStays ==
  ASSUME TypeOK, SealedStay, NEW n \in ChangeId, RowFits(n),
         row'[n].kind = row[n].kind, row'[n].recoversId = row[n].recoversId
  PROVE  Subject(n)' = Subject(n)
<1>1. row[n].kind \in {"change", "recovery"}
  BY DEF TypeOK, Row
<1>. QED  BY <1>1 DEF SealedStay, SameRecord, RowFits, Restorable, Subject

\* A row that keeps its record is about a change that can still be restored.
LEMMA RecoversStays ==
  ASSUME SealedStay, NEW n, RowFits(n), SameRecord(n)
  PROVE  (row[n].kind = "recovery" => Restorable(row[n].recoversId))'
<1>. PICK c : c = row[n].recoversId
  OBVIOUS
<1>1. Restorable(c) => Restorable(c)'
  BY RestorableStays
<1>. QED  BY <1>1 DEF SameRecord, RowFits, Restorable

LEMMA ExactStays ==
  ASSUME TypeOK, SealedStay, NEW n \in ChangeId, RowFits(n), SameRecord(n), Exact(n)
  PROVE  Exact(n)'
<1>1. Subject(n)' = Subject(n)
  BY SubjectStays DEF SameRecord
<1>. QED  BY <1>1 DEF Exact, SameRecord

-----------------------------------------------------------------------------
(* What the invariant says of rows and of the calls that hold them.        *)

RowsFit == \A n \in ChangeId : RowFits(n) /\ (row[n].sealed => Exact(n))

CallsFit == \A w \in Worker : RecordFits(w) /\ ChangeFits(w)

Base == TypeInv /\ OneAtATime /\ RowsFit /\ CallsFit

Unsettled == {"unopened", "withdrawn", "applying", "verifying"}

\* Row n moves along the lifecycle, its record untouched.
Moves(n, r) ==
  /\ r.kind = row[n].kind /\ r.recoversId = row[n].recoversId
  /\ r.checkpoint = row[n].checkpoint /\ r.resultState = row[n].resultState
  /\ r.footprint = row[n].footprint /\ r.sealed = row[n].sealed
  /\ \/ r.status = row[n].status
     \/ row[n].status \notin {"applying", "verifying"} /\ r.status \notin Unsettled
  /\ r.status = "recovering" => r.sealed /\ r.recoveryClaim \in Worker
  /\ r.recoveryClaim # NoWorker => r.status = "recovering"
  /\ r.started.from \in ReturnTo \cup {"never"}

RowsMove == \A n \in ChangeId : Moves(n, row'[n])

LEMMA RowsMoveRecords ==
  ASSUME RowsMove
  PROVE  SealedStay /\ \A n \in ChangeId : SameRecord(n)
BY DEF RowsMove, Moves, SealedStay, SameRecord

LEMMA RowsMoveFit ==
  ASSUME Base, RowsMove
  PROVE  RowsFit'
<1>. SUFFICES ASSUME NEW n \in ChangeId
              PROVE  RowFits(n)' /\ (row[n].sealed => Exact(n))'
  BY DEF RowsFit
<1>1. SealedStay /\ SameRecord(n) /\ Moves(n, row'[n])
  BY RowsMoveRecords DEF RowsMove
<1>2. RowFits(n) /\ (row[n].sealed => Exact(n))
  BY DEF Base, RowsFit
<1>3. (row[n].kind = "recovery" => Restorable(row[n].recoversId))'
  BY <1>1, <1>2, RecoversStays
<1>4. RowFits(n)'
  BY <1>1, <1>2, <1>3 DEF RowFits, Moves, Unsettled
<1>. QED  BY <1>1, <1>2, <1>4, ExactStays DEF Moves, Base, TypeInv

\* A call that does nothing keeps what it knows.
LEMMA CallStays ==
  ASSUME Base, RowsMove, UNCHANGED live, NEW u \in Worker,
         pc'[u] = pc[u], job'[u] = job[u]
  PROVE  RecordFits(u)' /\ ChangeFits(u)'
<1>. PICK n : n = job[u].record
  OBVIOUS
<1>1. SealedStay
  BY RowsMoveRecords
<1>2. RecordFits(u) /\ ChangeFits(u) /\ StepFits(pc[u], job[u])
  BY OwnJob DEF Base, CallsFit
<1>3. ChangeFits(u)'
  <2>. PICK c : c = job[u].change
    OBVIOUS
  <2>1. /\ Restorable(n) => Restorable(n)'
        /\ Restorable(c) => Restorable(c)'
    BY <1>1, RestorableStays
  <2>. QED  BY <1>2, <2>1 DEF ChangeFits, Restorable
<1>4. ASSUME pc[u] \notin HasRecord PROVE RecordFits(u)'
  BY <1>4 DEF RecordFits, HasRecord, Applying
<1>5. ASSUME pc[u] \in HasRecord PROVE RecordFits(u)'
  <2>1. n \in ChangeId
    BY <1>2, <1>5 DEF StepFits
  <2>2. SameRecord(n) /\ Moves(n, row'[n]) /\ RowFits(n)
    BY <2>1, RowsMoveRecords DEF RowsMove, Base, RowsFit
  <2>3. Subject(n)' = Subject(n) /\ (Exact(n) => Exact(n)')
    BY <1>1, <2>1, <2>2, SubjectStays, ExactStays DEF Base, TypeInv, SameRecord
  <2>. QED  BY <1>2, <1>5, <2>2, <2>3 DEF RecordFits, SameRecord, Moves, HasRecord, Applying
<1>. QED  BY <1>3, <1>4, <1>5

\* A step at which rows only move, and the call that takes it has no row open after.
LEMMA CalmStep ==
  ASSUME Base, RowsMove, UNCHANGED live, NEW w \in Worker, NEW s, NEW j, Goto(w, s, j),
         s \notin HasRecord \cup {"failing"},
         s \notin Deciding /\ j.change # NoChange => Restorable(j.change)
  PROVE  RowsMove /\ RowsFit' /\ CallsFit'
<1>1. ASSUME NEW u \in Worker PROVE RecordFits(u)' /\ ChangeFits(u)'
  <2>1. CASE u # w
    <3>1. pc'[u] = pc[u] /\ job'[u] = job[u]
      BY <2>1 DEF Goto, Base, TypeInv, TypeOK
    <3>. QED  BY <3>1, CallStays
  <2>2. CASE u = w
    <3>1. pc'[w] = s /\ job'[w] = j
      BY DEF Goto, Base, TypeInv, TypeOK
    <3>2. j.change # NoChange /\ s \notin Deciding => Restorable(j.change)'
      BY RowsMoveRecords, RestorableStays
    <3>. QED  BY <2>2, <3>1, <3>2 DEF RecordFits, ChangeFits, HasRecord, Applying
  <2>. QED  BY <2>1, <2>2
<1>. QED  BY <1>1, RowsMoveFit DEF CallsFit

LEMMA CalmLeave ==
  ASSUME Base, RowsMove, UNCHANGED live, NEW w \in Worker, Leave(w)
  PROVE  RowsMove /\ RowsFit' /\ CallsFit'
BY CalmStep DEF Leave, NoJob, HasRecord, Applying

LEMMA CalmCalls ==
  ASSUME Base, RowsMove, UNCHANGED <<live, pc, job>>
  PROVE  RowsMove /\ RowsFit' /\ CallsFit'
BY CallStays, RowsMoveFit DEF CallsFit

-----------------------------------------------------------------------------
(* The primitives move a row and leave its record alone. *)

LEMMA SameMoves ==
  ASSUME Base, NEW n \in ChangeId
  PROVE  Moves(n, row[n])
BY DEF Base, RowsFit, RowFits, Moves

LEMMA PutMoves ==
  ASSUME Base, NEW n, NEW r, n \in ChangeId => Moves(n, r), row' = [row EXCEPT ![n] = r]
  PROVE  RowsMove
BY SameMoves DEF Base, TypeInv, TypeOK, RowsMove

LEMMA UnchangedMoves ==
  ASSUME Base, UNCHANGED row
  PROVE  RowsMove
BY SameMoves DEF RowsMove

LEMMA TransitionMoves ==
  ASSUME Base, NEW n \in ChangeId, NEW from, NEW to,
         from \cap {"applying", "verifying", "recovering"} = {},
         to \notin Unsettled \cup {"recovering"}
  PROVE  Moves(n, transition(n, from, to))
<1>1. row[n] \in Row /\ RowFits(n) /\ Moves(n, row[n])
  BY SameMoves, GetType DEF Base, TypeInv, RowsFit
<1>. QED  BY <1>1 DEF transition, transitions, Moves, RowFits, Row

Released == ReturnTo \cup {"recovered", "restored"}

LEMMA ReleaseMoves ==
  ASSUME Base, NEW n \in ChangeId, NEW claim, NEW to \in Released
  PROVE  Moves(n, releaseRecovery(n, claim, to))
<1>1. row[n] \in Row /\ RowFits(n) /\ Moves(n, row[n])
  BY SameMoves, GetType DEF Base, TypeInv, RowsFit
<1>2. to \notin Unsettled \cup {"recovering"}
  BY DEF Released, ReturnTo, IN_EFFECT, RECOVERY_OWED, Unsettled
<1>. QED  BY <1>1, <1>2 DEF releaseRecovery, Owns, Moves, RowFits, Row

\* recoveredById is no part of the record.
LEMMA AnswerMoves ==
  ASSUME NEW n, NEW r \in Row, NEW by, Moves(n, r)
  PROVE  Moves(n, [r EXCEPT !.recoveredById = by])
BY DEF Moves, Row

LEMMA ClaimMoves ==
  ASSUME Base, NEW n \in ChangeId, NEW w \in Worker, NEW mode, Restorable(n),
         mayClaim(n, mode)
  PROVE  Moves(n, claimRecovery(n, w))
<1>1. row[n] \in Row /\ RowFits(n)
  BY GetType DEF Base, TypeInv, RowsFit
<1>2. row[n].sealed /\ row[n].status \notin {"applying", "verifying"}
  BY DEF Restorable, mayClaim, restorableFrom, IN_EFFECT, RECOVERY_OWED
<1>. QED  BY <1>1, <1>2 DEF claimRecovery, Moves, RowFits, Row, Unsettled

\* What may be restored keeps a record that can be.
LEMMA AvailableRestorable ==
  ASSUME Base, NEW n \in ChangeId, NEW mode, Available(n, mode)
  PROVE  Restorable(n)
<1>1. RowFits(n) /\ row[n].sealed
  BY DEF Base, RowsFit, Available
<1>. QED  BY <1>1 DEF RowFits, Available, reapplicable, Restorable

LEMMA LoadCalm ==
  ASSUME Base, UNCHANGED <<row, live>>, NEW w \in Worker, NEW n \in ChangeId,
         NEW mode \in RecoveryMode, Available(n, mode), Load(w, n, mode)
  PROVE  RowsMove /\ RowsFit' /\ CallsFit'
<1>. DEFINE j == [NoJob EXCEPT !.mode = mode, !.change = n]
<1>1. RowsMove
  BY UnchangedMoves
<1>2. j.change = n /\ Restorable(n) /\ Goto(w, "loaded", j)
  BY AvailableRestorable DEF Load, NoJob
<1>. HIDE DEF j
<1>. QED  BY <1>1, <1>2, CalmStep DEF HasRecord

-----------------------------------------------------------------------------
(* The steps at which no row is opened, withdrawn or closed. *)

LEMMA OwnChange ==
  ASSUME Base, NEW w \in Worker, pc[w] \notin Deciding, job[w].change # NoChange
  PROVE  Restorable(job[w].change) /\ job[w].from \in ReturnTo
BY OwnJob DEF Base, CallsFit, ChangeFits, StepFits, Deciding

\* The claim is won by the status the row has by then.
LEMMA ClaimStepFits ==
  ASSUME Base, NEW w \in Worker, Claim(w)
  PROVE  RowsMove /\ RowsFit' /\ CallsFit'
<1>. DEFINE n == job[w].change
            j == [job[w] EXCEPT !.from = row[n].status]
<1>1. n \in ChangeId /\ n # NoChange /\ job[w] \in Job
  BY OwnJob DEF Claim, Base, StepFits, ChangeId, NoChange
<1>2. Restorable(n)
  BY <1>1, OwnChange DEF Claim, Deciding
<1>3. RowsMove
  BY <1>1, <1>2, ClaimMoves, PutMoves DEF Claim
<1>4. j.change = n /\ Goto(w, "claimed", j)
  BY <1>1 DEF Claim, Job
<1>. HIDE DEF j
<1>. QED  BY <1>2, <1>3, <1>4, CalmStep DEF Claim, HasRecord

LEMMA RecoverAutomaticallyFits ==
  ASSUME Base, NEW w \in Worker, RecoverAutomatically(w)
  PROVE  RowsMove /\ RowsFit' /\ CallsFit'
<1>1. job[w].record \in ChangeId /\ "automatic" \in RecoveryMode
  BY OwnJob DEF RecoverAutomatically, StepFits, RecoveryMode, Base
<1>2. CASE Available(job[w].record, "automatic")
  BY <1>1, <1>2, LoadCalm DEF RecoverAutomatically
<1>3. CASE ~Available(job[w].record, "automatic")
  BY <1>3, UnchangedMoves, CalmLeave DEF RecoverAutomatically
<1>. QED  BY <1>2, <1>3

LEMMA PauseRecoveryFits ==
  ASSUME Base, NEW w \in Worker, PauseRecovery(w)
  PROVE  RowsMove /\ RowsFit' /\ CallsFit'
<1>. DEFINE j == [NoJob EXCEPT !.mode = "automatic", !.change = job[w].record]
<1>1. Restorable(job[w].record) /\ j.change = job[w].record
  BY DEF PauseRecovery, Base, CallsFit, ChangeFits, NoJob
<1>2. Goto(w, "asking", j)
  BY DEF PauseRecovery
<1>. HIDE DEF j
<1>. QED  BY <1>1, <1>2, UnchangedMoves, CalmStep DEF PauseRecovery, HasRecord, Applying

LEMMA StartRestoreFits ==
  ASSUME Base, NEW w \in Worker, StartRestore(w) \/ ApproveRestore(w)
  PROVE  RowsMove /\ RowsFit' /\ CallsFit'
<1>1. ASSUME NEW n \in ChangeId, NEW mode \in {"manual", "repair"}, Available(n, mode),
             Load(w, n, mode), UNCHANGED <<row, live>>
      PROVE  RowsMove /\ RowsFit' /\ CallsFit'
  BY <1>1, LoadCalm DEF RecoveryMode
<1>2. CASE StartRestore(w)
  BY <1>1, <1>2 DEF StartRestore
<1>3. CASE ApproveRestore(w)
  <2>. PICK n \in asked :
         IF Available(n, "manual") THEN Load(w, n, "manual") ELSE UNCHANGED <<pc, job>>
    BY <1>3 DEF ApproveRestore
  <2>1. n \in ChangeId
    BY DEF Base, TypeInv, TypeOK
  <2>2. CASE Available(n, "manual")
    BY <1>1, <1>3, <2>1, <2>2 DEF ApproveRestore
  <2>3. CASE ~Available(n, "manual")
    BY <1>3, <2>3, UnchangedMoves, CalmCalls DEF ApproveRestore
  <2>. QED  BY <2>2, <2>3
<1>. QED  BY <1>2, <1>3

LEMMA RecordStartedFits ==
  ASSUME Base, NEW w \in Worker, RecordStarted(w)
  PROVE  RowsMove /\ RowsFit' /\ CallsFit'
<1>. DEFINE n == job[w].change
            r == [row[n] EXCEPT !.started = [mode |-> job[w].mode, from |-> job[w].from]]
<1>1. /\ n \in ChangeId /\ row[n] \in Row /\ Moves(n, row[n])
      /\ Restorable(n) /\ job[w].from \in ReturnTo
  <2>1. n \in ChangeId /\ n # NoChange
    BY OwnJob DEF RecordStarted, Base, StepFits, Claiming, ChangeId, NoChange
  <2>. QED  BY <2>1, SameMoves, GetType, OwnChange
            DEF RecordStarted, Base, TypeInv, Deciding
<1>2. Moves(n, r)
  BY <1>1 DEF Moves, Row
<1>3. row' = [row EXCEPT ![n] = r]
  BY DEF RecordStarted
<1>4. RowsMove
  BY <1>2, <1>3, PutMoves
<1>. QED  BY <1>1, <1>4, CalmStep DEF RecordStarted, HasRecord, Applying

LEMMA LockRefusedFits ==
  ASSUME Base, NEW w \in Worker, LockRefused(w)
  PROVE  RowsMove /\ RowsFit' /\ CallsFit'
BY UnchangedMoves, OwnChange, CalmStep DEF LockRefused, HasRecord, Deciding

LEMMA GiveBackFits ==
  ASSUME Base, NEW w \in Worker, GiveBack(w)
  PROVE  RowsMove /\ RowsFit' /\ CallsFit'
<1>. DEFINE c == job[w].change
<1>1. c \in ChangeId /\ c # NoChange
  BY OwnJob DEF GiveBack, Base, StepFits, Claiming, ChangeId, NoChange
<1>2. Restorable(c) /\ job[w].from \in Released
  BY <1>1, OwnChange DEF GiveBack, Released, Deciding
<1>3. RowsMove
  BY <1>1, <1>2, ReleaseMoves, PutMoves DEF GiveBack
<1>4. job[w].then \in {"idle", "asking", "stopping"}
  BY OwnJob DEF Base, Job
<1>. QED  BY <1>2, <1>3, <1>4, CalmLeave, CalmStep DEF GiveBack, HasRecord, Applying

LEMMA SettleRestoreFits ==
  ASSUME Base, NEW w \in Worker, SettleRestore(w)
  PROVE  RowsMove /\ RowsFit' /\ CallsFit'
<1>. DEFINE c == job[w].change
            r == job[w].record
            to == IF byBackenly(job[w].mode) THEN "recovered" ELSE "restored"
<1>1. c \in ChangeId /\ c # NoChange /\ r \in ChangeId
  BY OwnJob DEF SettleRestore, Base, StepFits, Claiming, ChangeId, NoChange
<1>2. Restorable(c)
  BY <1>1, OwnChange DEF SettleRestore, Deciding
<1>3. to \in Released /\ "recovery_failed" \in Released
  BY DEF Released, ReturnTo, RECOVERY_OWED
<1>4. Moves(c, settled(c, w, to, r))
  <2>1. to \in RowStatus
    BY DEF RowStatus, ChangeStatus
  <2>2. releaseRecovery(c, w, to) \in Row
    BY <1>1, <2>1, ReleaseType DEF Base, TypeInv
  <2>. QED  BY <1>1, <1>3, <2>2, ReleaseMoves, AnswerMoves, SameMoves DEF settled
<1>5. RowsMove
  BY <1>1, <1>3, <1>4, ReleaseMoves, PutMoves DEF SettleRestore
<1>6. Goto(w, "following", job[w]) \/ Goto(w, "stopping", job[w])
  BY DEF SettleRestore
<1>. QED  BY <1>2, <1>5, <1>6, CalmStep DEF SettleRestore, HasRecord, Applying

LEMMA CalmFind ==
  ASSUME Base, RowsMove, UNCHANGED live, NEW w \in Worker, NEW c, FindRequest(w, c)
  PROVE  RowsMove /\ RowsFit' /\ CallsFit'
<1>1. CASE Goto(w, "answering", job[w])
  BY <1>1, CalmStep DEF Deciding, HasRecord
<1>2. CASE Leave(w)
  BY <1>2, CalmLeave
<1>. QED  BY <1>1, <1>2 DEF FindRequest

LEMMA FollowRestoreFits ==
  ASSUME Base, NEW w \in Worker, FollowRestore(w)
  PROVE  RowsMove /\ RowsFit' /\ CallsFit'
<1>. DEFINE target == row[job[w].change].recoversId
<1>1. target \in ChangeId => Moves(target, reapplied(target))
  BY TransitionMoves DEF reapplied, Unsettled
<1>2. RowsMove
  BY <1>1, PutMoves, UnchangedMoves DEF FollowRestore
<1>. QED  BY <1>2, CalmLeave, CalmFind DEF FollowRestore

LEMMA StopAndEscalateFits ==
  ASSUME Base, NEW w \in Worker, StopAndEscalate(w)
  PROVE  RowsMove /\ RowsFit' /\ CallsFit'
<1>. DEFINE c == job[w].change
            from == {"recovery_failed", "verification_failed", "partially_applied",
                     "awaiting_approval"}
<1>1. c \in ChangeId => Moves(c, transition(c, from, "manual_intervention_required"))
  BY TransitionMoves DEF Unsettled
<1>2. RowsMove
  BY <1>1, PutMoves DEF StopAndEscalate
<1>. QED  BY <1>2, CalmLeave DEF StopAndEscalate

LEMMA EscalateFits ==
  ASSUME Base, NEW w \in Worker, Escalate(w)
  PROVE  RowsMove /\ RowsFit' /\ CallsFit'
<1>. DEFINE c == job[w].change
            owed == {"verification_failed", "partially_applied", "recovery_failed"}
<1>1. c \in ChangeId => Moves(c, transition(c, owed, "awaiting_approval"))
  BY TransitionMoves DEF Unsettled
<1>2. RowsMove
  BY <1>1, PutMoves DEF Escalate
<1>3. Goto(w, "requesting", job[w]) \/ Leave(w)
  BY DEF Escalate
<1>. QED  BY <1>2, <1>3, OwnChange, CalmLeave, CalmStep DEF Escalate, HasRecord, Deciding

LEMMA ReadLateFits ==
  ASSUME Base, NEW w \in Worker, NEW n \in ChangeId, ReadLate(w, n)
  PROVE  RowsMove /\ RowsFit' /\ CallsFit'
BY UnchangedMoves, CalmStep DEF ReadLate, HasRecord, Deciding

\* The steps that end a call and move no row.
LeavesOnly(w) == \/ RequestApproval(w) \/ ReconcileBusy(w) \/ Crash(w)
                 \/ ClaimLost(w) \/ AnswerRequest(w)

LEMMA LeavesFit ==
  ASSUME Base, NEW w \in Worker, LeavesOnly(w)
  PROVE  RowsMove /\ RowsFit' /\ CallsFit'
BY UnchangedMoves, CalmLeave
   DEF LeavesOnly, RequestApproval, ReconcileBusy, Crash, ClaimLost, AnswerRequest

LEMMA ReconcileRestoreFits ==
  ASSUME Base, NEW w \in Worker, ReconcileRestore(w)
  PROVE  RowsMove /\ RowsFit' /\ CallsFit'
<1>. DEFINE n == job[w].change
<1>. PICK untouched \in {TRUE, ~Conflict(n)}, r \in {NoChange} \cup ChangeId :
       row' = [row EXCEPT ![n] =
            [releaseRecovery(n, row[n].recoveryClaim, whereItEnded(n, untouched)) EXCEPT
               !.recoveredById = IF restoredTo(n) /\ r # NoChange THEN r ELSE @]]
  BY DEF ReconcileRestore
<1>. DEFINE released == releaseRecovery(n, row[n].recoveryClaim, whereItEnded(n, untouched))
            by == IF restoredTo(n) /\ r # NoChange THEN r ELSE released.recoveredById
<1>1. n \in ChangeId => Moves(n, [released EXCEPT !.recoveredById = by])
  <2>1. SUFFICES ASSUME n \in ChangeId
                 PROVE  Moves(n, [released EXCEPT !.recoveredById = by])
    OBVIOUS
  <2>2. whereItEnded(n, untouched) \in Released
    <3>1. row[n].started.from \in ReturnTo \cup {"never"}
      BY <2>1 DEF Base, RowsFit, RowFits
    <3>. QED  BY <3>1 DEF whereItEnded, Released, ReturnTo, RECOVERY_OWED
  <2>3. released \in Row
    BY <2>1, ReleaseType, WhereItEndedType, StatusType DEF Base, TypeInv
  <2>4. Moves(n, released)
    BY <2>1, <2>2, ReleaseMoves
  <2>. HIDE DEF released, by
  <2>. QED  BY <2>3, <2>4, AnswerMoves
<1>2. RowsMove
  BY <1>1, PutMoves
<1>. QED  BY <1>2, CalmLeave DEF ReconcileRestore

LEMMA KeptMoves ==
  ASSUME Base, NEW n \in ChangeId, row' = kept(n)
  PROVE  RowsMove
<1>1. Moves(n, transition(n, keepableFrom, "kept"))
  BY TransitionMoves DEF keepableFrom, Unsettled
<1>. QED  BY <1>1, PutMoves DEF kept

\* A change is kept, from History or by declining the request to restore it.
Keeps(w) == KeepChange(w) \/ FollowKeep(w) \/ DeclineRequest(w) \/ KeepDeclined(w)

LEMMA KeepsFit ==
  ASSUME Base, NEW w \in Worker, Keeps(w)
  PROVE  RowsMove /\ RowsFit' /\ CallsFit'
<1>1. CASE KeepChange(w)
  <2>. PICK n \in ChangeId :
         row' = kept(n) /\ Goto(w, "keeping", [NoJob EXCEPT !.change = n])
    BY <1>1 DEF KeepChange
  <2>. QED  BY <1>1, KeptMoves, CalmStep DEF KeepChange, Deciding, HasRecord
<1>2. CASE FollowKeep(w)
  BY <1>2, UnchangedMoves, CalmFind DEF FollowKeep
<1>3. CASE DeclineRequest(w)
  <2>. PICK n \in asked : Goto(w, "declined", [NoJob EXCEPT !.change = n])
    BY <1>3 DEF DeclineRequest
  <2>. QED  BY <1>3, UnchangedMoves, CalmStep DEF DeclineRequest, Deciding, HasRecord
<1>4. CASE KeepDeclined(w)
  <2>1. job[w].change \in ChangeId
    BY <1>4, OwnJob DEF KeepDeclined, StepFits, Base
  <2>. QED  BY <1>4, <2>1, KeptMoves, CalmLeave DEF KeepDeclined
<1>. QED  BY <1>1, <1>2, <1>3, <1>4 DEF Keeps

LEMMA TimeIsUpFits ==
  ASSUME Base, NEW n \in ChangeId, TimeIsUp(n)
  PROVE  RowsMove /\ RowsFit' /\ CallsFit'
<1>1. row' = [row EXCEPT ![n] = [row[n] EXCEPT !.late = TRUE]]
  BY DEF TimeIsUp
<1>2. row[n] \in Row /\ Moves(n, row[n])
  BY SameMoves, GetType DEF Base, TypeInv
<1>3. Moves(n, [row[n] EXCEPT !.late = TRUE])
  BY <1>2 DEF Moves, Row
<1>4. RowsMove
  BY <1>1, <1>3, PutMoves
<1>. QED  BY <1>4, CalmCalls DEF TimeIsUp

\* An owner's own SQL finds no record open, so what calls know of theirs stays.
LEMMA ChangeOutsideFits ==
  ASSUME Base, ChangeOutside
  PROVE  RowsMove /\ RowsFit' /\ CallsFit'
<1>1. RowsMove
  BY UnchangedMoves DEF ChangeOutside
<1>2. ASSUME NEW u \in Worker PROVE RecordFits(u)' /\ ChangeFits(u)'
  <2>1. pc'[u] = pc[u] /\ job'[u] = job[u] /\ row' = row /\ pc[u] \notin HasRecord
    BY DEF ChangeOutside
  <2>2. RecordFits(u)'
    BY <2>1 DEF RecordFits, HasRecord, Applying
  <2>. QED  BY <2>1, <2>2 DEF Base, CallsFit, ChangeFits, Restorable
<1>. QED  BY <1>1, <1>2, RowsMoveFit DEF CallsFit

-----------------------------------------------------------------------------
(* The steps at which a call opens, withdraws or closes a row of its own.  *)

\* What a row may be written as while nobody has it sealed.
RowSound(r) ==
  /\ r.sealed => r.status \notin Unsettled
  /\ r.status # "recovering" /\ r.recoveryClaim = NoWorker
  /\ r.kind = "recovery" => Restorable(r.recoversId)
  /\ r.started.from \in ReturnTo \cup {"never"}

\* No call but w has a row open or recovers automatically, and none but w moves.
Alone(w) ==
  \A u \in Worker \ {w} : ~Holds(u) /\ pc'[u] = pc[u] /\ job'[u] = job[u]

LEMMA GotoAlone ==
  ASSUME Base, NEW w \in Worker, NEW s, NEW j, Goto(w, s, j), Holds(w) \/ lockAvailable(w)
  PROVE  Alone(w)
BY ConstantsAssumption
   DEF Base, TypeInv, TypeOK, OneAtATime, Goto, lockAvailable, Alone

\* Writing row n, not sealed, changes nothing others have sealed or know.
LEMMA PutRow ==
  ASSUME Base, NEW w \in Worker, NEW n \in ChangeId, NEW r \in Row, ~row[n].sealed,
         RowSound(r), row' = [row EXCEPT ![n] = r]
  PROVE  /\ SealedStay /\ row'[n] = r
         /\ \A m \in ChangeId : RowFits(m)'
         /\ \A m \in ChangeId \ {n} : (row[m].sealed => Exact(m))'
<1>1. /\ row'[n] = r
      /\ \A m \in ChangeId \ {n} : row'[m] = row[m]
  BY DEF Base, TypeInv, TypeOK
<1>2. SealedStay
  BY <1>1 DEF SealedStay, SameRecord
<1>3. ASSUME NEW m \in ChangeId \ {n}
      PROVE  RowFits(m)' /\ (row[m].sealed => Exact(m))'
  <2>1. RowFits(m) /\ (row[m].sealed => Exact(m)) /\ SameRecord(m)
    BY <1>1 DEF Base, RowsFit, SameRecord
  <2>2. (row[m].kind = "recovery" => Restorable(row[m].recoversId))'
    BY <1>2, <2>1, RecoversStays
  <2>3. RowFits(m)'
    BY <1>1, <2>1, <2>2 DEF RowFits
  <2>. QED  BY <1>1, <1>2, <2>1, <2>3, ExactStays DEF Base, TypeInv
<1>4. RowFits(n)'
  <2>. PICK c : c = r.recoversId
    OBVIOUS
  <2>1. Restorable(c) => Restorable(c)'
    BY <1>2, RestorableStays
  <2>2. (row[n].kind = "recovery" => Restorable(row[n].recoversId))'
    BY <1>1, <2>1 DEF RowSound, Restorable
  <2>. QED  BY <1>1, <2>2 DEF RowFits, RowSound, Unsettled
<1>. QED  BY <1>1, <1>2, <1>3, <1>4

\* A call that has no row open keeps what it knows, whatever happens to the catalog.
LEMMA OthersFit ==
  ASSUME Base, SealedStay, NEW w \in Worker, Alone(w)
  PROVE  \A u \in Worker \ {w} : RecordFits(u)' /\ ChangeFits(u)'
<1>. SUFFICES ASSUME NEW u \in Worker \ {w} PROVE RecordFits(u)' /\ ChangeFits(u)'
  OBVIOUS
<1>1. pc'[u] = pc[u] /\ job'[u] = job[u] /\ pc[u] \notin HasRecord \cup {"failing"}
  BY DEF Alone, Holds, HoldsAt
<1>2. RecordFits(u)'
  BY <1>1 DEF RecordFits, HasRecord, Applying
<1>3. ChangeFits(u)'
  <2>. PICK c : c = job[u].change
    OBVIOUS
  <2>1. Restorable(c) => Restorable(c)'
    BY RestorableStays
  <2>2. ChangeFits(u)
    BY DEF Base, CallsFit
  <2>. QED  BY <1>1, <2>1, <2>2 DEF ChangeFits, Restorable
<1>. QED  BY <1>2, <1>3

LEMMA PutStep ==
  ASSUME Base, NEW w \in Worker, NEW s, NEW j, Goto(w, s, j),
         Holds(w) \/ lockAvailable(w),
         NEW n \in ChangeId, NEW r \in Row, ~row[n].sealed,
         RowSound(r), row' = [row EXCEPT ![n] = r],
         (row[n].sealed => Exact(n))', RecordFits(w)', ChangeFits(w)'
  PROVE  RowsFit' /\ CallsFit'
<1>1. Alone(w)
  BY GotoAlone
<1>2. SealedStay /\ \A u \in Worker \ {w} : RecordFits(u)' /\ ChangeFits(u)'
  BY <1>1, PutRow, OthersFit
<1>3. \A m \in ChangeId : (RowFits(m) /\ (row[m].sealed => Exact(m)))'
  BY PutRow
<1>. QED  BY <1>2, <1>3 DEF RowsFit, CallsFit

\* A call that returns, or settles a claim it has, has no row open.
LEMMA NoRecordFits ==
  ASSUME Base, NEW w \in Worker, NEW s, NEW j, Goto(w, s, j),
         s \notin HasRecord \cup {"failing"}
  PROVE  /\ RecordFits(w)'
         /\ j.change = NoChange => ChangeFits(w)'
         /\ SealedStay /\ Restorable(j.change) => ChangeFits(w)'
<1>1. pc'[w] = s /\ job'[w] = j
  BY DEF Goto, Base, TypeInv, TypeOK
<1>2. RecordFits(w)'
  BY <1>1 DEF RecordFits, HasRecord, Applying
<1>3. ASSUME SealedStay, Restorable(j.change) PROVE ChangeFits(w)'
  <2>. PICK c : c = j.change
    OBVIOUS
  <2>1. Restorable(c)'
    BY <1>3, RestorableStays
  <2>. QED  BY <1>1, <2>1 DEF ChangeFits, Restorable
<1>. QED  BY <1>1, <1>2, <1>3 DEF ChangeFits

LEMMA LeaveNoRecord ==
  ASSUME Base, NEW w \in Worker, Leave(w)
  PROVE  RecordFits(w)' /\ ChangeFits(w)' /\ Goto(w, "idle", NoJob)
<1>1. Goto(w, "idle", NoJob) /\ NoJob.change = NoChange
  BY DEF Leave, NoJob
<1>. QED  BY <1>1, NoRecordFits DEF HasRecord, Applying

-----------------------------------------------------------------------------
(* Each of those steps.                                                    *)

\* The row a worker has open.
LEMMA OwnRecord ==
  ASSUME Base, NEW w \in Worker, pc[w] \in HasRecord
  PROVE  /\ job[w].record \in ChangeId /\ row[job[w].record] \in Row
         /\ RowFits(job[w].record) /\ RecordFits(w) /\ Holds(w) /\ lock = w
         /\ ~row[job[w].record].sealed
BY OwnJob, GetType
   DEF Base, TypeInv, RowsFit, CallsFit, RecordFits, StepFits, Holds, HoldsAt, OneAtATime

LEMMA UnopenedUnsealed ==
  ASSUME Base, NEW n \in ChangeId, NextId(n)
  PROVE  ~row[n].sealed
<1>1. row[n].status = "unopened"
  BY DEF NextId, ChangeId
<1>. QED  BY <1>1 DEF Base, RowsFit, RowFits

\* The row allocateRow inserts, and the withdrawn one, seal nothing.
LEMMA NewRow ==
  ASSUME Base, NEW kind \in {"change", "recovery"}, NEW c \in {NoChange} \cup ChangeId,
         kind = "recovery" => Restorable(c)
  PROVE  LET r == allocateRow(kind, c) IN
         /\ r \in Row /\ RowSound(r) /\ ~r.sealed
         /\ r.status = "applying" /\ r.kind = kind /\ r.recoversId = c
         /\ r.checkpoint = live
<1>1. allocateRow(kind, c) \in Row
  BY AllocateType DEF Base, TypeInv
<1>. QED  BY <1>1 DEF allocateRow, NoRow, RowSound, Unsettled

LEMMA WithdrawnRow ==
  LET r == [NoRow EXCEPT !.status = "withdrawn"] IN
  r \in Row /\ RowSound(r) /\ ~r.sealed
BY WithdrawnType DEF NoRow, RowSound, Unsettled

LEMMA OpenChangeFits ==
  ASSUME Base, NEW w \in Worker, OpenChange(w)
  PROVE  RowsFit' /\ CallsFit'
<1>. PICK n \in ChangeId :
       /\ NextId(n)
       /\ row' = [row EXCEPT ![n] = allocateRow("change", NoChange)]
       /\ Goto(w, "working", [NoJob EXCEPT !.record = n])
  BY DEF OpenChange
<1>. PICK r : r = allocateRow("change", NoChange)
  OBVIOUS
<1>. PICK j : j = [NoJob EXCEPT !.record = n]
  OBVIOUS
<1>1. /\ r \in Row /\ RowSound(r) /\ ~r.sealed /\ r.status = "applying"
      /\ r.kind = "change" /\ r.checkpoint = live
  BY NewRow
<1>2. ~row[n].sealed
  BY UnopenedUnsealed
<1>3. pc'[w] = "working" /\ job'[w] = j /\ j.record = n /\ j.change = NoChange
  BY DEF Goto, NoJob, Base, TypeInv, TypeOK
<1>4. row'[n] = r
  BY <1>1, <1>2, PutRow
<1>5. RecordFits(w)' /\ ChangeFits(w)'
  BY <1>1, <1>3, <1>4 DEF OpenChange, RecordFits, ChangeFits, HasRecord, Applying
<1>. QED  BY <1>1, <1>2, <1>4, <1>5, PutStep DEF OpenChange

LEMMA OpenRecordFits ==
  ASSUME Base, NEW w \in Worker, OpenRecord(w)
  PROVE  RowsFit' /\ CallsFit'
<1>. PICK c : c = job[w].change
  OBVIOUS
<1>. PICK n \in ChangeId :
       /\ NextId(n)
       /\ row' = [row EXCEPT ![n] = allocateRow("recovery", c)]
       /\ Goto(w, "restoring", [job[w] EXCEPT !.record = n])
  BY DEF OpenRecord
<1>. PICK r : r = allocateRow("recovery", c)
  OBVIOUS
<1>. PICK j : j = [job[w] EXCEPT !.record = n]
  OBVIOUS
<1>1. c \in ChangeId /\ c # NoChange /\ Restorable(c)
  <2>1. c \in ChangeId /\ c # NoChange
    BY OwnJob DEF OpenRecord, Base, StepFits, Claiming, ChangeId, NoChange
  <2>. QED  BY <2>1, OwnChange DEF Deciding, OpenRecord
<1>2. /\ r \in Row /\ RowSound(r) /\ ~r.sealed /\ r.status = "applying"
      /\ r.kind = "recovery" /\ r.recoversId = c /\ r.checkpoint = live
  BY <1>1, NewRow
<1>3. ~row[n].sealed
  BY UnopenedUnsealed
<1>4. pc'[w] = "restoring" /\ job'[w] = j /\ j.record = n /\ j.change = c
  BY OwnJob DEF Goto, Job, Base, TypeInv, TypeOK
<1>5. row'[n] = r /\ Restorable(c)'
  BY <1>1, <1>2, <1>3, PutRow, RestorableStays
<1>6. RecordFits(w)'
  BY <1>1, <1>2, <1>4, <1>5 DEF OpenRecord, RecordFits, HasRecord, Applying
<1>7. ChangeFits(w)'
  BY <1>4, <1>5 DEF ChangeFits, Restorable
<1>. QED  BY <1>2, <1>3, <1>5, <1>6, <1>7, PutStep DEF OpenRecord

LEMMA DiscardChangeFits ==
  ASSUME Base, NEW w \in Worker, DiscardChange(w)
  PROVE  RowsFit' /\ CallsFit'
<1>. PICK n : n = job[w].record
  OBVIOUS
<1>. PICK r : r = [NoRow EXCEPT !.status = "withdrawn"]
  OBVIOUS
<1>1. r \in Row /\ RowSound(r) /\ ~r.sealed
  BY WithdrawnRow
<1>2. n \in ChangeId /\ Holds(w) /\ ~row[n].sealed
  BY OwnRecord DEF DiscardChange, HasRecord, Applying
<1>3. row' = [row EXCEPT ![n] = r] /\ Leave(w)
  BY DEF DiscardChange
<1>4. row'[n] = r
  BY <1>1, <1>2, <1>3, PutRow
<1>. QED  BY <1>1, <1>2, <1>3, <1>4, LeaveNoRecord, PutStep

LEMMA RefuseRestoreFits ==
  ASSUME Base, NEW w \in Worker, RefuseRestore(w)
  PROVE  RowsFit' /\ CallsFit'
<1>. PICK then \in {"asking", "stopping"} :
       LeaveRecord(w, "returning", [job[w] EXCEPT !.then =
         IF job[w].mode = "automatic" THEN then ELSE "idle"])
  BY DEF RefuseRestore
<1>. PICK j : j = [job[w] EXCEPT !.then =
                     IF job[w].mode = "automatic" THEN then ELSE "idle"]
  OBVIOUS
<1>. PICK n : n = job[w].record
  OBVIOUS
<1>. PICK r : r = [NoRow EXCEPT !.status = "withdrawn"]
  OBVIOUS
<1>1. r \in Row /\ RowSound(r) /\ ~r.sealed
  BY WithdrawnRow
<1>2. n \in ChangeId /\ Holds(w) /\ ~row[n].sealed
  BY OwnRecord DEF RefuseRestore, HasRecord, Applying
<1>3. row' = [row EXCEPT ![n] = r] /\ Goto(w, "returning", j)
  BY DEF RefuseRestore, LeaveRecord
<1>4. row'[n] = r /\ SealedStay
  BY <1>1, <1>2, <1>3, PutRow
<1>5. Restorable(j.change)
  <2>1. job[w].change \in ChangeId /\ job[w].change # NoChange
    BY OwnJob DEF RefuseRestore, Base, StepFits, Claiming, ChangeId, NoChange
  <2>2. j.change = job[w].change
    BY OwnJob DEF Base, Job
  <2>. QED  BY <2>1, <2>2, OwnChange DEF Deciding, RefuseRestore
<1>6. RecordFits(w)' /\ ChangeFits(w)'
  BY <1>3, <1>4, <1>5, NoRecordFits DEF HasRecord, Applying
<1>. QED  BY <1>1, <1>2, <1>3, <1>4, <1>6, PutStep

\* The evidence is exact: only w could change the catalog since the checkpoint.
LEMMA EvidenceExact ==
  ASSUME Base, NEW w \in Worker, pc[w] \in Applying, NEW n, n = job[w].record,
         SealedStay,
         row'[n].kind = row[n].kind, row'[n].recoversId = row[n].recoversId,
         row'[n].checkpoint = row[n].checkpoint, row'[n].resultState = live,
         row'[n].footprint = diffCatalogs(row[n].checkpoint, live)
  PROVE  Exact(n)'
<1>1. n \in ChangeId /\ RowFits(n) /\ RecordFits(w)
  BY OwnRecord DEF HasRecord, Applying
<1>2. Subject(n)' = Subject(n)
  BY <1>1, SubjectStays DEF Base, TypeInv
<1>3. ASSUME NEW t \in Table
      PROVE  live[t] \ {Subject(n)} = row[n].checkpoint[t] \ {Subject(n)}
  BY <1>1 DEF RecordFits, Applying
<1>. QED  BY <1>2, <1>3 DEF Exact, diffCatalogs

LEMMA EvidenceRow ==
  ASSUME Base, NEW n \in ChangeId, ~row[n].sealed, NEW status \in ChangeStatus,
         status # "recovering", NEW r, r = withEvidence(n, status)
  PROVE  /\ r \in Row /\ RowSound(r) /\ ~r.sealed /\ r.status = status
         /\ r.kind = row[n].kind /\ r.recoversId = row[n].recoversId
         /\ r.checkpoint = row[n].checkpoint /\ r.resultState = live
         /\ r.footprint = diffCatalogs(row[n].checkpoint, live)
<1>1. row[n] \in Row /\ RowFits(n)
  BY GetType DEF Base, TypeInv, RowsFit
<1>2. r \in Row
  BY EvidenceType, StatusType DEF Base, TypeInv
<1>3. /\ r.started = row[n].started /\ r.kind = row[n].kind
      /\ r.recoveryClaim = row[n].recoveryClaim
      /\ r.recoversId = row[n].recoversId /\ r.checkpoint = row[n].checkpoint
      /\ r.sealed = row[n].sealed /\ r.status = status /\ r.resultState = live
      /\ r.footprint = diffCatalogs(row[n].checkpoint, live)
  BY <1>1 DEF withEvidence, Row
<1>. QED  BY <1>1, <1>2, <1>3 DEF RowFits, RowSound

LEMMA ClosedRow ==
  ASSUME Base, NEW n \in ChangeId, ~row[n].sealed,
         NEW status \in {"failed", "partially_applied"}, NEW r, r = closed(n, status)
  PROVE  /\ r \in Row /\ RowSound(r) /\ r.sealed
         /\ r.kind = row[n].kind /\ r.recoversId = row[n].recoversId
         /\ r.checkpoint = row[n].checkpoint /\ r.resultState = live
         /\ r.footprint = diffCatalogs(row[n].checkpoint, live)
<1>. PICK e : e = withEvidence(n, status)
  OBVIOUS
<1>1. status \in ChangeStatus /\ status \notin Unsettled \cup {"recovering"}
  BY DEF ChangeStatus, Unsettled
<1>2. /\ e \in Row /\ RowSound(e) /\ e.status = status
      /\ e.kind = row[n].kind /\ e.recoversId = row[n].recoversId
      /\ e.checkpoint = row[n].checkpoint /\ e.resultState = live
      /\ e.footprint = diffCatalogs(row[n].checkpoint, live)
  BY <1>1, EvidenceRow
<1>3. r = [e EXCEPT !.sealed = TRUE, !.late = FALSE] /\ r \in Row
  BY <1>1, ClosedType, StatusType DEF closed, Base, TypeInv
<1>4. /\ r.kind = e.kind /\ r.recoversId = e.recoversId /\ r.status = e.status
      /\ r.checkpoint = e.checkpoint /\ r.resultState = e.resultState
      /\ r.footprint = e.footprint /\ r.started = e.started /\ r.sealed = TRUE
      /\ r.recoveryClaim = e.recoveryClaim
  BY <1>2, <1>3 DEF Row
<1>. QED  BY <1>1, <1>2, <1>3, <1>4 DEF RowSound

LEMMA AppliedFits ==
  ASSUME Base, NEW w \in Worker, Applied(w)
  PROVE  RowsFit' /\ CallsFit'
<1>. PICK n : n = job[w].record
  OBVIOUS
<1>. PICK r : r = withEvidence(n, "verifying")
  OBVIOUS
<1>1. /\ n \in ChangeId /\ Holds(w) /\ ~row[n].sealed /\ RecordFits(w)
      /\ RowFits(n) /\ pc[w] \in Applying
  BY OwnRecord DEF Applied, HasRecord, Applying
<1>2. /\ r \in Row /\ RowSound(r) /\ ~r.sealed /\ r.status = "verifying"
      /\ r.kind = row[n].kind /\ r.recoversId = row[n].recoversId
      /\ r.checkpoint = row[n].checkpoint /\ r.resultState = live
      /\ r.footprint = diffCatalogs(row[n].checkpoint, live)
  BY <1>1, EvidenceRow DEF ChangeStatus
<1>3. row' = [row EXCEPT ![n] = r] /\ Goto(w, "verifying", job[w])
  BY DEF Applied
<1>4. row'[n] = r /\ SealedStay
  BY <1>1, <1>2, <1>3, PutRow
<1>5. Exact(n)'
  BY <1>1, <1>2, <1>4, EvidenceExact
<1>6. pc'[w] = "verifying" /\ job'[w] = job[w]
  BY <1>3 DEF Goto, Base, TypeInv, TypeOK
<1>7. RecordFits(w)'
  BY <1>1, <1>2, <1>4, <1>5, <1>6 DEF RecordFits, HasRecord, Applying
<1>8. ChangeFits(w)'
  <2>. PICK c : c = job[w].change
    OBVIOUS
  <2>1. c # NoChange => Restorable(c)'
    BY <1>4, OwnChange, RestorableStays DEF Applied, Deciding
  <2>. QED  BY <1>6, <2>1 DEF ChangeFits, Restorable
<1>. QED  BY <1>1, <1>2, <1>3, <1>4, <1>7, <1>8, PutStep

\* A change that closed badly hands its row over, or returns.
LEMMA CloseFailingCall ==
  ASSUME Base, NEW w \in Worker, NEW n \in ChangeId, n = job[w].record,
         job[w].change = NoChange, row'[n].sealed, row'[n].kind = "change",
         CloseFailing(w)
  PROVE  /\ RecordFits(w)' /\ ChangeFits(w)'
         /\ \E s, j : Goto(w, s, j)
<1>1. CASE Leave(w)
  BY <1>1, LeaveNoRecord
<1>2. CASE Goto(w, "failing", job[w])
  <2>1. pc'[w] = "failing" /\ job'[w] = job[w]
    BY <1>2 DEF Goto, Base, TypeInv, TypeOK
  <2>. QED  BY <1>2, <2>1 DEF RecordFits, ChangeFits, Restorable, HasRecord, Applying
<1>. QED  BY <1>1, <1>2 DEF CloseFailing

LEMMA ApplyFailedFits ==
  ASSUME Base, NEW w \in Worker, ApplyFailed(w)
  PROVE  RowsFit' /\ CallsFit'
<1>. PICK n : n = job[w].record
  OBVIOUS
<1>. PICK status \in {"failed", "partially_applied"} :
       row' = [row EXCEPT ![n] = closed(n, status)]
  BY DEF ApplyFailed
<1>. PICK r : r = closed(n, status)
  OBVIOUS
<1>1. /\ n \in ChangeId /\ Holds(w) /\ ~row[n].sealed /\ RecordFits(w)
      /\ pc[w] \in Applying /\ job[w].change = NoChange
  BY OwnRecord, OwnJob DEF ApplyFailed, HasRecord, Applying, Base, StepFits
<1>2. row[n].kind = "change"
  BY <1>1 DEF RecordFits, HasRecord, Applying
<1>3. /\ r \in Row /\ RowSound(r) /\ r.sealed
      /\ r.kind = row[n].kind /\ r.recoversId = row[n].recoversId
      /\ r.checkpoint = row[n].checkpoint /\ r.resultState = live
      /\ r.footprint = diffCatalogs(row[n].checkpoint, live)
  BY <1>1, ClosedRow
<1>4. row'[n] = r /\ SealedStay
  BY <1>1, <1>3, PutRow
<1>5. Exact(n)'
  BY <1>1, <1>3, <1>4, EvidenceExact
<1>6. RecordFits(w)' /\ ChangeFits(w)' /\ \E s, j : Goto(w, s, j)
  <2>1. Leave(w) \/ CloseFailing(w)
    BY DEF ApplyFailed
  <2>. QED  BY <1>1, <1>2, <1>3, <1>4, <2>1, LeaveNoRecord, CloseFailingCall
<1>. QED  BY <1>1, <1>3, <1>4, <1>5, <1>6, PutStep

LEMMA FailedAfterCommitFits ==
  ASSUME Base, NEW w \in Worker, FailedAfterCommit(w)
  PROVE  RowsFit' /\ CallsFit'
<1>. PICK n : n = job[w].record
  OBVIOUS
<1>. PICK r : r = closed(n, "partially_applied")
  OBVIOUS
<1>1. /\ n \in ChangeId /\ Holds(w) /\ ~row[n].sealed /\ pc[w] \in Applying
  BY OwnRecord DEF FailedAfterCommit, HasRecord, Applying
<1>2. /\ r \in Row /\ RowSound(r) /\ r.sealed
      /\ r.kind = row[n].kind /\ r.recoversId = row[n].recoversId
      /\ r.checkpoint = row[n].checkpoint /\ r.resultState = live
      /\ r.footprint = diffCatalogs(row[n].checkpoint, live)
  BY <1>1, ClosedRow
<1>3. row' = [row EXCEPT ![n] = r] /\ Leave(w)
  BY DEF FailedAfterCommit
<1>4. row'[n] = r /\ SealedStay
  BY <1>1, <1>2, <1>3, PutRow
<1>5. Exact(n)'
  BY <1>1, <1>2, <1>4, EvidenceExact
<1>. QED  BY <1>1, <1>2, <1>3, <1>5, LeaveNoRecord, PutStep

LEMMA RestoreFailedFits ==
  ASSUME Base, NEW w \in Worker, RestoreFailed(w)
  PROVE  RowsFit' /\ CallsFit'
<1>. PICK n : n = job[w].record
  OBVIOUS
<1>. PICK r : r = closed(n, "failed")
  OBVIOUS
<1>. PICK from, then :
       /\ from = IF job[w].mode = "automatic" THEN "recovery_failed" ELSE job[w].from
       /\ then = IF job[w].mode = "automatic" THEN "stopping" ELSE "idle"
  OBVIOUS
<1>. PICK j : j = [job[w] EXCEPT !.from = from, !.then = then]
  OBVIOUS
<1>1. /\ n \in ChangeId /\ Holds(w) /\ ~row[n].sealed /\ pc[w] \in Applying
  BY OwnRecord DEF RestoreFailed, HasRecord, Applying
<1>2. /\ r \in Row /\ RowSound(r) /\ r.sealed
      /\ r.kind = row[n].kind /\ r.recoversId = row[n].recoversId
      /\ r.checkpoint = row[n].checkpoint /\ r.resultState = live
      /\ r.footprint = diffCatalogs(row[n].checkpoint, live)
  BY <1>1, ClosedRow
<1>3. row' = [row EXCEPT ![n] = r] /\ Goto(w, "returning", j)
  BY DEF RestoreFailed, LeaveRecord
<1>4. row'[n] = r /\ SealedStay
  BY <1>1, <1>2, <1>3, PutRow
<1>5. Exact(n)'
  BY <1>1, <1>2, <1>4, EvidenceExact
<1>6. Restorable(j.change)
  <2>1. job[w].change \in ChangeId /\ job[w].change # NoChange
    BY OwnJob DEF RestoreFailed, Base, StepFits, Claiming, ChangeId, NoChange
  <2>2. j.change = job[w].change
    BY OwnJob DEF Base, Job
  <2>. QED  BY <2>1, <2>2, OwnChange DEF Deciding, RestoreFailed
<1>7. "returning" \notin HasRecord \cup {"failing"}
  BY DEF HasRecord, Applying
<1>8. RecordFits(w)' /\ ChangeFits(w)'
  BY <1>3, <1>4, <1>6, <1>7, NoRecordFits
<1>. QED  BY <1>1, <1>2, <1>3, <1>5, <1>8, PutStep

LEMMA VerifiedFits ==
  ASSUME Base, NEW w \in Worker, Verified(w)
  PROVE  RowsFit' /\ CallsFit'
<1>. PICK n : n = job[w].record
  OBVIOUS
<1>. PICK c : c = job[w].change
  OBVIOUS
<1>. PICK status \in {"healthy", "verification_failed", "unverified"} :
       /\ row' = [row EXCEPT ![n] = [@ EXCEPT !.status = status, !.sealed = TRUE,
                                     !.confirmed = (status = "healthy"),
                                     !.late = FALSE]]
       /\ IF c # NoChange THEN LeaveRecord(w, "settling", job[w])
          ELSE IF status = "verification_failed" THEN CloseFailing(w)
          ELSE Leave(w)
  BY DEF Verified
<1>1. /\ n \in ChangeId /\ Holds(w) /\ ~row[n].sealed /\ RecordFits(w)
      /\ row[n] \in Row /\ RowFits(n) /\ pc[w] = "verifying"
  BY OwnRecord DEF Verified, HasRecord
<1>. PICK b \in BOOLEAN : b = (status = "healthy")
  OBVIOUS
<1>. PICK r : r = [row[n] EXCEPT !.status = status, !.sealed = TRUE,
                                 !.confirmed = b, !.late = FALSE]
  OBVIOUS
<1>2. row' = [row EXCEPT ![n] = r]
  OBVIOUS
<1>3. /\ r \in Row /\ r.sealed = TRUE /\ r.status = status /\ r.started = row[n].started
      /\ r.recoveryClaim = row[n].recoveryClaim
      /\ r.kind = row[n].kind /\ r.recoversId = row[n].recoversId
      /\ r.checkpoint = row[n].checkpoint /\ r.resultState = row[n].resultState
      /\ r.footprint = row[n].footprint
  <2>1. status \in RowStatus
    BY DEF RowStatus, ChangeStatus
  <2>. QED  BY <1>1, <2>1 DEF Row
<1>4. RowSound(r)
  BY <1>1, <1>3 DEF RowFits, RowSound, Unsettled
<1>5. row'[n] = r /\ SealedStay
  BY <1>1, <1>2, <1>3, <1>4, PutRow
<1>6. Exact(n)'
  <2>1. Exact(n) /\ SameRecord(n)
    BY <1>1, <1>3, <1>5 DEF RecordFits, SameRecord
  <2>. QED  BY <1>1, <1>5, <2>1, ExactStays DEF Base, TypeInv
<1>7. RecordFits(w)' /\ ChangeFits(w)' /\ \E s, j : Goto(w, s, j)
  <2>1. CASE c # NoChange
    <3>1. Restorable(c)
      BY <1>1, <2>1, OwnChange DEF Deciding
    <3>2. Goto(w, "settling", job[w])
      BY <2>1 DEF LeaveRecord
    <3>3. "settling" \notin HasRecord \cup {"failing"}
      BY DEF HasRecord, Applying
    <3>. QED  BY <1>5, <3>1, <3>2, <3>3, NoRecordFits
  <2>2. CASE c = NoChange
    <3>1. row'[n].sealed /\ row'[n].kind = "change"
      BY <1>1, <1>3, <1>5, <2>2 DEF RecordFits, HasRecord
    <3>2. Leave(w) \/ CloseFailing(w)
      BY <2>2
    <3>. QED  BY <1>1, <2>2, <3>1, <3>2, LeaveNoRecord, CloseFailingCall
  <2>. QED  BY <2>1, <2>2
<1>. QED  BY <1>1, <1>2, <1>3, <1>4, <1>6, <1>7, PutStep

LEMMA ReconcileOpenFits ==
  ASSUME Base, NEW w \in Worker, ReconcileOpen(w)
  PROVE  RowsFit' /\ CallsFit'
<1>. PICK n : n = job[w].change
  OBVIOUS
<1>. PICK F : F = IF \A m \in Recorded : m <= n
                  THEN diffCatalogs(row[n].checkpoint, live) ELSE row[n].footprint
  OBVIOUS
<1>. PICK r : r = [row[n] EXCEPT !.status = "manual_intervention_required",
                                 !.late = FALSE, !.footprint = F]
  OBVIOUS
<1>1. row' = [row EXCEPT ![n] = IF row[n].status = job[w].from THEN r ELSE row[n]]
  BY Zenon DEF ReconcileOpen
<1>2. Leave(w) /\ lockAvailable(w) /\ UNCHANGED live
  BY DEF ReconcileOpen
<1>3. CASE n \in ChangeId /\ row[n].status = job[w].from
  <2>1. row[n] \in Row /\ RowFits(n) /\ row' = [row EXCEPT ![n] = r]
    BY <1>1, <1>3, GetType DEF Base, TypeInv, RowsFit
  <2>2. row[n].status \in {"applying", "verifying"} /\ ~row[n].sealed
    <3>1. job[w].from \in InProgress
      BY OwnJob DEF ReconcileOpen, Base, StepFits
    <3>. QED  BY <1>3, <2>1, <3>1, ConstantsAssumption
              DEF ReconcileOpen, InProgress, RowFits
  <2>3. F \in SUBSET Table /\ "manual_intervention_required" \in RowStatus
    BY <2>1 DEF Row, diffCatalogs, RowStatus, ChangeStatus
  <2>4. /\ r \in Row /\ ~r.sealed /\ r.status = "manual_intervention_required"
        /\ r.kind = row[n].kind /\ r.recoversId = row[n].recoversId
        /\ r.started = row[n].started /\ r.recoveryClaim = row[n].recoveryClaim
    BY <2>1, <2>2, <2>3 DEF Row
  <2>5. RowSound(r)
    BY <2>1, <2>4 DEF RowFits, RowSound
  <2>6. row'[n] = r
    BY <1>3, <2>1, <2>2, <2>4, <2>5, PutRow
  <2>. QED  BY <1>2, <1>3, <2>1, <2>2, <2>4, <2>5, <2>6, LeaveNoRecord, PutStep
<1>4. CASE ~ (n \in ChangeId /\ row[n].status = job[w].from)
  <2>1. UNCHANGED row
    BY <1>1, <1>4 DEF Base, TypeInv, TypeOK
  <2>. QED  BY <1>2, <2>1, UnchangedMoves, CalmLeave
<1>. QED  BY <1>3, <1>4

-----------------------------------------------------------------------------
(* The steps that write to the catalog. *)

\* They write no row: what rows and other calls know stays.
LEMMA CatalogStep ==
  ASSUME Base, NEW w \in Worker, Alone(w), UNCHANGED row, RecordFits(w)', ChangeFits(w)'
  PROVE  RowsFit' /\ CallsFit'
<1>1. RowsMove
  BY UnchangedMoves
<1>2. SealedStay /\ RowsFit'
  BY <1>1, RowsMoveRecords, RowsMoveFit
<1>. QED  BY <1>2, OthersFit DEF CallsFit

LEMMA RunStatementFits ==
  ASSUME Base, NEW w \in Worker, RunStatement(w)
  PROVE  RowsFit' /\ CallsFit'
<1>. PICK n : n = job[w].record
  OBVIOUS
<1>. PICK t \in Table : live' = [live EXCEPT ![t] = @ \cup {n}]
  BY DEF RunStatement
<1>1. /\ n \in ChangeId /\ Holds(w) /\ RecordFits(w) /\ pc[w] = "working"
      /\ job[w].change = NoChange
  BY OwnRecord, OwnJob DEF RunStatement, HasRecord, Applying, Base, StepFits
<1>2. row[n].kind = "change" /\ Subject(n) = n
  BY <1>1 DEF RecordFits, HasRecord, Applying, Subject
<1>3. ASSUME NEW u \in Table PROVE live'[u] \ {n} = live[u] \ {n}
  BY DEF Base, TypeInv, TypeOK, Catalog
<1>4. UNCHANGED <<row, pc, job>> /\ Subject(n)' = n
  BY <1>2 DEF RunStatement, Subject
<1>5. RecordFits(w)'
  BY <1>1, <1>2, <1>3, <1>4 DEF RecordFits, HasRecord, Applying
<1>6. ChangeFits(w)'
  BY <1>1, <1>4 DEF ChangeFits
<1>7. Alone(w)
  BY <1>1, <1>4 DEF Alone, Base, OneAtATime
<1>. QED  BY <1>4, <1>5, <1>6, <1>7, CatalogStep

\* A restore's record is about what the change it restores is about.
LEMMA SubjectOfRecord ==
  ASSUME TypeOK, NEW n, NEW c, Restorable(c),
         row[n].kind = "recovery", row[n].recoversId = c
  PROVE  Subject(n) = Subject(c)
<1>1. row[c].kind \in {"change", "recovery"}
  BY DEF TypeOK, Row, Restorable
<1>. QED  BY <1>1 DEF Restorable, Subject

\* With no conflict, going back to the checkpoint takes away what the change made
\* and nothing else, on every table.
LEMMA RestoreIsExact ==
  ASSUME Base, NEW w \in Worker, CommitRestore(w), NEW t \in Table
  PROVE  LET own == {Subject(job[w].change)} IN live'[t] \ own = live[t] \ own
<1>. PICK c : c = job[w].change
  OBVIOUS
<1>1. c \in ChangeId /\ Restorable(c)
  <2>1. c \in ChangeId /\ c # NoChange
    BY OwnJob DEF CommitRestore, Base, StepFits, Claiming, ChangeId, NoChange
  <2>. QED  BY <2>1, OwnChange DEF Deciding, CommitRestore
<1>2. Exact(c)
  BY <1>1 DEF Base, RowsFit, Restorable
<1>3. CASE t \in row[c].footprint
  <2>1. live[t] = row[c].resultState[t] /\ live'[t] = row[c].checkpoint[t]
    BY <1>3 DEF CommitRestore, Conflict
  <2>. QED  BY <1>2, <1>3, <2>1 DEF Exact
<1>4. CASE t \notin row[c].footprint
  BY <1>4 DEF CommitRestore
<1>. QED  BY <1>3, <1>4

LEMMA CommitRestoreFits ==
  ASSUME Base, NEW w \in Worker, CommitRestore(w)
  PROVE  RowsFit' /\ CallsFit'
<1>. PICK n : n = job[w].record
  OBVIOUS
<1>. PICK c : c = job[w].change
  OBVIOUS
<1>1. n \in ChangeId /\ Holds(w) /\ RecordFits(w) /\ pc[w] = "restoring"
  BY OwnRecord DEF CommitRestore, HasRecord, Applying
<1>2. c \in ChangeId /\ c # NoChange /\ Restorable(c)
  <2>1. c \in ChangeId /\ c # NoChange
    BY OwnJob DEF CommitRestore, Base, StepFits, Claiming, ChangeId, NoChange
  <2>. QED  BY <2>1, OwnChange DEF Deciding, CommitRestore
<1>3. /\ ~row[n].sealed /\ row[n].kind = "recovery" /\ row[n].recoversId = c
      /\ row[n].status = "applying" /\ live = row[n].checkpoint
  BY <1>1, <1>2 DEF RecordFits, HasRecord, Applying
<1>4. UNCHANGED row /\ Goto(w, "committed", job[w])
  BY DEF CommitRestore
<1>5. pc'[w] = "committed" /\ job'[w] = job[w]
  BY <1>4 DEF Goto, Base, TypeInv, TypeOK
<1>. PICK own : own = Subject(n)
  OBVIOUS
<1>6. own = Subject(c) /\ Subject(n)' = own
  BY <1>2, <1>3, <1>4, SubjectOfRecord DEF Base, TypeInv, Subject
<1>7. ASSUME NEW t \in Table PROVE live'[t] \ {own} = row[n].checkpoint[t] \ {own}
  BY <1>3, <1>6, RestoreIsExact
<1>8. RecordFits(w)'
  BY <1>2, <1>3, <1>4, <1>5, <1>6, <1>7 DEF RecordFits, HasRecord, Applying
<1>9. ChangeFits(w)'
  BY <1>2, <1>4, <1>5 DEF ChangeFits, Restorable
<1>10. Alone(w)
  BY <1>1, <1>4, GotoAlone
<1>. QED  BY <1>4, <1>8, <1>9, <1>10, CatalogStep

-----------------------------------------------------------------------------
(* The invariant holds, and the records of changes are exact.              *)

LEMMA LedgerInvBase == LedgerInv <=> Base
BY DEF LedgerInv, Base, TypeInv, RowsFit, CallsFit

LEMMA LedgerInit == Init => LedgerInv
<1>. SUFFICES ASSUME Init PROVE LedgerInv
  OBVIOUS
<1>1. TypeInv
  BY TypeInit
<1>2. OneAtATime
  BY NoJobHolds DEF Init, OneAtATime, Holds
<1>3. ASSUME NEW n \in ChangeId PROVE RowFits(n) /\ ~row[n].sealed
  BY <1>3 DEF Init, NoRow, RowFits
<1>4. ASSUME NEW w \in Worker PROVE RecordFits(w) /\ ChangeFits(w)
  BY <1>4 DEF Init, NoJob, RecordFits, ChangeFits, HasRecord, Applying
<1>. QED  BY <1>1, <1>2, <1>3, <1>4 DEF LedgerInv, TypeInv

LEMMA LedgerStep == LedgerInv /\ [Next]_vars => LedgerInv'
<1>. SUFFICES ASSUME Base, [Next]_vars PROVE Base'
  BY DEF LedgerInv, Base, TypeInv, RowsFit, CallsFit
<1>1. TypeInv' /\ OneAtATime'
  BY TypeStep, OneAtATimeStep DEF Base
<1>2. CASE UNCHANGED vars
  BY <1>2, UnchangedMoves, CalmCalls, <1>1 DEF vars, Base
<1>3. ASSUME NEW w \in Worker, Begin(w) PROVE RowsFit' /\ CallsFit'
  BY <1>3, OpenChangeFits, StartRestoreFits, KeepsFit DEF Begin, Keeps
<1>4. ASSUME NEW w \in Worker, Continue(w) PROVE RowsFit' /\ CallsFit'
  BY <1>4, DiscardChangeFits, AppliedFits, ApplyFailedFits, FailedAfterCommitFits,
     VerifiedFits, RecoverAutomaticallyFits, PauseRecoveryFits, ClaimStepFits,
     RecordStartedFits, OpenRecordFits, LockRefusedFits, RefuseRestoreFits,
     RestoreFailedFits, CommitRestoreFits, GiveBackFits, SettleRestoreFits,
     FollowRestoreFits, StopAndEscalateFits, EscalateFits, LeavesFit, KeepsFit
     DEF Continue, LeavesOnly, Keeps
<1>5. ASSUME NEW w \in Worker, Reconcile(w) PROVE RowsFit' /\ CallsFit'
  BY <1>5, ReconcileRestoreFits, ReconcileOpenFits DEF Reconcile
<1>6. CASE Next
  BY <1>3, <1>4, <1>5, <1>6, <1>1, RunStatementFits, LeavesFit, ReadLateFits,
     TimeIsUpFits, ChangeOutsideFits DEF Next, Base, LeavesOnly
<1>. QED  BY <1>2, <1>6

\* The inductive invariant holds in every reachable state.
THEOREM LedgerInvariant == Spec => []LedgerInv
BY LedgerInit, LedgerStep, PTL DEF Spec

\* Every sealed record tells what its change did and nothing else: the lock of
\* withChangeLock covers both readings of the catalog, for any number of calls.
THEOREM ExactRecords == Spec => []RecordsAreExact
<1>1. LedgerInv => RecordsAreExact
  BY DEF LedgerInv, Exact, RecordsAreExact, Recorded
<1>. QED  BY <1>1, LedgerInvariant, PTL

-----------------------------------------------------------------------------
(* A restore undoes its own change and nothing else.                       *)

\* Only the step that commits a restore takes a call from restoring to committed.
LEMMA OnlyCommitCommits ==
  ASSUME TypeOK, Next, NEW w \in Worker, pc[w] = "restoring", pc'[w] = "committed"
  PROVE  CommitRestore(w)
<1>1. ASSUME NEW u \in Worker, NEW s, NEW j, Goto(u, s, j) PROVE u = w /\ s = "committed"
  BY <1>1 DEF TypeOK, Goto
<1>2. ASSUME NEW u \in Worker PROVE ~Leave(u)
  BY <1>1 DEF Leave
<1>3. ASSUME NEW u \in Worker PROVE ~CloseFailing(u)
  BY <1>1, <1>2 DEF CloseFailing
<1>4. ASSUME NEW u \in Worker, NEW s, NEW j, LeaveRecord(u, s, j) PROVE s = "committed"
  BY <1>1, <1>4 DEF LeaveRecord
<1>5. ASSUME NEW u \in Worker, NEW n, NEW mode PROVE ~Load(u, n, mode)
  BY <1>1 DEF Load
<1>6. pc' # pc
  OBVIOUS
<1>7. ASSUME NEW u \in Worker PROVE ~Begin(u) /\ ~RunStatement(u)
  BY <1>1, <1>5, <1>6 DEF Begin, OpenChange, StartRestore, ApproveRestore, KeepChange,
                          DeclineRequest, RunStatement
<1>8. ASSUME NEW u \in Worker PROVE ~ReconcileBusy(u) /\ ~Reconcile(u) /\ ~Crash(u)
  BY <1>2 DEF ReconcileBusy, Reconcile, ReconcileRestore, ReconcileOpen, Crash
<1>9. ~ChangeOutside /\ \A n : ~TimeIsUp(n)
  BY <1>6 DEF ChangeOutside, TimeIsUp
<1>10. ASSUME NEW u \in Worker, NEW n PROVE ~ReadLate(u, n)
  BY <1>1 DEF ReadLate
<1>11. ASSUME NEW u \in Worker, Continue(u) PROVE CommitRestore(w)
  <2>1. ~DiscardChange(u) /\ ~FailedAfterCommit(u) /\ ~ClaimLost(u) /\ ~AnswerRequest(u)
        /\ ~StopAndEscalate(u) /\ ~RequestApproval(u) /\ ~KeepDeclined(u)
    BY <1>2 DEF DiscardChange, FailedAfterCommit, ClaimLost, AnswerRequest,
                StopAndEscalate, RequestApproval, KeepDeclined
  <2>2. ~Applied(u) /\ ~RecordStarted(u) /\ ~LockRefused(u) /\ ~SettleRestore(u)
        /\ ~PauseRecovery(u) /\ ~OpenRecord(u) /\ ~Claim(u)
    BY <1>1 DEF Applied, RecordStarted, LockRefused, SettleRestore, PauseRecovery,
                OpenRecord, Claim
  <2>3. ~ApplyFailed(u) /\ ~Verified(u)
    BY <1>2, <1>3, <1>4 DEF ApplyFailed, Verified
  <2>4. ~RecoverAutomatically(u) /\ ~Escalate(u)
    BY <1>1, <1>2, <1>5 DEF RecoverAutomatically, Escalate
  <2>5. ~RefuseRestore(u) /\ ~RestoreFailed(u)
    BY <1>4 DEF RefuseRestore, RestoreFailed
  <2>6. ~GiveBack(u)
    <3>1. job[u].then # "committed"
      BY DEF TypeOK, Job
    <3>. QED  BY <1>1, <1>2, <3>1 DEF GiveBack
  <2>7. CommitRestore(u) => u = w
    BY <1>1 DEF CommitRestore
  <2>8. ~FollowRestore(u) /\ ~FollowKeep(u)
    BY <1>1, <1>2 DEF FollowRestore, FollowKeep, FindRequest
  <2>. QED  BY <1>11, <2>1, <2>2, <2>3, <2>4, <2>5, <2>6, <2>7, <2>8 DEF Continue
<1>. QED  BY <1>7, <1>8, <1>9, <1>10, <1>11 DEF Next

\* A restore that commits changes the catalog by its own change only, on every
\* table: planRestore's conflicts are enough, the records being exact.
THEOREM RestoresUndoOnlyTheirOwn == Spec => RestoreUndoesOnlyItsOwn
<1>. DEFINE OnlyItsOwn ==
       \A w \in Worker :
         pc[w] = "restoring" /\ pc'[w] = "committed" =>
           LET own == {Subject(job[w].change)} IN
           \A t \in Table : live'[t] \ own = live[t] \ own
<1>1. LedgerInv /\ [Next]_vars => [OnlyItsOwn]_vars
  <2>1. ASSUME Base, Next PROVE OnlyItsOwn
    <3>. SUFFICES ASSUME NEW w \in Worker, pc[w] = "restoring", pc'[w] = "committed"
                  PROVE  \A t \in Table : live'[t] \ {Subject(job[w].change)}
                                        = live[t] \ {Subject(job[w].change)}
      OBVIOUS
    <3>1. CommitRestore(w)
      BY <2>1, OnlyCommitCommits DEF Base, TypeInv
    <3>. QED  BY <2>1, <3>1, RestoreIsExact
  <2>. HIDE DEF OnlyItsOwn
  <2>. QED  BY <2>1, LedgerInvBase
<1>2. Spec => [][OnlyItsOwn]_vars
  BY <1>1, LedgerInvariant, PTL DEF Spec
<1>. QED  BY <1>2 DEF RestoreUndoesOnlyItsOwn

-----------------------------------------------------------------------------
(* Rows move along the lifecycle.                                          *)

\* Writing r to row n follows an edge, if it changes its status.
Edge(n, r) ==
  LET from == row[n].status
      to == r.status IN
  from # to => \/ from = "unopened" /\ to = "applying"
               \/ from = "applying" /\ to = "withdrawn" /\ ~row[n].sealed
               \/ canTransition(from, to)

Edges == \A n \in ChangeId : Edge(n, row'[n])

LEMMA PutEdges ==
  ASSUME TypeOK, NEW n, NEW r, n \in ChangeId => Edge(n, r), row' = [row EXCEPT ![n] = r]
  PROVE  Edges
BY DEF TypeOK, Edge, Edges

LEMMA SameEdges ==
  ASSUME UNCHANGED row
  PROVE  Edges
BY DEF Edges, Edge

LEMMA TransitionEdge ==
  ASSUME TypeOK, NEW n \in ChangeId, NEW from, NEW to
  PROVE  Edge(n, transition(n, from, to))
BY GetType DEF Edge, transition, transitions, Row

LEMMA ReleaseEdge ==
  ASSUME TypeOK, NEW n \in ChangeId, NEW claim, NEW to \in Released
  PROVE  Edge(n, releaseRecovery(n, claim, to))
<1>1. canTransition("recovering", to)
  BY DEF Released, ReturnTo, IN_EFFECT, RECOVERY_OWED, canTransition, TRANSITIONS,
         ChangeStatus
<1>. QED  BY <1>1, GetType DEF Edge, releaseRecovery, Owns, Row

LEMMA ClaimEdge ==
  ASSUME TypeOK, NEW n \in ChangeId, NEW w, NEW mode, mayClaim(n, mode)
  PROVE  Edge(n, claimRecovery(n, w))
<1>1. row[n].status \in IN_EFFECT \cup RECOVERY_OWED
  BY DEF mayClaim, restorableFrom, RECOVERY_OWED
<1>2. canTransition(row[n].status, "recovering")
  BY <1>1 DEF IN_EFFECT, RECOVERY_OWED, canTransition, TRANSITIONS, ChangeStatus
<1>. QED  BY <1>2, GetType DEF Edge, claimRecovery, Row

LEMMA KeptEdges ==
  ASSUME TypeOK, NEW n \in ChangeId, row' = kept(n)
  PROVE  Edges
BY TransitionEdge, PutEdges DEF kept

LEMMA RestoringEdges ==
  ASSUME Base, NEW w \in Worker,
         GiveBack(w) \/ SettleRestore(w) \/ FollowRestore(w) \/ StopAndEscalate(w)
         \/ Escalate(w) \/ Claim(w) \/ RecordStarted(w) \/ KeepDeclined(w)
  PROVE  Edges
<1>. USE DEF Base, TypeInv
<1>. PICK c : c = job[w].change
  OBVIOUS
<1>1. CASE GiveBack(w)
  <2>1. c \in ChangeId /\ job[w].from \in Released
    <3>1. c \in ChangeId /\ c # NoChange
      BY <1>1, OwnJob DEF GiveBack, StepFits, Claiming, ChangeId, NoChange
    <3>. QED  BY <1>1, <3>1, OwnChange DEF Deciding, GiveBack, Released
  <2>. QED  BY <1>1, <2>1, ReleaseEdge, PutEdges DEF GiveBack
<1>2. CASE SettleRestore(w)
  <2>. PICK r : r = job[w].record
    OBVIOUS
  <2>. PICK to : to = IF byBackenly(job[w].mode) THEN "recovered" ELSE "restored"
    OBVIOUS
  <2>1. to \in Released /\ "recovery_failed" \in Released
    BY DEF Released, ReturnTo, RECOVERY_OWED
  <2>2. c \in ChangeId => Edge(c, releaseRecovery(c, w, to))
                          /\ Edge(c, releaseRecovery(c, w, "recovery_failed"))
    BY <2>1, ReleaseEdge
  <2>3. c \in ChangeId => Edge(c, settled(c, w, to, r))
    <3>1. SUFFICES ASSUME c \in ChangeId PROVE Edge(c, settled(c, w, to, r))
      OBVIOUS
    <3>2. to \in RowStatus
      BY DEF RowStatus, ChangeStatus
    <3>3. releaseRecovery(c, w, to) \in Row
      BY <3>1, <3>2, ReleaseType
    <3>4. [releaseRecovery(c, w, to) EXCEPT !.recoveredById = r].status
            = releaseRecovery(c, w, to).status
      BY <3>3 DEF Row
    <3>. QED  BY <2>2, <3>1, <3>4 DEF Edge, settled
  <2>. QED  BY <1>2, <2>2, <2>3, PutEdges DEF SettleRestore
<1>3. CASE FollowRestore(w)
  <2>. PICK target : target = row[c].recoversId
    OBVIOUS
  <2>1. target \in ChangeId => Edge(target, reapplied(target))
    BY TransitionEdge DEF reapplied
  <2>. QED  BY <1>3, <2>1, PutEdges, SameEdges DEF FollowRestore
<1>4. CASE StopAndEscalate(w)
  BY <1>4, TransitionEdge, PutEdges DEF StopAndEscalate
<1>5. CASE Escalate(w)
  BY <1>5, TransitionEdge, PutEdges DEF Escalate
<1>6. CASE Claim(w)
  BY <1>6, ClaimEdge, PutEdges DEF Claim
<1>7. CASE RecordStarted(w)
  <2>1. c \in ChangeId => row[c] \in Row
    BY GetType
  <2>2. c \in ChangeId =>
          Edge(c, [row[c] EXCEPT !.started = [mode |-> job[w].mode, from |-> job[w].from]])
    BY <2>1 DEF Edge, Row
  <2>. QED  BY <1>7, <2>2, PutEdges DEF RecordStarted
<1>8. CASE KeepDeclined(w)
  BY <1>8, OwnJob, KeptEdges DEF KeepDeclined, StepFits
<1>. QED  BY <1>1, <1>2, <1>3, <1>4, <1>5, <1>6, <1>7, <1>8

LEMMA RecordEdges ==
  ASSUME Base, NEW w \in Worker,
         OpenChange(w) \/ OpenRecord(w) \/ DiscardChange(w) \/ RefuseRestore(w)
         \/ Applied(w) \/ ApplyFailed(w) \/ FailedAfterCommit(w) \/ RestoreFailed(w)
         \/ Verified(w)
  PROVE  Edges
<1>. USE DEF Base, TypeInv
<1>. PICK n : n = job[w].record
  OBVIOUS
<1>1. CASE OpenChange(w) \/ OpenRecord(w)
  <2>. PICK m, kind, c :
         /\ m \in ChangeId /\ NextId(m)
         /\ row' = [row EXCEPT ![m] = allocateRow(kind, c)]
    BY <1>1 DEF OpenChange, OpenRecord
  <2>1. row[m].status = "unopened"
    BY DEF NextId, ChangeId
  <2>2. allocateRow(kind, c).status = "applying"
    BY DEF allocateRow, NoRow
  <2>3. Edge(m, allocateRow(kind, c))
    BY <2>1, <2>2 DEF Edge
  <2>. QED  BY <2>3, PutEdges
<1>2. pc[w] \in HasRecord =>
        /\ n \in ChangeId /\ row[n] \in Row /\ ~row[n].sealed
        /\ pc[w] \in Applying => row[n].status = "applying"
        /\ pc[w] = "verifying" => row[n].status = "verifying"
  BY OwnRecord DEF RecordFits
<1>3. CASE DiscardChange(w) \/ RefuseRestore(w)
  <2>1. row' = [row EXCEPT ![n] = [NoRow EXCEPT !.status = "withdrawn"]]
        /\ pc[w] \in Applying
    BY <1>3 DEF DiscardChange, RefuseRestore, Applying
  <2>2. [NoRow EXCEPT !.status = "withdrawn"].status = "withdrawn"
    BY DEF NoRow
  <2>3. Edge(n, [NoRow EXCEPT !.status = "withdrawn"])
    BY <1>2, <2>1, <2>2 DEF Edge, HasRecord, Applying
  <2>. QED  BY <2>1, <2>3, PutEdges
<1>4. ASSUME NEW status, n \in ChangeId, row[n] \in Row
      PROVE  withEvidence(n, status).status = status /\ closed(n, status).status = status
  BY <1>4 DEF withEvidence, closed, Row
<1>5. CASE Applied(w)
  <2>1. pc[w] \in Applying /\ row' = [row EXCEPT ![n] = withEvidence(n, "verifying")]
    BY <1>5 DEF Applied, Applying
  <2>2. canTransition("applying", "verifying")
    BY DEF canTransition, TRANSITIONS, ChangeStatus
  <2>3. Edge(n, withEvidence(n, "verifying"))
    BY <1>2, <1>4, <2>1, <2>2 DEF Edge, HasRecord, Applying
  <2>. QED  BY <2>1, <2>3, PutEdges
<1>6. CASE ApplyFailed(w) \/ FailedAfterCommit(w) \/ RestoreFailed(w)
  <2>. PICK status \in {"failed", "partially_applied"} :
         row' = [row EXCEPT ![n] = closed(n, status)]
    BY <1>6 DEF ApplyFailed, FailedAfterCommit, RestoreFailed
  <2>1. pc[w] \in Applying
    BY <1>6 DEF ApplyFailed, FailedAfterCommit, RestoreFailed, Applying
  <2>2. canTransition("applying", status)
    BY DEF canTransition, TRANSITIONS, ChangeStatus
  <2>3. Edge(n, closed(n, status))
    BY <1>2, <1>4, <2>1, <2>2 DEF Edge, HasRecord, Applying
  <2>. QED  BY <2>3, PutEdges
<1>7. CASE Verified(w)
  <2>. PICK status \in {"healthy", "verification_failed", "unverified"} :
         row' = [row EXCEPT ![n] = [@ EXCEPT !.status = status, !.sealed = TRUE,
                                    !.confirmed = (status = "healthy"), !.late = FALSE]]
    BY <1>7 DEF Verified
  <2>. PICK b : b = (status = "healthy")
    OBVIOUS
  <2>. PICK r : r = [row[n] EXCEPT !.status = status, !.sealed = TRUE,
                                   !.confirmed = b, !.late = FALSE]
    OBVIOUS
  <2>1. row' = [row EXCEPT ![n] = r]
    OBVIOUS
  <2>2. row[n] \in Row /\ row[n].status = "verifying" /\ pc[w] = "verifying"
    BY <1>2, <1>7 DEF Verified, HasRecord
  <2>3. r.status = status
    BY <2>2 DEF Row
  <2>4. canTransition("verifying", status)
    BY DEF canTransition, TRANSITIONS, ChangeStatus
  <2>5. Edge(n, r)
    BY <2>2, <2>3, <2>4 DEF Edge
  <2>. QED  BY <2>1, <2>5, PutEdges
<1>. QED  BY <1>1, <1>3, <1>5, <1>6, <1>7

LEMMA ReconcilingEdges ==
  ASSUME Base, NEW w \in Worker, Reconcile(w)
  PROVE  Edges
<1>. USE DEF Base, TypeInv
<1>. PICK n : n = job[w].change
  OBVIOUS
<1>1. CASE ReconcileRestore(w)
  <2>0. PICK untouched \in {TRUE, ~Conflict(n)}, r \in {NoChange} \cup ChangeId :
         row' = [row EXCEPT ![n] =
              [releaseRecovery(n, row[n].recoveryClaim, whereItEnded(n, untouched)) EXCEPT
                 !.recoveredById = IF restoredTo(n) /\ r # NoChange THEN r ELSE @]]
    BY <1>1 DEF ReconcileRestore
  <2>. PICK released :
         released = releaseRecovery(n, row[n].recoveryClaim, whereItEnded(n, untouched))
    OBVIOUS
  <2>. PICK by : by = IF restoredTo(n) /\ r # NoChange THEN r ELSE released.recoveredById
    OBVIOUS
  <2>. PICK ended : ended = [released EXCEPT !.recoveredById = by]
    OBVIOUS
  <2>1. row' = [row EXCEPT ![n] = ended]
    BY <2>0
  <2>2. n \in ChangeId => Edge(n, ended)
    <3>1. SUFFICES ASSUME n \in ChangeId PROVE Edge(n, ended)
      OBVIOUS
    <3>2. whereItEnded(n, untouched) \in Released
      <4>1. row[n].started.from \in ReturnTo \cup {"never"}
        BY <3>1 DEF RowsFit, RowFits
      <4>. QED  BY <4>1 DEF whereItEnded, Released, ReturnTo, RECOVERY_OWED
    <3>3. released \in Row
      BY <3>1, ReleaseType, WhereItEndedType, StatusType
    <3>4. Edge(n, released)
      BY <3>1, <3>2, ReleaseEdge
    <3>5. ended.status = released.status
      BY <3>3 DEF Row
    <3>. QED  BY <3>4, <3>5 DEF Edge
  <2>. QED  BY <2>1, <2>2, PutEdges
<1>2. CASE ReconcileOpen(w)
  <2>. PICK F : F = IF \A m \in Recorded : m <= n
                    THEN diffCatalogs(row[n].checkpoint, live) ELSE row[n].footprint
    OBVIOUS
  <2>. PICK r : r = [row[n] EXCEPT !.status = "manual_intervention_required",
                                   !.late = FALSE, !.footprint = F]
    OBVIOUS
  <2>. PICK p : p = IF row[n].status = job[w].from THEN r ELSE row[n]
    OBVIOUS
  <2>1. row' = [row EXCEPT ![n] = p]
    BY <1>2, Zenon DEF ReconcileOpen
  <2>2. n \in ChangeId => Edge(n, p)
    <3>1. SUFFICES ASSUME n \in ChangeId, row[n].status = job[w].from PROVE Edge(n, r)
      BY DEF Edge
    <3>2. row[n] \in Row /\ job[w].from \in InProgress
      BY <1>2, <3>1, OwnJob, GetType DEF ReconcileOpen, StepFits
    <3>3. row[n].status \in InProgress /\ r.status = "manual_intervention_required"
      BY <3>1, <3>2 DEF Row
    <3>4. canTransition(row[n].status, "manual_intervention_required")
      BY <3>3 DEF InProgress, canTransition, TRANSITIONS, ChangeStatus
    <3>. QED  BY <3>3, <3>4 DEF Edge
  <2>. QED  BY <2>1, <2>2, PutEdges
<1>. QED  BY <1>1, <1>2 DEF Reconcile

LEMMA EveryEdge ==
  ASSUME Base, Next
  PROVE  Edges
<1>. USE DEF Base, TypeInv
<1>1. ASSUME NEW w \in Worker, Begin(w) PROVE Edges
  <2>1. CASE StartRestore(w) \/ ApproveRestore(w) \/ DeclineRequest(w)
    BY <2>1, SameEdges DEF StartRestore, ApproveRestore, DeclineRequest
  <2>2. CASE KeepChange(w)
    BY <2>2, KeptEdges DEF KeepChange
  <2>. QED  BY <1>1, <2>1, <2>2, RecordEdges DEF Begin
<1>2. ASSUME NEW w \in Worker, Continue(w) PROVE Edges
  BY <1>2, RecordEdges, RestoringEdges, SameEdges
  DEF Continue, RecoverAutomatically, PauseRecovery, ClaimLost, LockRefused,
      CommitRestore, RequestApproval, AnswerRequest, FollowKeep
<1>3. ASSUME NEW n \in ChangeId, TimeIsUp(n) PROVE Edges
  <2>1. row' = [row EXCEPT ![n] = [row[n] EXCEPT !.late = TRUE]]
    BY <1>3 DEF TimeIsUp
  <2>2. Edge(n, [row[n] EXCEPT !.late = TRUE])
    BY GetType DEF Edge, Row
  <2>. QED  BY <2>1, <2>2, PutEdges
<1>4. ASSUME \/ \E w \in Worker : RunStatement(w) \/ ReconcileBusy(w) \/ Crash(w)
             \/ ChangeOutside
      PROVE  Edges
  BY <1>4, SameEdges DEF RunStatement, ReconcileBusy, Crash, ChangeOutside
<1>5. ASSUME NEW w \in Worker, NEW n \in ChangeId, ReadLate(w, n) PROVE Edges
  BY <1>5, SameEdges DEF ReadLate
<1>. QED  BY <1>1, <1>2, <1>3, <1>4, <1>5, ReconcilingEdges DEF Next

\* The trigger backend_changes_guard is never raised by an edge: whatever calls
\* race, die or come late, no compare-and-set asks for a move that is not one.
THEOREM RowsFollowTheLifecycle == Spec => LifecycleEdges
<1>. DEFINE Follow ==
       \A n \in ChangeId :
         LET from == row[n].status
             to == row'[n].status IN
         from # to => \/ from = "unopened" /\ to = "applying"
                      \/ from = "applying" /\ to = "withdrawn" /\ ~row[n].sealed
                      \/ canTransition(from, to)
<1>1. LedgerInv /\ [Next]_vars => [Follow]_vars
  <2>1. ASSUME Base, Next PROVE Follow
    BY <2>1, EveryEdge DEF Edges, Edge
  <2>. HIDE DEF Follow
  <2>. QED  BY <2>1, LedgerInvBase
<1>2. Spec => [][Follow]_vars
  BY <1>1, LedgerInvariant, PTL DEF Spec
<1>. QED  BY <1>2 DEF LifecycleEdges

=============================================================================
