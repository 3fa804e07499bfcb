---------------------------- MODULE JobQueueProofs ----------------------------
(***************************************************************************)
(* A job ends only for cause, for any jobs, passes, attempts and faults.   *)
(*                                                                         *)
(* Attempts are read in one statement and written back in another, so a    *)
(* failure can be lost: the column is not the number of failures, it is at *)
(* most that number.  That is enough, and it is the inductive invariant.   *)
(***************************************************************************)
EXTENDS JobQueue, TLAPS

\* n is no more than the failures of j, or j has failed as often as it may.
Tally(j, n) == n <= failures[j] \/ failures[j] = job[j].maxAttempts

\* A worker's call reads a number that is a tally, and has a result to write
\* only after the handler returned one.
CallFits(w, j) ==
  /\ call[w][j].step \in {"stale", "counted"} => Tally(j, call[w][j].seen)
  /\ call[w][j].step = "returned" => j \in ran

\* Nothing is known of a job that is not enqueued.
Absent(j) == job[j].status = "absent" =>
  /\ failures[j] = 0 /\ job[j].maxAttempts = 0
  /\ \A w \in Worker : call[w][j].step = "none"

QueueInv ==
  /\ TypeOK
  /\ EndsForCause
  /\ \A j \in Job : /\ failures[j] <= job[j].maxAttempts
                    /\ Tally(j, job[j].attempts)
                    /\ Absent(j)
                    /\ \A w \in Worker : CallFits(w, j)

-----------------------------------------------------------------------------
\* The row a failed attempt leaves.
LEMMA FailureRow ==
  ASSUME NEW j \in Job, job[j] \in JobRow, NEW n \in Nat, NEW due \in BOOLEAN,
         NEW r, r = afterFailure(j, n, due)
  PROVE  /\ r \in JobRow
         /\ r.attempts = n /\ r.maxAttempts = job[j].maxAttempts
         /\ r.status = IF n >= job[j].maxAttempts THEN "exhausted" ELSE "pending"
<1>1. CASE n >= job[j].maxAttempts
  <2>1. r = [job[j] EXCEPT !.status = "exhausted", !.attempts = n, !.late = FALSE]
    BY <1>1 DEF afterFailure
  <2>. QED  BY <1>1, <2>1 DEF JobRow
<1>2. CASE ~(n >= job[j].maxAttempts)
  <2>1. r = [job[j] EXCEPT !.status = "pending", !.attempts = n, !.due = due, !.late = FALSE]
    BY <1>2 DEF afterFailure, Pending
  <2>. QED  BY <1>2, <2>1 DEF JobRow
<1>. QED  BY <1>1, <1>2

\* The failure counted with it: a number read before was a tally, so the one
\* written is, and reaches the maximum no sooner than the failures do.
LEMMA FailureTally ==
  ASSUME NEW j \in Job, job[j] \in JobRow, failures[j] \in Nat, NEW n \in Nat,
         failures[j] <= job[j].maxAttempts, Tally(j, n)
  PROVE  /\ Counted(j) \in Nat /\ failures[j] <= Counted(j)
         /\ Counted(j) <= job[j].maxAttempts
         /\ n + 1 <= Counted(j) \/ Counted(j) = job[j].maxAttempts
         /\ n + 1 >= job[j].maxAttempts => Counted(j) = job[j].maxAttempts
         /\ failures[j] = job[j].maxAttempts => Counted(j) = job[j].maxAttempts
<1>1. job[j].maxAttempts \in Nat
  BY DEF JobRow
<1>. QED  BY <1>1 DEF Tally, Counted

\* One worker's call of one job is all that changes.
LEMMA CallType ==
  ASSUME TypeOK, NEW w \in Worker, NEW j \in Job, NEW c \in Call, CallGoes(w, j, c)
  PROVE  /\ call' \in [Worker -> [Job -> Call]]
         /\ call'[w][j] = c
         /\ \A v \in Worker, k \in Job : v # w \/ k # j => call'[v][k] = call[v][k]
BY DEF TypeOK, CallGoes

-----------------------------------------------------------------------------
\* The invariant, of one job in the next state.
FitsNext(j) ==
  /\ job'[j].status = "completed" => j \in ran'
  /\ job'[j].status = "exhausted" => failures'[j] = job'[j].maxAttempts
  /\ failures'[j] <= job'[j].maxAttempts
  /\ Tally(j, job[j].attempts)'
  /\ Absent(j)'
  /\ \A w \in Worker : CallFits(w, j)'

LEMMA FitsSuffices ==
  ASSUME TypeOK', \A j \in Job : FitsNext(j)
  PROVE  QueueInv'
BY DEF QueueInv, EndsForCause, FitsNext

\* Calls of j a step leaves alone, or ends, or begins without a number.
CallsFollow(j) ==
  \A w \in Worker : \/ call'[w][j] = call[w][j]
                    \/ /\ call'[w][j].step \in {"none", "claimed", "handling", "failed"}
                       /\ job[j].status = "absent" => call'[w][j].step = "none"

\* A step that counts no failure and ends no job.
LEMMA QuietStep ==
  ASSUME QueueInv, NEW j \in Job,
         failures'[j] = failures[j], ran \subseteq ran', CallsFollow(j),
         job'[j].attempts = job[j].attempts, job'[j].maxAttempts = job[j].maxAttempts,
         \/ job'[j].status = job[j].status
         \/ job'[j].status \in {"pending", "running"} /\ job[j].status # "absent"
  PROVE  FitsNext(j)
BY DEF QueueInv, EndsForCause, FitsNext, CallsFollow, Tally, CallFits, Absent

LEMMA QueueInit == ASSUME Init PROVE QueueInv
<1>1. TypeOK
  BY JobQueueAssumption DEF Init, TypeOK, JobRow, NoJob, Pass, Lanes, Call, NoCall
<1>2. \A j \in Job : job[j] = NoJob /\ failures[j] = 0
  BY DEF Init
<1>3. \A w \in Worker, j \in Job : call[w][j] = NoCall
  BY DEF Init
<1>. QED  BY <1>1, <1>2, <1>3
          DEF QueueInv, EndsForCause, Tally, CallFits, Absent, NoJob, NoCall
-----------------------------------------------------------------------------
\* Nobody has a job in hand that is not enqueued.
LEMMA InHandEnqueued ==
  ASSUME QueueInv, NEW w \in Worker, NEW j \in Job, call[w][j].step # "none"
  PROVE  job[j].status # "absent"
BY DEF QueueInv, Absent

\* One worker's call of one job moves on and no row changes.
LEMMA CallStep ==
  ASSUME QueueInv, NEW w \in Worker, NEW j \in Job, NEW c \in Call,
         call[w][j].step # "none", CallGoes(w, j, c),
         UNCHANGED <<job, failures>>, ran \subseteq ran', ran' \subseteq Job,
         pass' \in [Worker -> Pass], faults' \in 0 .. MaxFaults,
         c.step \in {"stale", "counted"} => Tally(j, c.seen),
         c.step = "returned" => j \in ran'
  PROVE  QueueInv'
<1>. USE DEF QueueInv
<1>1. /\ call' \in [Worker -> [Job -> Call]] /\ call'[w][j] = c
      /\ \A v \in Worker, k \in Job : v # w \/ k # j => call'[v][k] = call[v][k]
  BY CallType
<1>2. TypeOK'
  BY <1>1 DEF TypeOK
<1>3. job[j].status # "absent"
  BY InHandEnqueued
<1>4. ASSUME NEW k \in Job PROVE FitsNext(k)
  <2>1. \A v \in Worker : CallFits(v, k)'
    BY <1>1 DEF CallFits, Tally
  <2>2. Absent(k)'
    BY <1>1, <1>3 DEF Absent
  <2>. QED  BY <2>1, <2>2 DEF FitsNext, EndsForCause, Tally
<1>. QED  BY <1>2, <1>4, FitsSuffices

\* One attempt fails and is counted.
LEMMA CountingStep ==
  ASSUME QueueInv, NEW w \in Worker, NEW j \in Job, NEW n \in Nat, NEW due \in BOOLEAN,
         call[w][j].step # "none", Tally(j, n),
         job' = [job EXCEPT ![j] = afterFailure(j, n + 1, due)],
         failures' = [failures EXCEPT ![j] = Counted(j)],
         CallGoes(w, j, NoCall), UNCHANGED <<ran, faults>>, pass' \in [Worker -> Pass]
  PROVE  /\ QueueInv'
         /\ job'[j].status = IF n + 1 >= job[j].maxAttempts THEN "exhausted" ELSE "pending"
         /\ \A k \in Job : k # j => job'[k] = job[k]
<1>. USE DEF QueueInv
<1>1. /\ job[j] \in JobRow /\ failures[j] \in Nat /\ failures[j] <= job[j].maxAttempts
      /\ job \in [Job -> JobRow] /\ failures \in [Job -> Nat]
  BY DEF TypeOK
<1>. PICK r : r = afterFailure(j, n + 1, due)
  OBVIOUS
<1>2. /\ r \in JobRow /\ r.attempts = n + 1 /\ r.maxAttempts = job[j].maxAttempts
      /\ r.status = IF n + 1 >= job[j].maxAttempts THEN "exhausted" ELSE "pending"
  BY <1>1, FailureRow
<1>3. /\ Counted(j) \in Nat /\ failures[j] <= Counted(j)
      /\ Counted(j) <= job[j].maxAttempts
      /\ n + 1 <= Counted(j) \/ Counted(j) = job[j].maxAttempts
      /\ n + 1 >= job[j].maxAttempts => Counted(j) = job[j].maxAttempts
      /\ failures[j] = job[j].maxAttempts => Counted(j) = job[j].maxAttempts
  BY <1>1, FailureTally
<1>4. /\ job'[j] = r /\ failures'[j] = Counted(j)
      /\ \A k \in Job : k # j => job'[k] = job[k] /\ failures'[k] = failures[k]
  BY <1>1
<1>5. NoCall \in Call
  BY DEF NoCall, Call
<1>6. /\ call' \in [Worker -> [Job -> Call]] /\ call'[w][j] = NoCall
      /\ \A v \in Worker, k \in Job : v # w \/ k # j => call'[v][k] = call[v][k]
  BY <1>5, CallType
<1>7. TypeOK'
  BY <1>1, <1>2, <1>3, <1>6 DEF TypeOK
<1>8. FitsNext(j)
  <2>1. \A v \in Worker : call[v][j].seen \in Nat
    BY DEF TypeOK, Call
  <2>2. \A m \in Nat : Tally(j, m) => Tally(j, m)'
    BY <1>1, <1>2, <1>3, <1>4 DEF Tally, JobRow
  <2>3. \A v \in Worker : CallFits(v, j)'
    BY <1>6, <2>1, <2>2 DEF CallFits, NoCall
  <2>4. Tally(j, job[j].attempts)'
    BY <1>2, <1>3, <1>4 DEF Tally
  <2>5. Absent(j)'
    BY <1>2, <1>4 DEF Absent
  <2>. QED  BY <1>2, <1>3, <1>4, <2>3, <2>4, <2>5 DEF FitsNext
<1>9. ASSUME NEW k \in Job, k # j PROVE FitsNext(k)
  BY <1>4, <1>6, <1>9 DEF FitsNext, EndsForCause, Tally, CallFits, Absent
<1>. QED  BY <1>2, <1>4, <1>7, <1>8, <1>9, FitsSuffices

\* A job is enqueued: it has no failures and nobody has it.
LEMMA EnqueueStep ==
  ASSUME QueueInv, NEW j \in Job, enqueue(j)
  PROVE  QueueInv'
<1>. USE DEF QueueInv
<1>. PICK lane \in Lanes, max \in Attempts :
       job' = [job EXCEPT ![j] = [NoJob EXCEPT !.status = "pending", !.lane = lane,
                                               !.maxAttempts = max, !.due = TRUE]]
  BY DEF enqueue
<1>. PICK r : r = [NoJob EXCEPT !.status = "pending", !.lane = lane,
                                !.maxAttempts = max, !.due = TRUE]
  OBVIOUS
<1>1. r \in JobRow /\ r.attempts = 0 /\ r.maxAttempts \in Nat /\ r.status = "pending"
  BY JobQueueAssumption DEF JobRow, NoJob
<1>2. /\ job' \in [Job -> JobRow] /\ job'[j] = r
      /\ \A k \in Job : k # j => job'[k] = job[k]
  BY <1>1 DEF TypeOK
<1>3. TypeOK'
  BY <1>2 DEF TypeOK, enqueue
<1>4. failures[j] = 0 /\ \A w \in Worker : call[w][j].step = "none"
  BY DEF enqueue, Absent
<1>5. UNCHANGED <<call, ran, failures>>
  BY DEF enqueue
<1>6. FitsNext(j)
  BY <1>1, <1>2, <1>4, <1>5 DEF FitsNext, Tally, CallFits, Absent
<1>7. ASSUME NEW k \in Job, k # j PROVE FitsNext(k)
  BY <1>2, <1>5, <1>7 DEF FitsNext, EndsForCause, Tally, CallFits, Absent
<1>. QED  BY <1>3, <1>6, <1>7, FitsSuffices

-----------------------------------------------------------------------------
\* A row set back to pending, as the row it was.
LEMMA PendingRow ==
  ASSUME TypeOK, NEW j \in Job, NEW due \in BOOLEAN, NEW r,
         r = Pending(j, job[j].attempts, due)
  PROVE  /\ r \in JobRow /\ r.status = "pending"
         /\ r.attempts = job[j].attempts /\ r.maxAttempts = job[j].maxAttempts
<1>1. job[j] \in JobRow
  BY DEF TypeOK
<1>. QED  BY <1>1 DEF Pending, JobRow

\* A step that only takes up calls, or drops them, for one worker.
LEMMA CallsStep ==
  ASSUME QueueInv, NEW w \in Worker, UNCHANGED <<job, ran, failures>>,
         \A v \in Worker : v # w => call'[v] = call[v],
         \A j \in Job :
           /\ \/ call'[w][j].step \in {"none", "claimed", "failed"}
              \/ call'[w][j].step = "stale" /\ call'[w][j].seen = job[j].attempts
           /\ job[j].status = "absent" => call'[w][j].step = "none",
         TypeOK'
  PROVE  QueueInv'
<1>1. ASSUME NEW j \in Job PROVE FitsNext(j)
  <2>1. /\ Tally(j, job[j].attempts) /\ Absent(j) /\ \A v \in Worker : CallFits(v, j)
        /\ failures[j] <= job[j].maxAttempts
        /\ job[j].status = "completed" => j \in ran
        /\ job[j].status = "exhausted" => failures[j] = job[j].maxAttempts
    BY DEF QueueInv, EndsForCause
  <2>2. CallFits(w, j)'
    BY <2>1 DEF CallFits, Tally
  <2>3. ASSUME NEW v \in Worker, v # w PROVE CallFits(v, j)'
    BY <2>1, <2>3 DEF CallFits, Tally
  <2>4. Absent(j)'
    <3>1. SUFFICES ASSUME job[j].status = "absent"
                   PROVE  /\ failures[j] = 0 /\ job[j].maxAttempts = 0
                          /\ \A v \in Worker : call'[v][j].step = "none"
      BY DEF Absent
    <3>2. failures[j] = 0 /\ job[j].maxAttempts = 0 /\ \A v \in Worker : call[v][j].step = "none"
      BY <2>1, <3>1 DEF Absent
    <3>3. ASSUME NEW v \in Worker PROVE call'[v][j].step = "none"
      BY <3>1, <3>2
    <3>. QED  BY <3>2, <3>3
  <2>5. Tally(j, job[j].attempts)'
    BY <2>1 DEF Tally
  <2>6. \A v \in Worker : CallFits(v, j)'
    BY <2>2, <2>3
  <2>. QED  BY <2>1, <2>4, <2>5, <2>6 DEF FitsNext
<1>. QED  BY <1>1, FitsSuffices

\* A step of one pass that only moves it along.
LEMMA PassType ==
  ASSUME TypeOK, NEW w \in Worker, NEW p \in Pass, pass' = [pass EXCEPT ![w] = p]
  PROVE  pass' \in [Worker -> Pass]
BY DEF TypeOK

\* A worker's calls of every job at once.
LEMMA CallsType ==
  ASSUME TypeOK, NEW w \in Worker, NEW f \in [Job -> Call], call' = [call EXCEPT ![w] = f]
  PROVE  /\ call' \in [Worker -> [Job -> Call]] /\ call'[w] = f
         /\ \A v \in Worker : v # w => call'[v] = call[v]
BY DEF TypeOK

-----------------------------------------------------------------------------
LEMMA SweepStep ==
  ASSUME QueueInv, NEW w \in Worker, NEW lane \in Lanes, Sweep(w, lane)
  PROVE  QueueInv'
<1>0. TypeOK
  BY DEF QueueInv
<1>. PICK f : f = [j \in Job |->
       IF j \in Stuck(lane)
       THEN [step |-> IF lane = "generic" THEN "failed" ELSE "stale",
             seen |-> IF lane = "generic" THEN 0 ELSE job[j].attempts]
       ELSE NoCall]
  OBVIOUS
<1>1. call' = [call EXCEPT ![w] = f]
  BY DEF Sweep
<1>2. UNCHANGED <<job, ran, failures, faults>>
  BY DEF Sweep
<1>3. ASSUME NEW j \in Job
      PROVE  /\ f[j] \in Call
             /\ \/ f[j].step \in {"none", "failed"}
                \/ f[j].step = "stale" /\ f[j].seen = job[j].attempts
             /\ job[j].status = "absent" => f[j].step = "none"
  <2>1. job[j].attempts \in Nat
    BY <1>0 DEF TypeOK, JobRow
  <2>2. CASE j \in Stuck(lane)
    <3>1. job[j].status = "running"
      BY <2>2 DEF Stuck, Running
    <3>. QED  BY <2>1, <2>2, <3>1 DEF Call
  <2>3. CASE j \notin Stuck(lane)
    <3>1. f[j] = NoCall
      BY <2>3
    <3>. QED  BY <3>1 DEF Call, NoCall
  <2>. QED  BY <2>2, <2>3
<1>4. f \in [Job -> Call]
  BY <1>3
<1>5. /\ call' \in [Worker -> [Job -> Call]] /\ call'[w] = f
      /\ \A v \in Worker : v # w => call'[v] = call[v]
  BY <1>0, <1>1, <1>4, CallsType
<1>6. pass' \in [Worker -> Pass]
  <2>1. [lane |-> lane, step |-> "sweeping", ids |-> {}] \in Pass
    BY DEF Pass
  <2>2. pass' = [pass EXCEPT ![w] = [lane |-> lane, step |-> "sweeping", ids |-> {}]]
    BY DEF Sweep
  <2>. QED  BY <1>0, <2>1, <2>2, PassType
<1>7. TypeOK'
  BY <1>0, <1>2, <1>5, <1>6 DEF TypeOK
<1>. QED  BY <1>2, <1>3, <1>5, <1>7, CallsStep

LEMMA LoadStep ==
  ASSUME QueueInv, NEW w \in Worker, Load(w)
  PROVE  QueueInv'
<1>0. TypeOK
  BY DEF QueueInv
<1>. DEFINE mine == pass[w].ids \cap Running(pass[w].lane)
<1>. PICK f : f = [j \in Job |-> IF j \in mine
                     THEN [NoCall EXCEPT !.step = "claimed"] ELSE NoCall]
  OBVIOUS
<1>1. call' = [call EXCEPT ![w] = f]
  BY DEF Load
<1>2. UNCHANGED <<job, ran, failures, faults>>
  BY DEF Load
<1>3. ASSUME NEW j \in Job
      PROVE  /\ f[j] \in Call /\ f[j].step \in {"none", "claimed"}
             /\ job[j].status = "absent" => f[j].step = "none"
  <2>1. CASE j \in mine
    <3>1. job[j].status = "running"
      BY <2>1 DEF Running
    <3>2. f[j] = [NoCall EXCEPT !.step = "claimed"]
      BY <2>1
    <3>. QED  BY <3>1, <3>2 DEF Call, NoCall
  <2>2. CASE j \notin mine
    <3>1. f[j] = NoCall
      BY <2>2
    <3>. QED  BY <3>1 DEF Call, NoCall
  <2>. QED  BY <2>1, <2>2
<1>4. f \in [Job -> Call]
  BY <1>3
<1>5. /\ call' \in [Worker -> [Job -> Call]] /\ call'[w] = f
      /\ \A v \in Worker : v # w => call'[v] = call[v]
  BY <1>0, <1>1, <1>4, CallsType
<1>6. pass' \in [Worker -> Pass]
  <2>. PICK s : s = IF mine = {} THEN "idle" ELSE "working"
    OBVIOUS
  <2>. PICK p : p = [pass[w] EXCEPT !.step = s, !.ids = {}]
    OBVIOUS
  <2>1. pass' = [pass EXCEPT ![w] = p]
    BY DEF Load
  <2>2. p \in Pass
    BY <1>0 DEF TypeOK, Pass
  <2>. QED  BY <1>0, <2>1, <2>2, PassType
<1>7. TypeOK'
  BY <1>0, <1>2, <1>5, <1>6 DEF TypeOK
<1>. QED  BY <1>2, <1>3, <1>5, <1>7, CallsStep

LEMMA CrashStep ==
  ASSUME QueueInv, NEW w \in Worker, Crash(w)
  PROVE  QueueInv'
<1>0. TypeOK
  BY DEF QueueInv
<1>. PICK f : f = [j \in Job |-> NoCall]
  OBVIOUS
<1>1. \A j \in Job : f[j] \in Call /\ f[j].step = "none"
  BY DEF Call, NoCall
<1>2. f \in [Job -> Call]
  BY <1>1
<1>3. call' = [call EXCEPT ![w] = f] /\ UNCHANGED <<job, ran, failures>>
  BY DEF Crash
<1>4. /\ call' \in [Worker -> [Job -> Call]] /\ call'[w] = f
      /\ \A v \in Worker : v # w => call'[v] = call[v]
  BY <1>0, <1>2, <1>3, CallsType
<1>5. pass' \in [Worker -> Pass]
  <2>. PICK p : p = [pass[w] EXCEPT !.step = "idle", !.ids = {}]
    OBVIOUS
  <2>1. pass' = [pass EXCEPT ![w] = p]
    BY DEF Crash
  <2>2. p \in Pass
    BY <1>0 DEF TypeOK, Pass
  <2>. QED  BY <1>0, <2>1, <2>2, PassType
<1>6. faults' \in 0 .. MaxFaults
  BY <1>0, JobQueueAssumption DEF Crash, TypeOK
<1>7. TypeOK'
  BY <1>0, <1>3, <1>4, <1>5, <1>6 DEF TypeOK
<1>. QED  BY <1>1, <1>3, <1>4, <1>7, CallsStep

-----------------------------------------------------------------------------
\* A step that changes rows and no call, counting nothing.
LEMMA RowsStep ==
  ASSUME QueueInv, UNCHANGED <<call, ran, failures, faults>>, pass' \in [Worker -> Pass],
         job' \in [Job -> JobRow],
         \A j \in Job :
           /\ job'[j].attempts = job[j].attempts /\ job'[j].maxAttempts = job[j].maxAttempts
           /\ \/ job'[j].status = job[j].status
              \/ job'[j].status \in {"pending", "running"} /\ job[j].status # "absent"
  PROVE  QueueInv'
<1>1. TypeOK
  BY DEF QueueInv
<1>2. TypeOK'
  BY <1>1 DEF TypeOK
<1>3. ASSUME NEW j \in Job PROVE FitsNext(j)
  <2>1. CallsFollow(j) /\ failures'[j] = failures[j] /\ ran \subseteq ran'
    BY DEF CallsFollow
  <2>. QED  BY <2>1, QuietStep
<1>. QED  BY <1>2, <1>3, FitsSuffices

LEMMA SweepPurgesStep ==
  ASSUME QueueInv, NEW w \in Worker, SweepPurges(w)
  PROVE  QueueInv'
<1>0. TypeOK
  BY DEF QueueInv
<1>1. job' = [j \in Job |-> IF j \in Stuck("purge")
                            THEN Pending(j, job[j].attempts, job[j].due) ELSE job[j]]
  BY DEF SweepPurges
<1>2. ASSUME NEW j \in Job
      PROVE  /\ job'[j] \in JobRow
             /\ job'[j].attempts = job[j].attempts
             /\ job'[j].maxAttempts = job[j].maxAttempts
             /\ \/ job'[j].status = job[j].status
                \/ job'[j].status = "pending" /\ job[j].status # "absent"
  <2>0. job[j] \in JobRow
    BY <1>0 DEF TypeOK
  <2>1. CASE j \in Stuck("purge")
    <3>1. job'[j] = Pending(j, job[j].attempts, job[j].due)
      BY <1>1, <2>1
    <3>2. job[j].status = "running"
      BY <2>1 DEF Stuck, Running
    <3>3. job[j].due \in BOOLEAN
      BY <2>0 DEF JobRow
    <3>. QED  BY <1>0, <3>1, <3>2, <3>3, PendingRow
  <2>2. CASE j \notin Stuck("purge")
    <3>1. job'[j] = job[j]
      BY <1>1, <2>2
    <3>. QED  BY <2>0, <3>1
  <2>. QED  BY <2>1, <2>2
<1>3. job' \in [Job -> JobRow]
  <2>1. job' = [j \in Job |-> job'[j]]
    BY <1>1
  <2>. QED  BY <1>2, <2>1
<1>4. pass' \in [Worker -> Pass]
  <2>1. [lane |-> "purge", step |-> "selecting", ids |-> {}] \in Pass
    BY DEF Pass, Lanes
  <2>2. pass' = [pass EXCEPT ![w] = [lane |-> "purge", step |-> "selecting", ids |-> {}]]
    BY DEF SweepPurges
  <2>. QED  BY <1>0, <2>1, <2>2, PassType
<1>5. UNCHANGED <<call, ran, failures, faults>>
  BY DEF SweepPurges
<1>. QED  BY <1>2, <1>3, <1>4, <1>5, RowsStep

LEMMA TakeStep ==
  ASSUME QueueInv, NEW w \in Worker, Take(w)
  PROVE  QueueInv'
<1>0. TypeOK
  BY DEF QueueInv
<1>1. job' = [j \in Job |-> IF j \in pass[w].ids /\ job[j].status = "pending"
                            THEN [job[j] EXCEPT !.status = "running", !.late = FALSE]
                            ELSE job[j]]
  BY DEF Take
<1>2. ASSUME NEW j \in Job
      PROVE  /\ job'[j] \in JobRow
             /\ job'[j].attempts = job[j].attempts
             /\ job'[j].maxAttempts = job[j].maxAttempts
             /\ \/ job'[j].status = job[j].status
                \/ job'[j].status = "running" /\ job[j].status # "absent"
  <2>0. job[j] \in JobRow
    BY <1>0 DEF TypeOK
  <2>1. CASE j \in pass[w].ids /\ job[j].status = "pending"
    <3>1. job'[j] = [job[j] EXCEPT !.status = "running", !.late = FALSE]
      BY <1>1, <2>1
    <3>. QED  BY <2>0, <2>1, <3>1 DEF JobRow
  <2>2. CASE ~(j \in pass[w].ids /\ job[j].status = "pending")
    <3>1. job'[j] = job[j]
      BY <1>1, <2>2
    <3>. QED  BY <2>0, <3>1
  <2>. QED  BY <2>1, <2>2
<1>3. job' \in [Job -> JobRow]
  <2>1. job' = [j \in Job |-> job'[j]]
    BY <1>1
  <2>. QED  BY <1>2, <2>1
<1>4. pass' \in [Worker -> Pass]
  <2>. PICK p : p = [pass[w] EXCEPT !.step = "loading"]
    OBVIOUS
  <2>1. pass' = [pass EXCEPT ![w] = p]
    BY DEF Take
  <2>2. p \in Pass
    BY <1>0 DEF TypeOK, Pass
  <2>. QED  BY <1>0, <2>1, <2>2, PassType
<1>5. UNCHANGED <<call, ran, failures, faults>>
  BY DEF Take
<1>. QED  BY <1>2, <1>3, <1>4, <1>5, RowsStep

LEMMA PassStep ==
  ASSUME QueueInv, NEW w \in Worker, SweepDone(w) \/ Select(w)
  PROVE  QueueInv'
<1>0. TypeOK
  BY DEF QueueInv
<1>1. UNCHANGED <<job, call, ran, failures, faults>>
  BY DEF SweepDone, Select
<1>2. ASSUME SweepDone(w) PROVE pass' \in [Worker -> Pass]
  <2>. PICK p : p = [pass[w] EXCEPT !.step = "selecting"]
    OBVIOUS
  <2>1. pass' = [pass EXCEPT ![w] = p]
    BY <1>2 DEF SweepDone
  <2>2. p \in Pass
    BY <1>0 DEF TypeOK, Pass
  <2>. QED  BY <1>0, <2>1, <2>2, PassType
<1>3. ASSUME Select(w) PROVE pass' \in [Worker -> Pass]
  <2>. DEFINE due == {j \in Job : /\ job[j].lane = pass[w].lane
                                  /\ job[j].status = "pending" /\ job[j].due}
  <2>. PICK s : s = IF due = {} THEN "idle" ELSE "taking"
    OBVIOUS
  <2>. PICK p : p = [pass[w] EXCEPT !.step = s, !.ids = due]
    OBVIOUS
  <2>1. pass' = [pass EXCEPT ![w] = p]
    BY <1>3 DEF Select
  <2>2. due \in SUBSET Job
    OBVIOUS
  <2>. HIDE DEF due
  <2>3. p \in Pass
    BY <1>0, <2>2 DEF TypeOK, Pass
  <2>. QED  BY <1>0, <2>1, <2>3, PassType
<1>4. pass' \in [Worker -> Pass] /\ job \in [Job -> JobRow]
  BY <1>0, <1>2, <1>3 DEF TypeOK
<1>. QED  BY <1>1, <1>4, RowsStep

\* Clocks.
LEMMA ClockStep ==
  ASSUME QueueInv, NEW j \in Job, TimeOut(j) \/ BackoffEnds(j)
  PROVE  QueueInv'
<1>0. TypeOK /\ job[j] \in JobRow
  BY DEF QueueInv, TypeOK
<1>. PICK r : r \in {[job[j] EXCEPT !.late = TRUE], [job[j] EXCEPT !.due = TRUE]}
              /\ job' = [job EXCEPT ![j] = r]
  BY DEF TimeOut, BackoffEnds
<1>1. /\ r \in JobRow /\ r.status = job[j].status
      /\ r.attempts = job[j].attempts /\ r.maxAttempts = job[j].maxAttempts
  BY <1>0 DEF JobRow
<1>2. /\ job' \in [Job -> JobRow] /\ job'[j] = r
      /\ \A k \in Job : k # j => job'[k] = job[k]
  BY <1>0, <1>1 DEF TypeOK
<1>3. UNCHANGED <<call, ran, failures, faults>> /\ pass' \in [Worker -> Pass]
  BY <1>0 DEF TimeOut, BackoffEnds, TypeOK
<1>. QED  BY <1>1, <1>2, <1>3, RowsStep

-----------------------------------------------------------------------------
\* The pass whose call ends may end with it.
LEMMA EndedType ==
  ASSUME TypeOK, NEW w \in Worker, NEW j \in Job, Ended(w, j)
  PROVE  pass' \in [Worker -> Pass] /\ CallGoes(w, j, NoCall)
<1>. PICK s : s = IF pass[w].step = "working" /\ Alone(w, j) THEN "idle" ELSE pass[w].step
  OBVIOUS
<1>. PICK p : p = [pass[w] EXCEPT !.step = s]
  OBVIOUS
<1>1. p \in Pass
  BY DEF TypeOK, Pass
<1>2. pass' = [pass EXCEPT ![w] = p]
  BY DEF Ended
<1>. QED  BY <1>1, <1>2, PassType DEF Ended

\* Start, HandlerReturns, HandlerThrows, ReadAttempts: the call
\* moves on, and reads a tally or has a result.
LEMMA CallMoves ==
  ASSUME QueueInv, NEW w \in Worker, NEW j \in Job,
         \/ Start(w, j) \/ HandlerReturns(w, j) \/ HandlerThrows(w, j)
         \/ ReadAttempts(w, j)
  PROVE  QueueInv'
<1>0. /\ TypeOK /\ job[j].attempts \in Nat /\ Tally(j, job[j].attempts)
      /\ pass \in [Worker -> Pass] /\ ran \subseteq Job /\ faults \in 0 .. MaxFaults
  BY DEF QueueInv, TypeOK, JobRow
<1>1. CASE Start(w, j)
  <2>. PICK c : c = [NoCall EXCEPT !.step = "handling"]
    OBVIOUS
  <2>1. c \in Call /\ c.step = "handling"
    BY DEF Call, NoCall
  <2>2. CallGoes(w, j, c) /\ call[w][j].step # "none" /\ UNCHANGED <<job, pass, ran, failures, faults>>
    BY <1>1 DEF Start
  <2>. QED  BY <1>0, <2>1, <2>2, CallStep
<1>2. CASE HandlerReturns(w, j)
  <2>. PICK c : c = [NoCall EXCEPT !.step = "returned"]
    OBVIOUS
  <2>1. c \in Call /\ c.step = "returned"
    BY DEF Call, NoCall
  <2>2. /\ CallGoes(w, j, c) /\ call[w][j].step # "none"
        /\ UNCHANGED <<job, pass, failures, faults>> /\ ran' = ran \cup {j}
    BY <1>2 DEF HandlerReturns
  <2>. QED  BY <1>0, <2>1, <2>2, CallStep
<1>3. CASE HandlerThrows(w, j)
  <2>. PICK c : c = [NoCall EXCEPT !.step = "failed"]
    OBVIOUS
  <2>1. c \in Call /\ c.step = "failed"
    BY DEF Call, NoCall
  <2>2. /\ CallGoes(w, j, c) /\ call[w][j].step # "none"
        /\ UNCHANGED <<job, pass, ran, failures, faults>>
    BY <1>3 DEF HandlerThrows
  <2>. QED  BY <1>0, <2>1, <2>2, CallStep
<1>4. CASE ReadAttempts(w, j)
  <2>. PICK c : c = [step |-> "counted", seen |-> job[j].attempts]
    OBVIOUS
  <2>1. c \in Call /\ c.step = "counted" /\ c.seen = job[j].attempts
    BY <1>0 DEF Call
  <2>2. CallGoes(w, j, c) /\ call[w][j].step # "none" /\ UNCHANGED <<job, pass, ran, failures, faults>>
    BY <1>4 DEF ReadAttempts
  <2>. QED  BY <1>0, <2>1, <2>2, CallStep
<1>. QED  BY <1>1, <1>2, <1>3, <1>4

\* What a worker reads of a job stays a tally until it writes it back.
LEMMA SeenTally ==
  ASSUME QueueInv, NEW w \in Worker, NEW j \in Job, call[w][j].step \in {"stale", "counted"}
  PROVE  call[w][j].seen \in Nat /\ Tally(j, call[w][j].seen)
BY DEF QueueInv, CallFits, TypeOK, Call

LEMMA FailStep ==
  ASSUME QueueInv, NEW w \in Worker, NEW j \in Job, failJob(w, j)
  PROVE  /\ QueueInv'
         /\ job[j].maxAttempts = 1 => job'[j].status = "exhausted"
         /\ \A k \in Job : k # j => job'[k] = job[k]
<1>0. TypeOK
  BY DEF QueueInv
<1>. PICK n : n = call[w][j].seen
  OBVIOUS
<1>1. /\ call[w][j].step = "counted"
      /\ job' = [job EXCEPT ![j] = afterFailure(j, n + 1, FALSE)]
      /\ failures' = [failures EXCEPT ![j] = Counted(j)]
      /\ Ended(w, j) /\ UNCHANGED <<ran, faults>>
  BY DEF failJob
<1>2. n \in Nat /\ Tally(j, n)
  BY <1>1, SeenTally
<1>3. pass' \in [Worker -> Pass] /\ CallGoes(w, j, NoCall)
  BY <1>0, <1>1, EndedType
<1>4. /\ QueueInv'
      /\ job'[j].status = IF n + 1 >= job[j].maxAttempts THEN "exhausted" ELSE "pending"
      /\ \A k \in Job : k # j => job'[k] = job[k]
  BY <1>1, <1>2, <1>3, CountingStep
<1>. QED  BY <1>2, <1>4

LEMMA StaleStep ==
  ASSUME QueueInv, NEW w \in Worker, NEW j \in Job, CountStale(w, j)
  PROVE  /\ QueueInv'
         /\ \/ job' = job
            \/ /\ job[j].maxAttempts = 1 => job'[j].status = "exhausted"
               /\ \A k \in Job : k # j => job'[k] = job[k]
<1>0. TypeOK /\ job[j].due \in BOOLEAN /\ pass' \in [Worker -> Pass]
  BY DEF QueueInv, TypeOK, JobRow, CountStale
<1>. PICK n : n = call[w][j].seen
  OBVIOUS
<1>1. call[w][j].step = "stale" /\ CallGoes(w, j, NoCall) /\ UNCHANGED <<ran, faults>>
  BY DEF CountStale
<1>2. n \in Nat /\ Tally(j, n)
  BY <1>1, SeenTally
<1>3. CASE job[j].status = "running"
  <2>1. /\ job' = [job EXCEPT ![j] = afterFailure(j, n + 1, job[j].due)]
        /\ failures' = [failures EXCEPT ![j] = Counted(j)]
    BY <1>0, <1>3 DEF CountStale, TypeOK
  <2>2. /\ QueueInv'
        /\ job'[j].status = IF n + 1 >= job[j].maxAttempts THEN "exhausted" ELSE "pending"
        /\ \A k \in Job : k # j => job'[k] = job[k]
    BY <1>0, <1>1, <1>2, <2>1, CountingStep
  <2>. QED  BY <1>2, <2>2
<1>4. CASE job[j].status # "running"
  <2>1. UNCHANGED <<job, failures>>
    BY <1>4 DEF CountStale
  <2>2. NoCall \in Call /\ NoCall.step = "none"
    BY DEF NoCall, Call
  <2>3. ran' \subseteq Job /\ ran \subseteq ran' /\ faults' \in 0 .. MaxFaults
    BY <1>0, <1>1 DEF TypeOK
  <2>4. QueueInv'
    BY <1>0, <1>1, <2>1, <2>2, <2>3, CallStep
  <2>. QED  BY <2>1, <2>4
<1>. QED  BY <1>3, <1>4

\* A job is completed, by a worker that had its handler's result.
LEMMA CompletedRow ==
  ASSUME QueueInv, NEW w \in Worker, NEW j \in Job, NEW c \in Call,
         call[w][j].step = "returned", c.step \in {"none", "failed"}, CallGoes(w, j, c),
         job' = [job EXCEPT ![j].status = "completed"], UNCHANGED <<ran, failures>>,
         pass' \in [Worker -> Pass], faults' \in 0 .. MaxFaults
  PROVE  QueueInv' /\ job'[j].status = "completed" /\ \A k \in Job : k # j => job'[k] = job[k]
<1>0. TypeOK /\ job \in [Job -> JobRow] /\ job[j] \in JobRow
  BY DEF QueueInv, TypeOK
<1>. PICK r : r = [job[j] EXCEPT !.status = "completed"]
  OBVIOUS
<1>1. /\ r \in JobRow /\ r.status = "completed"
      /\ r.attempts = job[j].attempts /\ r.maxAttempts = job[j].maxAttempts
  BY <1>0 DEF JobRow
<1>2. job' = [job EXCEPT ![j] = r]
  OBVIOUS
<1>3. /\ job' \in [Job -> JobRow] /\ job'[j] = r
      /\ \A k \in Job : k # j => job'[k] = job[k]
  BY <1>0, <1>1, <1>2
<1>4. j \in ran /\ job[j].status # "absent"
  BY InHandEnqueued DEF QueueInv, CallFits
<1>5. /\ call' \in [Worker -> [Job -> Call]] /\ call'[w][j] = c
      /\ \A v \in Worker, k \in Job : v # w \/ k # j => call'[v][k] = call[v][k]
  BY <1>0, CallType
<1>6. TypeOK'
  BY <1>0, <1>3, <1>5 DEF TypeOK
<1>7. FitsNext(j)
  <2>1. /\ Tally(j, job[j].attempts) /\ \A v \in Worker : CallFits(v, j)
        /\ failures[j] <= job[j].maxAttempts
    BY DEF QueueInv
  <2>2. Tally(j, job[j].attempts)'
    BY <1>1, <1>3, <2>1 DEF Tally
  <2>3. \A v \in Worker : CallFits(v, j)'
    BY <1>1, <1>3, <1>5, <2>1 DEF CallFits, Tally
  <2>4. Absent(j)'
    BY <1>1, <1>3 DEF Absent
  <2>. QED  BY <1>1, <1>3, <1>4, <2>1, <2>2, <2>3, <2>4 DEF FitsNext
<1>8. ASSUME NEW k \in Job, k # j PROVE FitsNext(k)
  <2>1. CallsFollow(k) /\ failures'[k] = failures[k] /\ ran \subseteq ran' /\ job'[k] = job[k]
    BY <1>3, <1>5, <1>8 DEF CallsFollow
  <2>. QED  BY <2>1, QuietStep
<1>. QED  BY <1>1, <1>3, <1>6, <1>7, <1>8, FitsSuffices

LEMMA CompleteStep ==
  ASSUME QueueInv, NEW w \in Worker, NEW j \in Job, completeJob(w, j)
  PROVE  QueueInv' /\ job'[j].status = "completed" /\ \A k \in Job : k # j => job'[k] = job[k]
<1>1. /\ call[w][j].step = "returned" /\ Ended(w, j)
      /\ job' = [job EXCEPT ![j].status = "completed"]
      /\ UNCHANGED <<ran, failures, faults>>
  BY DEF completeJob
<1>2. TypeOK /\ faults' \in 0 .. MaxFaults
  BY <1>1 DEF QueueInv, TypeOK
<1>3. pass' \in [Worker -> Pass] /\ CallGoes(w, j, NoCall)
  BY <1>1, <1>2, EndedType
<1>4. NoCall \in Call /\ NoCall.step = "none"
  BY DEF NoCall, Call
<1>. QED  BY <1>1, <1>2, <1>3, <1>4, CompletedRow

\* Its write throws, made or not.
LEMMA LostStep ==
  ASSUME QueueInv, NEW w \in Worker, NEW j \in Job, CompletionLost(w, j)
  PROVE  /\ QueueInv'
         /\ \/ job' = job
            \/ job'[j].status = "completed" /\ \A k \in Job : k # j => job'[k] = job[k]
<1>. PICK c : c = [NoCall EXCEPT !.step = "failed"]
  OBVIOUS
<1>1. c \in Call /\ c.step = "failed"
  BY DEF Call, NoCall
<1>2. /\ call[w][j].step = "returned" /\ CallGoes(w, j, c)
      /\ UNCHANGED <<pass, ran, failures>>
  BY DEF CompletionLost
<1>3. pass' \in [Worker -> Pass] /\ faults' \in 0 .. MaxFaults /\ ran' \subseteq Job
  BY JobQueueAssumption DEF QueueInv, TypeOK, CompletionLost
<1>4. CASE job' = job
  BY <1>1, <1>2, <1>3, <1>4, CallStep
<1>5. CASE job' = [job EXCEPT ![j].status = "completed"]
  BY <1>1, <1>2, <1>3, <1>5, CompletedRow
<1>. QED  BY <1>4, <1>5 DEF CompletionLost

LEMMA StutterStep == ASSUME QueueInv, UNCHANGED vars PROVE QueueInv'
<1>1. UNCHANGED <<job, pass, call, ran, failures, faults>>
  BY DEF vars
<1>2. /\ TypeOK /\ pass' \in [Worker -> Pass] /\ job' \in [Job -> JobRow]
  BY <1>1 DEF QueueInv, TypeOK
<1>. QED  BY <1>1, <1>2, RowsStep

LEMMA QueueNext == ASSUME QueueInv, [Next]_vars PROVE QueueInv'
<1>1. ASSUME NEW w \in Worker, Begin(w) PROVE QueueInv'
  BY <1>1, SweepStep, SweepPurgesStep DEF Begin
<1>2. ASSUME NEW w \in Worker, Continue(w) PROVE QueueInv'
  BY <1>2, PassStep, TakeStep, LoadStep, StaleStep, CallMoves, CompleteStep, FailStep
     DEF Continue
<1>3. ASSUME NEW w \in Worker, NEW j \in Job, CompletionLost(w, j) PROVE QueueInv'
  BY <1>3, LostStep
<1>4. ASSUME NEW j \in Job, enqueue(j) \/ TimeOut(j) \/ BackoffEnds(j) PROVE QueueInv'
  BY <1>4, EnqueueStep, ClockStep
<1>. QED  BY <1>1, <1>2, <1>3, <1>4, CrashStep, StutterStep DEF Next

\* Attempts are tallies whatever the passes do, and a result is only written
\* when there is one.
THEOREM QueueInvariant == Spec => []QueueInv
<1>1. Init => QueueInv
  BY QueueInit
<1>2. QueueInv /\ [Next]_vars => QueueInv'
  BY QueueNext
<1>. QED  BY <1>1, <1>2, PTL DEF Spec

\* Every variable keeps to its type: what a pass writes back from a number it
\* read earlier is still a row of the table, with attempts a natural number.
THEOREM QueueTypes == Spec => []TypeOK
<1>1. QueueInv => TypeOK
  BY DEF QueueInv
<1>. QED  BY <1>1, QueueInvariant, PTL

\* A job is completed only after its handler returned, and given up only after
\* as many failed attempts as it was allowed (completeJob, failJob and the
\* sweeps), however many passes overlap and wherever they die.
THEOREM JobsEndForCause == Spec => []EndsForCause
<1>1. QueueInv => EndsForCause
  BY DEF QueueInv
<1>. QED  BY <1>1, QueueInvariant, PTL

-----------------------------------------------------------------------------
OnlyOnce(j) ==
  job[j].maxAttempts = 1 /\ job[j].lane # "purge" /\ job[j].status # "pending"
    => job'[j].status # "pending"

\* A job allowed one attempt is given up, never pending again, by whichever of
\* failJob and the regional sweep counts it, and with whatever number they read.
THEOREM OneAttempt == Spec => OneAttemptIsOne
<1>1. ASSUME QueueInv, [Next]_vars, NEW j \in Job PROVE OnlyOnce(j)
  <2>1. ASSUME NEW w \in Worker, NEW k \in Job, failJob(w, k) \/ CountStale(w, k)
        PROVE  OnlyOnce(j)
    BY <1>1, <2>1, FailStep, StaleStep DEF OnlyOnce
  <2>2. ASSUME NEW w \in Worker, NEW k \in Job, completeJob(w, k) PROVE OnlyOnce(j)
    BY <1>1, <2>2, CompleteStep DEF OnlyOnce
  <2>3. ASSUME NEW w \in Worker, SweepPurges(w) PROVE OnlyOnce(j)
    <3>1. j \in Stuck("purge") => job[j].lane = "purge"
      BY DEF Stuck, Running
    <3>2. j \notin Stuck("purge") => job'[j] = job[j]
      BY <2>3 DEF SweepPurges
    <3>. QED  BY <3>1, <3>2 DEF OnlyOnce
  <2>4. ASSUME NEW w \in Worker, Take(w) PROVE OnlyOnce(j)
    <3>1. job[j].status # "pending" => job'[j] = job[j]
      BY <2>4 DEF Take
    <3>. QED  BY <3>1 DEF OnlyOnce
  <2>5. ASSUME NEW k \in Job, enqueue(k) PROVE OnlyOnce(j)
    <3>1. job[k].maxAttempts = 0
      BY <1>1, <2>5 DEF enqueue, QueueInv, Absent
    <3>2. k # j => job'[j] = job[j]
      BY <1>1, <2>5 DEF enqueue, QueueInv, TypeOK
    <3>. QED  BY <3>1, <3>2 DEF OnlyOnce
  <2>6. ASSUME NEW k \in Job, TimeOut(k) \/ BackoffEnds(k) PROVE OnlyOnce(j)
    <3>. PICK r : r \in {[job[k] EXCEPT !.late = TRUE], [job[k] EXCEPT !.due = TRUE]}
                  /\ job' = [job EXCEPT ![k] = r]
      BY <2>6 DEF TimeOut, BackoffEnds
    <3>1. job[k] \in JobRow /\ job \in [Job -> JobRow]
      BY <1>1 DEF QueueInv, TypeOK
    <3>2. r.status = job[k].status
      BY <3>1 DEF JobRow
    <3>. QED  BY <3>1, <3>2 DEF OnlyOnce
  <2>7. ASSUME UNCHANGED job PROVE OnlyOnce(j)
    BY <2>7 DEF OnlyOnce
  <2>8. ASSUME NEW w \in Worker, Begin(w) \/ Continue(w) \/ Crash(w) PROVE OnlyOnce(j)
    BY <2>1, <2>2, <2>3, <2>4, <2>7, <2>8
       DEF Begin, Continue, Crash, Sweep, SweepDone, Select, Load, Start,
           HandlerReturns, HandlerThrows, ReadAttempts
  <2>9. ASSUME NEW w \in Worker, NEW k \in Job, CompletionLost(w, k) PROVE OnlyOnce(j)
    BY <1>1, <2>7, <2>9, LostStep DEF OnlyOnce
  <2>. QED  BY <1>1, <2>5, <2>6, <2>7, <2>8, <2>9 DEF Next, vars
<1>2. QueueInv /\ [Next]_vars => [\A j \in Job : OnlyOnce(j)]_vars
  BY <1>1
<1>. QED  BY <1>2, QueueInvariant, PTL DEF Spec, OneAttemptIsOne, OnlyOnce

=============================================================================
