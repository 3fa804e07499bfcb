------------------------------- MODULE JobQueue -------------------------------
(***************************************************************************)
(* The background job queue (lib/queue): one table of jobs, and three      *)
(* lanes over it that share one life and differ in how a job left running  *)
(* is taken back: generic jobs, purges and regional jobs.                  *)
(*                                                                         *)
(* A Worker is one pass of a scheduler over one lane.  Passes overlap: the *)
(* scheduler fires every minute whether or not the last pass has finished, *)
(* and the cron route fires beside it.  (Two regional passes are of two    *)
(* processes, regionalJobsRunning.)  Every statement a pass sends to the   *)
(* database is a step of its own.                                          *)
(*                                                                         *)
(* Each lane's words for its statuses (queued, purge_pending and           *)
(* regional_pending; dead_letter, purge_failed and regional_failed) are    *)
(* one word here.  A pass takes every job due, for the limits of two to    *)
(* ten are above the number of jobs.  A paused project's jobs are jobs     *)
(* that are not due.                                                       *)
(***************************************************************************)
EXTENDS Naturals, FiniteSets

CONSTANTS
  Worker,
  Job,
  Attempts,     \* what maxAttempts may be
  MaxFaults,    \* bound: passes that die, completions that cannot be written
  SlowHandlers  \* may a handler outlast its job's timeout?

Lanes == {"generic", "purge", "regional"}

ASSUME JobQueueAssumption ==
  /\ Attempts \subseteq Nat \ {0}
  /\ MaxFaults \in Nat
  /\ SlowHandlers \in BOOLEAN

VARIABLES
  job,      \* the table background_jobs
  pass,     \* what each worker does, to which lane, the ids it selected
  call,     \* what each worker does with each job
  ran,      \* history: jobs whose handler has returned a result
  failures, \* history: failed attempts of each job, counted up to its maximum
  faults

vars == <<job, pass, call, ran, failures, faults>>

\* lane is decided by type and status. late: timeoutAt has passed. due: runAt has.
JobRow == [status : {"absent", "pending", "running", "completed", "exhausted"},
           lane : Lanes, attempts : Nat, maxAttempts : Nat,
           late : BOOLEAN, due : BOOLEAN]

NoJob == [status |-> "absent", lane |-> "generic", attempts |-> 0,
          maxAttempts |-> 0, late |-> FALSE, due |-> FALSE]

Pass == [lane : Lanes,
         step : {"idle", "sweeping", "selecting", "taking", "loading", "working"},
         ids : SUBSET Job]

\* seen: the attempts read before they are written back.
Call == [step : {"none", "stale", "claimed", "handling", "returned", "failed", "counted"},
         seen : Nat]

NoCall == [step |-> "none", seen |-> 0]

TypeOK ==
  /\ job \in [Job -> JobRow]
  /\ pass \in [Worker -> Pass]
  /\ call \in [Worker -> [Job -> Call]]
  /\ ran \subseteq Job
  /\ failures \in [Job -> Nat]
  /\ faults \in 0 .. MaxFaults

Init ==
  /\ job = [j \in Job |-> NoJob]
  /\ pass = [w \in Worker |-> [lane |-> "generic", step |-> "idle", ids |-> {}]]
  /\ call = [w \in Worker |-> [j \in Job |-> NoCall]]
  /\ ran = {}
  /\ failures = [j \in Job |-> 0]
  /\ faults = 0

-----------------------------------------------------------------------------
Running(lane) == {j \in Job : job[j].lane = lane /\ job[j].status = "running"}

\* The jobs a worker has in its hands.
InHand(w) == {j \in Job : call[w][j].step # "none"}

Alone(w, j) == InHand(w) \ {j} = {}

CallGoes(w, j, c) == call' = [call EXCEPT ![w][j] = c]

Counted(j) == IF failures[j] < job[j].maxAttempts THEN failures[j] + 1 ELSE failures[j]

Pending(j, attempts, due) ==
  [job[j] EXCEPT !.status = "pending", !.attempts = attempts, !.due = due, !.late = FALSE]

\* Mutant: the attempts are compared before this one is added.
afterFailureEager(j, attempts, due) ==
  IF attempts + 1 >= job[j].maxAttempts
  THEN [job[j] EXCEPT !.status = "exhausted", !.attempts = attempts, !.late = FALSE]
  ELSE Pending(j, attempts, due)

\* Mutant: one attempt more.
afterFailureLenient(j, attempts, due) ==
  IF attempts > job[j].maxAttempts
  THEN [job[j] EXCEPT !.status = "exhausted", !.attempts = attempts, !.late = FALSE]
  ELSE Pending(j, attempts, due)

\* Mutant: the lane's own word is not used.
afterFailureDeadLetter(j, attempts, due) ==
  IF attempts >= job[j].maxAttempts
  THEN [job[j] EXCEPT !.status = "dead_letter", !.attempts = attempts, !.late = FALSE]
  ELSE Pending(j, attempts, due)

\* A failed attempt: out of attempts, or pending again.
afterFailure(j, attempts, due) ==
  IF attempts >= job[j].maxAttempts
  THEN [job[j] EXCEPT !.status = "exhausted", !.attempts = attempts, !.late = FALSE]
  ELSE Pending(j, attempts, due)

-----------------------------------------------------------------------------
(* enqueue, enqueueRegionalJob, and the purge a deletion writes. *)

enqueue(j) ==
  /\ job[j].status = "absent"
  /\ \E lane \in Lanes, max \in Attempts :
       job' = [job EXCEPT ![j] = [NoJob EXCEPT !.status = "pending", !.lane = lane,
                                               !.maxAttempts = max, !.due = TRUE]]
  /\ UNCHANGED <<pass, call, ran, failures, faults>>

-----------------------------------------------------------------------------
(* A pass begins by taking back what was left running past its timeout. *)

\* Mutant: a job that died in its first attempt is not looked for.
StuckRetried(lane) == {j \in Running(lane) : job[j].late /\ job[j].attempts > 0}

Stuck(lane) == {j \in Running(lane) : job[j].late}

\* detectAndTimeoutStuckJobs and the first query of claimRegionalJobs read the
\* stuck jobs; the regional one reads their attempts as well.
Sweep(w, lane) ==
  /\ pass[w].step = "idle" /\ lane # "purge"
  /\ pass' = [pass EXCEPT ![w] = [lane |-> lane, step |-> "sweeping", ids |-> {}]]
  /\ call' = [call EXCEPT ![w] = [j \in Job |->
       IF j \in Stuck(lane)
       THEN [step |-> IF lane = "generic" THEN "failed" ELSE "stale",
             seen |-> IF lane = "generic" THEN 0 ELSE job[j].attempts]
       ELSE NoCall]]
  /\ UNCHANGED <<job, ran, failures, faults>>

\* claimPurgeJobs: a stuck purge is pending again, in one statement, and the
\* attempt is not counted.
SweepPurges(w) ==
  /\ pass[w].step = "idle"
  /\ job' = [j \in Job |-> IF j \in Stuck("purge")
                           THEN Pending(j, job[j].attempts, job[j].due) ELSE job[j]]
  /\ pass' = [pass EXCEPT ![w] = [lane |-> "purge", step |-> "selecting", ids |-> {}]]
  /\ UNCHANGED <<call, ran, failures, faults>>

\* claimRegionalJobs counts the attempt, if the job is still running.
CountStale(w, j) ==
  /\ pass[w].step = "sweeping" /\ call[w][j].step = "stale"
  /\ IF job[j].status = "running"
     THEN /\ job' = [job EXCEPT ![j] = afterFailure(j, call[w][j].seen + 1, @.due)]
          /\ failures' = [failures EXCEPT ![j] = Counted(j)]
     ELSE UNCHANGED <<job, failures>>
  /\ CallGoes(w, j, NoCall)
  /\ UNCHANGED <<pass, ran, faults>>

SweepDone(w) ==
  /\ pass[w].step = "sweeping" /\ InHand(w) = {}
  /\ pass' = [pass EXCEPT ![w].step = "selecting"]
  /\ UNCHANGED <<job, call, ran, failures, faults>>

-----------------------------------------------------------------------------
(* claimNextJobs, claimPurgeJobs, claimRegionalJobs: three statements. *)

Select(w) ==
  LET due == {j \in Job : /\ job[j].lane = pass[w].lane
                          /\ job[j].status = "pending" /\ job[j].due} IN
  /\ pass[w].step = "selecting"
  /\ pass' = [pass EXCEPT ![w].step = IF due = {} THEN "idle" ELSE "taking", ![w].ids = due]
  /\ UNCHANGED <<job, call, ran, failures, faults>>

\* Those of them still pending are running now.
Take(w) ==
  /\ pass[w].step = "taking"
  /\ job' = [j \in Job |-> IF j \in pass[w].ids /\ job[j].status = "pending"
                           THEN [job[j] EXCEPT !.status = "running", !.late = FALSE]
                           ELSE job[j]]
  /\ pass' = [pass EXCEPT ![w].step = "loading"]
  /\ UNCHANGED <<call, ran, failures, faults>>

\* Those of them running now are this pass's, whoever took them.
Load(w) ==
  LET mine == pass[w].ids \cap Running(pass[w].lane) IN
  /\ pass[w].step = "loading"
  /\ pass' = [pass EXCEPT ![w].step = IF mine = {} THEN "idle" ELSE "working", ![w].ids = {}]
  /\ call' = [call EXCEPT ![w] = [j \in Job |-> IF j \in mine
                THEN [NoCall EXCEPT !.step = "claimed"] ELSE NoCall]]
  /\ UNCHANGED <<job, ran, failures, faults>>

-----------------------------------------------------------------------------
(* processBackgroundJobs and processPurgeJobs handle their jobs side by side, *)
(* processRegionalJobs one after the other.                                   *)

Start(w, j) ==
  /\ call[w][j].step = "claimed"
  /\ pass[w].lane = "regional" =>
       \A k \in Job : call[w][k].step \in {"none", "claimed"}
  /\ CallGoes(w, j, [NoCall EXCEPT !.step = "handling"])
  /\ UNCHANGED <<job, pass, ran, failures, faults>>

HandlerReturns(w, j) ==
  /\ call[w][j].step = "handling"
  /\ ran' = ran \cup {j}
  /\ CallGoes(w, j, [NoCall EXCEPT !.step = "returned"])
  /\ UNCHANGED <<job, pass, failures, faults>>

HandlerThrows(w, j) ==
  /\ call[w][j].step = "handling"
  /\ CallGoes(w, j, [NoCall EXCEPT !.step = "failed"])
  /\ UNCHANGED <<job, pass, ran, failures, faults>>

\* The pass ends with its last job.
Ended(w, j) ==
  /\ CallGoes(w, j, NoCall)
  /\ pass' = [pass EXCEPT ![w].step = IF @ = "working" /\ Alone(w, j) THEN "idle" ELSE @]

\* completeJob, completePurgeJob, completeRegionalJob: whatever the row says.
completeJob(w, j) ==
  /\ call[w][j].step = "returned"
  /\ job' = [job EXCEPT ![j].status = "completed"]
  /\ Ended(w, j)
  /\ UNCHANGED <<ran, failures, faults>>

\* The write throws, before or after it is made, and the handler's catch counts
\* a failure.
CompletionLost(w, j) ==
  /\ call[w][j].step = "returned" /\ faults < MaxFaults
  /\ faults' = faults + 1
  /\ job' \in {job, [job EXCEPT ![j].status = "completed"]}
  /\ CallGoes(w, j, [NoCall EXCEPT !.step = "failed"])
  /\ UNCHANGED <<pass, ran, failures>>

\* failJob, failPurgeJob, failRegionalJob: the attempts are read ...
ReadAttempts(w, j) ==
  /\ call[w][j].step = "failed"
  /\ pass[w].step = "sweeping" => \A k \in Job : call[w][k].step # "counted"
  /\ CallGoes(w, j, [step |-> "counted", seen |-> job[j].attempts])
  /\ UNCHANGED <<job, pass, ran, failures, faults>>

\* ... and written back, whatever the row says by then.
failJob(w, j) ==
  /\ call[w][j].step = "counted"
  /\ job' = [job EXCEPT ![j] = afterFailure(j, call[w][j].seen + 1, FALSE)]
  /\ failures' = [failures EXCEPT ![j] = Counted(j)]
  /\ Ended(w, j)
  /\ UNCHANGED <<ran, faults>>

-----------------------------------------------------------------------------
\* timeoutAt passes: ten or thirty minutes, which no pass spends between the
\* statements of its claim.
TimeOut(j) ==
  /\ job[j].status = "running" /\ ~job[j].late
  /\ \A w \in Worker : j \notin pass[w].ids /\ (SlowHandlers \/ j \notin InHand(w))
  /\ job' = [job EXCEPT ![j].late = TRUE]
  /\ UNCHANGED <<pass, call, ran, failures, faults>>

\* runAt passes: RETRY_DELAYS_MS after a failed attempt.
BackoffEnds(j) ==
  /\ job[j].status = "pending" /\ ~job[j].due
  /\ job' = [job EXCEPT ![j].due = TRUE]
  /\ UNCHANGED <<pass, call, ran, failures, faults>>

\* The process of a pass dies.
Crash(w) ==
  /\ pass[w].step # "idle" /\ faults < MaxFaults
  /\ faults' = faults + 1
  /\ pass' = [pass EXCEPT ![w].step = "idle", ![w].ids = {}]
  /\ call' = [call EXCEPT ![w] = [j \in Job |-> NoCall]]
  /\ UNCHANGED <<job, ran, failures>>

-----------------------------------------------------------------------------
Begin(w) == SweepPurges(w) \/ \E lane \in Lanes : Sweep(w, lane)

\* What a pass does once it has begun.
Continue(w) ==
  \/ SweepDone(w) \/ Select(w) \/ Take(w) \/ Load(w)
  \/ \E j \in Job : \/ CountStale(w, j) \/ Start(w, j)
                    \/ HandlerReturns(w, j) \/ HandlerThrows(w, j)
                    \/ completeJob(w, j) \/ ReadAttempts(w, j) \/ failJob(w, j)

Next ==
  \/ \E w \in Worker : Begin(w) \/ Continue(w) \/ Crash(w)
  \/ \E w \in Worker, j \in Job : CompletionLost(w, j)
  \/ \E j \in Job : enqueue(j) \/ TimeOut(j) \/ BackoffEnds(j)

Spec == Init /\ [][Next]_vars

\* A pass that began goes on unless its process dies: handlers return or throw.
\* Clocks advance. Every minute the scheduler starts a pass over each lane.
Fairness ==
  /\ \A w \in Worker : WF_vars(Continue(w))
  /\ \A j \in Job : WF_vars(TimeOut(j)) /\ WF_vars(BackoffEnds(j))
  /\ SF_vars(\E w \in Worker : SweepPurges(w))
  /\ \A lane \in {"generic", "regional"} : SF_vars(\E w \in Worker : Sweep(w, lane))

FairSpec == Spec /\ Fairness
-----------------------------------------------------------------------------
(* Properties. *)

\* A job ends only for cause, whatever passes overlap, die or answer late: it
\* is completed after its handler returned (a purge closed unpurged would leave
\* a customer's files on disk for good, PURGE_STATUS), and given up only after
\* as many failed attempts as it was allowed, although attempts are read and
\* written back by several passes at once.
EndsForCause ==
  \A j \in Job : /\ job[j].status = "completed" => j \in ran
                 /\ job[j].status = "exhausted" => failures[j] = job[j].maxAttempts

\* A job is never forgotten: once enqueued it is completed or given up, though
\* passes die with it in hand, and though two failures at once may count as one.
EveryJobEnds ==
  \A j \in Job : job[j].status = "pending" ~> job[j].status \in {"completed", "exhausted"}

\* A job allowed one attempt, which is how a restore of a project is queued, is
\* never pending again once taken: "a restore that fails is the owner's to
\* retry, not the scheduler's" (requestRestore, and claimRegionalJobs of a slow
\* one). A purge taken back from a dead pass is the exception, by design.
OneAttemptIsOne ==
  [][\A j \in Job :
       job[j].maxAttempts = 1 /\ job[j].lane # "purge" /\ job[j].status # "pending"
         => job'[j].status # "pending"]_vars

\* lib/queue/index.ts: "claimNextJobs uses a conditional updateMany so two
\* concurrent workers can never claim the same job". The update is conditional;
\* the query after it returns what the other worker took as well.
ClaimedByOne ==
  \A j \in Job : job[j].lane = "generic" => Cardinality({w \in Worker :
    pass[w].step = "working" /\ call[w][j].step \in {"claimed", "handling"}}) <= 1
=============================================================================
