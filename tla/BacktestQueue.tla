---------------------------- MODULE BacktestQueue ----------------------------
(***************************************************************************)
(* The durable backtest queue: the PostgreSQL rows of BacktestRun,         *)
(* BacktestJob and BacktestRunProgress, the API transactions that submit   *)
(* and cancel runs, and the worker processes that claim, execute, hand     *)
(* back, recover and finish them.                                          *)
(*                                                                         *)
(* One database transaction (or one self-contained SQL statement) is one   *)
(* atomic step; everything a process does between two transactions is      *)
(* local to it and interleaves with everything else.  A lease is LIVE or   *)
(* LAPSED, and time is the action that lets it lapse.                      *)
(***************************************************************************)
EXTENDS Integers, FiniteSets

CONSTANTS
  Users,               \* owners of runs
  Runs,                \* runs that may be submitted; a run has exactly one job
  Owner,               \* [Runs -> Users]
  Workers,             \* backtest worker processes
  MaxAttempts,         \* BacktestJob.maxAttempts
  GlobalMaxRunning,    \* BACKTEST_GLOBAL_MAX_RUNNING (unset: at least |Runs|)
  QueueMaxQueued,      \* BACKTEST_QUEUE_MAX_QUEUED
  CandidateBatch,      \* CLAIM_CANDIDATE_BATCH
  Plans,               \* values of entitlements.backtests.maxConcurrentRuns
  StallsOutlastLeases, \* TRUE: a live process may stall past its lease
  MaxDisruptions,      \* bound: crashes and stops of worker processes
  NoWorker,            \* claimedBy IS NULL
  NoRun                \* a process executes nothing

ASSUME QueueAssumption ==
  /\ Owner \in [Runs -> Users]
  /\ MaxAttempts \in Nat \ {0}
  /\ GlobalMaxRunning \in Nat
  /\ QueueMaxQueued \in Nat
  /\ CandidateBatch \in Nat
  /\ Plans \subseteq Nat
  /\ Plans # {}
  /\ StallsOutlastLeases \in BOOLEAN
  /\ MaxDisruptions \in Nat
  /\ NoWorker \notin Workers
  /\ NoRun \notin Runs

VARIABLES
  (* BacktestJob *)
  jobStatus,       \* [Runs -> JobStatuses]
  claimedBy,       \* [Runs -> Workers \cup {NoWorker}]
  lease,           \* [Runs -> {"NONE", "LIVE", "LAPSED"}]: leaseExpiresAt
  attempts,        \* [Runs -> 0 .. MaxAttempts]
  cancelRequested, \* runs whose cancelRequestedAt is set
  available,       \* queued runs whose availableAt has come
  ahead,           \* [Runs -> SUBSET Runs]: available runs that sort before one
  (* BacktestRun and its result rows *)
  runStatus,       \* [Runs -> RunStatuses]
  result,          \* [Runs -> Nat]: attempt that wrote the result, 0 for none
  (* BacktestRunProgress and BacktestRunMilestone *)
  progress,        \* [Runs -> {"ZERO", "PARTIAL", "FULL"}]: percent
  snapshot,        \* [Runs -> Nat]: attempt of the live snapshot, 0 for none
  milestones,      \* [Runs -> SUBSET Nat]: attempts with milestone rows
  (* User and the submissions in flight *)
  limit,           \* [Users -> Plans]: the plan's maxConcurrentRuns
  submitting,      \* runs whose submission passed its checks, not yet committed
  (* worker processes *)
  pc,              \* [Workers -> Steps]
  task,            \* [Workers -> Runs \cup {NoRun}]: the claim being executed
  taskAttempt,     \* [Workers -> Nat]: claim.attempt
  lost,            \* workers whose lease object is marked lost
  cancelSeen,      \* workers whose lease object has seen the cancellation
  stopping,        \* workers asked to stop (SIGTERM)
  disruptions      \* crashes and stops so far

jobVars      == <<jobStatus, claimedBy, lease, attempts, cancelRequested>>
lineVars     == <<available, ahead>>
runVars      == <<runStatus, result>>
progressVars == <<progress, snapshot, milestones>>
dbVars       == <<jobVars, lineVars, runVars, progressVars>>
apiVars      == <<limit, submitting>>
claimVars    == <<task, taskAttempt, lost, cancelSeen>>
workerVars   == <<pc, claimVars, stopping, disruptions>>
vars         == <<dbVars, apiVars, workerVars>>

-----------------------------------------------------------------------------
(* States *)

\* "NONE" stands for a job, or a run, that has not been created.
JobStatuses == {"NONE", "QUEUED", "CLAIMED", "COMPLETED", "FAILED", "CANCELLED"}
Executing   == {"PREPARING_DATA", "RUNNING", "FINALIZING"}
Terminal    == {"COMPLETED", "FAILED", "CANCELLED"}
RunStatuses == {"NONE", "QUEUED"} \cup Executing \cup Terminal

\* The worker loop: three recovery statements, then a claim.
LoopSteps == {"RECOVER", "REQUEUE", "ABANDON", "CLAIM"}
\* A claim in hand.  FINALIZING is the step before the result is persisted.
TaskSteps == {"PREPARING", "SIMULATING", "FINALIZING", "FAILING",
              "CANCELLING", "RELEASING", "HANDING_BACK"}
Steps     == LoopSteps \cup TaskSteps \cup {"DOWN"}

TypeOK ==
  /\ jobStatus \in [Runs -> JobStatuses]
  /\ claimedBy \in [Runs -> Workers \cup {NoWorker}]
  /\ lease \in [Runs -> {"NONE", "LIVE", "LAPSED"}]
  /\ attempts \in [Runs -> 0 .. MaxAttempts]
  /\ cancelRequested \in SUBSET Runs
  /\ available \in SUBSET Runs
  /\ ahead \in [Runs -> SUBSET Runs]
  /\ runStatus \in [Runs -> RunStatuses]
  /\ result \in [Runs -> 0 .. MaxAttempts]
  /\ progress \in [Runs -> {"ZERO", "PARTIAL", "FULL"}]
  /\ snapshot \in [Runs -> 0 .. MaxAttempts]
  /\ milestones \in [Runs -> SUBSET (0 .. MaxAttempts)]
  /\ limit \in [Users -> Plans]
  /\ submitting \in SUBSET Runs
  /\ pc \in [Workers -> Steps]
  /\ task \in [Workers -> Runs \cup {NoRun}]
  /\ taskAttempt \in [Workers -> 0 .. MaxAttempts]
  /\ lost \in SUBSET Workers
  /\ cancelSeen \in SUBSET Workers
  /\ stopping \in SUBSET Workers
  /\ disruptions \in 0 .. MaxDisruptions

Init ==
  /\ jobStatus = [r \in Runs |-> "NONE"]
  /\ claimedBy = [r \in Runs |-> NoWorker]
  /\ lease = [r \in Runs |-> "NONE"]
  /\ attempts = [r \in Runs |-> 0]
  /\ cancelRequested = {}
  /\ available = {}
  /\ ahead = [r \in Runs |-> {}]
  /\ runStatus = [r \in Runs |-> "NONE"]
  /\ result = [r \in Runs |-> 0]
  /\ progress = [r \in Runs |-> "ZERO"]
  /\ snapshot = [r \in Runs |-> 0]
  /\ milestones = [r \in Runs |-> {}]
  /\ limit \in [Users -> Plans]
  /\ submitting = {}
  /\ pc = [w \in Workers |-> "RECOVER"]
  /\ task = [w \in Workers |-> NoRun]
  /\ taskAttempt = [w \in Workers |-> 0]
  /\ lost = {}
  /\ cancelSeen = {}
  /\ stopping = {}
  /\ disruptions = 0

\* f with the value v at every run of S.
Assign(f, S, v) == [r \in Runs |-> IF r \in S THEN v ELSE f[r]]

-----------------------------------------------------------------------------
(* The line of available runs, ordered by availableAt *)

\* r's availableAt is now, or has just come: it sorts behind every other one.
JoinLine(r) ==
  /\ available' = available \cup {r}
  /\ ahead' = [ahead EXCEPT ![r] = available \ {r}]

LeaveLine(gone) ==
  /\ available' = available \ gone
  /\ ahead' = [q \in Runs |-> IF q \in gone THEN {} ELSE ahead[q] \ gone]

-----------------------------------------------------------------------------
(* What the transactions read *)

\* (wrong) A slot is given up as soon as its owner asks to stop the run.
LiveClaimsUncancelled ==
  {r \in Runs \ cancelRequested : jobStatus[r] = "CLAIMED" /\ lease[r] = "LIVE"}

\* CLAIMED with a live lease: what both limits count.
LiveClaims == {r \in Runs : jobStatus[r] = "CLAIMED" /\ lease[r] = "LIVE"}
OwnerRunning(u) == Cardinality({r \in LiveClaims : Owner[r] = u})

\* (wrong) Recovery takes a claim whose lease still runs.
StaleAnyLease == {r \in Runs : jobStatus[r] = "CLAIMED" /\ runStatus[r] \notin Terminal}

\* CLAIMED, past its lease, on a run that is not finished.
Stale == {r \in Runs : /\ jobStatus[r] = "CLAIMED"
                       /\ lease[r] = "LAPSED"
                       /\ runStatus[r] \notin Terminal}

\* (wrong) Nothing records the cancellation of a dead worker's run.
CancelledStaleForgotten == {}

\* (wrong) A run is retried although its owner asked to stop it.
RequeueableIfCancelled == {r \in Stale : attempts[r] < MaxAttempts}

\* (wrong) A run is given up with one attempt left.
ExhaustedOneEarly == {r \in Runs \ cancelRequested :
                        /\ attempts[r] + 1 >= MaxAttempts
                        /\ runStatus[r] \notin Terminal
                        /\ r \in Stale \/ jobStatus[r] = "QUEUED"}

\* (wrong) Only stale claims are given up.
ExhaustedClaims == {r \in Stale \ cancelRequested : attempts[r] >= MaxAttempts}

\* What each statement of recoverStaleJobs takes: claims whose owner asked to
\* stop, claims with an attempt left, and runs with none (the stale ones, and
\* those a stopping worker released on their last attempt).
CancelledStale == Stale \cap cancelRequested

Requeueable == {r \in Stale \ cancelRequested : attempts[r] < MaxAttempts}

Exhausted == {r \in Runs \ cancelRequested :
                /\ attempts[r] >= MaxAttempts
                /\ runStatus[r] \notin Terminal
                /\ r \in Stale \/ jobStatus[r] = "QUEUED"}

\* The runs of a user that have not reached a terminal status.
InFlight(u) == {r \in Runs : /\ Owner[r] = u
                             /\ runStatus[r] \in {"QUEUED"} \cup Executing}

\* (wrong) The attempt bound is not part of the claim.
CandidatesUnbounded == {r \in available : /\ jobStatus[r] = "QUEUED"
                                          /\ r \notin cancelRequested}

Candidates == {r \in available : /\ jobStatus[r] = "QUEUED"
                                 /\ attempts[r] < MaxAttempts
                                 /\ r \notin cancelRequested}

\* The candidates the claim considers before r.
Before(r) ==
  {q \in Candidates :
     \/ OwnerRunning(Owner[q]) < OwnerRunning(Owner[r])
     \/ /\ OwnerRunning(Owner[q]) = OwnerRunning(Owner[r])
        /\ q \in ahead[r]}

\* (wrong) The run about to start is not counted.
AdmitsOneMore(u, held) == u \notin held /\ OwnerRunning(u) <= limit[u]

\* The owner's lock can be had and the plan admits one more executing run.  A
\* missing user or a plan the build does not know is a limit of zero.
Admits(u, held) == u \notin held /\ OwnerRunning(u) + 1 <= limit[u]

\* (wrong) A submission does not take its owner's lock.
LockedByNothing == {}

\* Owners whose entitlement lock a submission in flight holds.
LockedBySubmission == {Owner[r] : r \in submitting}

\* The candidate a claim takes while the transactions of others hold the locks
\* of the owners in held and the job rows in busy: a candidate whose owner's lock
\* is taken or whose plan is full is passed over, and so is one whose row is
\* locked (SKIP LOCKED), the candidates of the same owner behind it not.
Selected(r, held, busy) ==
  /\ Cardinality(LiveClaims) < GlobalMaxRunning
  /\ r \in Candidates \ busy
  /\ Cardinality(Before(r)) < CandidateBatch
  /\ Admits(Owner[r], held)
  /\ \A q \in Before(r) \ busy : ~Admits(Owner[q], held)

\* (wrong) A write checks the status of the job, not who claimed it.
HeldByAnyone(w) == task[w] \in Runs /\ jobStatus[task[w]] = "CLAIMED"

\* (wrong) A write checks who claimed the job, not that it is still claimed.
HeldOnce(w) == task[w] \in Runs /\ claimedBy[task[w]] = w

\* The guard of every write a worker makes: claimedBy = workerId AND CLAIMED.
\* It does not look at the lease.
Held(w) == /\ task[w] \in Runs
           /\ jobStatus[task[w]] = "CLAIMED"
           /\ claimedBy[task[w]] = w

\* (wrong) A run released while it simulates keeps its status.
ReleasedPreparing(status) == IF status = "PREPARING_DATA" THEN "QUEUED" ELSE status

\* The status releaseJob leaves a run in: only the three executing ones move.
Released(status) == IF status \in Executing THEN "QUEUED" ELSE status

\* lease.interruption(): lost outranks a cancellation, which outranks a stop.
Interruption(w) == IF w \in lost THEN "LEASE_LOST"
                   ELSE IF w \in cancelSeen THEN "CANCELLED"
                   ELSE IF w \in stopping THEN "SHUTDOWN" ELSE "NONE"

-----------------------------------------------------------------------------
(* The API: submission, cancellation, and the plan it reads *)

\* The submission transaction takes the owner's entitlement lock, checks the
\* plan's in-flight limit and then the length of the queue; it has inserted
\* nothing another transaction can see yet.
AdmitSubmission(r) ==
  /\ jobStatus[r] = "NONE"
  /\ Owner[r] \notin LockedBySubmission
  /\ Cardinality(InFlight(Owner[r])) + 1 <= limit[Owner[r]]
  /\ Cardinality({q \in Runs : jobStatus[q] = "QUEUED"}) < QueueMaxQueued
  /\ submitting' = submitting \cup {r}
  /\ UNCHANGED <<dbVars, limit, workerVars>>

\* It commits the run, its job and its progress row together.
CommitSubmission(r) ==
  /\ r \in submitting
  /\ submitting' = submitting \ {r}
  /\ jobStatus' = [jobStatus EXCEPT ![r] = "QUEUED"]
  /\ runStatus' = [runStatus EXCEPT ![r] = "QUEUED"]
  /\ JoinLine(r)
  /\ UNCHANGED <<claimedBy, lease, attempts, cancelRequested, result,
                 progressVars, limit, workerVars>>

\* Or it rolls back, and leaves nothing behind.
AbortSubmission(r) ==
  /\ r \in submitting
  /\ submitting' = submitting \ {r}
  /\ UNCHANGED <<dbVars, limit, workerVars>>

\* cancelRun on a job still QUEUED: cancelled at once.
CancelQueued(r) ==
  /\ jobStatus[r] = "QUEUED"
  /\ runStatus[r] \notin Terminal
  /\ jobStatus' = [jobStatus EXCEPT ![r] = "CANCELLED"]
  /\ cancelRequested' = cancelRequested \cup {r}
  /\ runStatus' = [runStatus EXCEPT ![r] = "CANCELLED"]
  /\ snapshot' = [snapshot EXCEPT ![r] = 0]
  /\ LeaveLine({r})
  /\ UNCHANGED <<claimedBy, lease, attempts, result, progress, milestones,
                 apiVars, workerVars>>

\* cancelRun on any other unfinished run: the request is recorded on the job.
RequestCancel(r) ==
  /\ jobStatus[r] \notin {"NONE", "QUEUED"}
  /\ runStatus[r] \notin Terminal
  /\ cancelRequested' = cancelRequested \cup {r}
  /\ UNCHANGED <<jobStatus, claimedBy, lease, attempts, lineVars, runVars,
                 progressVars, apiVars, workerVars>>

\* The plan of a user changes, under the user's entitlement lock.
ChangePlan(u, n) ==
  /\ u \notin LockedBySubmission
  /\ limit' = [limit EXCEPT ![u] = n]
  /\ UNCHANGED <<dbVars, submitting, workerVars>>

-----------------------------------------------------------------------------
(* Time *)

\* leaseExpiresAt passes.  Without stalls only the lease of a claim nobody
\* executes any more can lapse: a live process renews its own in time.
LapseLease(r) ==
  /\ jobStatus[r] = "CLAIMED"
  /\ lease[r] = "LIVE"
  /\ StallsOutlastLeases \/ \A w \in Workers : ~(task[w] = r /\ claimedBy[r] = w)
  /\ lease' = [lease EXCEPT ![r] = "LAPSED"]
  /\ UNCHANGED <<jobStatus, claimedBy, attempts, cancelRequested, lineVars,
                 runVars, progressVars, apiVars, workerVars>>

\* The retry backoff of a requeued job ends.
EndBackoff(r) ==
  /\ jobStatus[r] = "QUEUED"
  /\ r \notin available
  /\ JoinLine(r)
  /\ UNCHANGED <<jobVars, runVars, progressVars, apiVars, workerVars>>

-----------------------------------------------------------------------------
(* The worker loop: recovery *)

\* recoverStaleJobs, first statement: a stale claim its owner asked to stop.
RecoverCancelled(w) ==
  /\ pc[w] = "RECOVER" /\ w \notin stopping
  /\ pc' = [pc EXCEPT ![w] = "REQUEUE"]
  /\ jobStatus' = Assign(jobStatus, CancelledStale, "CANCELLED")
  /\ claimedBy' = Assign(claimedBy, CancelledStale, NoWorker)
  /\ lease' = Assign(lease, CancelledStale, "NONE")
  /\ runStatus' = Assign(runStatus, CancelledStale, "CANCELLED")
  /\ snapshot' = Assign(snapshot, CancelledStale, 0)
  /\ UNCHANGED <<attempts, cancelRequested, lineVars, result, progress,
                 milestones, apiVars, claimVars, stopping, disruptions>>

\* Second statement: a stale claim with an attempt left goes back to the queue
\* after a backoff, and what the dead attempt published goes away.
RequeueStale(w) ==
  /\ pc[w] = "REQUEUE"
  /\ pc' = [pc EXCEPT ![w] = "ABANDON"]
  /\ jobStatus' = Assign(jobStatus, Requeueable, "QUEUED")
  /\ claimedBy' = Assign(claimedBy, Requeueable, NoWorker)
  /\ lease' = Assign(lease, Requeueable, "NONE")
  /\ runStatus' = Assign(runStatus, Requeueable, "QUEUED")
  /\ progress' = Assign(progress, Requeueable, "ZERO")
  /\ snapshot' = Assign(snapshot, Requeueable, 0)
  /\ milestones' = Assign(milestones, Requeueable, {})
  /\ UNCHANGED <<attempts, cancelRequested, lineVars, result, apiVars,
                 claimVars, stopping, disruptions>>

\* Third statement: no attempt left, whether stale or released on the last one.
AbandonExhausted(w) ==
  /\ pc[w] = "ABANDON"
  /\ pc' = [pc EXCEPT ![w] = "CLAIM"]
  /\ jobStatus' = Assign(jobStatus, Exhausted, "FAILED")
  /\ claimedBy' = Assign(claimedBy, Exhausted, NoWorker)
  /\ lease' = Assign(lease, Exhausted, "NONE")
  /\ runStatus' = Assign(runStatus, Exhausted, "FAILED")
  /\ LeaveLine(Exhausted)
  /\ UNCHANGED <<attempts, cancelRequested, result, progressVars, apiVars,
                 claimVars, stopping, disruptions>>

\* The heartbeat interval since the last recovery has not passed, or one of the
\* statements threw.
SkipRecovery(w) ==
  /\ pc[w] \in {"RECOVER", "REQUEUE", "ABANDON"}
  /\ pc[w] = "RECOVER" => w \notin stopping
  /\ pc' = [pc EXCEPT ![w] = "CLAIM"]
  /\ UNCHANGED <<dbVars, apiVars, claimVars, stopping, disruptions>>

-----------------------------------------------------------------------------
(* The worker loop: the claim *)

\* claimNextJob, under the admission lock; others hold the entitlement locks of
\* the submissions in flight and of the owners in held (billing), and the rows of
\* the candidates in busy (a cancelRun that has not committed).
Claim(w, r, held, busy) ==
  /\ pc[w] = "CLAIM"
  /\ Selected(r, held \cup LockedBySubmission, busy)
  /\ jobStatus' = [jobStatus EXCEPT ![r] = "CLAIMED"]
  /\ claimedBy' = [claimedBy EXCEPT ![r] = w]
  /\ lease' = [lease EXCEPT ![r] = "LIVE"]
  /\ attempts' = [attempts EXCEPT ![r] = @ + 1]
  /\ runStatus' = [runStatus EXCEPT ![r] = "PREPARING_DATA"]
  /\ LeaveLine({r})
  /\ task' = [task EXCEPT ![w] = r]
  /\ taskAttempt' = [taskAttempt EXCEPT ![w] = attempts[r] + 1]
  \* A claim taken as the process was asked to stop is handed straight back.
  /\ pc' = [pc EXCEPT ![w] = IF w \in stopping THEN "RELEASING" ELSE "PREPARING"]
  /\ UNCHANGED <<cancelRequested, result, progressVars, apiVars, lost,
                 cancelSeen, stopping, disruptions>>

\* Nothing to claim, or the claim threw: poll again.
ClaimNothing(w) ==
  /\ pc[w] = "CLAIM"
  /\ pc' = [pc EXCEPT ![w] = "RECOVER"]
  /\ UNCHANGED <<dbVars, apiVars, claimVars, stopping, disruptions>>

\* The process is done with its claim, whatever became of it in the database.
LetGo(w) ==
  /\ pc' = [pc EXCEPT ![w] = "RECOVER"]
  /\ task' = [task EXCEPT ![w] = NoRun]
  /\ taskAttempt' = [taskAttempt EXCEPT ![w] = 0]
  /\ lost' = lost \ {w}
  /\ cancelSeen' = cancelSeen \ {w}
  /\ UNCHANGED <<stopping, disruptions>>

Proceed(w, step) ==
  /\ pc' = [pc EXCEPT ![w] = step]
  /\ UNCHANGED <<claimVars, stopping, disruptions>>

-----------------------------------------------------------------------------
(* The lease object *)

\* RenewableJobLease.renew.
Heartbeat(w) ==
  /\ pc[w] \in TaskSteps
  /\ w \notin lost
  /\ IF Held(w)
       THEN /\ lease' = [lease EXCEPT ![task[w]] = "LIVE"]
            /\ cancelSeen' = IF task[w] \in cancelRequested
                               THEN cancelSeen \cup {w} ELSE cancelSeen
            /\ UNCHANGED lost
       ELSE /\ lost' = lost \cup {w}
            /\ UNCHANGED <<lease, cancelSeen>>
  /\ UNCHANGED <<jobStatus, claimedBy, attempts, cancelRequested, lineVars,
                 runVars, progressVars, apiVars, pc, task, taskAttempt,
                 stopping, disruptions>>

\* RenewableJobLease.checkCancellation.
NoticeCancellation(w) ==
  /\ pc[w] \in TaskSteps
  /\ w \notin lost
  /\ Held(w) /\ task[w] \in cancelRequested
  /\ cancelSeen' = cancelSeen \cup {w}
  /\ UNCHANGED <<dbVars, apiVars, pc, task, taskAttempt, lost, stopping,
                 disruptions>>

-----------------------------------------------------------------------------
(* The processor *)

\* A progress write: it lands and renews the lease, or matches no row (the claim
\* is gone: stand down), or throws and is swallowed.
WriteProgress(w, status, live, years, next) ==
  LET r == task[w] IN
  \/ /\ Held(w)
     /\ lease' = [lease EXCEPT ![r] = "LIVE"]
     /\ runStatus' = [runStatus EXCEPT ![r] = status]
     /\ progress' = [progress EXCEPT ![r] = "PARTIAL"]
     /\ snapshot' = [snapshot EXCEPT ![r] = IF live THEN taskAttempt[w] ELSE @]
     /\ milestones' = [milestones EXCEPT ![r] = IF years THEN @ \cup {taskAttempt[w]} ELSE @]
     /\ Proceed(w, next)
     /\ UNCHANGED <<jobStatus, claimedBy, attempts, cancelRequested, lineVars,
                    result, apiVars>>
  \/ /\ ~Held(w)
     /\ LetGo(w)
     /\ UNCHANGED <<dbVars, apiVars>>
  \/ /\ Proceed(w, next)
     /\ UNCHANGED <<dbVars, apiVars>>

\* prepare: the phase's first write and its reports per security.
PrepareData(w) ==
  /\ pc[w] = "PREPARING"
  /\ WriteProgress(w, "PREPARING_DATA", FALSE, FALSE, "PREPARING")

\* simulate: the transition into RUNNING.
StartSimulation(w) ==
  /\ pc[w] = "PREPARING"
  /\ WriteProgress(w, "RUNNING", FALSE, FALSE, "SIMULATING")

\* onCheckpoint.  It sends RUNNING again when the transition did not land; when
\* it did the status is RUNNING already.
Checkpoint(w, years) ==
  /\ pc[w] = "SIMULATING"
  /\ Interruption(w) = "NONE"
  /\ WriteProgress(w, "RUNNING", TRUE, years, "SIMULATING")

\* A throttled run may reach its end between two checkpoints.
StartFinalizing(w) ==
  /\ pc[w] = "SIMULATING"
  /\ WriteProgress(w, "FINALIZING", FALSE, FALSE, "FINALIZING")

\* The checks of lease.interruption() in prepare, in a checkpoint and between
\* two windows, and what handleExecutionError does about each reason.
Interrupt(w) ==
  /\ pc[w] \in {"PREPARING", "SIMULATING"}
  /\ \/ Interruption(w) = "LEASE_LOST" /\ LetGo(w)
     \/ Interruption(w) = "CANCELLED"  /\ Proceed(w, "CANCELLING")
     \/ Interruption(w) = "SHUTDOWN"   /\ Proceed(w, "RELEASING")
  /\ UNCHANGED <<dbVars, apiVars>>

\* The data, the engine or the provider failed the run.
HitFailure(w) ==
  /\ pc[w] \in {"PREPARING", "SIMULATING"}
  /\ Proceed(w, "FAILING")
  /\ UNCHANGED <<dbVars, apiVars>>

\* persistResult commits: result rows, job and run move together.
PersistResultTx(w) ==
  LET r == task[w] IN
  /\ Held(w)
  /\ jobStatus' = [jobStatus EXCEPT ![r] = "COMPLETED"]
  /\ lease' = [lease EXCEPT ![r] = "NONE"]
  /\ result' = [result EXCEPT ![r] = taskAttempt[w]]
  /\ progress' = [progress EXCEPT ![r] = "FULL"]
  /\ runStatus' = [runStatus EXCEPT ![r] = "COMPLETED"]
  /\ UNCHANGED <<claimedBy, attempts, cancelRequested, lineVars, snapshot,
                 milestones, apiVars>>

\* The worker hears of the commit, finds the claim gone, or sees an error.  An
\* error says nothing about the commit, and sends the run to recordFailure.
PersistResult(w) ==
  /\ pc[w] = "FINALIZING"
  /\ \/ PersistResultTx(w) /\ LetGo(w)
     \/ ~Held(w) /\ LetGo(w) /\ UNCHANGED <<dbVars, apiVars>>
     \/ PersistResultTx(w) /\ Proceed(w, "FAILING")
     \/ Proceed(w, "FAILING") /\ UNCHANGED <<dbVars, apiVars>>

\* recordFailure, failJob.
RecordFailure(w) ==
  LET r == task[w] IN
  /\ pc[w] = "FAILING"
  /\ LetGo(w)
  /\ \/ /\ Held(w)
        /\ jobStatus' = [jobStatus EXCEPT ![r] = "FAILED"]
        /\ lease' = [lease EXCEPT ![r] = "NONE"]
        /\ runStatus' = [runStatus EXCEPT ![r] = "FAILED"]
        /\ UNCHANGED <<claimedBy, attempts, cancelRequested, lineVars, result,
                       progressVars, apiVars>>
     \* The claim is gone, or the write threw and the lease is left to lapse.
     \/ UNCHANGED <<dbVars, apiVars>>

\* recordCancellation, cancelJob.
RecordCancellation(w) ==
  LET r == task[w] IN
  /\ pc[w] = "CANCELLING"
  /\ LetGo(w)
  /\ \/ /\ Held(w)
        /\ jobStatus' = [jobStatus EXCEPT ![r] = "CANCELLED"]
        /\ claimedBy' = [claimedBy EXCEPT ![r] = NoWorker]
        /\ lease' = [lease EXCEPT ![r] = "NONE"]
        /\ runStatus' = [runStatus EXCEPT ![r] = IF @ \in Terminal THEN @ ELSE "CANCELLED"]
        /\ snapshot' = [snapshot EXCEPT ![r] = 0]
        /\ UNCHANGED <<attempts, cancelRequested, lineVars, result, progress,
                       milestones, apiVars>>
     \/ UNCHANGED <<dbVars, apiVars>>

\* releaseClaim reads the cancellation request before it decides what to write.
ReadCancelBeforeRelease(w) ==
  /\ pc[w] = "RELEASING"
  /\ \/ /\ Held(w) /\ task[w] \in cancelRequested
        /\ Proceed(w, "CANCELLING")
     \/ /\ ~(Held(w) /\ task[w] \in cancelRequested)
        /\ Proceed(w, "HANDING_BACK")
     \/ LetGo(w)
  /\ UNCHANGED <<dbVars, apiVars>>

\* releaseJob: back to the queue at once, the attempt not refunded.
ReleaseJob(w) ==
  LET r == task[w] IN
  /\ pc[w] = "HANDING_BACK"
  /\ LetGo(w)
  /\ \/ /\ Held(w) /\ r \notin cancelRequested
        /\ jobStatus' = [jobStatus EXCEPT ![r] = "QUEUED"]
        /\ claimedBy' = [claimedBy EXCEPT ![r] = NoWorker]
        /\ lease' = [lease EXCEPT ![r] = "NONE"]
        /\ runStatus' = [runStatus EXCEPT ![r] = Released(@)]
        /\ progress' = [progress EXCEPT ![r] = "ZERO"]
        /\ snapshot' = [snapshot EXCEPT ![r] = 0]
        /\ milestones' = [milestones EXCEPT ![r] = {}]
        /\ JoinLine(r)
        /\ UNCHANGED <<attempts, cancelRequested, result, apiVars>>
     \/ UNCHANGED <<dbVars, apiVars>>

-----------------------------------------------------------------------------
(* Processes *)

\* SIGTERM: loop.stop().
AskToStop(w) ==
  /\ pc[w] # "DOWN" /\ w \notin stopping
  /\ disruptions < MaxDisruptions
  /\ disruptions' = disruptions + 1
  /\ stopping' = stopping \cup {w}
  /\ UNCHANGED <<dbVars, apiVars, pc, claimVars>>

\* The loop ends between two polls, and the process with it.
Exit(w) ==
  /\ pc[w] = "RECOVER" /\ w \in stopping
  /\ pc' = [pc EXCEPT ![w] = "DOWN"]
  /\ stopping' = stopping \ {w}
  /\ UNCHANGED <<dbVars, apiVars, claimVars, disruptions>>

\* The process dies at any point (a crash, an uncaught error, SIGKILL after the
\* shutdown grace); its claim stays in the database.
Crash(w) ==
  /\ pc[w] # "DOWN"
  /\ disruptions < MaxDisruptions
  /\ disruptions' = disruptions + 1
  /\ pc' = [pc EXCEPT ![w] = "DOWN"]
  /\ task' = [task EXCEPT ![w] = NoRun]
  /\ taskAttempt' = [taskAttempt EXCEPT ![w] = 0]
  /\ lost' = lost \ {w}
  /\ cancelSeen' = cancelSeen \ {w}
  /\ stopping' = stopping \ {w}
  /\ UNCHANGED <<dbVars, apiVars>>

\* The supervisor starts another process.  Its workerId is fresh in the code;
\* here it takes the free name, which no row written before can tell: a new
\* process has no claim in hand, so it makes no write under the name.
Restart(w) ==
  /\ pc[w] = "DOWN"
  /\ pc' = [pc EXCEPT ![w] = "RECOVER"]
  /\ UNCHANGED <<dbVars, apiVars, claimVars, stopping, disruptions>>

-----------------------------------------------------------------------------
Api(r) == \/ AdmitSubmission(r) \/ CommitSubmission(r) \/ AbortSubmission(r)
          \/ CancelQueued(r) \/ RequestCancel(r)

Time(r) == LapseLease(r) \/ EndBackoff(r)

Loop(w) == \/ RecoverCancelled(w) \/ RequeueStale(w) \/ AbandonExhausted(w)
           \/ SkipRecovery(w) \/ ClaimNothing(w)
           \/ \E r \in Runs, held \in SUBSET Users, busy \in SUBSET Candidates :
                Claim(w, r, held, busy)

Process(w) == \/ Heartbeat(w) \/ NoticeCancellation(w)
              \/ PrepareData(w) \/ StartSimulation(w)
              \/ \E years \in BOOLEAN : Checkpoint(w, years)
              \/ StartFinalizing(w) \/ Interrupt(w) \/ HitFailure(w)
              \/ PersistResult(w) \/ RecordFailure(w) \/ RecordCancellation(w)
              \/ ReadCancelBeforeRelease(w) \/ ReleaseJob(w)

Supervise(w) == AskToStop(w) \/ Exit(w) \/ Crash(w) \/ Restart(w)

Next == \/ \E r \in Runs : Api(r) \/ Time(r)
        \/ \E u \in Users, n \in Plans : ChangePlan(u, n)
        \/ \E w \in Workers : Loop(w) \/ Process(w) \/ Supervise(w)

Spec == Init /\ [][Next]_vars
-----------------------------------------------------------------------------
(* Fairness *)

\* A live process goes on with what it awaits, and the supervisor restarts a
\* child that ended.
Advance(w) == \/ StartSimulation(w) \/ StartFinalizing(w) \/ PersistResult(w)
              \/ RecordFailure(w) \/ RecordCancellation(w)
              \/ ReadCancelBeforeRelease(w) \/ ReleaseJob(w)
              \/ SkipRecovery(w) \/ ClaimNothing(w) \/ Exit(w) \/ Restart(w)

\* A statement every poll repeats does not throw for ever, and the locks of
\* others are not held at every claim (nor, so, by submissions that keep rolling
\* back); backoffs and the leases of claims nobody executes run out.  Nothing
\* makes a user act, a process crash, or a process notice a cancellation or a
\* lost claim.
Fairness ==
  /\ \A w \in Workers :
       /\ WF_vars(Advance(w))
       /\ SF_vars(RecoverCancelled(w)) /\ SF_vars(RequeueStale(w))
       /\ SF_vars(AbandonExhausted(w))
       /\ SF_vars(\E r \in Runs : Claim(w, r, {}, {}))
  /\ \A r \in Runs :
       /\ WF_vars(EndBackoff(r))
       /\ WF_vars(CommitSubmission(r) \/ AbortSubmission(r))
       /\ <>[][~AbortSubmission(r)]_vars
       /\ WF_vars((\A w \in Workers : ~(task[w] = r /\ claimedBy[r] = w)) /\ LapseLease(r))

FairSpec == Spec /\ Fairness

-----------------------------------------------------------------------------
(* Properties *)

\* A job and its run move together: no crash, lost race or recovery sweep leaves
\* a run waiting that no job carries, or a job claimed whose run has ended.
JobMatchesRun ==
  \A r \in Runs :
    \/ jobStatus[r] = "CLAIMED" /\ runStatus[r] \in Executing
    \/ jobStatus[r] # "CLAIMED" /\ runStatus[r] = jobStatus[r]

\* What is stored about a run is the work of its latest attempt alone: a displaced
\* worker's checkpoints, milestones and result never reach the row of a retry.
AttemptsNeverMix ==
  \A r \in Runs :
    /\ snapshot[r] \in {0, attempts[r]}
    /\ milestones[r] \subseteq {attempts[r]}
    /\ result[r] \in {0, attempts[r]}

\* 100% is reached only by a completed run, and a completed run has its result.
CompleteMeansResult ==
  \A r \in Runs : /\ (runStatus[r] = "COMPLETED") <=> (result[r] # 0)
                  /\ (runStatus[r] = "COMPLETED") <=> (progress[r] = "FULL")

\* A waiting run is claimable again and advertises nothing: no cancellation
\* request that would strand it, no percentage, curve or year of a dead attempt.
\* A cancelled run shows no curve either.
WaitingIsClean ==
  \A r \in Runs :
    /\ runStatus[r] = "QUEUED" =>
         /\ r \notin cancelRequested
         /\ progress[r] = "ZERO" /\ snapshot[r] = 0 /\ milestones[r] = {}
    /\ runStatus[r] = "CANCELLED" => snapshot[r] = 0

\* A run not submitted yet has left no trace, and a claim in hand is the job's
\* latest attempt: with the four above, an inductive invariant.
QueueInv ==
  /\ TypeOK /\ JobMatchesRun /\ AttemptsNeverMix /\ CompleteMeansResult
  /\ WaitingIsClean
  /\ \A r \in Runs :
       /\ r \in submitting => jobStatus[r] = "NONE"
       /\ jobStatus[r] = "NONE" =>
            /\ attempts[r] = 0 /\ r \notin cancelRequested
            /\ progress[r] = "ZERO" /\ snapshot[r] = 0 /\ milestones[r] = {}
       /\ jobStatus[r] = "CLAIMED" => attempts[r] > 0
  /\ \A w \in Workers : Held(w) => taskAttempt[w] = attempts[task[w]]

\* Processes computing a run, the last write before its result included.
Computing == {w \in Workers : pc[w] \in {"PREPARING", "SIMULATING", "FINALIZING"}}

\* What backtest-execution.md ("Global admission") and the comment of claimNextJob
\* say: live claims are counted under the admission lock, so they never exceed
\* the cap; a stalled worker whose slot was given away stops at its heartbeat.
LiveClaimsWithinCap == Cardinality(LiveClaims) <= GlobalMaxRunning

\* While no live process stalls past its lease: no recovery, cancellation or
\* failed write takes the claim from under a process that computes, a claim in
\* hand never lapses, and so a slot is never counted free while it is used.
ComputingHoldsSlot ==
  /\ \A w \in Workers : /\ w \in Computing => Held(w)
                        /\ Held(w) => lease[task[w]] = "LIVE"
  /\ LiveClaimsWithinCap

\* While no live process stalls past its lease: processes computing a run stay
\* within the deployment's cap, and no run is executed by two of them, whatever
\* crashes, failed writes, cancellations and recoveries happen.
SlotsStayStrict ==
  /\ Cardinality(Computing) <= GlobalMaxRunning
  /\ \A v, w \in Computing : task[v] = task[w] => v = w

\* A run that ended stays as it ended: status, result and what it shows.
EndedIsFinal ==
  [][\A r \in Runs : runStatus[r] \in Terminal =>
        /\ runStatus'[r] = runStatus[r]
        /\ result'[r] = result[r]
        /\ snapshot'[r] = snapshot[r]
        /\ milestones'[r] = milestones[r]]_vars

\* Once its owner asked to stop a run, no attempt of it starts any more.
NoAttemptAfterCancel ==
  [][\A r \in cancelRequested : attempts'[r] = attempts[r]
                               /\ runStatus'[r] # "QUEUED"]_vars

\* Nobody takes a claim whose lease is live: not a recovery that runs beside it,
\* not the late write of a worker that was displaced from an earlier attempt.  The
\* claim stays as it is, or the process that holds this very attempt ends it.
EndsItsClaim(w, r) == /\ task[w] = r /\ taskAttempt[w] = attempts[r]
                      /\ pc[w] \in TaskSteps /\ pc'[w] # pc[w]

LiveClaimsLeftAlone ==
  [][\A r \in LiveClaims :
        \/ /\ jobStatus'[r] = "CLAIMED" /\ claimedBy'[r] = claimedBy[r]
           /\ attempts'[r] = attempts[r]
        \/ EndsItsClaim(claimedBy[r], r)]_vars

\* The entitlement lock reserves the place a submission was admitted to: until it
\* commits or rolls back, its owner submits nothing else, the owner's unfinished
\* runs leave room for it, and the plan does not shrink.
PlanReserved ==
  /\ \A q, r \in submitting : Owner[q] = Owner[r] => q = r
  /\ \A r \in submitting : Cardinality(InFlight(Owner[r])) + 1 <= limit[Owner[r]]

\* Two submissions landing together never take an owner past the plan's limit:
\* at commit the owner's unfinished runs, the new one included, are within it.
SubmissionWithinPlan ==
  [][\A r \in Runs : jobStatus[r] = "NONE" /\ jobStatus'[r] # "NONE" =>
        Cardinality(InFlight(Owner[r])') <= limit'[Owner[r]]]_vars

\* While no live process stalls past its lease: when a process starts computing
\* a run, its owner's runs being computed are within the plan of that moment.
StartsWithinPlan ==
  [][\A w \in Computing' \ Computing :
        LET u == Owner[task'[w]] IN
        Cardinality({v \in Computing' : Owner[task'[v]] = u}) <= limit[u]]_vars

\* Every submitted run ends, unless its owner's plan stops running backtests.
EveryRunEnds ==
  \A r \in Runs : runStatus[r] = "QUEUED" ~>
                   (runStatus[r] \in Terminal \/ limit[Owner[r]] = 0)

\* Every requested cancellation ends the run, whatever the plan.
EveryCancelEnds ==
  \A r \in Runs : r \in cancelRequested ~> runStatus[r] \in Terminal

\* The queue implements the run's lifecycle.
Lifecycle == INSTANCE BacktestRunLifecycle WITH
  status    <- [r \in Runs |-> IF runStatus[r] \in Executing THEN "EXECUTING"
                                                         ELSE runStatus[r]],
  tries     <- attempts,
  stopAsked <- cancelRequested,
  shown     <- [r \in Runs |-> ({snapshot[r]} \ {0}) \cup milestones[r]],
  outcome   <- result

ImplementsLifecycle == Lifecycle!Spec
=============================================================================
