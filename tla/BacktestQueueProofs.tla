------------------------- MODULE BacktestQueueProofs -------------------------
(***************************************************************************)
(* What TLAPS proves of the backtest queue for any number of users, runs,  *)
(* workers and attempts, with crashes, stalls and failed writes.           *)
(***************************************************************************)
EXTENDS BacktestQueue, TLAPS

\* No step of the API, of time or of a worker breaks the types.
LEMMA TypeStep == TypeOK /\ [Next]_vars => TypeOK'
<1> SUFFICES ASSUME TypeOK, [Next]_vars PROVE TypeOK'
  OBVIOUS
<1> USE QueueAssumption DEF TypeOK, JobStatuses, RunStatuses, Executing, Terminal,
                            Steps, LoopSteps, TaskSteps
<1> USE DEF LetGo, Proceed, Assign
<1> USE DEF dbVars, jobVars, lineVars, runVars, progressVars, apiVars,
            workerVars, claimVars
<1>1. ASSUME NEW r \in Runs, Api(r) \/ Time(r) PROVE TypeOK'
  <2>1. CASE AdmitSubmission(r)
    BY <2>1 DEF AdmitSubmission
  <2>2. CASE CommitSubmission(r)
    BY <2>2 DEF CommitSubmission, JoinLine
  <2>3. CASE AbortSubmission(r)
    BY <2>3 DEF AbortSubmission
  <2>4. CASE CancelQueued(r)
    BY <2>4 DEF CancelQueued, LeaveLine
  <2>5. CASE RequestCancel(r)
    BY <2>5 DEF RequestCancel
  <2>6. CASE LapseLease(r)
    BY <2>6 DEF LapseLease
  <2>7. CASE EndBackoff(r)
    BY <2>7 DEF EndBackoff, JoinLine
  <2> QED
    BY <1>1, <2>1, <2>2, <2>3, <2>4, <2>5, <2>6, <2>7 DEF Api, Time
<1>2. ASSUME NEW u \in Users, NEW n \in Plans, ChangePlan(u, n) PROVE TypeOK'
  BY <1>2 DEF ChangePlan
<1>3. ASSUME NEW w \in Workers, Loop(w) PROVE TypeOK'
  <2>1. CASE RecoverCancelled(w)
    BY <2>1 DEF RecoverCancelled
  <2>2. CASE RequeueStale(w)
    BY <2>2 DEF RequeueStale
  <2>3. CASE AbandonExhausted(w)
    BY <2>3 DEF AbandonExhausted, LeaveLine
  <2>4. CASE SkipRecovery(w) \/ ClaimNothing(w)
    BY <2>4 DEF SkipRecovery, ClaimNothing
  <2>5. ASSUME NEW r \in Runs, NEW held \in SUBSET Users,
               NEW busy \in SUBSET Candidates, Claim(w, r, held, busy)
        PROVE  TypeOK'
    <3>1. attempts[r] + 1 \in 0 .. MaxAttempts
      BY <2>5 DEF Claim, Selected, Candidates
    <3> QED
      BY <2>5, <3>1 DEF Claim, LeaveLine
  <2> QED
    BY <1>3, <2>1, <2>2, <2>3, <2>4, <2>5 DEF Loop
<1>4. ASSUME NEW w \in Workers, Process(w) PROVE TypeOK'
  <2>1. CASE Heartbeat(w) \/ NoticeCancellation(w)
    <3>1. CASE Held(w)
      BY <2>1, <3>1 DEF Heartbeat, NoticeCancellation, Held
    <3>2. CASE ~Held(w)
      BY <2>1, <3>2 DEF Heartbeat, NoticeCancellation
    <3> QED
      BY <3>1, <3>2
  <2>2. ASSUME NEW status \in Executing, NEW live \in BOOLEAN, NEW years \in BOOLEAN,
               NEW next \in TaskSteps, WriteProgress(w, status, live, years, next)
        PROVE  TypeOK'
    <3>1. CASE /\ Held(w) /\ Proceed(w, next)
               /\ lease' = [lease EXCEPT ![task[w]] = "LIVE"]
               /\ runStatus' = [runStatus EXCEPT ![task[w]] = status]
               /\ progress' = [progress EXCEPT ![task[w]] = "PARTIAL"]
               /\ snapshot' = [snapshot EXCEPT ![task[w]] = IF live THEN taskAttempt[w] ELSE @]
               /\ milestones' = [milestones EXCEPT ![task[w]] =
                                    IF years THEN @ \cup {taskAttempt[w]} ELSE @]
               /\ UNCHANGED <<jobStatus, claimedBy, attempts, cancelRequested, lineVars,
                              result, apiVars>>
      <4>1. task[w] \in Runs /\ taskAttempt[w] \in 0 .. MaxAttempts
        BY <3>1 DEF Held
      <4>2. /\ snapshot' \in [Runs -> 0 .. MaxAttempts]
            /\ milestones' \in [Runs -> SUBSET (0 .. MaxAttempts)]
        BY <3>1, <4>1
      <4>3. lease' \in [Runs -> {"NONE", "LIVE", "LAPSED"}] /\ runStatus' \in [Runs -> RunStatuses]
        BY <3>1, <4>1
      <4>4. progress' \in [Runs -> {"ZERO", "PARTIAL", "FULL"}]
        BY <3>1, <4>1
      <4> QED
        BY <3>1, <4>2, <4>3, <4>4
    <3>2. CASE LetGo(w) /\ UNCHANGED <<dbVars, apiVars>>
      BY <3>2
    <3>3. CASE Proceed(w, next) /\ UNCHANGED <<dbVars, apiVars>>
      BY <3>3
    <3> QED
      BY ONLY <2>2, <3>1, <3>2, <3>3 DEF WriteProgress
  <2>3. CASE PrepareData(w) \/ StartSimulation(w) \/ StartFinalizing(w)
    <3>1. CASE PrepareData(w)
      BY <2>2, <3>1 DEF PrepareData
    <3>2. CASE StartSimulation(w)
      BY <2>2, <3>2 DEF StartSimulation
    <3>3. CASE StartFinalizing(w)
      BY <2>2, <3>3 DEF StartFinalizing
    <3> QED
      BY <2>3, <3>1, <3>2, <3>3
  <2>4. ASSUME NEW years \in BOOLEAN, Checkpoint(w, years) PROVE TypeOK'
    BY <2>2, <2>4 DEF Checkpoint
  <2>5. CASE Interrupt(w) \/ HitFailure(w) \/ ReadCancelBeforeRelease(w)
    BY <2>5 DEF Interrupt, HitFailure, ReadCancelBeforeRelease
  <2>6. CASE PersistResult(w)
    <3>1. CASE PersistResultTx(w)
      <4>1. task[w] \in Runs /\ taskAttempt[w] \in 0 .. MaxAttempts
        BY <3>1 DEF PersistResultTx, Held
      <4>2. jobStatus' \in [Runs -> JobStatuses] /\ runStatus' \in [Runs -> RunStatuses]
        BY <3>1, <4>1 DEF PersistResultTx
      <4>3. result' \in [Runs -> 0 .. MaxAttempts]
        BY <3>1, <4>1 DEF PersistResultTx
      <4>4. /\ lease' \in [Runs -> {"NONE", "LIVE", "LAPSED"}]
            /\ progress' \in [Runs -> {"ZERO", "PARTIAL", "FULL"}]
        BY <3>1, <4>1 DEF PersistResultTx
      <4>5. UNCHANGED <<claimedBy, attempts, cancelRequested, lineVars, snapshot,
                        milestones, apiVars>>
        BY <3>1 DEF PersistResultTx
      <4>6. LetGo(w) \/ Proceed(w, "FAILING")
        BY ONLY <2>6 DEF PersistResult
      <4>7. CASE LetGo(w)
        BY <4>2, <4>3, <4>4, <4>5, <4>7
      <4>8. CASE Proceed(w, "FAILING")
        BY <4>2, <4>3, <4>4, <4>5, <4>8
      <4> QED
        BY ONLY <4>6, <4>7, <4>8
    <3>2. CASE ~PersistResultTx(w)
      <4>1. (LetGo(w) \/ Proceed(w, "FAILING")) /\ UNCHANGED <<dbVars, apiVars>>
        BY ONLY <2>6, <3>2 DEF PersistResult
      <4>2. CASE LetGo(w)
        BY <4>1, <4>2
      <4>3. CASE Proceed(w, "FAILING")
        BY <4>1, <4>3
      <4> QED
        BY ONLY <4>1, <4>2, <4>3
    <3> QED
      BY <3>1, <3>2
  <2>7. CASE RecordFailure(w) \/ RecordCancellation(w)
    <3>1. CASE RecordFailure(w)
      BY <3>1 DEF RecordFailure, Held
    <3>2. CASE RecordCancellation(w)
      <4>1. CASE /\ Held(w) /\ LetGo(w)
                 /\ jobStatus' = [jobStatus EXCEPT ![task[w]] = "CANCELLED"]
                 /\ claimedBy' = [claimedBy EXCEPT ![task[w]] = NoWorker]
                 /\ lease' = [lease EXCEPT ![task[w]] = "NONE"]
                 /\ runStatus' = [runStatus EXCEPT ![task[w]] =
                                     IF @ \in Terminal THEN @ ELSE "CANCELLED"]
                 /\ snapshot' = [snapshot EXCEPT ![task[w]] = 0]
                 /\ UNCHANGED <<attempts, cancelRequested, lineVars, result, progress,
                                milestones, apiVars>>
        <5>1. task[w] \in Runs
          BY <4>1 DEF Held
        <5>2. jobStatus' \in [Runs -> JobStatuses] /\ runStatus' \in [Runs -> RunStatuses]
          BY <4>1, <5>1
        <5>3. /\ claimedBy' \in [Runs -> Workers \cup {NoWorker}]
              /\ lease' \in [Runs -> {"NONE", "LIVE", "LAPSED"}]
          BY <4>1, <5>1
        <5>4. snapshot' \in [Runs -> 0 .. MaxAttempts]
          BY <4>1, <5>1
        <5> QED
          BY <4>1, <5>2, <5>3, <5>4
      <4>2. CASE LetGo(w) /\ UNCHANGED <<dbVars, apiVars>>
        BY <4>2
      <4> QED
        BY ONLY <3>2, <4>1, <4>2 DEF RecordCancellation
    <3> QED
      BY <2>7, <3>1, <3>2
  <2>8. CASE ReleaseJob(w)
    <3>1. CASE /\ Held(w) /\ LetGo(w)
               /\ jobStatus' = [jobStatus EXCEPT ![task[w]] = "QUEUED"]
               /\ claimedBy' = [claimedBy EXCEPT ![task[w]] = NoWorker]
               /\ lease' = [lease EXCEPT ![task[w]] = "NONE"]
               /\ runStatus' = [runStatus EXCEPT ![task[w]] = Released(@)]
               /\ progress' = [progress EXCEPT ![task[w]] = "ZERO"]
               /\ snapshot' = [snapshot EXCEPT ![task[w]] = 0]
               /\ milestones' = [milestones EXCEPT ![task[w]] = {}]
               /\ JoinLine(task[w])
               /\ UNCHANGED <<attempts, cancelRequested, result, apiVars>>
      <4>1. task[w] \in Runs
        BY <3>1 DEF Held
      <4>2. jobStatus' \in [Runs -> JobStatuses] /\ runStatus' \in [Runs -> RunStatuses]
        BY <3>1, <4>1 DEF Released
      <4>3. /\ claimedBy' \in [Runs -> Workers \cup {NoWorker}]
            /\ lease' \in [Runs -> {"NONE", "LIVE", "LAPSED"}]
            /\ progress' \in [Runs -> {"ZERO", "PARTIAL", "FULL"}]
        BY <3>1, <4>1
      <4>4. /\ snapshot' \in [Runs -> 0 .. MaxAttempts]
            /\ milestones' \in [Runs -> SUBSET (0 .. MaxAttempts)]
        BY <3>1, <4>1
      <4>5. available' \in SUBSET Runs /\ ahead' \in [Runs -> SUBSET Runs]
        BY <3>1, <4>1 DEF JoinLine
      <4> QED
        BY <3>1, <4>2, <4>3, <4>4, <4>5
    <3>2. CASE LetGo(w) /\ UNCHANGED <<dbVars, apiVars>>
      BY <3>2
    <3> QED
      BY ONLY <2>8, <3>1, <3>2 DEF ReleaseJob
  <2> QED
    BY ONLY <1>4, <2>1, <2>3, <2>4, <2>5, <2>6, <2>7, <2>8 DEF Process
<1>5. ASSUME NEW w \in Workers, Supervise(w) PROVE TypeOK'
  <2>1. CASE AskToStop(w)
    BY <2>1 DEF AskToStop
  <2>2. CASE Exit(w) \/ Restart(w)
    BY <2>2 DEF Exit, Restart
  <2>3. CASE Crash(w)
    BY <2>3 DEF Crash
  <2> QED
    BY <1>5, <2>1, <2>2, <2>3 DEF Supervise
<1>6. CASE UNCHANGED vars
  BY <1>6 DEF vars
<1> QED
  BY <1>1, <1>2, <1>3, <1>4, <1>5, <1>6 DEF Next

\* Every variable keeps its type: in particular no run is ever given more
\* attempts than maxAttempts, whichever worker claims it.
THEOREM TypeCorrect == Spec => []TypeOK
<1>1. Init => TypeOK
  BY QueueAssumption DEF Init, TypeOK, JobStatuses, RunStatuses, Executing,
     Terminal, Steps, LoopSteps, TaskSteps
<1> QED
  BY <1>1, TypeStep, PTL DEF Spec

-----------------------------------------------------------------------------
(* The inductive invariant, run by run and worker by worker *)

RunOK(r) ==
  /\ \/ jobStatus[r] = "CLAIMED" /\ runStatus[r] \in Executing
     \/ jobStatus[r] # "CLAIMED" /\ runStatus[r] = jobStatus[r]
  /\ snapshot[r] \in {0, attempts[r]}
  /\ milestones[r] \subseteq {attempts[r]}
  /\ result[r] \in {0, attempts[r]}
  /\ (runStatus[r] = "COMPLETED") <=> (result[r] # 0)
  /\ (runStatus[r] = "COMPLETED") <=> (progress[r] = "FULL")
  /\ runStatus[r] = "QUEUED" =>
       /\ r \notin cancelRequested
       /\ progress[r] = "ZERO" /\ snapshot[r] = 0 /\ milestones[r] = {}
  /\ runStatus[r] = "CANCELLED" => snapshot[r] = 0
  /\ r \in submitting => jobStatus[r] = "NONE"
  /\ jobStatus[r] = "NONE" =>
       /\ attempts[r] = 0 /\ r \notin cancelRequested
       /\ progress[r] = "ZERO" /\ snapshot[r] = 0 /\ milestones[r] = {}
  /\ jobStatus[r] = "CLAIMED" => attempts[r] > 0

HandOK(w) == Held(w) => taskAttempt[w] = attempts[task[w]]

\* The invariant is its three parts: every run's, every worker's, and the types.
LEMMA InvParts ==
  QueueInv <=> TypeOK /\ (\A r \in Runs : RunOK(r)) /\ (\A w \in Workers : HandOK(w))
  BY DEF QueueInv, RunOK, HandOK, JobMatchesRun, AttemptsNeverMix,
         CompleteMeansResult, WaitingIsClean

\* A step that leaves a run's rows alone, and submits nothing new of it, keeps
\* what holds of the run.
LEMMA RunFrame ==
  ASSUME NEW q \in Runs, RunOK(q),
         jobStatus'[q] = jobStatus[q], runStatus'[q] = runStatus[q],
         attempts'[q] = attempts[q], result'[q] = result[q],
         progress'[q] = progress[q], snapshot'[q] = snapshot[q],
         milestones'[q] = milestones[q],
         q \in cancelRequested' <=> q \in cancelRequested,
         q \in submitting' => q \in submitting
  PROVE  RunOK(q)'
  BY DEF RunOK

\* No transaction breaks what holds of a run.
LEMMA RunStep ==
  ASSUME QueueInv, [Next]_vars, NEW q \in Runs PROVE RunOK(q)'
<1> USE InvParts, QueueAssumption
<1> USE DEF dbVars, jobVars, lineVars, runVars, progressVars, apiVars
<1>0. TypeOK /\ RunOK(q)
  OBVIOUS
<1>1. ASSUME NEW r \in Runs, Api(r) PROVE RunOK(q)'
  <2>1. CASE AdmitSubmission(r)
    BY <1>0, <2>1 DEF AdmitSubmission, RunOK
  <2>2. CASE CommitSubmission(r)
    BY <1>0, <2>2 DEF CommitSubmission, RunOK, TypeOK, Executing
  <2>3. CASE AbortSubmission(r)
    BY <1>0, <2>3 DEF AbortSubmission, RunOK
  <2>4. CASE CancelQueued(r)
    BY <1>0, <2>4 DEF CancelQueued, RunOK, TypeOK, Executing, Terminal
  <2>5. CASE RequestCancel(r)
    BY <1>0, <2>5 DEF RequestCancel, RunOK, TypeOK, Executing, Terminal
  <2> QED
    BY <1>1, <2>1, <2>2, <2>3, <2>4, <2>5 DEF Api
<1>2. ASSUME NEW r \in Runs, Time(r) PROVE RunOK(q)'
  BY <1>0, <1>2, RunFrame DEF Time, LapseLease, EndBackoff
<1>3. ASSUME NEW u \in Users, NEW n \in Plans, ChangePlan(u, n) PROVE RunOK(q)'
  BY <1>0, <1>3, RunFrame DEF ChangePlan
<1>4. ASSUME NEW w \in Workers, Loop(w) PROVE RunOK(q)'
  <2> USE DEF Assign
  <2>1. CASE RecoverCancelled(w)
    BY <1>0, <2>1 DEF RecoverCancelled, CancelledStale, Stale, RunOK, TypeOK,
                      Executing, Terminal
  <2>2. CASE RequeueStale(w)
    BY <1>0, <2>2 DEF RequeueStale, Requeueable, Stale, RunOK, TypeOK,
                      Executing, Terminal
  <2>3. CASE AbandonExhausted(w)
    BY <1>0, <2>3 DEF AbandonExhausted, Exhausted, Stale, RunOK, TypeOK,
                      Executing, Terminal
  <2>4. CASE SkipRecovery(w) \/ ClaimNothing(w)
    BY <1>0, <2>4, RunFrame DEF SkipRecovery, ClaimNothing
  <2>5. ASSUME NEW r \in Runs, NEW held \in SUBSET Users,
               NEW busy \in SUBSET Candidates, Claim(w, r, held, busy)
        PROVE  RunOK(q)'
    BY <1>0, <2>5 DEF Claim, Selected, Candidates, RunOK, TypeOK, Executing
  <2> QED
    BY <1>4, <2>1, <2>2, <2>3, <2>4, <2>5 DEF Loop
<1>5. ASSUME NEW w \in Workers, Process(w) PROVE RunOK(q)'
  <2>1. CASE Heartbeat(w) \/ NoticeCancellation(w)
    BY <1>0, <2>1, RunFrame DEF Heartbeat, NoticeCancellation
  <2>2. ASSUME NEW status \in Executing, NEW live \in BOOLEAN, NEW years \in BOOLEAN,
               NEW next \in TaskSteps, WriteProgress(w, status, live, years, next)
        PROVE  RunOK(q)'
    <3>1. CASE UNCHANGED <<dbVars, apiVars>>
      BY <1>0, <3>1, RunFrame
    <3>2. CASE /\ Held(w)
               /\ runStatus' = [runStatus EXCEPT ![task[w]] = status]
               /\ progress' = [progress EXCEPT ![task[w]] = "PARTIAL"]
               /\ snapshot' = [snapshot EXCEPT ![task[w]] = IF live THEN taskAttempt[w] ELSE @]
               /\ milestones' = [milestones EXCEPT ![task[w]] =
                                    IF years THEN @ \cup {taskAttempt[w]} ELSE @]
               /\ UNCHANGED <<jobStatus, attempts, cancelRequested, result, apiVars>>
      <4>1. CASE q # task[w]
        BY <1>0, <3>2, <4>1, RunFrame DEF TypeOK
      <4>2. CASE q = task[w]
        <5>1. jobStatus[q] = "CLAIMED" /\ taskAttempt[w] = attempts[q]
          BY <3>2, <4>2 DEF Held, HandOK
        <5> QED
          BY <1>0, <3>2, <4>2, <5>1 DEF RunOK, TypeOK, Executing
      <4> QED
        BY <4>1, <4>2
    <3> QED
      BY <2>2, <3>1, <3>2 DEF WriteProgress
  <2>3. CASE PrepareData(w) \/ StartSimulation(w) \/ StartFinalizing(w)
    BY <2>2, <2>3 DEF PrepareData, StartSimulation, StartFinalizing, Executing, TaskSteps
  <2>4. ASSUME NEW years \in BOOLEAN, Checkpoint(w, years) PROVE RunOK(q)'
    BY <2>2, <2>4 DEF Checkpoint, Executing, TaskSteps
  <2>5. CASE UNCHANGED <<dbVars, apiVars>>
    BY <1>0, <2>5, RunFrame
  <2>6. CASE PersistResultTx(w)
    <3>1. CASE q # task[w]
      BY <1>0, <2>6, <3>1, RunFrame DEF PersistResultTx, TypeOK
    <3>2. CASE q = task[w]
      <4>1. jobStatus[q] = "CLAIMED" /\ taskAttempt[w] = attempts[q]
        BY <2>6, <3>2 DEF PersistResultTx, Held, HandOK
      <4> QED
        BY <1>0, <2>6, <3>2, <4>1 DEF PersistResultTx, RunOK, TypeOK, Executing
    <3> QED
      BY <3>1, <3>2
  <2>7. CASE RecordFailure(w) /\ ~UNCHANGED <<dbVars, apiVars>>
    BY <1>0, <2>7 DEF RecordFailure, Held, RunOK, TypeOK, Executing
  <2>8. CASE RecordCancellation(w) /\ ~UNCHANGED <<dbVars, apiVars>>
    BY <1>0, <2>8 DEF RecordCancellation, Held, RunOK, TypeOK, Executing, Terminal
  <2>9. CASE ReleaseJob(w) /\ ~UNCHANGED <<dbVars, apiVars>>
    BY <1>0, <2>9 DEF ReleaseJob, Released, Held, RunOK, TypeOK, Executing
  <2> QED
    BY <1>5, <2>1, <2>3, <2>4, <2>5, <2>6, <2>7, <2>8, <2>9
       DEF Process, Interrupt, HitFailure, PersistResult, ReadCancelBeforeRelease
<1>6. ASSUME NEW w \in Workers, Supervise(w) PROVE RunOK(q)'
  BY <1>0, <1>6, RunFrame DEF Supervise, AskToStop, Exit, Crash, Restart
<1>7. CASE UNCHANGED vars
  BY <1>0, <1>7, RunFrame DEF vars
<1> QED
  BY <1>1, <1>2, <1>3, <1>4, <1>5, <1>6, <1>7 DEF Next

\* Whoever holds a claim still holds the job's latest attempt after any step:
\* attempts move only with the claim, and a claim displaces the one before it.
LEMMA HandStep ==
  ASSUME QueueInv, [Next]_vars, NEW v \in Workers PROVE HandOK(v)'
<1> USE InvParts, QueueAssumption
<1> USE DEF dbVars, jobVars, lineVars, runVars, progressVars, apiVars, claimVars,
            workerVars
<1>0. TypeOK /\ HandOK(v) /\ NoRun \notin Runs
  OBVIOUS
<1>a. ASSUME attempts' = attempts, Held(v)' => Held(v), Held(v)' => task'[v] = task[v],
             Held(v)' => taskAttempt'[v] = taskAttempt[v]
      PROVE  HandOK(v)'
  BY <1>0, <1>a DEF HandOK
<1>b. ASSUME UNCHANGED <<jobStatus, claimedBy, attempts, task, taskAttempt>>
      PROVE  HandOK(v)'
  BY <1>0, <1>b DEF HandOK, Held
<1>1. ASSUME NEW r \in Runs, Api(r) PROVE HandOK(v)'
  <2>1. CASE CommitSubmission(r) \/ CancelQueued(r)
    <3>1. Held(v)' => Held(v)
      BY <1>0, <2>1 DEF CommitSubmission, CancelQueued, Held, TypeOK
    <3> QED
      BY <1>a, <2>1, <3>1 DEF CommitSubmission, CancelQueued
  <2> QED
    BY <1>1, <1>b, <2>1 DEF Api, AdmitSubmission, AbortSubmission, RequestCancel
<1>2. ASSUME NEW r \in Runs, Time(r) PROVE HandOK(v)'
  BY <1>2, <1>b DEF Time, LapseLease, EndBackoff
<1>3. ASSUME NEW u \in Users, NEW n \in Plans, ChangePlan(u, n) PROVE HandOK(v)'
  BY <1>3, <1>b DEF ChangePlan
<1>4. ASSUME NEW w \in Workers, Loop(w) PROVE HandOK(v)'
  <2>1. CASE RecoverCancelled(w) \/ RequeueStale(w) \/ AbandonExhausted(w)
    <3>1. Held(v)' => Held(v)
      BY <1>0, <2>1 DEF RecoverCancelled, RequeueStale, AbandonExhausted, Assign, Held, TypeOK
    <3> QED
      BY <1>a, <2>1, <3>1 DEF RecoverCancelled, RequeueStale, AbandonExhausted
  <2>2. CASE SkipRecovery(w) \/ ClaimNothing(w)
    BY <1>b, <2>2 DEF SkipRecovery, ClaimNothing
  <2>3. ASSUME NEW r \in Runs, NEW held \in SUBSET Users,
               NEW busy \in SUBSET Candidates, Claim(w, r, held, busy)
        PROVE  HandOK(v)'
    <3>1. CASE v = w
      BY <1>0, <2>3, <3>1 DEF Claim, HandOK, TypeOK
    <3>2. CASE v # w
      <4>1. task'[v] = task[v] /\ taskAttempt'[v] = taskAttempt[v]
        BY <1>0, <2>3, <3>2 DEF Claim, TypeOK
      <4>2. Held(v)' => task[v] # r
        BY <1>0, <2>3, <3>2, <4>1 DEF Claim, Held, TypeOK
      <4>3. Held(v)' => Held(v) /\ attempts'[task[v]] = attempts[task[v]]
        BY <1>0, <2>3, <4>1, <4>2 DEF Claim, Held, TypeOK
      <4> QED
        BY <1>0, <4>1, <4>3 DEF HandOK
    <3> QED
      BY <3>1, <3>2
  <2> QED
    BY <1>4, <2>1, <2>2, <2>3 DEF Loop
<1>5. ASSUME NEW w \in Workers, Process(w) PROVE HandOK(v)'
  <2>1. ASSUME LetGo(w) \/ UNCHANGED <<task, taskAttempt>>, attempts' = attempts,
               \A r \in Runs : jobStatus'[r] = "CLAIMED" =>
                 jobStatus[r] = "CLAIMED" /\ claimedBy'[r] = claimedBy[r]
        PROVE  HandOK(v)'
    <3>1. Held(v)' => task'[v] = task[v] /\ taskAttempt'[v] = taskAttempt[v]
      BY <1>0, <2>1 DEF LetGo, Held, TypeOK
    <3>2. Held(v)' => Held(v)
      BY <2>1, <3>1 DEF Held
    <3> QED
      BY <1>a, <2>1, <3>1, <3>2
  <2>2. CASE Heartbeat(w) \/ NoticeCancellation(w)
    BY <1>b, <2>2 DEF Heartbeat, NoticeCancellation
  <2>3. ASSUME NEW status, NEW live, NEW years, NEW next,
               WriteProgress(w, status, live, years, next)
        PROVE  HandOK(v)'
    <3>1. UNCHANGED <<jobStatus, claimedBy, attempts>>
      BY <2>3 DEF WriteProgress
    <3>2. LetGo(w) \/ UNCHANGED <<task, taskAttempt>>
      BY <2>3 DEF WriteProgress, Proceed
    <3> QED
      BY <2>1, <3>1, <3>2
  <2>4. CASE PrepareData(w) \/ StartSimulation(w) \/ StartFinalizing(w)
             \/ \E years \in BOOLEAN : Checkpoint(w, years)
    BY <2>3, <2>4 DEF PrepareData, StartSimulation, StartFinalizing, Checkpoint
  <2>5. CASE Interrupt(w) \/ HitFailure(w) \/ ReadCancelBeforeRelease(w)
    BY <2>1, <2>5 DEF Interrupt, HitFailure, ReadCancelBeforeRelease, Proceed
  <2>6. CASE PersistResult(w)
    <3>1. LetGo(w) \/ UNCHANGED <<task, taskAttempt>>
      BY <2>6 DEF PersistResult, Proceed
    <3>2. attempts' = attempts /\ claimedBy' = claimedBy
      BY <2>6 DEF PersistResult, PersistResultTx
    <3>3. \A r \in Runs : jobStatus'[r] = "CLAIMED" => jobStatus[r] = "CLAIMED"
      BY <1>0, <2>6 DEF PersistResult, PersistResultTx, TypeOK
    <3> QED
      BY <2>1, <3>1, <3>2, <3>3
  <2>7. CASE RecordFailure(w)
    BY <1>0, <2>1, <2>7 DEF RecordFailure, TypeOK
  <2>8. CASE RecordCancellation(w)
    BY <1>0, <2>1, <2>8 DEF RecordCancellation, TypeOK
  <2>9. CASE ReleaseJob(w)
    BY <1>0, <2>1, <2>9 DEF ReleaseJob, TypeOK
  <2> QED
    BY <1>5, <2>2, <2>4, <2>5, <2>6, <2>7, <2>8, <2>9 DEF Process
<1>6. ASSUME NEW w \in Workers, Supervise(w) PROVE HandOK(v)'
  <2>1. CASE AskToStop(w) \/ Exit(w) \/ Restart(w)
    BY <1>b, <2>1 DEF AskToStop, Exit, Restart
  <2>2. CASE Crash(w)
    <3>1. Held(v)' => Held(v) /\ task'[v] = task[v] /\ taskAttempt'[v] = taskAttempt[v]
      BY <1>0, <2>2 DEF Crash, Held, TypeOK
    <3> QED
      BY <1>a, <2>2, <3>1 DEF Crash
  <2> QED
    BY <1>6, <2>1, <2>2 DEF Supervise
<1>7. CASE UNCHANGED vars
  BY <1>7, <1>b DEF vars
<1> QED
  BY <1>1, <1>2, <1>3, <1>4, <1>5, <1>6, <1>7 DEF Next

\* The tables agree in every reachable state, whatever crashes, lapses, lost
\* races and failed writes the workers meet: recoverStaleJobs, claimNextJob and
\* the claim-guarded writes of job-repository.ts keep QueueInv.
THEOREM QueueInvariant == Spec => []QueueInv
<1>1. Init => QueueInv
  <2>1. Init => TypeOK
    BY QueueAssumption DEF Init, TypeOK, JobStatuses, RunStatuses, Executing,
       Terminal, Steps, LoopSteps, TaskSteps
  <2>2. Init => \A r \in Runs : RunOK(r)
    BY DEF Init, RunOK
  <2>3. Init => \A w \in Workers : HandOK(w)
    BY QueueAssumption DEF Init, HandOK, Held
  <2> QED
    BY <2>1, <2>2, <2>3, InvParts
<1>2. QueueInv /\ [Next]_vars => QueueInv'
  <2> SUFFICES ASSUME QueueInv, [Next]_vars PROVE QueueInv'
    OBVIOUS
  <2>1. TypeOK'
    BY InvParts, TypeStep
  <2>2. \A q \in Runs : RunOK(q)'
    BY RunStep
  <2>3. \A v \in Workers : HandOK(v)'
    BY HandStep
  <2>4. (TypeOK /\ (\A r \in Runs : RunOK(r)) /\ (\A w \in Workers : HandOK(w)))'
        => QueueInv'
    BY DEF QueueInv, RunOK, HandOK, JobMatchesRun, AttemptsNeverMix,
           CompleteMeansResult, WaitingIsClean
  <2> QED
    BY <2>1, <2>2, <2>3, <2>4
<1> QED
  BY <1>1, <1>2, PTL DEF Spec

\* The job and the run of one backtest agree after every statement of the API
\* and of the workers, crashed and displaced ones included.
COROLLARY TablesAgree == Spec => []JobMatchesRun
<1>1. QueueInv => JobMatchesRun
  BY DEF QueueInv
<1> QED
  BY <1>1, QueueInvariant, PTL

\* A result is stored exactly for the runs that persistResult completed.
COROLLARY CompletedHasResult == Spec => []CompleteMeansResult
<1>1. QueueInv => CompleteMeansResult
  BY DEF QueueInv
<1> QED
  BY <1>1, QueueInvariant, PTL

\* A run that is waiting, released and requeued ones included, shows nothing of
\* an attempt that died.
COROLLARY WaitingStaysClean == Spec => []WaitingIsClean
<1>1. QueueInv => WaitingIsClean
  BY DEF QueueInv
<1> QED
  BY <1>1, QueueInvariant, PTL

\* A displaced worker's checkpoints, milestones and result never reach the rows
\* of a later attempt, although claimHeld does not look at the lease.
COROLLARY AttemptsApart == Spec => []AttemptsNeverMix
<1>1. QueueInv => AttemptsNeverMix
  BY DEF QueueInv
<1> QED
  BY <1>1, QueueInvariant, PTL

-----------------------------------------------------------------------------
(* What no step may do *)

\* Every write a worker makes is to a run that is executing.
LEMMA HeldExecutes ==
  ASSUME QueueInv, NEW w \in Workers, Held(w)
  PROVE  task[w] \in Runs /\ runStatus[task[w]] \in Executing
  BY DEF QueueInv, JobMatchesRun, Held

\* No step touches what a run that ended shows.
LEMMA EndedStep ==
  ASSUME QueueInv, [Next]_vars, NEW r \in Runs, runStatus[r] \in Terminal
  PROVE  /\ runStatus'[r] = runStatus[r] /\ result'[r] = result[r]
         /\ snapshot'[r] = snapshot[r] /\ milestones'[r] = milestones[r]
<1> DEFINE Kept == /\ runStatus'[r] = runStatus[r] /\ result'[r] = result[r]
                   /\ snapshot'[r] = snapshot[r] /\ milestones'[r] = milestones[r]
<1> SUFFICES Kept
  OBVIOUS
<1> USE DEF dbVars, jobVars, lineVars, runVars, progressVars, apiVars
<1>0. /\ TypeOK /\ runStatus[r] \notin Executing
      /\ jobStatus[r] = runStatus[r]
      /\ \A q \in Runs : q \in submitting => jobStatus[q] = "NONE"
  BY DEF QueueInv, JobMatchesRun, Executing, Terminal
<1>1. ASSUME NEW q \in Runs, Api(q) \/ Time(q) PROVE Kept
  <2>1. CASE CommitSubmission(q)
    BY <1>0, <2>1 DEF CommitSubmission, Terminal, TypeOK
  <2>2. CASE CancelQueued(q)
    BY <1>0, <2>2 DEF CancelQueued, Terminal, TypeOK
  <2> QED
    BY <1>1, <2>1, <2>2 DEF Api, Time, AdmitSubmission, AbortSubmission,
                            RequestCancel, LapseLease, EndBackoff
<1>2. ASSUME NEW u \in Users, NEW n \in Plans, ChangePlan(u, n) PROVE Kept
  BY <1>2 DEF ChangePlan
<1>3. ASSUME NEW w \in Workers, Loop(w) PROVE Kept
  <2>1. CASE RecoverCancelled(w)
    BY <1>0, <2>1 DEF RecoverCancelled, CancelledStale, Stale, Assign, TypeOK
  <2>2. CASE RequeueStale(w)
    BY <1>0, <2>2 DEF RequeueStale, Requeueable, Stale, Assign, TypeOK
  <2>3. CASE AbandonExhausted(w)
    BY <1>0, <2>3 DEF AbandonExhausted, Exhausted, Assign, TypeOK
  <2>4. ASSUME NEW q \in Runs, NEW held \in SUBSET Users,
               NEW busy \in SUBSET Candidates, Claim(w, q, held, busy)
        PROVE  Kept
    BY <1>0, <2>4 DEF Claim, Selected, Candidates, Terminal, TypeOK
  <2> QED
    BY <1>3, <2>1, <2>2, <2>3, <2>4 DEF Loop, SkipRecovery, ClaimNothing
<1>4. ASSUME NEW w \in Workers, Process(w) PROVE Kept
  <2>1. CASE UNCHANGED <<dbVars, apiVars>>
    BY <2>1
  <2>2. CASE Held(w) /\ task[w] # r
    <3>1. ASSUME NEW status, NEW live, NEW years, NEW next,
                 WriteProgress(w, status, live, years, next)
          PROVE  Kept
      BY <1>0, <2>2, <3>1 DEF WriteProgress, TypeOK
    <3>2. CASE PersistResult(w) \/ RecordFailure(w) \/ RecordCancellation(w)
               \/ ReleaseJob(w)
      BY <1>0, <2>2, <3>2 DEF PersistResult, PersistResultTx, RecordFailure,
         RecordCancellation, ReleaseJob, TypeOK
    <3> QED
      BY <1>4, <3>1, <3>2 DEF Process, Heartbeat, NoticeCancellation, PrepareData,
         StartSimulation, Checkpoint, StartFinalizing, Interrupt, HitFailure,
         ReadCancelBeforeRelease
  <2>3. CASE ~Held(w)
    BY <1>4, <2>3 DEF Process, Heartbeat, NoticeCancellation, PrepareData,
       StartSimulation, Checkpoint, StartFinalizing, Interrupt, HitFailure,
       ReadCancelBeforeRelease, WriteProgress, PersistResult, PersistResultTx,
       RecordFailure, RecordCancellation, ReleaseJob
  <2> QED
    BY <1>0, <2>2, <2>3, HeldExecutes
<1>5. ASSUME NEW w \in Workers, Supervise(w) PROVE Kept
  BY <1>5 DEF Supervise, AskToStop, Exit, Crash, Restart
<1> QED
  BY <1>1, <1>2, <1>3, <1>4, <1>5 DEF Next, vars

\* A run that ended is never reopened, and nobody writes over what it shows.
THEOREM EndedStaysEnded == Spec => EndedIsFinal
<1> DEFINE Final == \A r \in Runs : runStatus[r] \in Terminal =>
                      /\ runStatus'[r] = runStatus[r]
                      /\ result'[r] = result[r]
                      /\ snapshot'[r] = snapshot[r]
                      /\ milestones'[r] = milestones[r]
<1>1. ASSUME QueueInv, [Next]_vars PROVE Final
  BY <1>1, EndedStep
<1>2. QueueInv /\ [Next]_vars => [Final]_vars
  BY <1>1
<1>3. [][QueueInv /\ [Next]_vars]_vars => [][Final]_vars
  BY <1>2, PTL
<1>4. [][Final]_vars => EndedIsFinal
  BY PTL DEF EndedIsFinal
<1> QED
  BY <1>3, <1>4, QueueInvariant, PTL DEF Spec

\* Once cancelRequestedAt is set no claim, retry or release starts the run anew:
\* neither claimNextJob nor the sweep nor releaseJob overlooks the request.
THEOREM CancelledNeverRestarts == Spec => NoAttemptAfterCancel
<1> DEFINE Left == \A r \in cancelRequested : attempts'[r] = attempts[r]
                                              /\ runStatus'[r] # "QUEUED"
<1>1. ASSUME QueueInv, [Next]_vars PROVE Left
  <2> USE DEF dbVars, jobVars, lineVars, runVars, progressVars, apiVars
  <2>1. cancelRequested \subseteq Runs /\ attempts \in [Runs -> 0 .. MaxAttempts]
    BY <1>1 DEF QueueInv, TypeOK
  <2>2. cancelRequested \subseteq cancelRequested'
    <3>1. ASSUME NEW r \in Runs, Api(r) PROVE cancelRequested \subseteq cancelRequested'
      BY <3>1 DEF Api, AdmitSubmission, CommitSubmission, AbortSubmission,
                  CancelQueued, RequestCancel
    <3>2. ASSUME NEW w \in Workers, Loop(w) PROVE cancelRequested' = cancelRequested
      BY <3>2 DEF Loop, RecoverCancelled, RequeueStale, AbandonExhausted,
                  SkipRecovery, Claim, ClaimNothing
    <3>3. ASSUME NEW w \in Workers, Process(w) PROVE cancelRequested' = cancelRequested
      BY <3>3 DEF Process, Heartbeat, NoticeCancellation, PrepareData,
         StartSimulation, Checkpoint, StartFinalizing, WriteProgress, Interrupt,
         HitFailure, PersistResult, PersistResultTx, RecordFailure,
         RecordCancellation, ReadCancelBeforeRelease, ReleaseJob
    <3> QED
      BY <1>1, <3>1, <3>2, <3>3 DEF Next, vars, Time, LapseLease, EndBackoff,
         ChangePlan, Supervise, AskToStop, Exit, Crash, Restart
  <2>3. \A r \in cancelRequested : attempts'[r] = attempts[r]
    <3>1. ASSUME NEW r \in Runs, Api(r) PROVE attempts' = attempts
      BY <3>1 DEF Api, AdmitSubmission, CommitSubmission, AbortSubmission,
                  CancelQueued, RequestCancel
    <3>2. ASSUME NEW w \in Workers, Loop(w)
          PROVE \A r \in cancelRequested : attempts'[r] = attempts[r]
      <4>1. ASSUME NEW r \in Runs, NEW held \in SUBSET Users,
                   NEW busy \in SUBSET Candidates, Claim(w, r, held, busy)
            PROVE \A q \in cancelRequested : attempts'[q] = attempts[q]
        BY <2>1, <4>1 DEF Claim, Selected, Candidates
      <4>2. CASE RecoverCancelled(w) \/ RequeueStale(w) \/ AbandonExhausted(w)
                 \/ SkipRecovery(w) \/ ClaimNothing(w)
        BY <4>2 DEF RecoverCancelled, RequeueStale, AbandonExhausted,
                    SkipRecovery, ClaimNothing
      <4> QED
        BY <3>2, <4>1, <4>2 DEF Loop
    <3>3. ASSUME NEW w \in Workers, Process(w) PROVE attempts' = attempts
      BY <3>3 DEF Process, Heartbeat, NoticeCancellation, PrepareData,
         StartSimulation, Checkpoint, StartFinalizing, WriteProgress, Interrupt,
         HitFailure, PersistResult, PersistResultTx, RecordFailure,
         RecordCancellation, ReadCancelBeforeRelease, ReleaseJob
    <3> QED
      BY <1>1, <3>1, <3>2, <3>3 DEF Next, vars, Time, LapseLease, EndBackoff,
         ChangePlan, Supervise, AskToStop, Exit, Crash, Restart
  <2>4. \A r \in Runs : RunOK(r)'
    BY <1>1, RunStep
  <2>5. \A r \in cancelRequested : runStatus'[r] # "QUEUED"
    BY <2>1, <2>2, <2>4 DEF RunOK
  <2> QED
    BY <2>3, <2>5
<1>2. QueueInv /\ [Next]_vars => [Left]_vars
  BY <1>1
<1>3. [][QueueInv /\ [Next]_vars]_vars => [][Left]_vars
  BY <1>2, PTL
<1>4. [][Left]_vars => NoAttemptAfterCancel
  BY PTL DEF NoAttemptAfterCancel
<1> QED
  BY <1>3, <1>4, QueueInvariant, PTL DEF Spec

\* A claim with a live lease is ended by the process that holds it, and by nobody
\* else: recoverStaleJobs and claimNextJob take other rows, and the writes of a
\* displaced worker match none.
LEMMA LiveStays ==
  ASSUME QueueInv, [Next]_vars, NEW r \in LiveClaims
  PROVE  \/ /\ jobStatus'[r] = "CLAIMED" /\ claimedBy'[r] = claimedBy[r]
            /\ attempts'[r] = attempts[r]
         \/ EndsItsClaim(claimedBy[r], r)
<1> DEFINE Stays == /\ jobStatus'[r] = "CLAIMED" /\ claimedBy'[r] = claimedBy[r]
                    /\ attempts'[r] = attempts[r]
           Ends == EndsItsClaim(claimedBy[r], r)
<1> SUFFICES Stays \/ Ends
  OBVIOUS
<1> USE DEF dbVars, jobVars
<1>0. /\ TypeOK /\ r \in Runs /\ jobStatus[r] = "CLAIMED" /\ lease[r] = "LIVE"
      /\ runStatus[r] \in Executing /\ r \notin submitting
      /\ \A w \in Workers : Held(w) => taskAttempt[w] = attempts[task[w]]
  BY DEF LiveClaims, QueueInv, JobMatchesRun
<1>1. ASSUME NEW q \in Runs, Api(q) \/ Time(q) PROVE Stays
  BY <1>0, <1>1 DEF Api, AdmitSubmission, CommitSubmission, AbortSubmission,
     CancelQueued, RequestCancel, Time, LapseLease, EndBackoff, TypeOK
<1>2. ASSUME NEW w \in Workers, Loop(w) PROVE Stays
  <2>1. r \notin CancelledStale \cup Requeueable \cup Exhausted \cup Candidates
    BY <1>0 DEF CancelledStale, Requeueable, Exhausted, Stale, Candidates
  <2>2. ASSUME NEW q \in Runs, NEW held \in SUBSET Users,
               NEW busy \in SUBSET Candidates, Claim(w, q, held, busy)
        PROVE  Stays
    BY <1>0, <2>1, <2>2 DEF Claim, Selected, TypeOK
  <2> QED
    BY <1>0, <1>2, <2>1, <2>2 DEF Loop, RecoverCancelled, RequeueStale,
       AbandonExhausted, SkipRecovery, ClaimNothing, Assign, TypeOK
<1>3. ASSUME NEW w \in Workers, Process(w) PROVE Stays \/ Ends
  <2>1. ASSUME Held(w), task[w] = r, pc[w] \in TaskSteps, pc'[w] # pc[w] PROVE Ends
    BY <1>0, <2>1 DEF EndsItsClaim, Held
  <2>2. ASSUME UNCHANGED <<jobStatus, claimedBy, attempts>> PROVE Stays
    BY <1>0, <2>2
  <2> HIDE DEF Ends
  <2>3. ASSUME NEW status, NEW live, NEW years, NEW next,
               WriteProgress(w, status, live, years, next)
        PROVE  Stays
    BY <2>2, <2>3 DEF WriteProgress
  <2>4. CASE PersistResult(w)
    <3>1. CASE PersistResultTx(w) /\ task[w] = r
      <4>1. pc[w] = "FINALIZING" /\ pc'[w] \in {"RECOVER", "FAILING"}
        BY <1>0, <2>4 DEF PersistResult, LetGo, Proceed, TypeOK
      <4> QED
        BY <2>1, <3>1, <4>1 DEF PersistResultTx, TaskSteps
    <3>2. CASE PersistResultTx(w) /\ task[w] # r
      BY <1>0, <3>2 DEF PersistResultTx, TypeOK
    <3>3. CASE ~PersistResultTx(w)
      BY <2>2, <2>4, <3>3 DEF PersistResult
    <3> QED
      BY <3>1, <3>2, <3>3
  <2>5. CASE RecordFailure(w) \/ RecordCancellation(w) \/ ReleaseJob(w)
    <3>1. CASE UNCHANGED dbVars
      BY <2>2, <3>1
    <3>2. CASE Held(w) /\ task[w] # r
      BY <1>0, <2>5, <3>2 DEF RecordFailure, RecordCancellation, ReleaseJob, TypeOK
    <3>3. CASE Held(w) /\ task[w] = r
      <4>1. pc[w] \in TaskSteps /\ pc'[w] = "RECOVER" /\ pc'[w] # pc[w]
        BY <1>0, <2>5 DEF RecordFailure, RecordCancellation, ReleaseJob, LetGo,
                          TaskSteps, TypeOK
      <4> QED
        BY <2>1, <3>3, <4>1
    <3> QED
      BY <2>5, <3>1, <3>2, <3>3 DEF RecordFailure, RecordCancellation, ReleaseJob
  <2> QED
    BY <1>3, <2>2, <2>3, <2>4, <2>5 DEF Process, Heartbeat, NoticeCancellation,
       PrepareData, StartSimulation, Checkpoint, StartFinalizing, Interrupt, HitFailure,
       ReadCancelBeforeRelease
<1> QED
  BY <1>0, <1>1, <1>2, <1>3 DEF Next, vars, ChangePlan, Supervise, AskToStop, Exit,
                                Crash, Restart

\* Whatever stalls, crashes and displacements happened before, a worker loses a
\* claim whose lease is live to nobody but itself.
THEOREM LiveClaimsAreSafe == Spec => LiveClaimsLeftAlone
<1> DEFINE Left == \A r \in LiveClaims :
                     \/ /\ jobStatus'[r] = "CLAIMED" /\ claimedBy'[r] = claimedBy[r]
                        /\ attempts'[r] = attempts[r]
                     \/ EndsItsClaim(claimedBy[r], r)
<1>1. ASSUME QueueInv, [Next]_vars PROVE Left
  BY <1>1, LiveStays
<1>2. QueueInv /\ [Next]_vars => [Left]_vars
  BY <1>1
<1>3. [][QueueInv /\ [Next]_vars]_vars => [][Left]_vars
  BY <1>2, PTL
<1>4. [][Left]_vars => LiveClaimsLeftAlone
  BY PTL DEF LiveClaimsLeftAlone
<1> QED
  BY <1>3, <1>4, QueueInvariant, PTL DEF Spec
=============================================================================
