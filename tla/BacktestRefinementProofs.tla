----------------------- MODULE BacktestRefinementProofs -----------------------
(***************************************************************************)
(* The queue implements the lifecycle it promises a run's owner: every     *)
(* transaction of the API and of the workers moves each run by a step of   *)
(* BacktestRunLifecycle, or not at all.                                    *)
(***************************************************************************)
EXTENDS BacktestQueueProofs

-----------------------------------------------------------------------------
(* Who may cancel *)

\* A process that heard of a cancellation heard of its own run's.
HeardOK(w) ==
  /\ pc[w] \notin TaskSteps => task[w] = NoRun
  /\ w \in cancelSeen => task[w] \in cancelRequested
  /\ pc[w] = "CANCELLING" => task[w] \in cancelRequested

HeardInv == \A w \in Workers : HeardOK(w)

\* A request to cancel is never withdrawn.
LEMMA RequestsStay == [Next]_vars => cancelRequested \subseteq cancelRequested'
<1> SUFFICES ASSUME [Next]_vars PROVE cancelRequested \subseteq cancelRequested'
  OBVIOUS
<1> USE DEF dbVars, jobVars
<1>1. ASSUME NEW r \in Runs, Api(r) PROVE cancelRequested \subseteq cancelRequested'
  BY <1>1 DEF Api, AdmitSubmission, CommitSubmission, AbortSubmission,
              CancelQueued, RequestCancel
<1>2. ASSUME NEW w \in Workers, Loop(w) PROVE cancelRequested' = cancelRequested
  BY <1>2 DEF Loop, RecoverCancelled, RequeueStale, AbandonExhausted,
              SkipRecovery, Claim, ClaimNothing
<1>3. ASSUME NEW w \in Workers, Process(w) PROVE cancelRequested' = cancelRequested
  BY <1>3 DEF Process, Heartbeat, NoticeCancellation, PrepareData,
     StartSimulation, Checkpoint, StartFinalizing, WriteProgress, Interrupt,
     HitFailure, PersistResult, PersistResultTx, RecordFailure,
     RecordCancellation, ReadCancelBeforeRelease, ReleaseJob
<1> QED
  BY <1>1, <1>2, <1>3 DEF Next, vars, Time, LapseLease, EndBackoff,
     ChangePlan, Supervise, AskToStop, Exit, Crash, Restart

\* What a process heard stays true of the run in its hands: both are forgotten
\* together, and a claim is taken with empty hands.
LEMMA HeardStep ==
  ASSUME TypeOK, [Next]_vars, NEW w \in Workers, HeardOK(w) PROVE HeardOK(w)'
<1> USE QueueAssumption
<1> USE DEF claimVars, workerVars
<1>0. cancelRequested \subseteq cancelRequested'
  BY RequestsStay
<1>a. ASSUME UNCHANGED <<pc, task, cancelSeen>> PROVE HeardOK(w)'
  BY <1>0, <1>a DEF HeardOK
<1>1. ASSUME NEW r \in Runs, Api(r) \/ Time(r) PROVE HeardOK(w)'
  BY <1>1, <1>a DEF Api, AdmitSubmission, CommitSubmission, AbortSubmission,
     CancelQueued, RequestCancel, Time, LapseLease, EndBackoff
<1>2. ASSUME NEW u \in Users, NEW n \in Plans, ChangePlan(u, n) PROVE HeardOK(w)'
  BY <1>2, <1>a DEF ChangePlan
<1>3. ASSUME NEW v \in Workers, Loop(v) PROVE HeardOK(w)'
  <2>1. ASSUME NEW r \in Runs, NEW held \in SUBSET Users,
               NEW busy \in SUBSET Candidates, Claim(v, r, held, busy)
        PROVE  HeardOK(w)'
    BY <1>0, <2>1 DEF Claim, HeardOK, TaskSteps, TypeOK
  <2>2. ASSUME UNCHANGED <<task, cancelSeen>>, NEW next \in LoopSteps,
               pc[v] \in LoopSteps, pc' = [pc EXCEPT ![v] = next]
        PROVE  HeardOK(w)'
    BY <1>0, <2>2 DEF HeardOK, TaskSteps, LoopSteps, TypeOK
  <2> QED
    BY <1>3, <2>1, <2>2 DEF Loop, RecoverCancelled, RequeueStale, AbandonExhausted,
       SkipRecovery, ClaimNothing, LoopSteps
<1>4. ASSUME NEW v \in Workers, Process(v) PROVE HeardOK(w)'
  <2>1. CASE LetGo(v)
    BY <1>0, <2>1 DEF LetGo, HeardOK, TaskSteps, TypeOK
  <2>2. ASSUME NEW next \in TaskSteps, pc[v] \in TaskSteps, Proceed(v, next),
               next = "CANCELLING" => task[v] \in cancelRequested
        PROVE  HeardOK(w)'
    BY <1>0, <2>2 DEF Proceed, HeardOK, TaskSteps, TypeOK
  <2>3. CASE Heartbeat(v) \/ NoticeCancellation(v)
    BY <1>0, <2>3 DEF Heartbeat, NoticeCancellation, HeardOK, TypeOK
  <2>4. CASE \/ PrepareData(v) \/ StartSimulation(v) \/ StartFinalizing(v)
             \/ \E years \in BOOLEAN : Checkpoint(v, years)
    BY <2>1, <2>2, <2>4 DEF PrepareData, StartSimulation, StartFinalizing, Checkpoint,
       WriteProgress, TaskSteps
  <2>5. CASE Interrupt(v)
    <3>1. CASE v = w
      BY <1>0, <2>1, <2>2, <2>5, <3>1 DEF Interrupt, Interruption, HeardOK, TaskSteps
    <3>2. CASE v # w
      BY <1>0, <2>5, <3>2 DEF Interrupt, LetGo, Proceed, HeardOK, TypeOK
    <3> QED
      BY <3>1, <3>2
  <2>6. CASE HitFailure(v) \/ PersistResult(v)
    BY <2>1, <2>2, <2>6 DEF HitFailure, PersistResult, TaskSteps
  <2>7. CASE ReadCancelBeforeRelease(v)
    BY <2>1, <2>2, <2>7 DEF ReadCancelBeforeRelease, TaskSteps
  <2>8. CASE RecordFailure(v) \/ RecordCancellation(v) \/ ReleaseJob(v)
    BY <2>1, <2>8 DEF RecordFailure, RecordCancellation, ReleaseJob
  <2> QED
    BY <1>4, <2>3, <2>4, <2>5, <2>6, <2>7, <2>8 DEF Process
<1>5. ASSUME NEW v \in Workers, Supervise(v) PROVE HeardOK(w)'
  BY <1>0, <1>5 DEF Supervise, AskToStop, Exit, Crash, Restart, HeardOK, TaskSteps, TypeOK
<1> QED
  BY <1>1, <1>2, <1>3, <1>4, <1>5, <1>a DEF Next, vars

\* A worker that is about to record a cancellation is about to record one its
\* owner asked for, whatever claim it worked on before and whoever has its run now.
THEOREM CancellationsAreAskedFor == Spec => []HeardInv
<1>1. Init => HeardInv
  BY DEF Init, HeardInv, HeardOK, TaskSteps
<1>2. TypeOK /\ HeardInv /\ [Next]_vars => HeardInv'
  BY HeardStep DEF HeardInv
<1> QED
  BY <1>1, <1>2, TypeCorrect, PTL DEF Spec

-----------------------------------------------------------------------------
(* The mapping *)

Seen(r)  == IF runStatus[r] \in Executing THEN "EXECUTING" ELSE runStatus[r]
Shown(r) == ({snapshot[r]} \ {0}) \cup milestones[r]

\* A run that is not moved.
LEMMA MapsSame ==
  ASSUME NEW q \in Runs
  PROVE  Lifecycle!Same(q) <=>
           /\ Seen(q)' = Seen(q) /\ attempts'[q] = attempts[q]
           /\ (q \in cancelRequested') <=> (q \in cancelRequested)
           /\ Shown(q)' = Shown(q) /\ result'[q] = result[q]
  BY DEF Lifecycle!Same, Lifecycle!Becomes, Seen, Shown

\* A submission, as the tables show it.
LEMMA MapsSubmit ==
  ASSUME NEW q \in Runs
  PROVE  Lifecycle!Submit(q) <=>
           /\ Seen(q) = "NONE" /\ Seen(q)' = "QUEUED"
           /\ attempts'[q] = 0 /\ q \notin cancelRequested'
           /\ Shown(q)' = {} /\ result'[q] = 0
  BY DEF Lifecycle!Submit, Lifecycle!Becomes, Seen, Shown

\* A try that starts, as the tables show it.
LEMMA MapsStart ==
  ASSUME NEW q \in Runs
  PROVE  Lifecycle!Start(q) <=>
           /\ Seen(q) = "QUEUED" /\ q \notin cancelRequested /\ attempts[q] < MaxAttempts
           /\ Seen(q)' = "EXECUTING" /\ attempts'[q] = attempts[q] + 1
           /\ q \notin cancelRequested' /\ Shown(q)' = {} /\ result'[q] = 0
  BY DEF Lifecycle!Start, Lifecycle!Becomes, Seen, Shown

\* Output of the try, as the tables show it.
LEMMA MapsPublish ==
  ASSUME NEW q \in Runs
  PROVE  Lifecycle!Publish(q) <=>
           /\ Seen(q) = "EXECUTING" /\ Seen(q)' = "EXECUTING"
           /\ attempts'[q] = attempts[q]
           /\ (q \in cancelRequested') <=> (q \in cancelRequested)
           /\ Shown(q)' = {attempts[q]} /\ result'[q] = 0
  BY DEF Lifecycle!Publish, Lifecycle!Becomes, Seen, Shown

\* A run that goes back to wait, as the tables show it.
LEMMA MapsRetry ==
  ASSUME NEW q \in Runs
  PROVE  Lifecycle!Retry(q) <=>
           /\ Seen(q) = "EXECUTING" /\ q \notin cancelRequested
           /\ Seen(q)' = "QUEUED" /\ attempts'[q] = attempts[q]
           /\ q \notin cancelRequested' /\ Shown(q)' = {} /\ result'[q] = 0
  BY DEF Lifecycle!Retry, Lifecycle!Becomes, Seen, Shown

\* A request to stop, as the tables show it.
LEMMA MapsAskToStop ==
  ASSUME NEW q \in Runs
  PROVE  Lifecycle!AskToStop(q) <=>
           /\ Seen(q) = "EXECUTING" /\ Seen(q)' = "EXECUTING"
           /\ attempts'[q] = attempts[q] /\ q \in cancelRequested'
           /\ Shown(q)' = Shown(q) /\ result'[q] = 0
  BY DEF Lifecycle!AskToStop, Lifecycle!Becomes, Seen, Shown

\* A run that succeeds, as the tables show it.
LEMMA MapsComplete ==
  ASSUME NEW q \in Runs
  PROVE  Lifecycle!Complete(q) <=>
           /\ Seen(q) = "EXECUTING" /\ Seen(q)' = "COMPLETED"
           /\ attempts'[q] = attempts[q]
           /\ (q \in cancelRequested') <=> (q \in cancelRequested)
           /\ Shown(q)' = Shown(q) /\ result'[q] = attempts[q]
  BY DEF Lifecycle!Complete, Lifecycle!Becomes, Seen, Shown

\* A run that fails, as the tables show it.
LEMMA MapsFail ==
  ASSUME NEW q \in Runs
  PROVE  Lifecycle!Fail(q) <=>
           /\ \/ Seen(q) = "EXECUTING"
              \/ Seen(q) = "QUEUED" /\ attempts[q] = MaxAttempts
           /\ Seen(q)' = "FAILED" /\ attempts'[q] = attempts[q]
           /\ (q \in cancelRequested') <=> (q \in cancelRequested)
           /\ Shown(q)' = Shown(q) /\ result'[q] = 0
  BY DEF Lifecycle!Fail, Lifecycle!Becomes, Seen, Shown

\* A run that is cancelled, as the tables show it.
LEMMA MapsStop ==
  ASSUME NEW q \in Runs
  PROVE  Lifecycle!Stop(q) <=>
           /\ \/ Seen(q) = "QUEUED"
              \/ Seen(q) = "EXECUTING" /\ q \in cancelRequested
           /\ Seen(q)' = "CANCELLED" /\ attempts'[q] = attempts[q]
           /\ q \in cancelRequested' /\ Shown(q)' \subseteq Shown(q)
           /\ result'[q] = 0
  BY DEF Lifecycle!Stop, Lifecycle!Becomes, Seen, Shown

-----------------------------------------------------------------------------
(* Every step of the queue is a step of the lifecycle, run by run *)

\* A step that leaves a run's columns alone is no step of its lifecycle.
LEMMA SameFrame ==
  ASSUME NEW q \in Runs,
         runStatus'[q] = runStatus[q], attempts'[q] = attempts[q],
         result'[q] = result[q], snapshot'[q] = snapshot[q],
         milestones'[q] = milestones[q],
         q \in cancelRequested' <=> q \in cancelRequested
  PROVE  Lifecycle!Same(q)
  BY MapsSame DEF Seen, Shown

\* What the lifecycle knows of a run in each of its states.
LEMMA SeenFacts ==
  ASSUME QueueInv, NEW q \in Runs
  PROVE  /\ RunOK(q)
         /\ attempts[q] \in 0 .. MaxAttempts
         /\ Seen(q) # "COMPLETED" => result[q] = 0
         /\ Seen(q) \in {"NONE", "QUEUED"} =>
              Shown(q) = {} /\ q \notin cancelRequested /\ runStatus[q] = Seen(q)
         /\ jobStatus[q] = "CLAIMED" <=> Seen(q) = "EXECUTING"
         /\ jobStatus[q] # "CLAIMED" => jobStatus[q] = Seen(q)
<1>1. RunOK(q) /\ TypeOK
  BY InvParts
<1> QED
  BY <1>1 DEF RunOK, TypeOK, Seen, Shown, Executing, JobStatuses

\* The API's transactions submit a run, ask to stop it, or stop it.
LEMMA ApiRefines ==
  ASSUME QueueInv, NEW q \in Runs, NEW r \in Runs, Api(r)
  PROVE  Lifecycle!Step(q) \/ Lifecycle!Same(q)
<1> USE DEF dbVars, jobVars, lineVars, runVars, progressVars, apiVars
<1>0. TypeOK /\ \A p \in submitting : jobStatus[p] = "NONE"
  BY DEF QueueInv, TypeOK
<1>1. CASE AdmitSubmission(r) \/ AbortSubmission(r)
  BY <1>1, SameFrame DEF AdmitSubmission, AbortSubmission
<1>2. CASE CommitSubmission(r)
  <2>1. CASE q = r
    <3>1. Lifecycle!Submit(q)
      <4>1. /\ runStatus'[q] = "QUEUED" /\ Seen(q) = "NONE" /\ attempts[q] = 0
            /\ UNCHANGED <<attempts, cancelRequested, result, snapshot, milestones>>
        BY <1>0, <1>2, <2>1, SeenFacts DEF CommitSubmission, TypeOK, RunOK
      <4> QED
        BY <4>1, SeenFacts, MapsSubmit DEF Seen, Shown, Executing
    <3> QED
      BY <3>1 DEF Lifecycle!Step
  <2>2. CASE q # r
    BY <1>0, <1>2, <2>2, SameFrame DEF CommitSubmission, TypeOK
  <2> QED
    BY <2>1, <2>2
<1>3. CASE CancelQueued(r)
  <2>1. CASE q = r
    <3>1. Lifecycle!Stop(q)
      <4>1. /\ runStatus'[q] = "CANCELLED" /\ Seen(q) = "QUEUED" /\ snapshot'[q] = 0
            /\ q \in cancelRequested' /\ UNCHANGED <<attempts, result, milestones>>
        BY <1>0, <1>3, <2>1, SeenFacts DEF CancelQueued, TypeOK
      <4> QED
        BY <4>1, SeenFacts, MapsStop DEF Seen, Shown, Executing
    <3> QED
      BY <3>1 DEF Lifecycle!Step
  <2>2. CASE q # r
    BY <1>0, <1>3, <2>2, SameFrame DEF CancelQueued, TypeOK
  <2> QED
    BY <2>1, <2>2
<1>4. CASE RequestCancel(r)
  <2>1. CASE q = r
    <3>1. Lifecycle!AskToStop(q)
      <4>1. /\ Seen(q) = "EXECUTING" /\ q \in cancelRequested'
            /\ UNCHANGED <<runStatus, attempts, result, snapshot, milestones>>
        BY <1>0, <1>4, <2>1, SeenFacts DEF RequestCancel, RunOK, Terminal, Executing, TypeOK,
           JobStatuses
      <4> QED
        BY <4>1, SeenFacts, MapsAskToStop DEF Seen, Shown
    <3> QED
      BY <3>1 DEF Lifecycle!Step
  <2>2. CASE q # r
    BY <1>0, <1>4, <2>2, SameFrame DEF RequestCancel, TypeOK
  <2> QED
    BY <2>1, <2>2
<1> QED
  BY <1>1, <1>2, <1>3, <1>4 DEF Api

\* The recovery statements and the claim retry, stop, give up and start runs.
LEMMA LoopRefines ==
  ASSUME QueueInv, NEW q \in Runs, NEW w \in Workers, Loop(w)
  PROVE  Lifecycle!Step(q) \/ Lifecycle!Same(q)
<1> USE DEF dbVars, jobVars, lineVars, runVars, progressVars, apiVars, Assign
<1>0. TypeOK
  BY DEF QueueInv
<1>1. CASE RecoverCancelled(w)
  <2>1. CASE q \in CancelledStale
    <3>1. Lifecycle!Stop(q)
      <4>1. /\ runStatus'[q] = "CANCELLED" /\ Seen(q) = "EXECUTING" /\ snapshot'[q] = 0
            /\ q \in cancelRequested
            /\ UNCHANGED <<attempts, cancelRequested, result, milestones>>
        BY <1>1, <2>1, SeenFacts DEF RecoverCancelled, CancelledStale, Stale
      <4> QED
        BY <4>1, SeenFacts, MapsStop DEF Seen, Shown, Executing
    <3> QED
      BY <3>1 DEF Lifecycle!Step
  <2>2. CASE q \notin CancelledStale
    BY <1>1, <2>2, SameFrame DEF RecoverCancelled
  <2> QED
    BY <2>1, <2>2
<1>2. CASE RequeueStale(w)
  <2>1. CASE q \in Requeueable
    <3>1. Lifecycle!Retry(q)
      <4>1. /\ runStatus'[q] = "QUEUED" /\ Seen(q) = "EXECUTING" /\ snapshot'[q] = 0
            /\ milestones'[q] = {} /\ q \notin cancelRequested
            /\ UNCHANGED <<attempts, cancelRequested, result>>
        BY <1>2, <2>1, SeenFacts DEF RequeueStale, Requeueable, Stale
      <4> QED
        BY <4>1, SeenFacts, MapsRetry DEF Seen, Shown, Executing
    <3> QED
      BY <3>1 DEF Lifecycle!Step
  <2>2. CASE q \notin Requeueable
    BY <1>2, <2>2, SameFrame DEF RequeueStale
  <2> QED
    BY <2>1, <2>2
<1>3. CASE AbandonExhausted(w)
  <2>1. CASE q \in Exhausted
    <3>1. Lifecycle!Fail(q)
      <4>1. /\ runStatus'[q] = "FAILED" /\ attempts[q] >= MaxAttempts
            /\ Seen(q) \in {"EXECUTING", "QUEUED"}
            /\ UNCHANGED <<attempts, cancelRequested, result, snapshot, milestones>>
        BY <1>3, <2>1, SeenFacts DEF AbandonExhausted, Exhausted, Stale
      <4>2. attempts[q] = MaxAttempts
        BY <4>1, SeenFacts, QueueAssumption
      <4> QED
        BY <4>1, <4>2, SeenFacts, MapsFail DEF Seen, Shown, Executing
    <3> QED
      BY <3>1 DEF Lifecycle!Step
  <2>2. CASE q \notin Exhausted
    BY <1>3, <2>2, SameFrame DEF AbandonExhausted
  <2> QED
    BY <2>1, <2>2
<1>4. CASE SkipRecovery(w) \/ ClaimNothing(w)
  BY <1>4, SameFrame DEF SkipRecovery, ClaimNothing
<1>5. ASSUME NEW r \in Runs, NEW held \in SUBSET Users,
             NEW busy \in SUBSET Candidates, Claim(w, r, held, busy)
      PROVE  Lifecycle!Step(q) \/ Lifecycle!Same(q)
  <2>1. CASE q = r
    <3>1. Lifecycle!Start(q)
      <4>1. /\ runStatus'[q] = "PREPARING_DATA" /\ attempts'[q] = attempts[q] + 1
            /\ Seen(q) = "QUEUED" /\ attempts[q] < MaxAttempts
            /\ UNCHANGED <<cancelRequested, result, snapshot, milestones>>
        BY <1>0, <1>5, <2>1, SeenFacts DEF Claim, Selected, Candidates, TypeOK
      <4> QED
        BY <4>1, SeenFacts, MapsStart DEF Seen, Shown, Executing
    <3> QED
      BY <3>1 DEF Lifecycle!Step
  <2>2. CASE q # r
    BY <1>0, <1>5, <2>2, SameFrame DEF Claim, TypeOK
  <2> QED
    BY <2>1, <2>2
<1> QED
  BY <1>1, <1>2, <1>3, <1>4, <1>5 DEF Loop

\* A worker's writes publish the output of its try, or end it; one that records a
\* cancellation heard of it.
LEMMA ProcessRefines ==
  ASSUME QueueInv, HeardInv, NEW q \in Runs, NEW w \in Workers, Process(w)
  PROVE  Lifecycle!Step(q) \/ Lifecycle!Same(q)
<1> USE DEF dbVars, jobVars, lineVars, runVars, progressVars, apiVars
<1>0. TypeOK /\ HandOK(w)
  BY InvParts
<1>a. Held(w) => /\ jobStatus[task[w]] = "CLAIMED"
                 /\ taskAttempt[w] = attempts[task[w]]
  BY <1>0 DEF Held, HandOK
<1>b. ASSUME UNCHANGED <<runStatus, attempts, result, snapshot, milestones, cancelRequested>>
      PROVE  Lifecycle!Step(q) \/ Lifecycle!Same(q)
  BY <1>b, SameFrame
<1>1. ASSUME NEW status \in Executing, NEW live \in BOOLEAN, NEW years \in BOOLEAN,
             NEW next, WriteProgress(w, status, live, years, next)
      PROVE  Lifecycle!Step(q) \/ Lifecycle!Same(q)
  <2>1. CASE UNCHANGED <<dbVars, apiVars>>
    BY <1>b, <2>1
  <2>2. CASE ~UNCHANGED <<dbVars, apiVars>> /\ q # task[w]
    BY <1>0, <1>1, <2>2, SameFrame DEF WriteProgress, TypeOK
  <2>3. CASE ~UNCHANGED <<dbVars, apiVars>> /\ q = task[w]
    <3>1. /\ runStatus'[q] = status
          /\ snapshot'[q] = IF live THEN attempts[q] ELSE snapshot[q]
          /\ milestones'[q] = IF years THEN milestones[q] \cup {attempts[q]}
                                       ELSE milestones[q]
          /\ UNCHANGED <<attempts, cancelRequested, result>>
          /\ jobStatus[q] = "CLAIMED"
      BY <1>0, <1>1, <1>a, <2>3 DEF WriteProgress, TypeOK
    <3>2. /\ Seen(q) = "EXECUTING" /\ Seen(q)' = "EXECUTING" /\ result'[q] = 0
          /\ attempts[q] # 0 /\ snapshot[q] \in {0, attempts[q]}
          /\ milestones[q] \subseteq {attempts[q]}
      BY <3>1, SeenFacts DEF Seen, RunOK
    <3>3. CASE live \/ years
      <4>1. Shown(q)' = {attempts[q]}
        BY <3>1, <3>2, <3>3 DEF Shown
      <4>2. Lifecycle!Publish(q)
        BY <3>1, <3>2, <4>1, MapsPublish
      <4> QED
        BY <4>2 DEF Lifecycle!Step
    <3>4. CASE ~live /\ ~years
      <4>1. Lifecycle!Same(q)
        BY <3>1, <3>2, <3>4, SeenFacts, MapsSame DEF Shown
      <4> QED
        BY <4>1
    <3> QED
      BY <3>3, <3>4
  <2> QED
    BY <2>1, <2>2, <2>3
<1>2. CASE PrepareData(w) \/ StartSimulation(w) \/ StartFinalizing(w)
           \/ \E years \in BOOLEAN : Checkpoint(w, years)
  BY <1>1, <1>2 DEF PrepareData, StartSimulation, StartFinalizing, Checkpoint, Executing
<1>3. CASE PersistResultTx(w)
  <2>1. CASE q = task[w]
    <3>1. /\ runStatus'[q] = "COMPLETED" /\ result'[q] = attempts[q]
          /\ Seen(q) = "EXECUTING"
          /\ UNCHANGED <<attempts, cancelRequested, snapshot, milestones>>
      BY <1>0, <1>3, <1>a, <2>1, SeenFacts DEF PersistResultTx, TypeOK
    <3>2. Lifecycle!Complete(q)
      BY <3>1, MapsComplete DEF Seen, Shown, Executing
    <3> QED
      BY <3>2 DEF Lifecycle!Step
  <2>2. CASE q # task[w]
    BY <1>0, <1>3, <2>2, SameFrame DEF PersistResultTx, TypeOK
  <2> QED
    BY <2>1, <2>2
<1>4. CASE RecordFailure(w) /\ ~UNCHANGED <<dbVars, apiVars>>
  <2>1. CASE q = task[w]
    <3>1. /\ runStatus'[q] = "FAILED" /\ Seen(q) = "EXECUTING"
          /\ UNCHANGED <<attempts, cancelRequested, result, snapshot, milestones>>
      BY <1>0, <1>4, <1>a, <2>1, SeenFacts DEF RecordFailure, TypeOK
    <3>2. Lifecycle!Fail(q)
      BY <3>1, SeenFacts, MapsFail DEF Seen, Shown, Executing
    <3> QED
      BY <3>2 DEF Lifecycle!Step
  <2>2. CASE q # task[w]
    BY <1>0, <1>4, <2>2, SameFrame DEF RecordFailure, TypeOK
  <2> QED
    BY <2>1, <2>2
<1>5. CASE RecordCancellation(w) /\ ~UNCHANGED <<dbVars, apiVars>>
  <2>1. CASE q = task[w]
    <3>1. /\ Seen(q) = "EXECUTING" /\ runStatus[q] \in Executing
          /\ q \in cancelRequested
      BY <1>5, <1>a, <2>1, SeenFacts DEF RecordCancellation, HeardInv, HeardOK, RunOK
    <3>2. /\ runStatus'[q] = "CANCELLED" /\ snapshot'[q] = 0
          /\ UNCHANGED <<attempts, cancelRequested, result, milestones>>
      BY <1>0, <1>5, <2>1, <3>1 DEF RecordCancellation, TypeOK, Executing, Terminal
    <3>3. Lifecycle!Stop(q)
      BY <3>1, <3>2, SeenFacts, MapsStop DEF Seen, Shown, Executing
    <3> QED
      BY <3>3 DEF Lifecycle!Step
  <2>2. CASE q # task[w]
    BY <1>0, <1>5, <2>2, SameFrame DEF RecordCancellation, TypeOK
  <2> QED
    BY <2>1, <2>2
<1>6. CASE ReleaseJob(w) /\ ~UNCHANGED <<dbVars, apiVars>>
  <2>1. CASE q = task[w]
    <3>1. /\ Seen(q) = "EXECUTING" /\ runStatus[q] \in Executing
          /\ q \notin cancelRequested
      BY <1>6, <1>a, <2>1, SeenFacts DEF ReleaseJob, RunOK
    <3>2. /\ runStatus'[q] = "QUEUED" /\ snapshot'[q] = 0 /\ milestones'[q] = {}
          /\ UNCHANGED <<attempts, cancelRequested, result>>
      BY <1>0, <1>6, <2>1, <3>1 DEF ReleaseJob, Released, TypeOK
    <3>3. Lifecycle!Retry(q)
      BY <3>1, <3>2, SeenFacts, MapsRetry DEF Seen, Shown, Executing
    <3> QED
      BY <3>3 DEF Lifecycle!Step
  <2>2. CASE q # task[w]
    BY <1>0, <1>6, <2>2, SameFrame DEF ReleaseJob, TypeOK
  <2> QED
    BY <2>1, <2>2
<1>7. CASE Heartbeat(w) \/ NoticeCancellation(w)
  BY <1>b, <1>7 DEF Heartbeat, NoticeCancellation
<1> QED
  BY <1>b, <1>2, <1>3, <1>4, <1>5, <1>6, <1>7
     DEF Process, Interrupt, HitFailure, PersistResult, ReadCancelBeforeRelease

\* Every step of the queue, whoever takes it, moves each run by at most one step of
\* its lifecycle.
LEMMA LifeStep ==
  ASSUME QueueInv, HeardInv, [Next]_vars, NEW q \in Runs
  PROVE  Lifecycle!Step(q) \/ Lifecycle!Same(q)
<1> USE DEF dbVars, jobVars, lineVars, runVars, progressVars, apiVars
<1>1. ASSUME UNCHANGED <<dbVars>> PROVE Lifecycle!Same(q)
  BY <1>1, SameFrame
<1>2. ASSUME NEW r \in Runs, Time(r) PROVE Lifecycle!Same(q)
  BY <1>2, SameFrame DEF Time, LapseLease, EndBackoff
<1> QED
  BY <1>1, <1>2, ApiRefines, LoopRefines, ProcessRefines
     DEF Next, vars, ChangePlan, Supervise, AskToStop, Exit, Crash, Restart

\* The queue implements the lifecycle it promises: bounded tries, none after a
\* request to stop, nothing of a dead try on a waiting run, one end with the result
\* of the last try or none, for any crashes, stalls, lost races and failed writes.
THEOREM QueueImplementsLifecycle == Spec => ImplementsLifecycle
<1>1. Init => Lifecycle!Init
  <2> SUFFICES ASSUME Init PROVE Lifecycle!Init
    OBVIOUS
  <2>1. \A r \in Runs : runStatus[r] = "NONE" /\ snapshot[r] = 0 /\ milestones[r] = {}
    BY DEF Init
  <2>2. [r \in Runs |-> IF runStatus[r] \in Executing THEN "EXECUTING" ELSE runStatus[r]]
          = [r \in Runs |-> "NONE"]
    BY <2>1 DEF Executing
  <2>3. [r \in Runs |-> ({snapshot[r]} \ {0}) \cup milestones[r]] = [r \in Runs |-> {}]
    BY <2>1
  <2> QED
    BY <2>2, <2>3 DEF Init, Lifecycle!Init
<1>2. QueueInv /\ HeardInv /\ [Next]_vars => [Lifecycle!Next]_Lifecycle!vars
  BY LifeStep DEF Lifecycle!Next
<1> QED
  BY <1>1, <1>2, QueueInvariant, CancellationsAreAskedFor, PTL
     DEF Spec, ImplementsLifecycle, Lifecycle!Spec
=============================================================================
