------------------------- MODULE BacktestSlotsProofs -------------------------
(***************************************************************************)
(* What TLAPS proves of the two limits on backtests, the deployment's cap  *)
(* and the plan's number of runs: both are read from counts that other     *)
(* transactions change, and hold because of who holds which claim or lock. *)
(***************************************************************************)
EXTENDS BacktestQueueProofs, FiniteSetTheorems

\* No counted set gains an element it cannot count.
LEMMA Grows ==
  ASSUME NEW S, IsFiniteSet(S), NEW x, NEW T, T \subseteq S \cup {x}
  PROVE  /\ IsFiniteSet(T)
         /\ Cardinality(T) \in Nat
         /\ Cardinality(T) <= Cardinality(S) + 1
<1>1. /\ IsFiniteSet(S \cup {x})
      /\ Cardinality(S \cup {x}) = IF x \in S THEN Cardinality(S) ELSE Cardinality(S) + 1
  BY FS_AddElement
<1>2. Cardinality(S) \in Nat
  BY FS_CardinalityType
<1>3. IsFiniteSet(T) /\ Cardinality(T) <= Cardinality(S \cup {x})
  BY <1>1, FS_Subset
<1>4. Cardinality(T) \in Nat
  BY <1>3, FS_CardinalityType
<1> QED
  BY <1>1, <1>2, <1>3, <1>4

-----------------------------------------------------------------------------
(* The slots *)

HasSlot(w) == /\ w \in Computing => Held(w)
              /\ Held(w) => lease[task[w]] = "LIVE"

\* Without stalls nobody takes the slot of a process that computes: recovery takes
\* lapsed leases, a claim takes queued jobs, and only its own process writes to a
\* row under its claim, whose lease it thereby keeps live.
LEMMA SlotStep ==
  ASSUME ~StallsOutlastLeases, QueueInv, [Next]_vars, NEW w \in Workers,
         \A v \in Workers : HasSlot(v)
  PROVE  HasSlot(w)'
<1> USE QueueAssumption
<1> USE DEF dbVars, jobVars, lineVars, runVars, progressVars, apiVars, claimVars,
            workerVars
<1>0. /\ HasSlot(w) /\ TypeOK /\ NoRun \notin Runs /\ NoWorker # w
      /\ \A r \in submitting : jobStatus[r] = "NONE"
  BY DEF QueueInv, TypeOK
<1>a. ASSUME UNCHANGED <<jobStatus, claimedBy, lease, task>>,
             w \in Computing' => w \in Computing
      PROVE  HasSlot(w)'
  BY <1>0, <1>a DEF HasSlot, Held
<1>1. ASSUME NEW r \in Runs, Api(r) PROVE HasSlot(w)'
  <2>1. CASE CommitSubmission(r) \/ CancelQueued(r)
    BY <1>0, <2>1 DEF CommitSubmission, CancelQueued, HasSlot, Held, Computing, TypeOK
  <2> QED
    BY <1>1, <1>a, <2>1 DEF Api, AdmitSubmission, AbortSubmission, RequestCancel, Computing
<1>2. ASSUME NEW r \in Runs, Time(r) PROVE HasSlot(w)'
  <2>1. CASE LapseLease(r)
    BY <1>0, <2>1 DEF LapseLease, HasSlot, Held, Computing, TypeOK
  <2>2. CASE EndBackoff(r)
    BY <1>a, <2>2 DEF EndBackoff, Computing
  <2> QED
    BY <1>2, <2>1, <2>2 DEF Time
<1>3. ASSUME NEW u \in Users, NEW n \in Plans, ChangePlan(u, n) PROVE HasSlot(w)'
  BY <1>3, <1>a DEF ChangePlan, Computing
<1>4. ASSUME NEW v \in Workers, Loop(v) PROVE HasSlot(w)'
  <2> USE DEF Assign
  <2>1. CASE RecoverCancelled(v)
    BY <1>0, <2>1 DEF RecoverCancelled, CancelledStale, Stale, HasSlot, Held,
                      Computing, TypeOK
  <2>2. CASE RequeueStale(v)
    BY <1>0, <2>2 DEF RequeueStale, Requeueable, Stale, HasSlot, Held, Computing,
                      TypeOK
  <2>3. CASE AbandonExhausted(v)
    BY <1>0, <2>3 DEF AbandonExhausted, Exhausted, Stale, HasSlot, Held, Computing,
                      TypeOK
  <2>4. CASE SkipRecovery(v) \/ ClaimNothing(v)
    BY <1>0, <2>4 DEF SkipRecovery, ClaimNothing, HasSlot, Held, Computing, TypeOK
  <2>5. ASSUME NEW r \in Runs, NEW held \in SUBSET Users,
               NEW busy \in SUBSET Candidates, Claim(v, r, held, busy)
        PROVE  HasSlot(w)'
    BY <1>0, <2>5 DEF Claim, Selected, Candidates, HasSlot, Held, Computing, TypeOK
  <2> QED
    BY <1>4, <2>1, <2>2, <2>3, <2>4, <2>5 DEF Loop
<1>5. ASSUME NEW v \in Workers, Process(v) PROVE HasSlot(w)'
  <2> USE DEF LetGo, Proceed
  <2>1. CASE Heartbeat(v) \/ NoticeCancellation(v)
    BY <1>0, <2>1 DEF Heartbeat, NoticeCancellation, HasSlot, Held, Computing, TypeOK
  <2>2. ASSUME NEW status, NEW live, NEW years, NEW next,
               WriteProgress(v, status, live, years, next), v \in Computing
        PROVE  HasSlot(w)'
    BY <1>0, <2>2 DEF WriteProgress, HasSlot, Held, Computing, TypeOK
  <2>3. CASE \/ PrepareData(v) \/ StartSimulation(v) \/ StartFinalizing(v)
             \/ \E years \in BOOLEAN : Checkpoint(v, years)
    BY <2>2, <2>3 DEF PrepareData, StartSimulation, StartFinalizing, Checkpoint, Computing
  <2>4. CASE Interrupt(v) \/ HitFailure(v) \/ ReadCancelBeforeRelease(v)
    BY <1>0, <2>4 DEF Interrupt, HitFailure, ReadCancelBeforeRelease, HasSlot, Held,
                      Computing, TypeOK
  <2>5. CASE PersistResult(v)
    BY <1>0, <2>5 DEF PersistResult, PersistResultTx, HasSlot, Held, Computing, TypeOK
  <2>6. CASE RecordFailure(v)
    BY <1>0, <2>6 DEF RecordFailure, HasSlot, Held, Computing, TypeOK
  <2>7. CASE RecordCancellation(v)
    BY <1>0, <2>7 DEF RecordCancellation, HasSlot, Held, Computing, TypeOK
  <2>8. CASE ReleaseJob(v)
    BY <1>0, <2>8 DEF ReleaseJob, HasSlot, Held, Computing, TypeOK
  <2> QED
    BY <1>5, <2>1, <2>3, <2>4, <2>5, <2>6, <2>7, <2>8 DEF Process
<1>6. ASSUME NEW v \in Workers, Supervise(v) PROVE HasSlot(w)'
  BY <1>0, <1>6 DEF Supervise, AskToStop, Exit, Crash, Restart, HasSlot, Held,
                    Computing, TypeOK
<1>7. CASE UNCHANGED vars
  BY <1>7, <1>a DEF vars, Computing
<1> QED
  BY <1>1, <1>2, <1>3, <1>4, <1>5, <1>6, <1>7 DEF Next

\* Live claims grow by a claim alone: a heartbeat without stalls finds its lease
\* live already.
LEMMA LiveStep ==
  ASSUME QueueInv, [Next]_vars, \A v \in Workers : HasSlot(v)
  PROVE  \/ LiveClaims' \subseteq LiveClaims
         \/ \E w \in Workers, r \in Runs, held \in SUBSET Users, busy \in SUBSET Candidates :
              Claim(w, r, held, busy) /\ LiveClaims' \subseteq LiveClaims \cup {r}
<1> DEFINE Shrinks == \A q \in Runs : jobStatus'[q] = "CLAIMED" /\ lease'[q] = "LIVE"
                                       => jobStatus[q] = "CLAIMED" /\ lease[q] = "LIVE"
<1> USE DEF dbVars, jobVars, lineVars, runVars, progressVars, apiVars, claimVars,
            workerVars
<1>0. TypeOK
  BY DEF QueueInv
<1>a. Shrinks => LiveClaims' \subseteq LiveClaims
  BY DEF LiveClaims
<1> HIDE DEF Shrinks
<1>1. ASSUME NEW r \in Runs, Api(r) \/ Time(r) PROVE Shrinks
  BY <1>0, <1>1 DEF Api, AdmitSubmission, CommitSubmission, AbortSubmission,
     CancelQueued, RequestCancel, Time, LapseLease, EndBackoff, TypeOK, Shrinks
<1>2. ASSUME NEW u \in Users, NEW n \in Plans, ChangePlan(u, n) PROVE Shrinks
  BY <1>2 DEF ChangePlan, Shrinks
<1>3. ASSUME NEW w \in Workers, Loop(w),
             ~ \E r \in Runs, held \in SUBSET Users, busy \in SUBSET Candidates :
                  Claim(w, r, held, busy)
      PROVE  Shrinks
  BY <1>0, <1>3 DEF Loop, RecoverCancelled, RequeueStale, AbandonExhausted,
     SkipRecovery, ClaimNothing, Assign, TypeOK, Shrinks
<1>4. ASSUME NEW w \in Workers, NEW r \in Runs, NEW held \in SUBSET Users,
             NEW busy \in SUBSET Candidates,
             Claim(w, r, held, busy)
      PROVE  LiveClaims' \subseteq LiveClaims \cup {r}
  BY <1>0, <1>4 DEF Claim, LiveClaims, TypeOK
<1>5. ASSUME NEW w \in Workers, Process(w) PROVE Shrinks
  <2>0. HasSlot(w)
    OBVIOUS
  <2>1. CASE Heartbeat(w) \/ NoticeCancellation(w)
    BY <1>0, <2>0, <2>1 DEF Heartbeat, NoticeCancellation, HasSlot, Held, TypeOK, Shrinks
  <2>2. ASSUME NEW status, NEW live, NEW years, NEW next,
               WriteProgress(w, status, live, years, next)
        PROVE  Shrinks
    BY <1>0, <2>0, <2>2 DEF WriteProgress, HasSlot, Held, TypeOK, Shrinks
  <2>3. CASE \/ PrepareData(w) \/ StartSimulation(w) \/ StartFinalizing(w)
             \/ \E years \in BOOLEAN : Checkpoint(w, years)
    BY <2>2, <2>3 DEF PrepareData, StartSimulation, StartFinalizing, Checkpoint
  <2>4. CASE \/ Interrupt(w) \/ HitFailure(w) \/ ReadCancelBeforeRelease(w)
             \/ PersistResult(w)
    BY <1>0, <2>4 DEF Interrupt, HitFailure, ReadCancelBeforeRelease, PersistResult,
       PersistResultTx, TypeOK, Shrinks
  <2>5. CASE RecordFailure(w) \/ RecordCancellation(w) \/ ReleaseJob(w)
    BY <1>0, <2>5 DEF RecordFailure, RecordCancellation, ReleaseJob, TypeOK, Shrinks
  <2> QED
    BY <1>5, <2>1, <2>3, <2>4, <2>5 DEF Process
<1>6. ASSUME NEW w \in Workers, Supervise(w) PROVE Shrinks
  BY <1>6 DEF Supervise, AskToStop, Exit, Crash, Restart, Shrinks
<1>7. CASE UNCHANGED vars
  BY <1>7 DEF vars, LiveClaims
<1> QED
  BY <1>a, <1>1, <1>2, <1>3, <1>4, <1>5, <1>6, <1>7 DEF Next

\* The slots as counted by claimNextJob, as an inductive invariant: who computes
\* holds a live claim, and there are as many live claims as slots at most.
SlotInv == /\ \A w \in Workers : HasSlot(w)
           /\ IsFiniteSet(LiveClaims)
           /\ Cardinality(LiveClaims) <= GlobalMaxRunning

\* Without stalls the slot of a process that computes is never given away, although
\* claimNextJob counts leases and every write of a worker ignores them.
THEOREM SlotsInvariant == ASSUME ~StallsOutlastLeases PROVE Spec => []SlotInv
<1>1. Init => SlotInv
  <2> SUFFICES ASSUME Init PROVE SlotInv
    OBVIOUS
  <2>1. \A w \in Workers : HasSlot(w)
    BY QueueAssumption DEF Init, HasSlot, Held, Computing
  <2>2. LiveClaims = {}
    BY DEF Init, LiveClaims
  <2>3. IsFiniteSet(LiveClaims) /\ Cardinality(LiveClaims) = 0
    BY <2>2, FS_EmptySet
  <2> QED
    BY <2>1, <2>3, QueueAssumption DEF SlotInv
<1>2. QueueInv /\ SlotInv /\ [Next]_vars => SlotInv'
  <2> SUFFICES ASSUME QueueInv, SlotInv, [Next]_vars PROVE SlotInv'
    OBVIOUS
  <2>0. (\A v \in Workers : HasSlot(v)) /\ IsFiniteSet(LiveClaims)
        /\ Cardinality(LiveClaims) <= GlobalMaxRunning
    BY DEF SlotInv
  <2>1. \A w \in Workers : HasSlot(w)'
    BY <2>0, SlotStep
  <2>2. Cardinality(LiveClaims) \in Nat /\ GlobalMaxRunning \in Nat
    BY <2>0, FS_CardinalityType, QueueAssumption
  <2>3. CASE LiveClaims' \subseteq LiveClaims
    <3>1. IsFiniteSet(LiveClaims') /\ Cardinality(LiveClaims') <= Cardinality(LiveClaims)
      BY <2>0, <2>3, FS_Subset
    <3>2. Cardinality(LiveClaims') \in Nat
      BY <3>1, FS_CardinalityType
    <3> QED
      BY <2>0, <2>1, <2>2, <3>1, <3>2 DEF SlotInv
  <2>4. ASSUME NEW w \in Workers, NEW r \in Runs, NEW held \in SUBSET Users,
               NEW busy \in SUBSET Candidates,
               Claim(w, r, held, busy), LiveClaims' \subseteq LiveClaims \cup {r}
        PROVE  SlotInv'
    <3>1. Cardinality(LiveClaims) < GlobalMaxRunning
      BY <2>4 DEF Claim, Selected
    <3>2. /\ IsFiniteSet(LiveClaims') /\ Cardinality(LiveClaims') \in Nat
          /\ Cardinality(LiveClaims') <= Cardinality(LiveClaims) + 1
      BY <2>0, <2>4, Grows
    <3> QED
      BY <2>1, <2>2, <3>1, <3>2 DEF SlotInv
  <2> QED
    BY <2>0, <2>3, <2>4, LiveStep
<1> QED
  BY <1>1, <1>2, QueueInvariant, PTL DEF Spec

\* Processes that hold the runs they compute compute different ones, and so there
\* are no more of them, of one owner or of all, than live claims.
LEMMA Counted ==
  ASSUME SlotInv, NEW W \in SUBSET Computing, NEW C \in SUBSET LiveClaims,
         \A w \in W : task[w] \in C
  PROVE  /\ IsFiniteSet(W) /\ IsFiniteSet(C)
         /\ Cardinality(W) \in Nat /\ Cardinality(C) \in Nat
         /\ Cardinality(W) <= Cardinality(C)
<1>1. \A v, w \in W : task[v] = task[w] => v = w
  BY DEF SlotInv, HasSlot, Held, Computing
<1>2. IsFiniteSet(C)
  BY FS_Subset DEF SlotInv
<1> DEFINE f == [w \in W |-> task[w]]
<1>3. f \in Injection(W, C)
  BY <1>1 DEF Injection, IsInjective
<1> HIDE DEF f
<1>4. IsFiniteSet(W) /\ Cardinality(W) <= Cardinality(C)
  BY <1>2, <1>3, FS_Injection
<1> QED
  BY <1>2, <1>4, FS_CardinalityType

\* While no live process stalls past its lease, no recovery, cancellation, failed
\* write or crash makes two processes compute one run, or more compute than the
\* deployment has slots.
THEOREM SlotsHold ==
  ASSUME ~StallsOutlastLeases
  PROVE  Spec => [](SlotsStayStrict /\ ComputingHoldsSlot)
<1>1. QueueInv /\ SlotInv => SlotsStayStrict /\ ComputingHoldsSlot
  <2> SUFFICES ASSUME QueueInv, SlotInv PROVE SlotsStayStrict /\ ComputingHoldsSlot
    OBVIOUS
  <2>1. \A w \in Computing : Held(w) /\ task[w] \in LiveClaims /\ claimedBy[task[w]] = w
    BY DEF SlotInv, HasSlot, Held, Computing, LiveClaims
  <2>2. Cardinality(Computing) \in Nat /\ Cardinality(LiveClaims) \in Nat
        /\ Cardinality(Computing) <= Cardinality(LiveClaims)
    BY <2>1, Counted
  <2>3. Cardinality(LiveClaims) <= GlobalMaxRunning
    BY DEF SlotInv
  <2>4. \A v, w \in Computing : task[v] = task[w] => v = w
    BY <2>1
  <2>5. Cardinality(Computing) <= GlobalMaxRunning
    BY <2>2, <2>3, QueueAssumption
  <2> QED
    BY <2>3, <2>4, <2>5 DEF SlotsStayStrict, ComputingHoldsSlot, SlotInv, HasSlot,
                            LiveClaimsWithinCap
<1> QED
  BY <1>1, QueueInvariant, SlotsInvariant, PTL

\* A process that computes a run holds its claim, under a live lease, whatever
\* recovers, cancels or fails beside it: claimNextJob never counts a slot in use as
\* free, nor more live claims than there are slots.
COROLLARY ComputingKeepsItsSlot ==
  ASSUME ~StallsOutlastLeases PROVE Spec => []ComputingHoldsSlot
  BY SlotsHold, PTL

-----------------------------------------------------------------------------
(* The plan, when a run starts *)

\* A process begins to compute by a claim alone.
LEMMA BeginsByClaim ==
  ASSUME TypeOK, [Next]_vars, NEW w \in Workers, w \in Computing', w \notin Computing
  PROVE  \E r \in Runs, held \in SUBSET Users, busy \in SUBSET Candidates :
            Claim(w, r, held, busy)
<1> USE DEF workerVars, claimVars
<1>0. pc \in [Workers -> Steps]
  BY DEF TypeOK
<1>1. ASSUME NEW v \in Workers, Process(v) PROVE FALSE
  BY <1>0, <1>1 DEF Process, Heartbeat, NoticeCancellation, PrepareData, StartSimulation,
     Checkpoint, StartFinalizing, WriteProgress, Interrupt, HitFailure, PersistResult,
     RecordFailure, RecordCancellation, ReadCancelBeforeRelease, ReleaseJob, LetGo,
     Proceed, Computing
<1>2. ASSUME NEW v \in Workers, Supervise(v) PROVE FALSE
  BY <1>0, <1>2 DEF Supervise, AskToStop, Exit, Crash, Restart, Computing
<1>3. ASSUME NEW v \in Workers, Loop(v)
      PROVE  \E r \in Runs, held \in SUBSET Users, busy \in SUBSET Candidates :
                Claim(w, r, held, busy)
  <2>1. ASSUME NEW r \in Runs, NEW held \in SUBSET Users,
               NEW busy \in SUBSET Candidates, Claim(v, r, held, busy)
        PROVE  Claim(w, r, held, busy)
    BY <1>0, <2>1 DEF Claim, Computing
  <2>2. \E r \in Runs, held \in SUBSET Users, busy \in SUBSET Candidates : Claim(v, r, held, busy)
    BY <1>0, <1>3 DEF Loop, RecoverCancelled, RequeueStale, AbandonExhausted,
       SkipRecovery, ClaimNothing, Computing
  <2> QED
    BY <2>1, <2>2
<1>4. ASSUME UNCHANGED pc PROVE FALSE
  BY <1>4 DEF Computing
<1>5. ASSUME NEW r \in Runs, Api(r) \/ Time(r) PROVE UNCHANGED pc
  BY <1>5 DEF Api, AdmitSubmission, CommitSubmission, AbortSubmission,
     CancelQueued, RequestCancel, Time, LapseLease, EndBackoff
<1> QED
  BY <1>1, <1>2, <1>3, <1>4, <1>5 DEF Next, vars, ChangePlan

\* A process that begins to compute finds the runs its owner has computing within
\* the plan, its own included.
LEMMA StartStep ==
  ASSUME QueueInv, SlotInv, [Next]_vars, NEW w \in Computing', w \notin Computing,
         NEW u, u = Owner[task'[w]]
  PROVE  Cardinality({v \in Computing' : Owner[task'[v]] = u}) <= limit[u]
<1> DEFINE Before0 == {v \in Computing : Owner[task[v]] = u}
           After == {v \in Computing' : Owner[task'[v]] = u}
           Counts == {r \in LiveClaims : Owner[r] = u}
<1>0. TypeOK /\ w \in Workers
  BY DEF QueueInv, Computing
<1>1. PICK r \in Runs, held \in SUBSET Users, busy \in SUBSET Candidates : Claim(w, r, held, busy)
  BY <1>0, BeginsByClaim
<1>2. u = Owner[r] /\ u \in Users
  BY <1>0, <1>1, QueueAssumption DEF Claim, TypeOK
<1>3. OwnerRunning(u) + 1 <= limit[u] /\ limit[u] \in Nat
  BY <1>0, <1>1, <1>2, QueueAssumption DEF Claim, Selected, Admits, TypeOK
<1>4. After \subseteq Before0 \cup {w}
  BY <1>0, <1>1 DEF Claim, Computing, TypeOK
<1>5. \A v \in Before0 : task[v] \in Counts
  BY DEF SlotInv, HasSlot, Held, Computing, LiveClaims
<1>6. Before0 \subseteq Computing /\ Counts \subseteq LiveClaims
  OBVIOUS
<1>7. OwnerRunning(u) = Cardinality(Counts)
  BY DEF OwnerRunning
<1> HIDE DEF Before0, After, Counts
<1>8. /\ IsFiniteSet(Before0) /\ Cardinality(Before0) \in Nat
      /\ Cardinality(Counts) \in Nat /\ Cardinality(Before0) <= Cardinality(Counts)
  BY <1>5, <1>6, Counted
<1>9. Cardinality(After) \in Nat /\ Cardinality(After) <= Cardinality(Before0) + 1
  BY <1>4, <1>8, Grows
<1>10. Cardinality(After) <= limit[u]
  BY <1>3, <1>7, <1>8, <1>9
<1> QED
  BY <1>10 DEF After

\* Without stalls a claim never takes an owner past the plan of that moment: what
\* claimNextJob counts is never less than what the owner has computing.
THEOREM StartsWithinThePlan ==
  ASSUME ~StallsOutlastLeases PROVE Spec => StartsWithinPlan
<1> DEFINE Within == \A w \in Computing' \ Computing :
                       LET u == Owner[task'[w]] IN
                       Cardinality({v \in Computing' : Owner[task'[v]] = u}) <= limit[u]
<1>1. ASSUME QueueInv, SlotInv, [Next]_vars PROVE Within
  BY <1>1, StartStep
<1>2. QueueInv /\ SlotInv /\ [Next]_vars => [Within]_vars
  BY <1>1
<1>3. [][QueueInv /\ SlotInv /\ [Next]_vars]_vars => [][Within]_vars
  BY <1>2, PTL
<1>4. [][Within]_vars => StartsWithinPlan
  BY PTL DEF StartsWithinPlan
<1> QED
  BY <1>3, <1>4, QueueInvariant, SlotsInvariant, PTL DEF Spec

-----------------------------------------------------------------------------
(* The plan, when a run is submitted *)

\* A run comes to exist by the commit of its submission alone.
LEMMA UnsubmittedStep ==
  ASSUME QueueInv, [Next]_vars, NEW q \in Runs, jobStatus[q] = "NONE",
         ~CommitSubmission(q)
  PROVE  jobStatus'[q] = "NONE"
<1> USE DEF dbVars, jobVars
<1>0. TypeOK /\ \A w \in Workers : Held(w) => task[w] # q
  BY DEF QueueInv, Held
<1>1. ASSUME NEW r \in Runs, Api(r) \/ Time(r) PROVE jobStatus'[q] = "NONE"
  BY <1>0, <1>1 DEF Api, AdmitSubmission, CommitSubmission, AbortSubmission,
     CancelQueued, RequestCancel, Time, LapseLease, EndBackoff, TypeOK
<1>2. ASSUME NEW w \in Workers, Loop(w) PROVE jobStatus'[q] = "NONE"
  <2>1. q \notin CancelledStale \cup Requeueable \cup Exhausted \cup Candidates
    BY DEF CancelledStale, Requeueable, Exhausted, Stale, Candidates
  <2>2. ASSUME NEW r \in Runs, NEW held \in SUBSET Users,
               NEW busy \in SUBSET Candidates, Claim(w, r, held, busy)
        PROVE  jobStatus'[q] = "NONE"
    BY <1>0, <2>1, <2>2 DEF Claim, Selected, TypeOK
  <2> QED
    BY <1>0, <1>2, <2>1, <2>2 DEF Loop, RecoverCancelled, RequeueStale,
       AbandonExhausted, SkipRecovery, ClaimNothing, Assign, TypeOK
<1>3. ASSUME NEW w \in Workers, Process(w) PROVE jobStatus'[q] = "NONE"
  BY <1>0, <1>3 DEF Process, Heartbeat, NoticeCancellation, PrepareData,
     StartSimulation, Checkpoint, StartFinalizing, WriteProgress, Interrupt,
     HitFailure, PersistResult, PersistResultTx, RecordFailure, RecordCancellation,
     ReadCancelBeforeRelease, ReleaseJob, TypeOK
<1> QED
  BY <1>1, <1>2, <1>3 DEF Next, vars, ChangePlan, Supervise, AskToStop, Exit, Crash,
                          Restart

\* An owner's unfinished runs grow by the commit of a submission alone.
LEMMA InFlightStep ==
  ASSUME QueueInv, [Next]_vars, NEW u \in Users
  PROVE  \/ InFlight(u)' \subseteq InFlight(u)
         \/ \E r \in Runs : /\ CommitSubmission(r) /\ Owner[r] = u
                            /\ InFlight(u)' \subseteq InFlight(u) \cup {r}
<1>1. ASSUME NEW q \in Runs, runStatus'[q] \in {"QUEUED"} \cup Executing,
             ~CommitSubmission(q)
      PROVE  runStatus[q] \in {"QUEUED"} \cup Executing
  <2>1. runStatus[q] \notin Terminal
    BY <1>1, EndedStep DEF Executing, Terminal
  <2>2. RunOK(q)' /\ RunOK(q) /\ TypeOK
    BY RunStep, InvParts
  <2>3. jobStatus[q] # "NONE"
    BY <1>1, <2>2, UnsubmittedStep DEF RunOK, Executing
  <2> QED
    BY <2>1, <2>2, <2>3 DEF RunOK, TypeOK, RunStatuses
<1>2. CASE \E r \in Runs : CommitSubmission(r) /\ Owner[r] = u
  <2>1. PICK r \in Runs : CommitSubmission(r) /\ Owner[r] = u
    BY <1>2
  <2>2. \A q \in Runs : q # r => runStatus'[q] = runStatus[q]
    BY <2>1 DEF CommitSubmission, QueueInv, TypeOK
  <2>3. InFlight(u)' \subseteq InFlight(u) \cup {r}
    BY <2>2 DEF InFlight
  <2> QED
    BY <2>1, <2>3
<1>3. CASE ~ \E r \in Runs : CommitSubmission(r) /\ Owner[r] = u
  BY <1>1, <1>3 DEF InFlight
<1> QED
  BY <1>2, <1>3

\* The places reserved by the entitlement locks, as an inductive invariant.
PlanInv == PlanReserved /\ \A u \in Users : IsFiniteSet(InFlight(u))

\* The lock that serialises an owner's submissions with each other and with plan
\* changes keeps the place it was granted for, from the check to the commit.
LEMMA PlanStep == ASSUME QueueInv, PlanInv, [Next]_vars PROVE PlanInv'
<1>0. TypeOK /\ Owner \in [Runs -> Users] /\ Plans \subseteq Nat
  BY QueueAssumption DEF QueueInv
<1>1. ASSUME NEW u \in Users PROVE IsFiniteSet(InFlight(u)')
  <2>1. IsFiniteSet(InFlight(u))
    BY DEF PlanInv
  <2> QED
    BY <2>1, InFlightStep, Grows, FS_Subset
<1>2. /\ \/ submitting' \subseteq submitting
         \/ \E r \in Runs : AdmitSubmission(r)
      /\ \/ limit' = limit
         \/ \E u \in Users, n \in Plans : ChangePlan(u, n)
  <2>1. CASE UNCHANGED vars
    BY <2>1 DEF vars, apiVars
  <2>2. CASE \E r \in Runs : Api(r) \/ Time(r)
    BY <2>2 DEF Api, AdmitSubmission, CommitSubmission, AbortSubmission, CancelQueued,
       RequestCancel, Time, LapseLease, EndBackoff, apiVars
  <2>3. CASE \E u \in Users, n \in Plans : ChangePlan(u, n)
    BY <2>3 DEF ChangePlan
  <2>4. CASE \E w \in Workers : Loop(w)
    BY <2>4 DEF Loop, RecoverCancelled, RequeueStale, AbandonExhausted, SkipRecovery, Claim,
       ClaimNothing, apiVars
  <2>5. CASE \E w \in Workers : Process(w)
    BY <2>5 DEF Process, Heartbeat, NoticeCancellation, PrepareData, StartSimulation,
       Checkpoint, StartFinalizing, WriteProgress, Interrupt, HitFailure, PersistResult,
       PersistResultTx, RecordFailure, RecordCancellation, ReadCancelBeforeRelease,
       ReleaseJob, apiVars
  <2>6. CASE \E w \in Workers : Supervise(w)
    BY <2>6 DEF Supervise, AskToStop, Exit, Crash, Restart, apiVars
  <2> QED
    BY <2>1, <2>2, <2>3, <2>4, <2>5, <2>6 DEF Next
<1>3. \A r \in submitting : limit'[Owner[r]] = limit[Owner[r]]
  BY <1>0, <1>2 DEF ChangePlan, LockedBySubmission, TypeOK
<1>4. ASSUME NEW r \in submitting, NEW r2 \in submitting', r2 = r
      PROVE  Cardinality(InFlight(Owner[r])') + 1 <= limit'[Owner[r]]
  <2> DEFINE u == Owner[r]
  <2>1. /\ u \in Users /\ IsFiniteSet(InFlight(u)) /\ limit[u] \in Nat
        /\ Cardinality(InFlight(u)) + 1 <= limit[u] /\ limit'[u] = limit[u]
    BY <1>0, <1>3 DEF PlanInv, PlanReserved, TypeOK
  <2>2. ~ \E q \in Runs : CommitSubmission(q) /\ Owner[q] = u
    BY <1>4 DEF CommitSubmission, PlanInv, PlanReserved
  <2>3. InFlight(u)' \subseteq InFlight(u)
    BY <2>1, <2>2, InFlightStep
  <2>4. /\ Cardinality(InFlight(u)') <= Cardinality(InFlight(u))
        /\ Cardinality(InFlight(u)') \in Nat /\ Cardinality(InFlight(u)) \in Nat
    BY <2>1, <2>3, FS_Subset, FS_CardinalityType
  <2> QED
    BY <2>1, <2>4
<1>5. CASE submitting' \subseteq submitting
  BY <1>1, <1>4, <1>5 DEF PlanInv, PlanReserved
<1>6. ASSUME NEW q \in Runs, AdmitSubmission(q) PROVE PlanInv'
  <2>1. submitting' = submitting \cup {q} /\ UNCHANGED <<runStatus, limit>>
    BY <1>6 DEF AdmitSubmission, dbVars, runVars
  <2>2. InFlight(Owner[q])' = InFlight(Owner[q])
    BY <2>1 DEF InFlight
  <2>3. Cardinality(InFlight(Owner[q])') + 1 <= limit'[Owner[q]]
    BY <1>6, <2>1, <2>2 DEF AdmitSubmission
  <2>4. \A r \in submitting : Owner[r] # Owner[q]
    BY <1>6 DEF AdmitSubmission, LockedBySubmission
  <2>5. \A r, s \in submitting' : Owner[r] = Owner[s] => r = s
    BY <2>1, <2>4 DEF PlanInv, PlanReserved
  <2>6. \A r \in submitting' : Cardinality(InFlight(Owner[r])') + 1 <= limit'[Owner[r]]
    BY <1>4, <2>1, <2>3
  <2> QED
    BY <1>1, <2>5, <2>6 DEF PlanInv, PlanReserved
<1> QED
  BY <1>2, <1>5, <1>6

\* A place is reserved for every submission in flight, whoever else submits, changes
\* the plan or finishes a run meanwhile.
THEOREM PlacesReserved == Spec => [](PlanReserved /\ PlanInv)
<1>1. Init => PlanInv
  <2> SUFFICES ASSUME Init PROVE PlanInv
    OBVIOUS
  <2>1. \A u \in Users : InFlight(u) = {}
    BY DEF Init, InFlight, Executing
  <2> QED
    BY <2>1, FS_EmptySet DEF Init, PlanInv, PlanReserved
<1>2. QueueInv /\ PlanInv /\ [Next]_vars => PlanInv'
  BY PlanStep
<1>3. PlanInv => PlanReserved
  BY DEF PlanInv
<1> QED
  BY <1>1, <1>2, <1>3, QueueInvariant, PTL DEF Spec

\* However many submissions and plan changes land together, a commit never takes
\* its owner past the plan: the check is still true when the transaction commits.
THEOREM SubmissionsWithinThePlan == Spec => SubmissionWithinPlan
<1> DEFINE Within == \A r \in Runs : jobStatus[r] = "NONE" /\ jobStatus'[r] # "NONE" =>
                       Cardinality(InFlight(Owner[r])') <= limit'[Owner[r]]
<1>1. ASSUME QueueInv, PlanInv, [Next]_vars PROVE Within
  <2> SUFFICES ASSUME NEW r \in Runs, jobStatus[r] = "NONE", jobStatus'[r] # "NONE"
               PROVE  Cardinality(InFlight(Owner[r])') <= limit'[Owner[r]]
    OBVIOUS
  <2>0. TypeOK /\ Owner[r] \in Users /\ limit[Owner[r]] \in Nat
    <3>1. TypeOK
      BY ONLY <1>1 DEF QueueInv
    <3>2. limit \in [Users -> Nat]
      BY ONLY <3>1, QueueAssumption DEF TypeOK, QueueAssumption
    <3>3. Owner[r] \in Users
      BY ONLY r \in Runs, QueueAssumption DEF QueueAssumption
    <3> QED
      BY ONLY <3>1, <3>2, <3>3
  <2>1. CommitSubmission(r)
    BY <1>1, UnsubmittedStep
  <2>2. /\ IsFiniteSet(InFlight(Owner[r]))
        /\ Cardinality(InFlight(Owner[r])) + 1 <= limit[Owner[r]] /\ limit' = limit
    BY <1>1, <2>0, <2>1 DEF PlanInv, PlanReserved, CommitSubmission
  <2>3. \A q \in Runs : q # r => runStatus'[q] = runStatus[q]
    BY <2>0, <2>1 DEF CommitSubmission, TypeOK
  <2>4. InFlight(Owner[r])' \subseteq InFlight(Owner[r]) \cup {r}
    BY <2>3 DEF InFlight
  <2>5. /\ Cardinality(InFlight(Owner[r])') <= Cardinality(InFlight(Owner[r])) + 1
        /\ Cardinality(InFlight(Owner[r])') \in Nat
        /\ Cardinality(InFlight(Owner[r])) \in Nat
    BY <2>2, <2>4, Grows, FS_CardinalityType
  <2> QED
    BY <2>0, <2>2, <2>5
<1>2. QueueInv /\ PlanInv /\ [Next]_vars => [Within]_vars
  BY <1>1
<1>3. [][QueueInv /\ PlanInv /\ [Next]_vars]_vars => [][Within]_vars
  BY <1>2, PTL
<1>4. [][Within]_vars => SubmissionWithinPlan
  BY PTL DEF SubmissionWithinPlan
<1> QED
  BY <1>3, <1>4, QueueInvariant, PlacesReserved, PTL DEF Spec
=============================================================================
