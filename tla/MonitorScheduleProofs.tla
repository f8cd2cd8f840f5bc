------------------------- MODULE MonitorScheduleProofs -------------------------
(***************************************************************************)
(* What TLAPS proves of the Monitor scan schedule for any number of        *)
(* processes and Monitors, with stalls, crashes and lost answers.          *)
(***************************************************************************)
EXTENDS MonitorSchedule, TLAPS

\* Every step keeps the types.
LEMMA ScheduleTypes == TypeOK /\ [Next]_vars => TypeOK'
<1> SUFFICES ASSUME TypeOK, [Next]_vars PROVE TypeOK'
  OBVIOUS
<1> USE ScheduleAssumption DEF TypeOK, Pass, Cycle, Steps, Beats, rowVars,
        processVars, Goto, ClearClaim, OneMoreFailure
<1>1. ASSUME NEW m \in Monitors, StartMonitor(m) PROVE TypeOK'
  BY <1>1 DEF StartMonitor
<1>2. CASE RequestImmediateScan \/ DueComes \/ LapseLease
  BY <1>2 DEF RequestImmediateScan, DueComes, LapseLease
<1>3. ASSUME NEW w \in Workers, Loop(w) PROVE TypeOK'
  <2>1. CASE EnsureSchedule(w) \/ RecoverExpiredScan(w) \/ SkipRecovery(w) \/ ClaimNothing(w)
    BY <2>1 DEF EnsureSchedule, RecoverExpiredScan, SkipRecovery, ClaimNothing
  <2>2. ASSUME NEW heard \in BOOLEAN, ClaimDueScan(w, heard) PROVE TypeOK'
    BY <2>2 DEF ClaimDueScan
  <2> QED
    BY <1>3, <2>1, <2>2 DEF Loop
<1>4. ASSUME NEW w \in Workers, RunCycle(w) PROVE TypeOK'
  <2>1. CASE LoadMonitors(w) \/ ThrowInPass(w)
    BY <2>1 DEF LoadMonitors, ThrowInPass
  <2>2. ASSUME NEW m \in Monitors, Evaluate(w, m) PROVE TypeOK'
    BY <2>2 DEF Evaluate
  <2>3. CASE EndPass(w)
    BY <2>3 DEF EndPass, AfterPass
  <2>4. CASE CompleteScan(w) \/ ReleaseScan(w) \/ FailScan(w)
    BY <2>4 DEF CompleteScan, ReleaseScan, FailScan, EndCycle, NextDue
  <2> QED
    BY <1>4, <2>1, <2>2, <2>3, <2>4 DEF RunCycle
<1>5. ASSUME NEW w \in Workers, Heartbeat(w) PROVE TypeOK'
  BY <1>5 DEF Heartbeat, SendBeat, ApplyBeat, HearBeat
<1>6. ASSUME NEW w \in Workers, Supervise(w) PROVE TypeOK'
  BY <1>6 DEF Supervise, AskToStop, Exit, Crash, Gone, Restart
<1>7. CASE UNCHANGED vars
  BY <1>7 DEF vars
<1> QED
  BY <1>1, <1>2, <1>3, <1>4, <1>5, <1>6, <1>7 DEF Next

\* The claim columns of the row, and when it is due.
RowOK == /\ (holder = NoWorker) <=> (lease = "NONE")
         /\ holder # NoWorker => due = "NOW"

DebtsKept == \A w \in Workers : holder = w => Owed(w)

\* Every statement moves the claim columns together, and only one on the row's
\* holder, or none, moves dueAt away.
LEMMA RowStep ==
  ASSUME TypeOK, RowOK, [Next]_vars PROVE RowOK'
<1> USE ScheduleAssumption DEF TypeOK, RowOK, rowVars, Goto, ClearClaim, Owns
<1>1. ASSUME NEW m \in Monitors, StartMonitor(m) PROVE RowOK'
  BY <1>1 DEF StartMonitor
<1>2. CASE RequestImmediateScan \/ DueComes \/ LapseLease
  BY <1>2 DEF RequestImmediateScan, DueComes, LapseLease
<1>3. ASSUME NEW w \in Workers, Loop(w) PROVE RowOK'
  BY <1>3 DEF Loop, EnsureSchedule, RecoverExpiredScan, SkipRecovery, ClaimDueScan,
              ClaimNothing
<1>4. ASSUME NEW w \in Workers, RunCycle(w) PROVE RowOK'
  BY <1>4 DEF RunCycle, LoadMonitors, ThrowInPass, Evaluate, EndPass, CompleteScan,
              ReleaseScan, FailScan
<1>5. ASSUME NEW w \in Workers, Heartbeat(w) PROVE RowOK'
  BY <1>5 DEF Heartbeat, SendBeat, ApplyBeat, HearBeat
<1>6. ASSUME NEW w \in Workers, Supervise(w) PROVE RowOK'
  BY <1>6 DEF Supervise, AskToStop, Exit, Crash, Restart
<1>7. CASE UNCHANGED vars
  BY <1>7 DEF vars
<1> QED
  BY <1>1, <1>2, <1>3, <1>4, <1>5, <1>6, <1>7 DEF Next

\* What the holder owes survives every step: a request made during the cycle is
\* on the row, and a visit pays for the Monitor it takes up.
LEMMA DebtStep ==
  ASSUME TypeOK, RowOK, DebtsKept, [Next]_vars, NEW v \in Workers, holder' = v
  PROVE  Owed(v)'
<1> USE ScheduleAssumption DEF TypeOK, RowOK, DebtsKept, Owed, rowVars, Goto
<1>1. ASSUME NEW m \in Monitors, StartMonitor(m) PROVE Owed(v)'
  BY <1>1 DEF StartMonitor
<1>2. CASE RequestImmediateScan \/ DueComes \/ LapseLease
  BY <1>2 DEF RequestImmediateScan, DueComes, LapseLease
<1>3. ASSUME NEW w \in Workers, Loop(w) PROVE Owed(v)'
  BY <1>3 DEF Loop, EnsureSchedule, RecoverExpiredScan, SkipRecovery, ClaimDueScan,
              ClaimNothing, ClearClaim
<1>4. ASSUME NEW w \in Workers, RunCycle(w) PROVE Owed(v)'
  <2>1. CASE LoadMonitors(w) \/ ThrowInPass(w)
    BY <2>1 DEF LoadMonitors, ThrowInPass
  <2>2. ASSUME NEW m \in Monitors, Evaluate(w, m) PROVE Owed(v)'
    BY <2>2 DEF Evaluate
  <2>3. CASE EndPass(w)
    BY <2>3 DEF EndPass, AfterPass, Aborted
  <2>4. CASE CompleteScan(w) \/ ReleaseScan(w) \/ FailScan(w)
    BY <2>4 DEF CompleteScan, ReleaseScan, FailScan, EndCycle, ClearClaim
  <2> QED
    BY <1>4, <2>1, <2>2, <2>3, <2>4 DEF RunCycle
<1>5. ASSUME NEW w \in Workers, Heartbeat(w) PROVE Owed(v)'
  BY <1>5 DEF Heartbeat, SendBeat, ApplyBeat, HearBeat
<1>6. ASSUME NEW w \in Workers, Supervise(w) PROVE Owed(v)'
  BY <1>6 DEF Supervise, AskToStop, Exit, Crash, Gone, Restart
<1>7. CASE UNCHANGED vars
  BY <1>7 DEF vars
<1> QED
  BY <1>1, <1>2, <1>3, <1>4, <1>5, <1>6, <1>7 DEF Next

\* Only a completion makes the next cycle due after an interval, and it pays
\* what the cycle owed.
LEMMA CatchUpStep ==
  ASSUME TypeOK, CatchUpNeverWaits, DebtsKept, [Next]_vars PROVE CatchUpNeverWaits'
<1> USE DEF CatchUpNeverWaits, rowVars
<1>1. ASSUME NEW m \in Monitors, StartMonitor(m) PROVE CatchUpNeverWaits'
  BY <1>1 DEF StartMonitor
<1>2. CASE RequestImmediateScan \/ DueComes \/ LapseLease
  BY <1>2 DEF RequestImmediateScan, DueComes, LapseLease
<1>3. ASSUME NEW w \in Workers, Loop(w) PROVE CatchUpNeverWaits'
  BY <1>3 DEF Loop, EnsureSchedule, RecoverExpiredScan, SkipRecovery, ClaimDueScan,
              ClaimNothing
<1>4. ASSUME NEW w \in Workers, RunCycle(w) PROVE CatchUpNeverWaits'
  <2>1. CASE CompleteScan(w)
    BY <2>1 DEF CompleteScan, Owns, NextDue, DebtsKept, Owed
  <2> QED
    BY <1>4, <2>1 DEF RunCycle, LoadMonitors, ThrowInPass, Evaluate, EndPass,
                      ReleaseScan, FailScan
<1>5. ASSUME NEW w \in Workers, Heartbeat(w) PROVE CatchUpNeverWaits'
  BY <1>5 DEF Heartbeat, SendBeat, ApplyBeat, HearBeat
<1>6. ASSUME NEW w \in Workers, Supervise(w) PROVE CatchUpNeverWaits'
  BY <1>6 DEF Supervise, AskToStop, Exit, Crash, Restart
<1>7. CASE UNCHANGED vars
  BY <1>7 DEF vars
<1> QED
  BY <1>1, <1>2, <1>3, <1>4, <1>5, <1>6, <1>7 DEF Next

\* The schedule row stays sound and no catch-up is forgotten by it, whichever
\* process claims, loses, hands back or completes a cycle (scan-repository.ts).
THEOREM ScheduleInvariant == Spec => []ScheduleInv
<1>1. Init => ScheduleInv
  <2>1. Init => TypeOK
    <3>1. Init => scanRequested \in BOOLEAN
      BY DEF Init
    <3>2. Init => /\ pc \in [Workers -> Steps]
                  /\ toVisit \in [Workers -> SUBSET Monitors]
                  /\ beat \in [Workers -> Beats]
      BY DEF Init, Steps, Beats
    <3>3. Init => /\ holder \in Workers \cup {NoWorker}
                  /\ failures \in 0 .. MaxFailures /\ disruptions \in 0 .. MaxDisruptions
      BY ScheduleAssumption DEF Init
    <3> QED
      BY <3>1, <3>2, <3>3 DEF Init, TypeOK
  <2>2. Init => /\ CatchUpNeverWaits
                /\ (holder = NoWorker) <=> (lease = "NONE")
                /\ holder # NoWorker => due = "NOW"
                /\ \A w \in Workers : holder = w => Owed(w)
    BY ScheduleAssumption DEF Init, CatchUpNeverWaits
  <2> QED
    BY <2>1, <2>2 DEF ScheduleInv
<1>2. ASSUME ScheduleInv, [Next]_vars PROVE ScheduleInv'
  <2>1. TypeOK /\ RowOK /\ DebtsKept /\ CatchUpNeverWaits
    BY <1>2 DEF ScheduleInv, RowOK, DebtsKept
  <2>2. TypeOK' /\ RowOK' /\ CatchUpNeverWaits'
    BY <1>2, <2>1, ScheduleTypes, RowStep, CatchUpStep
  <2>3. DebtsKept'
    BY <1>2, <2>1, DebtStep DEF DebtsKept
  <2> QED
    BY <2>2, <2>3 DEF ScheduleInv, RowOK, DebtsKept
<1> QED
  BY <1>1, <1>2, PTL DEF Spec

\* A Monitor that was just switched on never waits for the scan interval
\* (requestMonitorEvaluation, claimDueScan, completeScan).
COROLLARY NoCatchUpWaits == Spec => []CatchUpNeverWaits
<1>1. ScheduleInv => CatchUpNeverWaits
  BY DEF ScheduleInv
<1> QED
  BY <1>1, ScheduleInvariant, PTL

\* A displaced cycle cannot end another process's cycle: completeScan,
\* releaseScan and failScan match the row by its holder.
THEOREM ClaimsAreTheHolders == Spec => ClaimTakenOnlyFromTheDead
<1> DEFINE Kept == \A w \in Workers : holder = w /\ holder' # w =>
        lease = "LAPSED" \/ (pc[w] # pc'[w] /\ pc[w] \in Cycle \cup {"UNSTARTED"})
<1>1. ASSUME ScheduleInv, [Next]_vars PROVE Kept
  <2> USE <1>1, ScheduleAssumption DEF ScheduleInv, TypeOK, rowVars, Goto
  <2>1. ASSUME NEW v \in Workers, Loop(v) PROVE Kept
    BY <2>1 DEF Loop, EnsureSchedule, RecoverExpiredScan, SkipRecovery,
                ClaimDueScan, ClaimNothing, Expired
  <2>2. ASSUME NEW v \in Workers, RunCycle(v) PROVE Kept
    <3>1. CASE CompleteScan(v) \/ ReleaseScan(v) \/ FailScan(v)
      BY <3>1 DEF CompleteScan, ReleaseScan, FailScan, EndCycle, Owns, Cycle
    <3> QED
      BY <2>2, <3>1 DEF RunCycle, LoadMonitors, ThrowInPass, Evaluate, EndPass
  <2>3. ASSUME NEW v \in Workers, Heartbeat(v) \/ Supervise(v) PROVE Kept
    BY <2>3 DEF Heartbeat, SendBeat, ApplyBeat, HearBeat, Supervise, AskToStop,
                Exit, Crash, Restart
  <2> QED
    BY <2>1, <2>2, <2>3 DEF Next, vars, StartMonitor, RequestImmediateScan,
                            DueComes, LapseLease
<1>2. ScheduleInv /\ [Next]_vars => [Kept]_vars
  BY <1>1
<1>3. [][ScheduleInv /\ [Next]_vars]_vars => [][Kept]_vars
  BY <1>2, PTL
<1>4. [][Kept]_vars => ClaimTakenOnlyFromTheDead
  BY PTL DEF ClaimTakenOnlyFromTheDead
<1> QED
  BY <1>3, <1>4, ScheduleInvariant, PTL DEF Spec

\* While no live process stalls past its lease, a pass runs under a live claim.
PassesHold == \A w \in Workers : pc[w] \in Pass => holder = w /\ lease = "LIVE"

LEMMA PassStep ==
  ASSUME ~StallsOutlastLeases, TypeOK, PassesHold, [Next]_vars PROVE PassesHold'
<1> USE ScheduleAssumption DEF TypeOK, PassesHold, Pass, rowVars, Goto
<1>1. ASSUME NEW m \in Monitors, StartMonitor(m) PROVE PassesHold'
  BY <1>1 DEF StartMonitor
<1>2. CASE RequestImmediateScan \/ DueComes \/ LapseLease
  BY <1>2 DEF RequestImmediateScan, DueComes, LapseLease, Cycle
<1>3. ASSUME NEW w \in Workers, Loop(w) PROVE PassesHold'
  BY <1>3 DEF Loop, EnsureSchedule, RecoverExpiredScan, SkipRecovery, ClaimDueScan,
              ClaimNothing, Expired
<1>4. ASSUME NEW w \in Workers, RunCycle(w) PROVE PassesHold'
  <2>1. CASE CompleteScan(w) \/ ReleaseScan(w) \/ FailScan(w)
    BY <2>1 DEF CompleteScan, ReleaseScan, FailScan, EndCycle, ClearClaim, Owns
  <2> QED
    BY <1>4, <2>1 DEF RunCycle, LoadMonitors, ThrowInPass, Evaluate, EndPass, AfterPass
<1>5. ASSUME NEW w \in Workers, Heartbeat(w) PROVE PassesHold'
  BY <1>5 DEF Heartbeat, SendBeat, ApplyBeat, HearBeat
<1>6. ASSUME NEW w \in Workers, Supervise(w) PROVE PassesHold'
  BY <1>6 DEF Supervise, AskToStop, Exit, Crash, Gone, Restart
<1>7. CASE UNCHANGED vars
  BY <1>7 DEF vars
<1> QED
  BY <1>1, <1>2, <1>3, <1>4, <1>5, <1>6, <1>7 DEF Next

\* The claim keeps the cycle a singleton (claimDueScan, startHeartbeat): passes
\* overlap only after a live process stalled past its lease.
THEOREM PassesNeverOverlap ==
  ASSUME ~StallsOutlastLeases PROVE Spec => []OnePassAtATime
<1>1. Init => PassesHold
  BY DEF Init, PassesHold, Pass
<1>2. TypeOK /\ PassesHold /\ [Next]_vars => PassesHold'
  BY PassStep
<1>3. ScheduleInv => TypeOK
  BY DEF ScheduleInv
<1>4. PassesHold => OnePassAtATime
  BY DEF PassesHold, OnePassAtATime
<1> QED
  BY <1>1, <1>2, <1>3, <1>4, ScheduleInvariant, PTL DEF Spec

\* A cycle comes to its completion with every Monitor visited that it loaded and
\* that no transaction started anew since.
AllVisited == \A w \in Workers : pc[w] = "COMPLETE" => toVisit[w] = {}

\* A pass that was aborted goes to its release or back to the loop, and a start
\* only ever takes a Monitor off what a pass has left to visit.
LEMMA VisitedStep == ASSUME TypeOK, AllVisited, [Next]_vars PROVE AllVisited'
<1> USE DEF TypeOK, AllVisited, rowVars, Goto
<1>1. ASSUME NEW m \in Monitors, StartMonitor(m) PROVE AllVisited'
  BY <1>1 DEF StartMonitor
<1>2. CASE RequestImmediateScan \/ DueComes \/ LapseLease
  BY <1>2 DEF RequestImmediateScan, DueComes, LapseLease
<1>3. ASSUME NEW w \in Workers, Loop(w) PROVE AllVisited'
  BY <1>3 DEF Loop, EnsureSchedule, RecoverExpiredScan, SkipRecovery, ClaimDueScan,
              ClaimNothing
<1>4. ASSUME NEW w \in Workers, RunCycle(w) PROVE AllVisited'
  <2>1. CASE EndPass(w)
    BY <2>1 DEF EndPass, AfterPass, Aborted
  <2>2. CASE CompleteScan(w) \/ ReleaseScan(w) \/ FailScan(w)
    BY <2>2 DEF CompleteScan, ReleaseScan, FailScan, EndCycle
  <2> QED
    BY <1>4, <2>1, <2>2 DEF RunCycle, LoadMonitors, ThrowInPass, Evaluate
<1>5. ASSUME NEW w \in Workers, Heartbeat(w) PROVE AllVisited'
  BY <1>5 DEF Heartbeat, SendBeat, ApplyBeat, HearBeat
<1>6. ASSUME NEW w \in Workers, Supervise(w) PROVE AllVisited'
  BY <1>6 DEF Supervise, AskToStop, Exit, Crash, Gone, Restart
<1>7. CASE UNCHANGED vars
  BY <1>7 DEF vars
<1> QED
  BY <1>1, <1>2, <1>3, <1>4, <1>5, <1>6, <1>7 DEF Next

\* Failures are forgotten by a completed pass alone: a stop, a lost lease or an error
\* in the middle of a pass never reads as a success (completeScan, releaseScan).
THEOREM SuccessIsWhole == Spec => SuccessMeansWholePass
<1> DEFINE Whole == failures' < failures =>
       \E w \in Workers : pc[w] = "COMPLETE" /\ pc'[w] # "COMPLETE" /\ toVisit[w] = {}
<1>1. ASSUME TypeOK, AllVisited, [Next]_vars PROVE Whole
  <2> SUFFICES ASSUME failures' < failures
               PROVE  \E w \in Workers : /\ pc[w] = "COMPLETE" /\ pc'[w] # "COMPLETE"
                                         /\ toVisit[w] = {}
    OBVIOUS
  <2> USE <1>1, ScheduleAssumption DEF TypeOK, rowVars
  <2>1. failures \in Nat /\ ~(failures < failures) /\ ~(OneMoreFailure < failures)
    BY DEF OneMoreFailure
  <2>2. ASSUME NEW v \in Workers, Loop(v) PROVE FALSE
    BY <2>1, <2>2 DEF Loop, EnsureSchedule, RecoverExpiredScan, SkipRecovery,
                      ClaimDueScan, ClaimNothing
  <2>3. ASSUME NEW v \in Workers, RunCycle(v) PROVE CompleteScan(v)
    BY <2>1, <2>3 DEF RunCycle, LoadMonitors, ThrowInPass, Evaluate, EndPass,
                      ReleaseScan, FailScan
  <2>4. ASSUME NEW v \in Workers, Heartbeat(v) \/ Supervise(v) PROVE FALSE
    BY <2>1, <2>4 DEF Heartbeat, SendBeat, ApplyBeat, HearBeat, Supervise, AskToStop,
                      Exit, Crash, Restart
  <2>5. PICK v \in Workers : CompleteScan(v)
    BY <2>1, <2>2, <2>3, <2>4 DEF Next, vars, StartMonitor, RequestImmediateScan,
                                  DueComes, LapseLease
  <2> QED
    BY <2>5 DEF CompleteScan, EndCycle, Goto, AllVisited
<1>2. TypeOK /\ AllVisited /\ [Next]_vars => [Whole]_vars
  BY <1>1
<1>3. [][TypeOK /\ AllVisited /\ [Next]_vars]_vars => [][Whole]_vars
  BY <1>2, PTL
<1>4. [][Whole]_vars => SuccessMeansWholePass
  BY PTL DEF SuccessMeansWholePass
<1>5. Init => AllVisited
  BY DEF Init, AllVisited
<1>6. TypeOK /\ AllVisited /\ [Next]_vars => AllVisited'
  BY VisitedStep
<1>7. ScheduleInv => TypeOK
  BY DEF ScheduleInv
<1> QED
  BY <1>3, <1>4, <1>5, <1>6, <1>7, ScheduleInvariant, PTL DEF Spec
=============================================================================
