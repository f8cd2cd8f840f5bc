---------------------------- MODULE MonitorSchedule ----------------------------
(***************************************************************************)
(* The Monitor scan schedule: one durable row every monitor process claims *)
(* in turn, the claim loop around it, and the API transactions that ask    *)
(* for a catch-up when a Monitor starts running.                           *)
(*                                                                         *)
(* One SQL statement or transaction is one step.  A heartbeat is three: it *)
(* is sent, it is applied, and its answer is heard, and nothing waits for  *)
(* it.  What a pass decides about a Monitor is left out; which Monitors it *)
(* loaded, and which of them it got to, is kept.                           *)
(***************************************************************************)
EXTENDS Naturals

CONSTANTS
  Workers,             \* monitor worker processes
  Monitors,            \* Monitors that may start running and ask for a catch-up
  MaxFailures,         \* bound: consecutiveFailures is counted up to here
  StallsOutlastLeases, \* TRUE: a live process may stall past its lease
  MaxDisruptions,      \* bound: crashes and stops of worker processes
  NoWorker             \* claimedBy IS NULL

ASSUME ScheduleAssumption ==
  /\ MaxFailures \in Nat \ {0}
  /\ StallsOutlastLeases \in BOOLEAN
  /\ MaxDisruptions \in Nat
  /\ NoWorker \notin Workers

VARIABLES
  (* MonitorScanSchedule *)
  due,           \* dueAt: "ABSENT" (no row yet), "NOW", or not yet come: why
  holder,        \* claimedBy
  lease,         \* leaseExpiresAt: "NONE", "LIVE" or "LAPSED"
  scanRequested, \* BOOLEAN
  failures,      \* consecutiveFailures
  (* Monitor *)
  waiting,       \* Monitors that started running and no pass took up since
  (* worker processes *)
  pc,            \* [Workers -> Steps]
  toVisit,       \* [Workers -> SUBSET Monitors]: loaded, not yet evaluated
  lost,          \* workers whose leaseLost flag is set
  beat,          \* [Workers -> Beats]: the heartbeat in flight
  stopping,      \* workers asked to stop (SIGTERM)
  disruptions    \* crashes and stops so far

rowVars     == <<due, holder, lease, scanRequested, failures>>
processVars == <<stopping, disruptions>>
vars        == <<rowVars, waiting, pc, toVisit, lost, beat, processVars>>

-----------------------------------------------------------------------------
\* A cycle, its heartbeat timer running: the pass, then one write.
Pass  == {"LOAD", "EVALUATE"}
Cycle == Pass \cup {"COMPLETE", "HAND_BACK", "FAIL"}
Steps == {"ENSURE", "RECOVER", "CLAIM", "UNSTARTED", "DOWN"} \cup Cycle
Beats == {"IDLE", "SENT", "HELD", "REFUSED"}

TypeOK ==
  /\ due \in {"ABSENT", "NOW", "BACKOFF", "INTERVAL"}
  /\ holder \in Workers \cup {NoWorker}
  /\ lease \in {"NONE", "LIVE", "LAPSED"}
  /\ scanRequested \in BOOLEAN
  /\ failures \in 0 .. MaxFailures
  /\ waiting \in SUBSET Monitors
  /\ pc \in [Workers -> Steps]
  /\ toVisit \in [Workers -> SUBSET Monitors]
  /\ lost \in SUBSET Workers
  /\ beat \in [Workers -> Beats]
  /\ stopping \in SUBSET Workers
  /\ disruptions \in 0 .. MaxDisruptions

Init ==
  /\ due = "ABSENT"
  /\ holder = NoWorker
  /\ lease = "NONE"
  /\ scanRequested = FALSE
  /\ failures = 0
  /\ waiting = {}
  /\ pc = [w \in Workers |-> "ENSURE"]
  /\ toVisit = [w \in Workers |-> {}]
  /\ lost = {}
  /\ beat = [w \in Workers |-> "IDLE"]
  /\ stopping = {}
  /\ disruptions = 0

-----------------------------------------------------------------------------
(* What the statements read and write *)

\* (wrong) Nothing tells a dead worker's claim from a live one.
NeverExpired == FALSE

\* (wrong) A due cycle is taken whoever holds it.
AlwaysExpired == TRUE

\* The row is claimed and past its lease.
Expired == lease = "LAPSED"

\* (wrong) Any worker may end the cycle.
OwnsAnyway(w) == TRUE

\* The ownership guard of every write after a claim: claimedBy = workerId.
Owns(w) == holder = w

\* (wrong) A catch-up asked for during the cycle waits for the interval.
NextDueLater == "INTERVAL"

\* When the cycle after a completed one is due.
NextDue == IF scanRequested THEN "NOW" ELSE "INTERVAL"

OneMoreFailure == IF failures < MaxFailures THEN failures + 1 ELSE failures

\* The claim is cleared: claimedBy, claimedAt, leaseExpiresAt, heartbeatAt.
ClearClaim == holder' = NoWorker /\ lease' = "NONE"

Goto(w, step) == pc' = [pc EXCEPT ![w] = step]

Aborted(w) == w \in lost \/ w \in stopping

-----------------------------------------------------------------------------
(* The API and the operator *)

\* A transaction that makes m run (created enabled, enabled, rebound) asks for
\* its evaluation and commits both: what a pass loaded of m before is stale.
\* Without a row the request is a no-op.
StartMonitor(m) ==
  /\ waiting' = waiting \cup {m}
  /\ toVisit' = [w \in Workers |-> toVisit[w] \ {m}]
  /\ IF due = "ABSENT" THEN UNCHANGED <<due, scanRequested>>
                       ELSE due' = "NOW" /\ scanRequested' = TRUE
  /\ UNCHANGED <<holder, lease, failures, pc, lost, beat, processVars>>

\* requestImmediateScan: dueAt only ever moves earlier.
RequestImmediateScan ==
  /\ due # "ABSENT"
  /\ due' = "NOW"
  /\ UNCHANGED <<holder, lease, scanRequested, failures, waiting, pc, toVisit,
                 lost, beat, processVars>>

-----------------------------------------------------------------------------
(* Time *)

DueComes ==
  /\ due \in {"BACKOFF", "INTERVAL"}
  /\ due' = "NOW"
  /\ UNCHANGED <<holder, lease, scanRequested, failures, waiting, pc, toVisit,
                 lost, beat, processVars>>

\* Without stalls only a claim no cycle's heartbeat timer renews can lapse.
LapseLease ==
  /\ lease = "LIVE"
  /\ StallsOutlastLeases \/ holder \notin {w \in Workers : pc[w] \in Cycle}
  /\ lease' = "LAPSED"
  /\ UNCHANGED <<due, holder, scanRequested, failures, waiting, pc, toVisit,
                 lost, beat, processVars>>

-----------------------------------------------------------------------------
(* The loop *)

\* ensureSchedule: the first process creates the row, due at once.
EnsureSchedule(w) ==
  /\ pc[w] = "ENSURE"
  /\ due' = IF due = "ABSENT" THEN "NOW" ELSE due
  /\ Goto(w, "RECOVER")
  /\ UNCHANGED <<holder, lease, scanRequested, failures, waiting, toVisit, lost,
                 beat, processVars>>

RecoverExpiredScan(w) ==
  /\ pc[w] = "RECOVER" /\ w \notin stopping
  /\ holder # NoWorker /\ Expired
  /\ ClearClaim
  /\ failures' = OneMoreFailure
  /\ Goto(w, "CLAIM")
  /\ UNCHANGED <<due, scanRequested, waiting, toVisit, lost, beat, processVars>>

\* Nothing expired, the last recovery is too recent, or the statement threw.
SkipRecovery(w) ==
  /\ pc[w] = "RECOVER" /\ w \notin stopping
  /\ Goto(w, "CLAIM")
  /\ UNCHANGED <<rowVars, waiting, toVisit, lost, beat, processVars>>

\* claimDueScan.  The worker hears of the claim, or only of an error; asked to
\* stop meanwhile it does not start the cycle.
ClaimDueScan(w, heard) ==
  /\ pc[w] = "CLAIM"
  /\ due = "NOW"
  /\ lease = "NONE" \/ Expired
  /\ holder' = w
  /\ lease' = "LIVE"
  /\ scanRequested' = FALSE
  /\ IF heard /\ w \notin stopping
       THEN lost' = lost \ {w} /\ Goto(w, "LOAD")
       ELSE UNCHANGED lost /\ Goto(w, IF heard THEN "UNSTARTED" ELSE "RECOVER")
  /\ UNCHANGED <<due, failures, waiting, toVisit, beat, processVars>>

\* Not due, held, locked by another transaction, or an error: poll again.
ClaimNothing(w) ==
  /\ pc[w] = "CLAIM"
  /\ Goto(w, "RECOVER")
  /\ UNCHANGED <<rowVars, waiting, toVisit, lost, beat, processVars>>

-----------------------------------------------------------------------------
(* A cycle *)

\* The pass lists the active Monitors.
LoadMonitors(w) ==
  /\ pc[w] = "LOAD"
  /\ toVisit' = [toVisit EXCEPT ![w] = waiting]
  /\ Goto(w, "EVALUATE")
  /\ UNCHANGED <<rowVars, waiting, lost, beat, processVars>>

\* The pass gets to a Monitor.  An error of one Monitor or one security is
\* logged, and the pass goes on.
Evaluate(w, m) ==
  /\ pc[w] = "EVALUATE" /\ ~Aborted(w)
  /\ m \in toVisit[w]
  /\ toVisit' = [toVisit EXCEPT ![w] = @ \ {m}]
  /\ waiting' = waiting \ {m}
  /\ UNCHANGED <<rowVars, pc, lost, beat, processVars>>

\* (wrong) An aborted pass counts as a cycle.
AfterPassAlways(w) == "COMPLETE"

\* What the loop does when the pass returns.
AfterPass(w) == IF w \in lost THEN "RECOVER"
                ELSE IF w \in stopping THEN "HAND_BACK" ELSE "COMPLETE"

\* The pass returns: it visited everything, or found itself aborted.
EndPass(w) ==
  /\ pc[w] = "EVALUATE"
  /\ toVisit[w] = {} \/ Aborted(w)
  /\ toVisit' = [toVisit EXCEPT ![w] = IF w \in lost THEN {} ELSE @]
  /\ Goto(w, AfterPass(w))
  /\ UNCHANGED <<rowVars, waiting, lost, beat, processVars>>

\* The calendar, the list of Monitors or the database failed the pass.
ThrowInPass(w) ==
  /\ pc[w] \in Pass
  /\ Goto(w, "FAIL")
  /\ UNCHANGED <<rowVars, waiting, toVisit, lost, beat, processVars>>

\* Back to the loop, whatever became of the claim.
EndCycle(w) ==
  /\ Goto(w, "RECOVER")
  /\ toVisit' = [toVisit EXCEPT ![w] = {}]

\* completeScan, releaseScan, failScan: each lands under the ownership guard, or
\* changes nothing (no row matched, or it threw and the lease is left to lapse).
CompleteScan(w) ==
  /\ pc[w] = "COMPLETE"
  /\ EndCycle(w)
  /\ \/ /\ Owns(w)
        /\ ClearClaim
        /\ due' = NextDue
        /\ failures' = 0
        /\ UNCHANGED scanRequested
     \/ UNCHANGED rowVars
  /\ UNCHANGED <<waiting, lost, beat, processVars>>

ReleaseScan(w) ==
  /\ pc[w] \in {"HAND_BACK", "UNSTARTED"}
  /\ EndCycle(w)
  /\ \/ /\ Owns(w)
        /\ ClearClaim
        /\ due' = "NOW"
        /\ UNCHANGED <<failures, scanRequested>>
     \/ UNCHANGED rowVars
  /\ UNCHANGED <<waiting, lost, beat, processVars>>

FailScan(w) ==
  /\ pc[w] = "FAIL"
  /\ EndCycle(w)
  /\ \/ /\ Owns(w)
        /\ ClearClaim
        /\ due' = "BACKOFF"
        /\ failures' = OneMoreFailure
        /\ UNCHANGED scanRequested
     \/ UNCHANGED rowVars
  /\ UNCHANGED <<waiting, lost, beat, processVars>>

-----------------------------------------------------------------------------
(* The heartbeat: at most one in flight, and nothing awaits it *)

SendBeat(w) ==
  /\ pc[w] \in Cycle
  /\ beat[w] = "IDLE"
  /\ beat' = [beat EXCEPT ![w] = "SENT"]
  /\ UNCHANGED <<rowVars, waiting, pc, toVisit, lost, processVars>>

ApplyBeat(w) ==
  /\ beat[w] = "SENT"
  /\ IF Owns(w) THEN lease' = "LIVE" /\ beat' = [beat EXCEPT ![w] = "HELD"]
                ELSE UNCHANGED lease /\ beat' = [beat EXCEPT ![w] = "REFUSED"]
  /\ UNCHANGED <<due, holder, scanRequested, failures, waiting, pc, toVisit,
                 lost, processVars>>

\* The answer, or an error (which says nothing), reaches the process.
HearBeat(w) ==
  /\ beat[w] # "IDLE"
  /\ beat' = [beat EXCEPT ![w] = "IDLE"]
  /\ lost' = IF beat[w] = "REFUSED" THEN lost \cup {w} ELSE lost
  /\ UNCHANGED <<rowVars, waiting, pc, toVisit, processVars>>

-----------------------------------------------------------------------------
(* Processes *)

AskToStop(w) ==
  /\ pc[w] # "DOWN" /\ w \notin stopping
  /\ disruptions < MaxDisruptions
  /\ disruptions' = disruptions + 1
  /\ stopping' = stopping \cup {w}
  /\ UNCHANGED <<rowVars, waiting, pc, toVisit, lost, beat>>

\* The process has gone, and its flags and its timer with it.
Gone(w) ==
  /\ Goto(w, "DOWN")
  /\ toVisit' = [toVisit EXCEPT ![w] = {}]
  /\ lost' = lost \ {w}
  /\ beat' = [beat EXCEPT ![w] = "IDLE"]
  /\ stopping' = stopping \ {w}

Exit(w) ==
  /\ pc[w] = "RECOVER" /\ w \in stopping
  /\ Gone(w)
  /\ UNCHANGED <<rowVars, waiting, disruptions>>

\* A crash, a SIGKILL, or an error nothing caught (ensureSchedule throws).
Crash(w) ==
  /\ pc[w] # "DOWN"
  /\ disruptions < MaxDisruptions
  /\ disruptions' = disruptions + 1
  /\ Gone(w)
  /\ UNCHANGED <<rowVars, waiting>>

\* The supervisor starts another process, under a workerId of its own; here it
\* takes the free name, which no write can tell before it claims a cycle.
Restart(w) ==
  /\ pc[w] = "DOWN"
  /\ Goto(w, "ENSURE")
  /\ UNCHANGED <<rowVars, waiting, toVisit, lost, beat, processVars>>

-----------------------------------------------------------------------------
Loop(w) == \/ EnsureSchedule(w) \/ RecoverExpiredScan(w) \/ SkipRecovery(w)
           \/ \E heard \in BOOLEAN : ClaimDueScan(w, heard)
           \/ ClaimNothing(w)

RunCycle(w) == \/ LoadMonitors(w) \/ (\E m \in Monitors : Evaluate(w, m))
               \/ EndPass(w) \/ ThrowInPass(w)
               \/ CompleteScan(w) \/ ReleaseScan(w) \/ FailScan(w)

Heartbeat(w) == SendBeat(w) \/ ApplyBeat(w) \/ HearBeat(w)

Supervise(w) == AskToStop(w) \/ Exit(w) \/ Crash(w) \/ Restart(w)

Next == \/ \E m \in Monitors : StartMonitor(m)
        \/ RequestImmediateScan \/ DueComes \/ LapseLease
        \/ \E w \in Workers : Loop(w) \/ RunCycle(w) \/ Heartbeat(w) \/ Supervise(w)

Spec == Init /\ [][Next]_vars

\* A live process goes on, time passes, and neither a pass nor a statement fails
\* every time, nor does an old heartbeat's answer come before every load.
\* Nothing makes anybody ask for a scan, or a process stop.
Fairness ==
  /\ WF_vars(DueComes)
  /\ WF_vars(LapseLease /\ holder \notin {w \in Workers : pc[w] \in Cycle})
  /\ \A w \in Workers :
       /\ WF_vars(EnsureSchedule(w) \/ SkipRecovery(w) \/ ClaimNothing(w)
                  \/ LoadMonitors(w) \/ EndPass(w) \/ CompleteScan(w)
                  \/ ReleaseScan(w) \/ FailScan(w) \/ Exit(w) \/ Restart(w))
       /\ SF_vars(RecoverExpiredScan(w))
       /\ SF_vars(ClaimDueScan(w, TRUE))
       /\ SF_vars(~Aborted(w) /\ LoadMonitors(w))
       /\ \A m \in Monitors : SF_vars(Evaluate(w, m))

FairSpec == Spec /\ Fairness

-----------------------------------------------------------------------------
(* Properties *)

\* A Monitor that started running never waits out a scan interval: whatever
\* crashes, takeovers and late completions happen, while some Monitor waits for
\* its first pass the next cycle is due now or is the retry of a failed one.
CatchUpNeverWaits == waiting # {} => due # "INTERVAL"

\* What makes it so: the request a cycle took off the row is owed by the cycle.
\* A waiting Monitor is asked for on the row, or the cycle has yet to load it or
\* still has to visit it.
Owed(w) == \/ scanRequested
           \/ /\ pc[w] = "EVALUATE" => waiting \subseteq toVisit[w]
              /\ pc[w] = "COMPLETE" => waiting = {}

\* The claim columns of the row move together, a claimed row is due, and what its
\* holder owes is kept: with the above, an inductive invariant.
ScheduleInv ==
  /\ TypeOK
  /\ CatchUpNeverWaits
  /\ (holder = NoWorker) <=> (lease = "NONE")
  /\ holder # NoWorker => due = "NOW"
  /\ \A w \in Workers : holder = w => Owed(w)

\* While no live process stalls past its lease, one process at a time passes over
\* the Monitors, whatever crashes, lost answers and recoveries happen.
OnePassAtATime ==
  \A v, w \in Workers : pc[v] \in Pass /\ pc[w] \in Pass => v = w

\* A claim ends by a step of the process that holds it, or after its lease
\* lapsed: a displaced cycle never pushes another process's cycle out.
ClaimTakenOnlyFromTheDead ==
  [][\A w \in Workers : holder = w /\ holder' # w =>
        lease = "LAPSED" \/ (pc[w] # pc'[w] /\ pc[w] \in Cycle \cup {"UNSTARTED"})]_vars

\* The failure history is cleared only by a pass that got to every Monitor it
\* loaded: a stop or a takeover never reads as a success.
SuccessMeansWholePass ==
  [][failures' < failures =>
       \E w \in Workers : pc[w] = "COMPLETE" /\ pc'[w] # "COMPLETE" /\ toVisit[w] = {}]_vars

\* Every Monitor that starts running is taken up by a pass.
EveryMonitorTakenUp == \A m \in Monitors : m \in waiting ~> m \notin waiting

\* The failure mode of a singleton: scanning never stops silently, though
\* claims are left behind by crashes and unanswered statements.
ScanningNeverStops == []<>(\E w \in Workers : pc[w] = "LOAD")
=============================================================================
