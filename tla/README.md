# FactorSage, specified

TLA+ specifications of the parts of FactorSage that run concurrently over the
same PostgreSQL rows, or over rows and Stripe: what they promise, how they are model-checked with TLC on
small instances, and what is proved with TLAPS for instances of any size.

## 1. The system

FactorSage lets a user screen stocks with a strategy, backtest it and let a
*Monitor* watch a list of stocks for it. The repository is a monorepo:

| Component | Where | State it keeps | Operations |
|---|---|---|---|
| API | `apps/api` | none of its own; transactions on PostgreSQL | submit and cancel runs, edit lists, strategies and Monitors, billing, authentication |
| Worker supervisor | `apps/worker/src/index.ts` | child table, restart timers | start, restart with backoff, stop with a kill grace |
| Backtest workers | `apps/worker/src/backtest` | the claim in hand and its lease object | recover, claim, prepare, simulate, finalize, fail, cancel, release |
| Monitor workers | `apps/worker/src/monitor` | `stopping`, `leaseLost`, one heartbeat | claim the scan, one pass over the active Monitors, complete, release, fail, recover |
| Market data and end-of-day workers | `apps/worker/src/market-data`, `stock-eod` | per-series backoff, budget | the same claim protocol on rows of their own; one refresh run |
| Stock data | `packages/stock-data` | Redis projections, Redlock leases, the FMP request gate | load, refresh, publish, wait for a slot |
| Billing | `apps/api/src/billing` | mirror of Stripe, the user's plan, processed events | receive webhooks, reconcile, change the plan, open a Checkout, release spent schedules |
| Strategy, domain, valuation | `packages/*` | none | evaluate definitions, indicators, positions |
| Web | `apps/web` | none that is durable | reads the API |

They interact through rows and locks, not by messages: the API inserts a
`BacktestJob`, a worker claims it with a lease; the API sets
`cancelRequestedAt`, a worker's heartbeat reads it back; the API sets
`scanRequested`, the Monitor claim consumes it. Two advisory locks serialise what
several parties count: the global admission lock (claims) and a lock per user
(submissions, plan changes, claims of that user's runs). Stripe is the one peer
outside: the API calls it, inside a transaction that holds the user's lock, and
Stripe calls back with webhooks that are repeated until they are acknowledged.

What is hard here, and what a test hardly reaches:

* a worker that is slow, not dead: its lease lapses, its run or its scan is taken
  over, and then it writes;
* a crash, a stop or a lost answer between any two statements;
* a cancellation that races a claim, a release, a recovery or the last write;
* counting before inserting, when several transactions count at once;
* a request made while a cycle runs that has loaded its data already;
* a heartbeat nobody waits for;
* webhooks that arrive twice, late or out of order, and two tabs that pay;
* a transaction the database gave up on while its request goes on calling Stripe;
* a pass over the Monitors that loads its rows in several statements, with an
  edit, a rebind or another pass between them and its write.

`PROJECT.json` lists every hazard with its line and the properties about it.

## 2. The modules

| Module | Models |
|---|---|
| `BacktestQueue` | runs, jobs, progress, submissions, plans, and the backtest worker processes |
| `BacktestRunLifecycle` | abstract: what the queue promises the owner of a run |
| `BacktestQueueProofs` | theorems about `BacktestQueue`: the tables, the attempts, cancellation |
| `BacktestSlotsProofs` | theorems about its two limits: the cap and the plan |
| `BacktestRefinementProofs` | the proof that `BacktestQueue` implements `BacktestRunLifecycle` |
| `MonitorSchedule` | the Monitor scan schedule, the monitor worker processes, the catch-up requests of the API |
| `MonitorScheduleProofs` | theorems about `MonitorSchedule` |
| `MonitorLifecycle` | the pure reducer of a level's lifecycle, and its reconstruction from history |
| `MonitorLifecycleProofs` | theorems about the reducer, its replay and its reconstruction |
| `MonitorEvaluation` | what passes read, decide and write for a member of a Monitor, beside edits of it; extends `MonitorLifecycle` |
| `MonitorEvaluationProofs` | theorems about `MonitorEvaluation`: the rows, the history, what is decided once, the exact state |
| `Billing` | an account's subscriptions at Stripe, its rows, and the requests and webhooks between them |
| `BillingProofs` | theorems about `Billing`: what Stripe is asked for, and in which order |
| `BillingMirrorProofs` | theorems about its rows: the mirror, the plan, spent schedules |
| `MCBacktestQueue`, `MCMonitorSchedule`, `MCMonitorEvaluation`, `MCBilling` | instances for TLC: owners of runs, kinds of sessions, symmetry |

Everywhere **one transaction, or one statement or call outside a transaction, is one
step**, and everything a process does between two of them is local to it. Time
is abstracted to the events that matter: a lease is `LIVE` or `LAPSED`
(`LapseLease`), a backoff ends (`EndBackoff`), a cycle comes due (`DueComes`).
Whether a *live* process can stall past its lease is the constant
`StallsOutlastLeases`: TRUE for what must hold regardless, FALSE for what the
code promises only while no process stalls. Operators marked *(wrong)* are not
part of the specification; each is the same definition with a plausible bug, kept
to show that a property notices it.

### BacktestQueue

State: the rows (`jobStatus`, `claimedBy`, `lease`, `attempts`,
`cancelRequested`; `available` and `ahead` for `availableAt` and the order it
induces; `runStatus`, `result`; `progress`, `snapshot`, `milestones`), the plan
`limit`, the submissions in flight (`submitting`: they hold their owner's lock and
have inserted nothing visible), and for each process its place `pc`, the claim in
hand (`task`, `taskAttempt`) and the lease object (`lost`, `cancelSeen`).
`snapshot`, `milestones` and `result` hold the *attempt* that wrote them, which
is all the properties need of their content.

Actions follow the code one to one: `AdmitSubmission`/`CommitSubmission`/
`AbortSubmission` and `CancelQueued`/`RequestCancel` (`backtests.service.ts`);
`RecoverCancelled`, `RequeueStale`, `AbandonExhausted` (the three statements of
`recoverStaleJobs`, each a step, because they are not one transaction);
`Claim` (`claimNextJob`, with its two limits, its order and its candidate batch; a
candidate is passed over when its owner's lock is taken, its owner's plan is full, or
its row is locked by a `cancelRun` that has not committed, and only in the last case
are the same owner's runs behind it still considered);
`Heartbeat`, `NoticeCancellation` (`job-lease.ts`); `PrepareData`,
`StartSimulation`, `Checkpoint`, `StartFinalizing`, `PersistResult`
(`backtest-processor.ts`); `RecordFailure`, `RecordCancellation`,
`ReadCancelBeforeRelease`, `ReleaseJob` (`worker-loop.ts`); and `AskToStop`,
`Exit`, `Crash`, `Restart` (the process and its supervisor).

Every write may land, match no row, or throw. Where a throw does not say whether the
transaction committed (`persistResult`), both are possible. A claim whose commit
the worker never hears of leaves the same state as a crash right after the claim,
and is not a separate step.

A worker takes its old name again after a restart. In the code the name is new;
that makes no difference, because a process that has claimed nothing writes
nothing, and it makes the model slightly more permissive, never less.

### BacktestRunLifecycle

A run is submitted, tried at most `MaxAttempts` times, and ends once: completed
with the result of its last try, failed or cancelled with none; after a request to
stop it no try starts; while it waits nothing of a dead try shows. The refinement
mapping collapses the three executing statuses into one and reads the published
attempts off `snapshot` and `milestones`. `ImplementsLifecycle` is checked as a
property of every behaviour of the queue.

### MonitorSchedule

State: the columns of the singleton row (`due`, `holder`, `lease`,
`scanRequested`, `failures`), the Monitors that started running and were not
taken up yet (`waiting`), and for each process its place in the loop, the waiting
Monitors its pass has loaded and still has to visit (`toVisit`), `lost`
(`leaseLost`), the heartbeat in flight (`beat`) and `stopping`. `due` keeps *why*
the row is not due (`BACKOFF` or `INTERVAL`): that is what the catch-up property
is about.

A heartbeat is three steps (`SendBeat`, `ApplyBeat`, `HearBeat`) because nothing
awaits it: it may be applied, or answered, after its cycle ended. `StartMonitor`
is the API transaction around `requestMonitorEvaluation`; it also takes the
Monitor out of what running passes have loaded, since what they loaded is the
state before it. What a pass decides about a Monitor is `MonitorEvaluation`'s.

### MonitorLifecycle

A level of a Strategy is INACTIVE, PENDING_TRIGGER, ACTIVE or RESOLVED, and has
one or more rules, each with Conditions, a Trigger or both. `StepRule` is
`stepRule`, a close phase and an open phase; `StepMonitorLevel` is
`stepMonitorLevel`: every rule is stepped for itself, then the level closes
(`LevelCloses`), a takeover is recognised (`TakenOver`), and the transitions follow
(`TransitionsOf`, `LevelResult`). `ReplayMonitorLevel`, `IsRestingMonitorStep`,
`ReconstructMonitorLevel` and `SettleMonitorLevelLifecycle` are the functions of
those names. Dates are session numbers, 0 is null. There is no state: the module
is the operators both the evaluation and the theorems use.

### MonitorEvaluation

State: the finalized sessions (`market`: for each logic a level may have, what its
rules observe), the Monitor's binding (`monitor`: `configVersion`, the level's
logic, the member's start), the rows (`checkpoint`, `state`, the unresolved
Signals `open`, the transitions `log`), and what each pass has read.

A pass is `StartPass` (the listing), `LoadSignalStates`, `LoadCheckpoints`,
`LoadLastRecordedSessions`, then `EvaluateMember` or `PassOverMember`, then
`ReadUnvisitedStates`, `ResolveUnvisitedStates`, `PruneCheckpoints`; `GiveUp` ends
it anywhere. `EvaluateMember` is one transaction (`ApplyMemberEvaluation`): it is
refused when the binding moved, the checkpoint is not the one that was loaded, or
the stored state is not (`stateVersion`). What it writes is
`DecideLevelSessions`: caught up session by session, replayed over the activity
window, or reconstructed. Which session a member can be decided through depends on
its bars, late sessions and funds that wait; here it is any session up to the
expected one. The owner's edits (`EditStrategy`, `EditList`, `RebindMonitor`)
happen between any two statements.

One Monitor, one security and one level are enough for what is asked: a member is
decided from its own rows and written in its own transaction.
`PassesOverlap` says whether a displaced pass goes on beside its successor, as
`MonitorSchedule` shows it can.

### Billing

State at Stripe: the subscriptions (`subs`, with their schedule and the change
pending in it), the Checkout sessions, the number `rev` of changes so far, each of
which emits the event of its number, and the events not acknowledged. In
PostgreSQL: the row `mirror` with the revision it was built from (`mirrorRev`,
which is the model's own), `plan`, `processed`, and who holds the account's lock.
For each request: its place, the webhook it serves, what it read of Stripe, and
its arguments.

`Deliver` to `Commit` is `reconcileUser` for a webhook or after another request:
take the lock, read Stripe, write the row, the plan and the event's marker in one
transaction. `Look`, `ReleaseSpent`, `Forget` are `releaseSpentSchedule`, after
the commit and without the lock. `ChangePlan`, `LoadLiveSubscription`,
`ReleasePending`, `UpdatePrice`, `AttachSchedule`, `SetPhases`, `CommitChange` are
`changePlan` with its gateway calls; `CreateCheckoutSession` to `CommitCheckout`
are the Checkout. Every Stripe call is a step of its own and may fail (`Fail`), and
the database may give up on a transaction whose request goes on
(`ExpireTransaction`): the request keeps calling Stripe and fails at its commit.
What Stripe does by itself is external, and modelled from how the code uses it:
payments arrive or fail, periods and subscriptions end, the Portal toggles a
cancellation, and the key of an immediate change, which names the change and not the
request, may be answered with an earlier answer (`UpdatePrice`). The key of a
schedule's creation names the request, so each request creates its own
(`AttachSchedule`).

## 3. What is checked

| Run | Instance | Question |
|---|---|---|
| `QueueOneRun` | 1 run, 2 attempts, 2 workers, stalls, 2 disruptions | do the tables stay consistent, does anyone but its worker end a live claim, and does the queue implement the lifecycle? |
| `QueuePlan` | 2 runs of 1 owner, 2 workers, plan 1 or 2, 1 disruption | can an owner get past the plan? |
| `QueueSlots` | 2 runs of 2 owners, 2 attempts, 2 workers, 1 slot, 1 disruption, no stalls | can the cap be passed, or a run be executed twice? |
| `QueueLiveness` | 2 runs of 1 owner, 2 attempts, 1 worker, 1 slot, plan 2, 1 disruption, no stalls | does every run, and every cancellation, end when runs compete? |
| `ScheduleRow` | 2 workers, 2 Monitors, stalls, 1 disruption | is a catch-up ever forgotten, a claim stolen, a failure forgiven? |
| `ScheduleLiveness` | 1 worker, 1 Monitor, stalls, 2 disruptions | does scanning go on, and is each Monitor taken up? |
| `Billing` | 2 handlers, 3 prices, 2 subscriptions, 2 requests, 1 move of Stripe's own, 1 fault | does the account ever pay twice, miss a change or go back in time? |
| `BillingLiveness` | 2 handlers, 2 prices, 1 request, 1 move, 2 faults | does the plan end up as what Stripe says is paid? |
| `Evaluation` | 1 pass at a time, 3 sessions of 4 kinds, 2 logics, window 1, 1 edit | do state, Signals, history and progress stay one story, does progress ever go back, and is a reconstruction exact when it says so? |
| `QueueCapClaim` | 2 runs, 2 workers, 1 slot, stalls | finding, below |
| `BillingLost` | 2 handlers, 3 prices, 1 subscription, 2 requests, no faults | finding, below |
| `EvaluationOverlap` | 2 passes that may overlap, 2 sessions, no edits | finding, below |

Bounds. A *disruption* is a crash or a stop, and `MaxDisruptions` bounds them;
lapsed leases, thrown statements and cancellations are not bounded. Two attempts
are enough for a first one, a retry and a last one; two workers for a displaced
and a displacing one; with one disruption both the crash during a retry and the
crash of its predecessor occur because stalls displace workers as well. One run
is enough for what concerns a single run, since no write of a worker reads another
run; the limits, the order and the fairness between runs are the business of the
other instances, which have two: of one owner where the plan is asked about, of two
in `QueueSlots`, where a claim passes over the run of one owner and takes the
other's. The candidate batch is the code's, 20, and never full with two runs.
`MaxFailures` caps a counter only its reset and its growth matter of.

For `Billing`, two requests are the two tabs, and beside them any number of webhook
deliveries is served, two requests or deliveries at a time. An upgrade over a
pending downgrade needs three prices. `MaxMoves` bounds what Stripe does without
being asked, `MaxFaults` the failed calls, crashes and given-up transactions; with
one of each, every one of them meets every place of a request. `BillingLiveness`
has two faults and fewer requests, so that a retry fails as well. For `Evaluation`,
three sessions are a state that is established, one that moves it and one that
moves it again, or a rest between them; with a window of one session the first
evaluation has a prefix to reconstruct; the four kinds of session let a Trigger
fire beside a setup that begins, a setup fire, a session say nothing, and everything
rest. One edit (of the level's content, its removal, the list, or a rebind) falls
between any two statements; passes are not bounded.

Symmetry (of workers, Monitors, handlers, passes) is used in the safety runs only:
no formula names one of them.

Deadlock is checked, except for `Billing`: a worker process always has a next step,
since a dead one is restarted, and a pass can always start; an account whose
requests are served and whose events are acknowledged may stay as it is for good.

### Fairness

`BacktestQueue!Fairness`: a live process goes on with what it awaits, the
supervisor restarts a dead one, leases nobody renews and backoffs run out, a
submission in flight commits or rolls back (all weak); and the statements the loop
repeats at every poll do not fail every time they are possible (strong: the
recovery statements may throw, a claim may find the owner's lock taken). Submissions
stop rolling back at some point: an owner whose failing submissions hold the
entitlement lock at every claim does starve that owner's own queued runs, because
the claim skips a locked owner instead of waiting.
`MonitorSchedule!Fairness` is the same for its loop, plus: a pass is not aborted or
failed before *every* load, and each Monitor it loaded is reached sometimes.
`Billing!FairSpec`: Stripe delivers an event again until it is acknowledged, and a
request that is being served goes on (both weak); nothing is assumed of the
customer, of Stripe's own moves or of faults, which are finite by their bound. No
fairness is assumed of users, crashes, stops, the noticing of a cancellation, or
heartbeats: a run ends even if its worker never notices that it lost it.

`EveryRunEnds` has one exception, which is the code's: a plan that admits no
backtests leaves a queued run waiting until the plan changes or the run is
cancelled.

### Findings

* **Live claims can exceed the cap** (`QueueCapClaim`). A heartbeat renews a lapsed
  lease while the row still names its worker. When the slot was given away in
  between, and no recovery sweep ran yet, two claims are live under a cap of one
  and both workers go on. The comment on `claimNextJob` and
  `ai/architecture/backtest-execution.md` say that the stalled worker stops at
  that heartbeat. The data stays sound: `AttemptsNeverMix` holds with stalls.
* **A change just scheduled can be dropped** (`BillingLost`).
  `releaseSpentSchedule` reads the mirror after the reconciliation's transaction and
  releases the schedule it names without the account's lock. A plan change that
  runs in between puts its change into that very schedule, which is still attached,
  and the release drops it. The comment there says that a schedule with a pending
  change is left alone.
* **Progress can move past a session the state never saw**
  (`EvaluationOverlap`). A displaced pass loads the states, its successor commits a
  member's first state and checkpoint, and the displaced pass loads the
  checkpoints. For a session it cannot decide it then has nothing to write, so the
  `stateVersion` guard is not reached, the checkpoint is the one it loaded, and it
  moves on. The decision document says that overlapping leases never leave progress
  ahead of state.

One more has no run of its own. **An upgrade can be taken back by a downgrade that
outlived its lock.** `changePlan` calls Stripe in a transaction bounded to 60 s
(`STRIPE_LOCKED_TRANSACTION`, `billing.service.ts:62`). Say a downgrade stands before
its `scheduleSubscriptionPriceChange` (471) when the database gives up on its
transaction. Another tab's upgrade takes the lock, finds no schedule to release, and
is about to send its update; the downgrade goes on, attaches its schedule and sets
its phases. The upgrade is then paid, with a scheduled change that takes it back. The
comment of `changePlan` (311) says that two requests act one after the other, each on
what the previous one left, and the one at the release (427) that a paid upgrade has
nothing left to undo it. The behavior is in the model (`ExpireTransaction`, then
`AttachSchedule` and `SetPhases` without the lock) and within the bounds of `Billing`:
there, `UpgradeSupersedesInTime` without its condition `expiries = 0` is violated
after eight states. With the condition it holds, and that is what the run checks
and what `UpgradeIsFinal` proves.

Limits the models show that contradict no document, and have no run of their own:
a full candidate batch of owners whose plans admit nothing hides the claimable jobs
behind it, for as long as the line stays so; the late answer to the previous cycle's
heartbeat marks a held cycle lost, which costs a lease's wait and a recorded failure;
a stale `pruneCheckpoints` may delete a newer checkpoint, and a stale
`resolveUnvisitedStates` record an ending twice, when passes overlap; with an edit of
the list besides, two overlapping passes both take the member for a new one, and
because a member's transaction compares `evaluatedThrough` alone with what it loaded,
the displaced one may move the new membership's progress back; a level taken
out of a Strategy and put back, with a pass that moved the member's progress but
crashed before its reconciliation in between, keeps its state and never sees those
sessions (`Evaluation` has one edit: the removal, not the return).

## 4. What is proved

For any number of users, runs, workers, Monitors, attempts, handlers, prices,
subscriptions, passes, sessions and rules, with stalls, crashes and lost answers
unbounded except by `MaxDisruptions` and `MaxFaults` (any number), and edits except by
`MaxEdits` (any number):

| Module | Theorem | States |
|---|---|---|
| `BacktestQueueProofs` | `TypeCorrect` | `Spec => []TypeOK`, the bound on attempts included |
| | `QueueInvariant` | `Spec => []QueueInv` |
| | `TablesAgree`, `CompletedHasResult`, `WaitingStaysClean`, `AttemptsApart` | `Spec => []JobMatchesRun`, and the same of `CompleteMeansResult`, `WaitingIsClean`, `AttemptsNeverMix` |
| | `EndedStaysEnded`, `CancelledNeverRestarts` | `Spec => EndedIsFinal`, `Spec => NoAttemptAfterCancel` |
| | `LiveClaimsAreSafe` | `Spec => LiveClaimsLeftAlone` |
| `BacktestSlotsProofs` | `SlotsInvariant`, `SlotsHold` | without stalls, `Spec => []SlotInv`, `Spec => []SlotsStayStrict` |
| | `ComputingKeepsItsSlot` | without stalls, `Spec => []ComputingHoldsSlot` |
| | `StartsWithinThePlan` | without stalls, `Spec => StartsWithinPlan` |
| | `PlacesReserved`, `SubmissionsWithinThePlan` | `Spec => []PlanReserved`, `Spec => SubmissionWithinPlan` |
| `BacktestRefinementProofs` | `CancellationsAreAskedFor` | what a worker heard of a cancellation, the owner asked for |
| | `QueueImplementsLifecycle` | `Spec => ImplementsLifecycle` |
| `MonitorScheduleProofs` | `ScheduleInvariant`, `NoCatchUpWaits` | `Spec => []ScheduleInv`, `[]CatchUpNeverWaits` |
| | `ClaimsAreTheHolders`, `SuccessIsWhole` | `Spec => ClaimTakenOnlyFromTheDead`, `Spec => SuccessMeansWholePass` |
| | `PassesNeverOverlap` | without stalls, `Spec => []OnePassAtATime` |
| `BillingProofs` | `TypeCorrect`, `NothingMissed`, `MirrorMonotone` | `Spec => []TypeOK`, `[]NoChangeMissed`, `Spec => MirrorNeverGoesBack` |
| | `OneSubscription` | `Spec => []OneLiveSubscription` |
| | `UpgradeIsFinal` | `Spec => []UpgradeSupersedesInTime`: as long as no transaction was given up |
| `BillingMirrorProofs` | `MirrorFollows`, `SpentReleased` | `Spec => []Mirroring`, `Spec => []SpentSchedulesReleased` |
| | `PlanFollowsStripe` | `Spec => []PlanIsPaid` |
| `MonitorLifecycleProofs` | `LevelFollowsRules` | a step keeps level and rules in agreement |
| | `SteppingTwiceIsOnce` | seeing a session again changes nothing and records nothing |
| | `RestingSessionForgets` | after a resting session nothing older can be told apart |
| | `ReconstructionExact` | a reconstruction that calls itself exact is the replay of the whole history, settled where it started, for a history of any length and any cut |
| `MonitorEvaluationProofs` | `ReconstructionStaysExact` | `Spec => ReconstructionIsExact` |
| | `EvaluationTypeCorrect` | `Spec => []TypeOK` |
| | `UnresolvedMeansActive`, `HistoryHasNoGap` | unless passes overlap, `Spec => []OpenMeansActive`, `Spec => []HistoryIsAChain` |
| | `SessionsApplyOnce` | unless passes overlap, `Spec => NoSessionTwice` |
| | `ProgressOnlyGrows` | unless passes overlap, `Spec => ProgressNeverBack` |
| | `StateStaysExact` | unless passes overlap, `Spec /\ [][NotPutBack]_vars => []StateIsExact` |
| | `StateExactWithoutReturn` | unless passes overlap, and if edits never remove the level or there is at most one, `Spec => []StateIsExact` |

The only assumptions are on constants, and TLC evaluates them in every run:
`QueueAssumption`, `ScheduleAssumption` and `BillingAssumption` (bounds are naturals,
prices are catalog prices, `NoWorker` is no worker, and so on), `NullIsNoRow` (null is
no record) in `Billing` and `MonitorEvaluation`, and `EvaluationAssumption` with `DaysAssumption` (each session has, for each logic, the
rules of that logic and the same rules without Conditions in every session: both are
the Strategy's, not the market's). "Without stalls" is `~StallsOutlastLeases`, and
"unless passes overlap" is `~PassesOverlap`: the runs have instances of both, and
the runs with findings show what goes wrong otherwise.

*The queue.* `AttemptsNeverMix` alone is not inductive: a worker writes
`taskAttempt`, not the row's `attempts`. What ties them is that a *held* claim
(`claimedBy` and `CLAIMED`, all that the code checks) is always the job's latest
attempt: a claim that is taken away leaves `CLAIMED` or changes `claimedBy`, and a
worker that takes a run again takes it with the new attempt. With that conjunct,
and the statement that a run not yet submitted has left no trace, the four
properties are inductive together (`QueueInv`). The proof goes by actions:
`RunFrame` for the runs an action leaves alone, `RunStep` for the one it
moves, `HandStep` for the claims in hand. The two action properties follow from
the invariant: a write to an ended run would need a held claim, and a held claim's
run is executing (`HeldExecutes`). `LiveStays` is about the claims that are *live*:
recovery and claim take other rows, and a displaced worker's writes match none, so
that only a write of the process that holds this attempt ends it; unlike the cap,
this needs no hypothesis on stalls.

*The two limits.* `SlotsStayStrict` counts processes, the code counts claims.
`SlotInv` goes from one to the other: without stalls a computing process holds its
claim and that claim is live (`HasSlot`, one process at a time, by `SlotStep`; it is `ComputingKeepsItsSlot` by itself), and
the live claims are within the cap because only `Claim` adds one, having counted
them under the admission lock (`LiveStep`). The map from a computing process to its
run is then an injection into the live claims (`Counted`). The plan needs no
hypothesis on stalls: what makes the count of `AdmitSubmission` still true at
`CommitSubmission` is the entitlement lock, and `PlanReserved` says what it
reserves. It is inductive because claims, recoveries and endings never add to
an owner's unfinished runs (`InFlightStep`), and whoever could (another submission,
a change of plan) needs the lock.

*The refinement.* A step of the queue is a step of the lifecycle of one run or
none. One lemma per abstract action (`MapsStart`, `MapsRetry`, ...) says which
change of the rows is that action, and `ApiRefines`, `LoopRefines` and
`ProcessRefines` go through the concrete ones. The invariant it needs beyond
`QueueInv` is `HeardInv`: a worker that records a cancellation heard of a request
the owner made (`cancelRequested` never shrinks, `RequestsStay`), which is what the
abstract `Stop` asks for.

*The schedule.* Taking `scanRequested` off the row makes a debt of the claim's
holder. `Owed(w)` says it is kept: the request is back on the row, or the cycle
has yet to load the waiting Monitor, or still has to visit it. Completion is the
only step that makes the next cycle due after an interval, and a cycle that
completes has paid. Crashes, takeovers, releases and failures do not pay, but
leave the row due at once or for retry. `SuccessIsWhole` rests on what `COMPLETE`
means for a place in the loop: a pass comes there with nothing left to visit.
`PassesNeverOverlap` rests on its own invariant: without stalls a pass runs under a
live claim.

*Billing.* `Typed` is `TypeOK` and that the subscription a plan change is about
exists; the other three invariants are inductive beside it. `Synced` orders the
revisions: a marker names an event the mirror covers, a read is no newer than
Stripe, and the read of the request that *holds the lock* is at least as new as the
mirror, because the mirror is written under the lock alone; from it follow
`NoChangeMissed` and, since only a holder commits, `MirrorNeverGoesBack`. `OneSlot`
counts a payable session, one that is open and whose URL the customer has, as a
subscription to be: at most one of both exists, and what the holder knows grows
along the Checkout (every payable session is listed at `EXPIRE`, none is left at
`CHECK`, nothing is live at `CREATE`). A request whose transaction was given up may
still create a session, but hands it to nobody. `Superseding` says that a schedule
belongs to one subscription, and that nothing is pending when the holder comes to
`UPDATE`, as long as no transaction was given up.

*The mirror.* `SpentInv` says three things: the row and every read name
subscriptions that exist (`Named`); a row as new as Stripe describes the one subscription that
is not over (`Mirroring`, which needs `OneSlot`: with two of them the choice of
`selectSubscription` would not be determined); and a spent schedule is on its way
to being released, or an event about it is still to be served, unless a call
failed (`Releasing`). Most steps leave Stripe, the mirror and the requests'
knowledge as they were (`QuietSteps`); a move of Stripe's own ends `mirrorRev =
rev`, and with it what there is to show. For the plan, the row and `User.plan` are
written by one transaction (`Granted`), and what the row of the live subscription
grants is what is paid.

*The reducer.* The step theorems hold for any rules and dates.
`LevelFollowsRules` needs that level and rules agreed before; it is what makes the
OR of the rules and the level's transitions two views of one thing.
`RestingSessionForgets` needs `Before`: level and rules last moved before the
session, and no rule without Conditions waits for a Trigger. `ReconstructionExact`
carries this through a history of any length. Two replays that part before the
resting session are compared from there on: they agree on everything but what
settling at that session forgets (`RulesAlike`, `MovesAlike`, `LevelsAlike`), and each
later session keeps it so. A replay is a fold over a sequence; the library defines
that fold by recursion on a set, and the theorems that would introduce such a
function take operators as parameters, which no prover here can instantiate. So
the module builds the induction itself: `Climb` is induction over an interval,
from the fact that a set of naturals has a least element, and `FoldExists` and
`ReplayFold` show, with it, that the library's fold of `StepMonitorLevel` is the
sequence of states one expects (`IsReplay`).

*The evaluation.* `Typed` (market, binding, rows, and what each pass has read, with
the sessions its reads may name) needs no hypothesis; it is where a member's
decision is shown to be made of sessions the market has. The rest needs that
passes do not overlap, and then `Sole` is inductive. It says that at most one pass
is at work (`Alone`), that what it has read still is what the rows say, *or* the
binding has moved on and the transaction will refuse (`ReadsHold`), that progress
is never ahead of or apart from the state (`ProgressKept`), that a Signal is
unresolved exactly while the stored level is active, and that the recorded
transitions lead, each from where the one before ended, from a level at rest to the
stored one (`HistoryLeads`). `HistoryIsAChain` by itself is not inductive: nothing
in it says where the next transition must start. `Follows(changes, s, e)` is the
chain with its two ends, and it composes (`FollowsOn`), over the sessions of
a decision (`StepThroughFollows`), over the occurrences a transaction records
(`OccurrencesFollow`), and over an administrative ending (`EndingFollows`).
A decision ends no earlier than the progress that counts for it, whatever this
pass's data end at (`SessionsNotBehind`); as the checkpoint is still the one that was
read, or the transaction refuses, progress does not go back (`NotBackStep`).
`Decided` gathers what each of the three ways to decide a member returns: sessions after the ones
it starts from, and a row where the transitions end. With a displaced pass
these fail, and not for want of a stronger invariant: `EvaluationOverlap` shows
progress ahead of the state, and a stale `resolveUnvisitedStates` records an ending
twice.

`StateIsExact` is the end of this line, and the reducer's lemmas are carried to it.
The property compares where two levels stand; what is inductive is that they are
`Alike`: they stand at the same, and their rules are the same or become so when
both are settled at a session on which neither fired a rule. A session keeps levels alike
(`AlikeStep`, and `AlikeReplay` for a run of them), settling one of them at a
resting session does (`AlikeSettled`: no rule says that it fired on a session that
rests, `RestingNeverFired`), and so does making nothing of a reconstructed "resolved"
(`AlikeUnresolved`). So a reconstruction is alike to the replay of the whole history
(`ReconstructedAsReplayed`, from `ReconstructionExact`), a level alike to
the replay through one session is caught up to one alike to the replay through
a later one (`SteppedAsReplayed`, `ReplayGoesOn`), and each way of
`decideLevelSessions` leaves a level alike (`DecidedAsReplayed`). `Exact` says so of
the stored state, and `ApplyExact` that a transaction keeps it: a state under its own
logic is caught up from the very session after its checkpoint (`SessionsGoOn`,
`ProgressKept`), and anything else is reconstructed.
The hypothesis `NotPutBack` is on the owner: a level that was removed from the
Strategy comes back, if at all, with a rebinding, which ends its state. `RemovedNow`
then says that a pass that loaded the level as removed, and is still on the present
binding, is right. The hypothesis is needed: with two edits TLC finds the
limit named above, where such a pass moves the member's progress while the state,
which it does not step, belongs to a level that is back. The run `Evaluation` has
one edit, removals included, and lies within it (`RemovedLast`).

Model-checked only: everything temporal under fairness (`EveryRunEnds`,
`EveryCancelEnds`, `EveryMonitorTakenUp`, `ScanningNeverStops`, `PlanConverges`),
which is out of the prover's reach. Every other property a passing run checks is
stated by a theorem.

## 5. What is not modelled, and the plan

Left out for good: numeric evaluation (strategy, indicators, valuation,
simulation), parsing and validation, the provider's HTTP client, the web client,
operator tools. They are most of the repository's lines, and have no state that
outlives a call or is shared: a model of them would be a second implementation.

In the modelled parts:

* queue: retention and deletion of runs, run numbers, the content of results, and the
  pending preparation tasks of an abandoned claim (a process is one thread here);
* evaluation: the back-fill of coverage, sessions a security never printed, the
  re-basing of prices, where a change comes from (`HISTORY` or live) and its
  evidence and wording, states stored before rules had states of their own,
  `markScanned`; one member and one level stand for all;
* billing: creating and adopting the Stripe customer, prices outside the catalog,
  the statuses that grant nothing, events that are ignored, sessions that lapse by
  themselves.

To come, in this order:

1. `RefreshRun` with the market data and end-of-day refresh: budget, per-series
   backoff and its reset, deferral; under a schedule row like the Monitor's. Is
   every series refreshed eventually, and what makes one wait?
2. `FmpGate` and the load coordinator: slots, leases, cooldown, waiters that give
   up; at most so many requests while none outlives its lease.
3. `Supervisor`: restart backoff, stop and kill grace; then capacities of lists and
   Monitors, and token rotation.

No theorem is left to come in the modelled parts except what section 4 names as model-checked
only.

## 6. Running it

    tlc -config MCQueueOneRun.cfg MCBacktestQueue.tla
    tlc -config MCScheduleRow.cfg MCMonitorSchedule.tla
    tlc -config MCEvaluation.cfg MCMonitorEvaluation.tla
    tlc -config MCBilling.cfg MCBilling.tla
    tlapm BacktestQueueProofs.tla
    tlapm BacktestSlotsProofs.tla
    tlapm BacktestRefinementProofs.tla
    tlapm MonitorScheduleProofs.tla
    tlapm MonitorLifecycleProofs.tla
    tlapm MonitorEvaluationProofs.tla
    tlapm BillingProofs.tla
    tlapm BillingMirrorProofs.tla
