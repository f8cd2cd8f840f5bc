-------------------------- MODULE MonitorEvaluation --------------------------
(***************************************************************************)
(* The nightly evaluation of a Monitor: what a pass over the finalized      *)
(* sessions reads, decides and writes for one member of its list.           *)
(*                                                                          *)
(*   apps/worker/src/monitor/monitor-evaluation.ts   the pass               *)
(*   apps/worker/src/monitor/session-decision.ts     what it decides        *)
(*   apps/worker/src/monitor/monitor-repository.ts   what it reads, writes  *)
(*   apps/api/src/monitors/...                       rebinding a Monitor    *)
(*                                                                          *)
(* One Monitor, one security, one level of the Strategy: every member is    *)
(* decided from its own rows and written in a transaction of its own.  A    *)
(* step is one statement or one transaction.  Between the statements of a   *)
(* pass the owner may edit the Strategy, edit the list or rebind the        *)
(* Monitor, and, when a claim on the scan was displaced, another pass may   *)
(* do the same work.  Sessions are numbered; every one prints a bar.        *)
(***************************************************************************)
EXTENDS MonitorLifecycle, FiniteSetsExt

CONSTANTS
  Passes,         \* passes that may run, one per monitor process
  Logics,         \* contents a level may have (fingerprints)
  NoLogic,        \* the Strategy does not hold the level
  Contents,       \* what an edit may make of the level: Logics, NoLogic
  Days,           \* what a session may be: per logic, what its rules observe
  MaxSession,     \* sessions that become final
  Window,         \* sessions of the rolling activity window
  MaxEdits,       \* edits by the owner
  PassesOverlap,  \* whether a displaced pass goes on beside its successor
  None            \* a row that is not there

ASSUME EvaluationAssumption ==
  /\ MaxSession \in Nat /\ MaxEdits \in Nat /\ Window \in Nat \ {0}
  /\ PassesOverlap \in BOOLEAN
  /\ NoLogic \notin Logics /\ Contents \subseteq Logics \cup {NoLogic}

\* The rules of a level, and which parts they have, are those of its logic on
\* every session.
RulesOf(logic) == UNION {DOMAIN day[logic] : day \in Days}

ASSUME DaysAssumption ==
  \A a, b \in Days : \A g \in Logics :
    /\ a[g] \in [DOMAIN b[g] -> Observed]
    /\ \A k \in DOMAIN b[g] : a[g][k].conditions = NoPart <=> b[g][k].conditions = NoPart

\* A MonitorSignalState and a MonitorEvaluationCheckpoint.
StateRow == [id : Nat, version : Nat, logic : Logics, outcome : Evaluability,
             lifecycle : UNION {Level(RulesOf(g)) : g \in Logics}, signal : Nat \cup {None}]
CheckpointRow == [through : Nat, config : Nat, start : Nat]

ASSUME NullIsNoRow ==
  /\ None \notin Nat /\ None \notin StateRow /\ None \notin CheckpointRow
  /\ \A g \in Logics : None \notin Level(RulesOf(g))

VARIABLES
  market,      \* the finalized sessions: per logic, what its rules observed
  monitor,     \* configVersion, the level's logic, the membership's start
  checkpoint,  \* the member's MonitorEvaluationCheckpoint, or None
  state,       \* the level's MonitorSignalState, or None
  open,        \* the MonitorSignals not resolved
  log,         \* the MonitorStateTransitions, in order
  nextId,      \* ids given to states and Signals so far
  pass,        \* what each pass has read, and how far it is
  edits        \* edits made

rowVars == <<checkpoint, state, open, log, nextId>>
vars == <<market, monitor, rowVars, pass, edits>>

\* A member that is not listed, or has no ongoing period, has no start.
NotMember == -1
Starts == {NotMember} \cup 0..MaxSession

IdlePass == [pc |-> "IDLE", config |-> 0, logic |-> NoLogic, start |-> NotMember,
             expected |-> 0, state |-> None, checkpoint |-> None, recorded |-> 0]

Init ==
  /\ market = << >>
  /\ monitor \in [config : {0}, logic : Logics, start : {NotMember, 0}]
  /\ checkpoint = None /\ state = None /\ open = {} /\ log = << >> /\ nextId = 0
  /\ pass = [p \in Passes |-> IdlePass]
  /\ edits = 0

-----------------------------------------------------------------------------
(* What a pass decides (session-decision.ts).  Pure.                        *)

\* The step a session is for a level: before the membership nothing is admitted.
StepOn(bars, logic, start, d) ==
  [date |-> d, eligible |-> d >= start, rules |-> bars[d][logic]]

StepsOn(bars, logic, start, from, to) ==
  [i \in 1..(to - from + 1) |-> StepOn(bars, logic, start, from + i - 1)]

\* Whether the level can be decided at all on a session (outcomeOf).
RuleOutcome(seen) ==
  IF "FALSE" \in {seen.conditions, seen.trigger} THEN "FALSE"
  ELSE IF "NOT_EVALUABLE" \in {seen.conditions, seen.trigger} THEN "NOT_EVALUABLE"
  ELSE "TRUE"

Outcome(step) ==
  LET of == {RuleOutcome(step.rules[k]) : k \in DOMAIN step.rules}
  IN IF ~step.eligible THEN "FALSE"
     ELSE IF "TRUE" \in of THEN "TRUE"
     ELSE IF "NOT_EVALUABLE" \in of THEN "NOT_EVALUABLE" ELSE "FALSE"

\* A change to record: the transition, and what it does to the occurrence.
Change(kind, session, from, to, closes, opens) ==
  [kind |-> kind, session |-> session, from |-> from, to |-> to,
   closes |-> closes, opens |-> opens]

EndedStateOf(s) == IF s = "ACTIVE" THEN "RESOLVED" ELSE "INACTIVE"

\* The administrative end of what a state holds, if it holds anything.
Ending(row) ==
  IF row = None \/ AtRest(row.lifecycle.state) THEN << >>
  ELSE <<Change("ADMINISTRATIVE", 0, row.lifecycle.state,
                EndedStateOf(row.lifecycle.state), row.signal # None, FALSE)>>

\* The changes of one session's step.
ChangesOf(r, session) ==
  [i \in 1..Len(r.transitions) |->
     LET t == r.transitions[i]
     IN Change("STEP", session, t.from, t.to, t.from = "ACTIVE" /\ r.closed,
               t.to = "ACTIVE" /\ r.opened)]

\* Each session in order, with every change it makes.
StepThrough(from, steps) ==
  LET add(acc, r, session) == [lifecycle |-> r.next,
                               changes |-> acc.changes \o ChangesOf(r, session)]
  IN FoldLeft(LAMBDA acc, step :
                add(acc, StepMonitorLevel(acc.lifecycle, step), step.date),
              [lifecycle |-> from, changes |-> << >>], steps)

\* A reconstructed "resolved" is "nothing is current".
Unresolved(level) ==
  IF level.state = "RESOLVED" THEN [level EXCEPT !.state = "INACTIVE"] ELSE level

\* The one change that says where a reconstruction found the level.
Established(level) ==
  IF AtRest(level.state) \/ level.since = 0 THEN << >>
  ELSE <<Change("RECONSTRUCTED", level.since, "INACTIVE", level.state,
                FALSE, level.state = "ACTIVE")>>

\* The exact state on a session, from the closed history up to it.
ReconstructedAt(logic, start, d) ==
  Unresolved(ReconstructMonitorLevel(StepsOn(market, logic, start, 1, d - 1),
                                     StepOn(market, logic, start, d), TRUE).lifecycle)

LevelWrite(changes, lifecycle, outcome) ==
  [changes |-> changes, lifecycle |-> lifecycle, outcome |-> outcome]

(* What the sessions from..to make of the level.  State under this logic is  *)
(* caught up session by session; a replay starts from the exact state before *)
(* its first session; anything else is reconstructed at the newest session.  *)
(* A level nothing decidable was seen of gets no state, and loses the one it *)
(* had under other logic.                                                    *)
DecideLevelSessions(previous, logic, start, from, to, replay) ==
  LET stale == previous # None /\ previous.logic # logic
      reset == IF stale THEN Ending(previous) ELSE << >>
      readings == {d \in (from - 1)..to : /\ d >= 1 /\ (replay \/ d = to)
                                          /\ Outcome(StepOn(market, logic, start, d)) # "NOT_EVALUABLE"}
      newest == Outcome(StepOn(market, logic, start, to))
      prefix == IF from = 1 THEN Initial(DOMAIN market[1][logic])
                ELSE ReconstructedAt(logic, start, from - 1)
      stepped == StepThrough(prefix, StepsOn(market, logic, start, from, to))
      found == ReconstructedAt(logic, start, to)
      caughtUp == StepThrough(previous.lifecycle, StepsOn(market, logic, start, from, to))
  IN IF previous # None /\ ~stale
       THEN LevelWrite(caughtUp.changes, caughtUp.lifecycle, newest)
     ELSE IF readings = {}
       THEN LevelWrite(reset, None, "NOT_EVALUABLE")
     ELSE IF replay
       THEN LevelWrite(reset \o Established(prefix) \o stepped.changes,
                       stepped.lifecycle, newest)
     ELSE LevelWrite(reset \o Established(found), found, newest)

-----------------------------------------------------------------------------
(* What a transaction makes of the rows (monitor-repository.ts).            *)

\* The Signals after a level's changes, in order, from the active one.
Occurrences(changes, unresolved, active) ==
  FoldLeft(LAMBDA acc, c :
             LET kept == IF c.closes THEN acc.open \ {acc.active} ELSE acc.open
                 now == IF c.closes THEN None ELSE acc.active
             IN IF c.opens
                  THEN [open |-> kept \cup {acc.id + 1}, active |-> acc.id + 1,
                        id |-> acc.id + 1]
                  ELSE [open |-> kept, active |-> now, id |-> acc.id],
           [open |-> unresolved, active |-> active, id |-> nextId], changes)

Row(id, version, logic, write, active) ==
  [id |-> id, version |-> version, logic |-> logic, outcome |-> write.outcome,
   lifecycle |-> write.lifecycle,
   signal |-> IF write.lifecycle.state = "ACTIVE" THEN active ELSE None]

\* Nothing to write: the stored state already says what was decided.
Unchanged(previous, logic, write) ==
  \/ previous = None /\ write.lifecycle = None
  \/ /\ previous # None /\ write.lifecycle # None /\ write.changes = << >>
     /\ previous.outcome = write.outcome /\ previous.logic = logic
     /\ previous.lifecycle = write.lifecycle

\* The rows a transaction starts from: with resetMembership, what is stored of
\* the member has been ended first (endMemberStates).
Ended(reset) ==
  IF ~reset \/ state = None THEN [state |-> state, open |-> open, log |-> log]
  ELSE [state |-> None, open |-> open \ {state.signal}, log |-> log \o Ending(state)]

\* The optimistic guard: the stored state is still the one the pass read.
Guarded(base, previous) ==
  IF previous = None THEN base.state = None
  ELSE /\ base.state # None
       /\ base.state.id = previous.id /\ base.state.version = previous.version

\* applyLevelSessions, once its guard holds.
ApplyLevelSessions(base, previous, logic, write) ==
  LET after == Occurrences(write.changes, base.open,
                           IF previous = None THEN None ELSE previous.signal)
      created == after.id + 1
  IN /\ open' = after.open
     /\ log' = base.log \o write.changes
     /\ IF write.lifecycle = None
          THEN state' = None /\ nextId' = after.id
        ELSE IF previous = None
          THEN state' = Row(created, 0, logic, write, after.active) /\ nextId' = created
        ELSE /\ state' = Row(previous.id, previous.version + 1, logic, write, after.active)
             /\ nextId' = after.id

\* assertBindingCurrent: the Monitor is still on the binding the pass loaded.
BindingCurrent(r) == monitor.config = r.config

-----------------------------------------------------------------------------
(* A pass (monitor-evaluation.ts).                                          *)

Reading(p, pc, next) ==
  /\ pass[p].pc = pc
  /\ pass' = [pass EXCEPT ![p] = next]
  /\ UNCHANGED <<market, monitor, edits>>

At(r, pc) == [r EXCEPT !.pc = pc]

\* The pass lists the Monitor with the session it expects.  The schedule lets
\* one pass run at a time, but one whose claim was displaced goes on until it
\* notices.
StartPass(p) ==
  /\ PassesOverlap \/ \A q \in Passes : pass[q].pc = "IDLE"
  /\ Reading(p, "IDLE", [IdlePass EXCEPT !.pc = "STATES",
               !.config = monitor.config, !.logic = monitor.logic,
               !.start = monitor.start, !.expected = Len(market)])
  /\ UNCHANGED rowVars

LoadSignalStates(p) ==
  /\ Reading(p, "STATES", [pass[p] EXCEPT !.pc = "CHECKPOINTS", !.state = state])
  /\ UNCHANGED rowVars

LoadCheckpoints(p) ==
  /\ Reading(p, "CHECKPOINTS", [pass[p] EXCEPT !.pc = "RECORDED", !.checkpoint = checkpoint])
  /\ UNCHANGED rowVars

\* The newest session a change is recorded on.
LastRecorded == Max({0} \cup {log[i].session : i \in DOMAIN log})

LoadLastRecordedSessions(p) ==
  /\ Reading(p, "RECORDED", [pass[p] EXCEPT !.pc = "MEMBER", !.recorded = LastRecorded])
  /\ UNCHANGED rowVars

\* A current member: its ongoing membership has begun by the expected session.
CurrentMember(r) == r.start \in 0..r.expected

\* Progress under another membership is ended and rebuilt.
ResetMembership(r) == r.checkpoint # None /\ r.checkpoint.start # r.start

\* The session the member is decided from, 0 when it has no progress of use.
DecidedThrough(r) ==
  IF /\ r.checkpoint # None /\ ~ResetMembership(r)
     /\ r.checkpoint.config = r.config
    THEN r.checkpoint.through ELSE 0

LogicChanged(r) == r.logic # NoLogic /\ r.state # None /\ r.state.logic # r.logic

\* A member never evaluated is evaluated over the activity window, but not over
\* sessions the Monitor has recorded a change on or before.
Fresh(r) == DecidedThrough(r) = 0 /\ (ResetMembership(r) \/ r.state = None)

ReplayFrom(r) == Max({1, r.expected - Window + 1, r.start, r.recorded + 1})

\* Wrong: a member is caught up with the newest session alone.
SessionsOfNewest(r, through) ==
  IF through > DecidedThrough(r) /\ through >= r.start
    THEN {[from |-> through, to |-> through, replay |-> Fresh(r)]} ELSE {}

\* Wrong: a member is decided on sessions its progress has passed already.
SessionsOfBehind(r, through) ==
  IF through >= r.start
    THEN {[from |-> through, to |-> through, replay |-> Fresh(r)]} ELSE {}

\* Wrong: a member is decided on sessions before its membership.
SessionsOfAll(r, through) ==
  IF DecidedThrough(r) < through
    THEN {[from |-> DecidedThrough(r) + 1, to |-> through, replay |-> Fresh(r)]} ELSE {}

(* The sessions to decide when the member may be decided through a session:  *)
(* the window, those after its checkpoint, the newest alone, or, with none   *)
(* left and a level whose logic was edited, the newest decided once more.    *)
SessionsOf(r, through) ==
  LET from == DecidedThrough(r)
      first == Max({from + 1, r.start})
      span(a, b, replay) == {[from |-> a, to |-> b, replay |-> replay]}
  IN IF Fresh(r) /\ ReplayFrom(r) <= through THEN span(ReplayFrom(r), through, TRUE)
     ELSE IF first <= through
       THEN span(IF from = 0 THEN through ELSE first, through, FALSE)
     ELSE IF from > 0 /\ LogicChanged(r) THEN span(from, from, FALSE)
     ELSE {}

\* Wrong: the progress of a member is set when it is created only.
AdvanceCheckpointOnce(r, through) ==
  checkpoint' = [through |-> IF checkpoint = None THEN through ELSE checkpoint.through,
                 config |-> r.config, start |-> r.start]

\* The upsert of the member's progress, in the same transaction.
AdvanceCheckpoint(r, through) ==
  checkpoint' = [through |-> through, config |-> r.config, start |-> r.start]

(* applyMemberEvaluation: one transaction, refused when the Monitor was      *)
(* rebound, the checkpoint moved or the state is not the one that was read.  *)
ApplyMemberEvaluation(r, sessions) ==
  LET reset == ResetMembership(r)
      base == Ended(reset)
      previous == IF reset THEN None ELSE r.state
      write == DecideLevelSessions(previous, r.logic, r.start, sessions.from,
                                   sessions.to, sessions.replay)
      untouched == r.logic = NoLogic \/ Unchanged(previous, r.logic, write)
      through(c) == IF c = None THEN 0 ELSE c.through
  IN IF /\ BindingCurrent(r)
        /\ through(checkpoint) = through(r.checkpoint)
        /\ untouched \/ Guarded(base, previous)
       THEN /\ AdvanceCheckpoint(r, sessions.to)
            /\ IF untouched
                 THEN /\ state' = base.state /\ open' = base.open /\ log' = base.log
                      /\ UNCHANGED nextId
                 ELSE ApplyLevelSessions(base, previous, r.logic, write)
       ELSE UNCHANGED rowVars

\* evaluateForward and persist.  How far the member may be decided (its bars
\* proven final, no late session or fund to wait for) is up to the data.
EvaluateMember(p) ==
  /\ CurrentMember(pass[p])
  /\ Reading(p, "MEMBER", At(pass[p], "RECONCILE"))
  /\ \E through \in 1..pass[p].expected :
       \E sessions \in SessionsOf(pass[p], through) :
         ApplyMemberEvaluation(pass[p], sessions)

\* Not a current member, nothing to decide, data not ready, or a failure.
PassOverMember(p) ==
  /\ Reading(p, "MEMBER", At(pass[p], "RECONCILE"))
  /\ UNCHANGED rowVars

\* resolveUnvisitedStates, its read: what this pass did not visit.
ReadUnvisitedStates(p) ==
  LET r == pass[p]
      unvisited == state # None /\ (~CurrentMember(r) \/ r.logic = NoLogic)
  IN /\ Reading(p, "RECONCILE", [r EXCEPT !.state = IF unvisited THEN state ELSE None,
                                          !.pc = IF unvisited THEN "RESOLVE" ELSE "PRUNE"])
     /\ UNCHANGED rowVars

\* Wrong: the row is deleted, its Signal is left open.
ResolveUnvisitedRows(p) ==
  LET orphan == pass[p].state IN
  /\ Reading(p, "RESOLVE", At(pass[p], "PRUNE"))
  /\ IF BindingCurrent(pass[p])
       THEN /\ log' = log \o Ending(orphan)
            /\ state' = IF state # None /\ state.id = orphan.id THEN None ELSE state
            /\ UNCHANGED <<open, checkpoint, nextId>>
       ELSE UNCHANGED rowVars

\* ... and its transaction: what was read is ended, and its row deleted.
ResolveUnvisitedStates(p) ==
  LET orphan == pass[p].state IN
  /\ Reading(p, "RESOLVE", At(pass[p], "PRUNE"))
  /\ IF BindingCurrent(pass[p])
       THEN /\ open' = open \ {orphan.signal}
            /\ log' = log \o Ending(orphan)
            /\ state' = IF state # None /\ state.id = orphan.id THEN None ELSE state
            /\ UNCHANGED <<checkpoint, nextId>>
       ELSE UNCHANGED rowVars

\* The progress of a member this pass did not visit is forgotten.
PruneCheckpoints(p) ==
  /\ Reading(p, "PRUNE", IdlePass)
  /\ checkpoint' = IF BindingCurrent(pass[p]) /\ ~CurrentMember(pass[p])
                     THEN None ELSE checkpoint
  /\ UNCHANGED <<state, open, log, nextId>>

\* A crash, an abort, or a load that failed.
GiveUp(p) ==
  /\ pass[p].pc # "IDLE"
  /\ Reading(p, pass[p].pc, IdlePass)
  /\ UNCHANGED rowVars

-----------------------------------------------------------------------------
(* The market and the owner.                                                *)

\* A session's bars become final; what they say never changes afterwards.
FinalizeSession ==
  /\ Len(market) < MaxSession
  /\ \E day \in Days : market' = Append(market, day)
  /\ UNCHANGED <<monitor, rowVars, pass, edits>>

Edit(m) ==
  /\ edits < MaxEdits /\ edits' = edits + 1
  /\ monitor' = m
  /\ UNCHANGED <<market, pass>>

\* A new version of the Strategy: nothing of the Monitor's is written.
EditStrategy ==
  \E g \in Contents \ {monitor.logic} :
    Edit([monitor EXCEPT !.logic = g]) /\ UNCHANGED rowVars

\* The member is listed, unlisted, or given another ongoing period.
EditList ==
  \E s \in Starts \ {monitor.start} :
    Edit([monitor EXCEPT !.start = s]) /\ UNCHANGED rowVars

\* rebindMonitor with crossMonitorConfigurationBoundary.
RebindMonitor ==
  \E g \in Contents, s \in Starts :
    /\ Edit([config |-> monitor.config + 1, logic |-> g, start |-> s])
    /\ log' = log \o Ending(state)
    /\ open' = {} /\ state' = None /\ checkpoint' = None
    /\ UNCHANGED nextId

-----------------------------------------------------------------------------
Load(p) == \/ StartPass(p) \/ LoadSignalStates(p) \/ LoadCheckpoints(p)
           \/ LoadLastRecordedSessions(p)

Reconcile(p) == \/ ReadUnvisitedStates(p) \/ ResolveUnvisitedStates(p)
                \/ PruneCheckpoints(p)

Pass(p) == \/ Load(p) \/ EvaluateMember(p) \/ PassOverMember(p)
           \/ Reconcile(p) \/ GiveUp(p)

Owner == EditStrategy \/ EditList \/ RebindMonitor

Next == (\E p \in Passes : Pass(p)) \/ FinalizeSession \/ Owner

Spec == Init /\ [][Next]_vars

-----------------------------------------------------------------------------
(* Properties.                                                              *)

Stored(level) == /\ level.state \in LifecycleStates /\ level.since \in 0..MaxSession
                 /\ \A k \in DOMAIN level.rules :
                      /\ level.rules[k].state \in LifecycleStates
                      /\ {level.rules[k].since, level.rules[k].triggerDate} \subseteq 0..MaxSession

\* The type invariant: the shape of the rows, and progress that lies within the
\* membership it was made under and the sessions that are final.
TypeOK ==
  /\ market \in Seq(Days) /\ Len(market) <= MaxSession
  /\ monitor \in [config : 0..MaxEdits, logic : Logics \cup {NoLogic}, start : Starts]
  /\ checkpoint # None => /\ checkpoint.through \in 1..Len(market)
                          /\ checkpoint.start \in 0..checkpoint.through
                          /\ checkpoint.config \in 0..monitor.config
  /\ state # None => /\ state.logic \in Logics /\ state.outcome \in Evaluability
                     /\ state.id \in 1..nextId /\ state.version \in Nat
                     /\ state.signal \in {None} \cup 1..nextId
                     /\ Stored(state.lifecycle)
  /\ open \subseteq 1..nextId
  /\ DOMAIN pass = Passes /\ edits \in 0..MaxEdits

\* What is current of a lifecycle: nothing, or a state and since when.
Standing(level) ==
  IF AtRest(level.state) THEN [state |-> "REST", since |-> 0]
  ELSE [state |-> level.state, since |-> level.since]

\* A member's progress and its states never part: where the checkpoint says the
\* level was decided through, its state is what the whole history up to there
\* makes of it, under its own logic and membership.  The state of a level the
\* Strategy no longer holds waits for its end as it is.
StateIsExact ==
  state # None /\ checkpoint # None /\ monitor.logic # NoLogic =>
    Standing(state.lifecycle) =
      Standing(ReplayMonitorLevel(StepsOn(market, state.logic, checkpoint.start, 1, checkpoint.through),
                                  Initial(DOMAIN state.lifecycle.rules)))

\* A Signal is unresolved exactly while a state in ACTIVE points at it.
OpenMeansActive ==
  /\ open = IF state = None \/ state.signal = None THEN {} ELSE {state.signal}
  /\ state # None => (state.signal # None <=> state.lifecycle.state = "ACTIVE")

\* The recorded history leads from change to change without a gap and ends
\* where the stored state stands.
Rest(s) == IF AtRest(s) THEN "REST" ELSE s

HistoryIsAChain ==
  /\ \A i \in 2..Len(log) : Rest(log[i].from) = Rest(log[i - 1].to)
  /\ Rest(IF log = << >> THEN "INACTIVE" ELSE Last(log).to) =
     Rest(IF state = None THEN "INACTIVE" ELSE state.lifecycle.state)

\* Overlapping, repeated or interrupted passes never apply a session twice to a
\* level's state: what a transaction records for a state it keeps are changes of
\* sessions after the stored progress, which it moves past them.
NoSessionTwice ==
  [][(/\ state # None /\ state' # None /\ log' # log
      /\ state'.id = state.id /\ state'.logic = state.logic)
     => /\ checkpoint # None /\ checkpoint.through < checkpoint'.through
        /\ \A i \in (Len(log) + 1)..Len(log') :
             log'[i].session \in (checkpoint.through + 1)..checkpoint'.through]_vars

\* Under one binding and one membership a member's progress never goes back: not
\* when the data a later pass may use ends before it, not when a load, a crash or
\* an edit in between makes a pass work from progress it read earlier.
ProgressNeverBack ==
  [][(/\ checkpoint # None /\ checkpoint' # None
      /\ checkpoint'.config = checkpoint.config /\ checkpoint'.start = checkpoint.start)
     => checkpoint'.through >= checkpoint.through]_vars

\* Wherever the history before a new session is cut, a reconstruction that
\* calls itself exact finds what a replay of the whole of it finds, settled at
\* the same session.
ExactAt(bars, g, cut) ==
  LET n == Len(bars)
      whole == ReplayMonitorLevel(StepsOn(bars, g, 0, 1, n), Initial(DOMAIN bars[1][g]))
      r == ReconstructMonitorLevel(StepsOn(bars, g, 0, cut, n - 1),
                                   StepOn(bars, g, 0, n), cut = 1)
  IN r.exact => r.lifecycle = IF r.anchor = 0 THEN whole
                              ELSE SettleMonitorLevelLifecycle(whole, r.anchor)

ReconstructionIsExact ==
  [][market' # market =>
       \A bars \in {market'}, g \in Logics :
         \A cut \in 1..Len(bars) : ExactAt(bars, g, cut)]_vars
=============================================================================
