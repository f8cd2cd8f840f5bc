--------------------------- MODULE MonitorLifecycle ---------------------------
(***************************************************************************)
(* The lifecycle of a Strategy level as a Monitor sees it: the pure         *)
(* reducer of packages/strategy/src/monitor-lifecycle.ts, which both the    *)
(* nightly evaluation and the reconstruction from history fold their        *)
(* observations through.                                                    *)
(*                                                                          *)
(* A level has one or more rules, each with Conditions, a Trigger or both.  *)
(* Sessions are numbered from 1; 0 stands for the code's null date.  The    *)
(* wording of a transition (its reason, the Exit Rule it names) is left     *)
(* out, and so is a rule whose stored state is missing, which only levels   *)
(* persisted before rule-local state existed have.                          *)
(***************************************************************************)
EXTENDS Integers, Sequences, FiniteSets, SequencesExt

LifecycleStates == {"INACTIVE", "PENDING_TRIGGER", "ACTIVE", "RESOLVED"}
Evaluability == {"TRUE", "FALSE", "NOT_EVALUABLE"}

\* What a rule without Conditions, or without a Trigger, observes of them.
NoPart == "NO_PART"

\* A stored rule, what is observed of one, and a stored level and a session of a
\* level with the rules K.
Rule == [state : LifecycleStates, since : Nat, triggerDate : Nat]
Part == Evaluability \cup {NoPart}
Observed == [conditions : Part, trigger : Part]
Level(K) == [state : LifecycleStates, since : Nat, rules : [K -> Rule]]
Step(K) == [date : Nat, eligible : BOOLEAN, rules : [K -> Observed]]

AtRest(state) == state \notin {"ACTIVE", "PENDING_TRIGGER"}

RuleLifecycle == [state |-> "INACTIVE", since |-> 0, triggerDate |-> 0]

\* The lifecycle of a level nothing has been observed of.
Initial(rules) == [state |-> "INACTIVE", since |-> 0,
                   rules |-> [k \in rules |-> RuleLifecycle]]

-----------------------------------------------------------------------------
(* One rule, one session.                                                   *)

\* Where the close phase takes a rule.
ClosedTo(rule, seen, date, eligible) ==
  LET ends == \/ ~eligible
              \/ seen.conditions = "FALSE"
              \/ /\ seen.conditions = NoPart
                 /\ rule.state = "ACTIVE"
                 /\ date > rule.since
  IN IF ~ends \/ AtRest(rule.state) THEN rule.state
     ELSE IF rule.state = "ACTIVE" THEN "RESOLVED" ELSE "INACTIVE"

Close(rule, seen, date, eligible) ==
  LET to == ClosedTo(rule, seen, date, eligible)
  IN IF to = rule.state THEN rule ELSE [rule EXCEPT !.state = to, !.since = date]

\* Where the open phase takes a rule whose Conditions, if any, hold: a Trigger
\* counts only when its crossing is newer than the one already consumed.
Open(rule, seen, date, eligible) ==
  LET fresh == seen.trigger = "TRUE" /\ date > rule.triggerDate
      fired == [state |-> "ACTIVE", since |-> date, triggerDate |-> date]
  IN IF ~eligible \/ rule.state = "ACTIVE"
          \/ seen.conditions \notin {"TRUE", NoPart}
       THEN rule
     ELSE IF fresh THEN fired
     ELSE IF seen.conditions = NoPart THEN rule
     ELSE IF seen.trigger = NoPart
       THEN [rule EXCEPT !.state = "ACTIVE", !.since = date]
     ELSE IF rule.state = "PENDING_TRIGGER" THEN rule
     ELSE [rule EXCEPT !.state = "PENDING_TRIGGER", !.since = date]

\* A session older than the one the rule last moved on never moves it back.
StepRule(rule, seen, date, eligible) ==
  IF date < rule.since
    THEN [before |-> rule, afterClose |-> rule, afterOpen |-> rule]
    ELSE LET closed == Close(rule, seen, date, eligible)
         IN [before |-> rule, afterClose |-> closed,
             afterOpen |-> Open(closed, seen, date, eligible)]

RuleEnded(r) == r.afterClose # r.before
RuleBegan(r) == r.afterOpen # r.afterClose

-----------------------------------------------------------------------------
(* One level, one session.                                                  *)

\* The OR of the rules: ACTIVE, else PENDING_TRIGGER, else the default.
LevelOf(states, default) ==
  IF "ACTIVE" \in states THEN "ACTIVE"
  ELSE IF "PENDING_TRIGGER" \in states THEN "PENDING_TRIGGER" ELSE default

\* What is stored of a level agrees with what is stored of its rules.
LevelMatchesRules(level) ==
  LevelOf({level.rules[k].state : k \in DOMAIN level.rules}, "REST") =
    IF AtRest(level.state) THEN "REST" ELSE level.state

\* Wrong: a level opens only with a rule that began on this session.
LevelOpensWithARule(rs, closed, opened) ==
  /\ opened # closed
  /\ \E k \in DOMAIN rs : RuleBegan(rs[k]) /\ rs[k].afterOpen.state = opened

\* Whether a level opens: with a rule that began on this session, or because
\* it now waits on a setup that was already waiting when its occurrence ended.
LevelOpens(rs, closed, opened) ==
  /\ opened # closed
  /\ \/ \E k \in DOMAIN rs : RuleBegan(rs[k]) /\ rs[k].afterOpen.state = opened
     \/ opened = "PENDING_TRIGGER"

\* How a level stands once its rules have closed: an occurrence or a setup
\* ends when no rule carries it on.
LevelCloses(prior, rs) ==
  LET standing == LevelOf({rs[k].afterClose.state : k \in DOMAIN rs}, "REST")
  IN IF prior = "ACTIVE" /\ standing # "ACTIVE" THEN "RESOLVED"
     ELSE IF prior = "PENDING_TRIGGER" /\ standing = "REST" THEN "INACTIVE"
     ELSE prior

\* A rule taking over from another on the same session continues the same
\* occurrence; a rule that ended and fired again does not.
TakenOver(rs, ended, opened) ==
  /\ ended = "RESOLVED" /\ opened = "ACTIVE"
  /\ \E k \in DOMAIN rs : /\ RuleBegan(rs[k]) /\ ~RuleEnded(rs[k])
                          /\ rs[k].afterOpen.state = "ACTIVE"

\* A level's transitions in order; one setup breaking as another starts is no
\* change of the level.
TransitionsOf(prior, closed, opened, closes, opens) ==
  IF prior = "PENDING_TRIGGER" /\ closed = "INACTIVE" /\ opened = "PENDING_TRIGGER"
    THEN << >>
    ELSE (IF closes THEN <<[from |-> prior, to |-> closed]>> ELSE << >>) \o
         (IF opens THEN <<[from |-> closed, to |-> opened]>> ELSE << >>)

\* A level's next lifecycle, its transitions, and whether an occurrence ended
\* or began.
LevelResult(previous, date, rs, closed, opened) ==
  LET prior == previous.state
      closes == /\ closed # prior
                /\ \E k \in DOMAIN rs : RuleEnded(rs[k]) /\ rs[k].before.state = prior
      transitions == TransitionsOf(prior, closed, opened, closes,
                                   LevelOpens(rs, closed, opened))
      moved == transitions # << >>
  IN [next |-> [state |-> IF moved THEN opened ELSE prior,
                since |-> IF moved THEN date ELSE previous.since,
                rules |-> [k \in DOMAIN rs |-> rs[k].afterOpen]],
      transitions |-> transitions,
      closed |-> prior = "ACTIVE" /\ closed = "RESOLVED" /\ closes,
      opened |-> opened = "ACTIVE" /\ closed # "ACTIVE"]

\* What the steps of its rules make of a level: resolution first, then
\* activation.
LevelStep(previous, date, rs) ==
  LET prior == previous.state
      settle(ended, opened) ==
        LevelResult(previous, date, rs,
                    IF prior = "ACTIVE" /\ TakenOver(rs, ended, opened)
                      THEN "ACTIVE" ELSE ended, opened)
      open(ended) ==
        settle(ended, LevelOf({rs[k].afterOpen.state : k \in DOMAIN rs}, ended))
  IN open(LevelCloses(prior, rs))

\* The step of a level: every rule for itself, then the level.
StepMonitorLevel(previous, step) ==
  LevelStep(previous, step.date,
            [k \in DOMAIN previous.rules |->
               StepRule(previous.rules[k], step.rules[k], step.date, step.eligible)])

\* A run of sessions folded through the reducer.
ReplayMonitorLevel(steps, initial) ==
  FoldLeft(LAMBDA level, step : StepMonitorLevel(level, step).next, initial, steps)

-----------------------------------------------------------------------------
(* Reconstruction.                                                          *)

\* Wrong: Conditions that could not be read count as not holding.
IsRestingUnlessTrue(step) ==
  \/ ~step.eligible
  \/ \A k \in DOMAIN step.rules :
       IF step.rules[k].conditions # NoPart
         THEN step.rules[k].conditions # "TRUE"
         ELSE step.rules[k].trigger # "TRUE"

\* A session that leaves every rule at rest whatever state it found it in.
IsRestingMonitorStep(step) ==
  \/ ~step.eligible
  \/ \A k \in DOMAIN step.rules :
       IF step.rules[k].conditions # NoPart
         THEN step.rules[k].conditions = "FALSE"
         ELSE step.rules[k].trigger # "TRUE"

\* What a lifecycle carries from before the anchor is pinned to it.
SettleMonitorLevelLifecycle(level, anchor) ==
  LET settled(x) == AtRest(x.state) /\ x.since <= anchor
      settle(rule) ==
        IF settled(rule)
          THEN [state |-> "INACTIVE", since |-> anchor, triggerDate |-> 0]
          ELSE [rule EXCEPT !.triggerDate = IF @ < anchor THEN 0 ELSE @]
  IN [state |-> IF settled(level) THEN "INACTIVE" ELSE level.state,
      since |-> IF settled(level) THEN anchor ELSE level.since,
      rules |-> [k \in DOMAIN level.rules |-> settle(level.rules[k])]]

(* The level at the live session, from the history before it: folded from    *)
(* the latest resting session of the history, and settled there.  It is      *)
(* exact when there is such a session, the live one rests, or the history    *)
(* is the whole of it.                                                       *)
ReconstructMonitorLevel(history, live, complete) ==
  LET n == Len(history)
      resting == {i \in 1..n : IsRestingMonitorStep(history[i])}
      start == IF resting = {} THEN 0 ELSE CHOOSE i \in resting : \A j \in resting : j <= i
      anchor == IF start > 0 THEN history[start].date
                ELSE IF IsRestingMonitorStep(live) THEN live.date ELSE 0
      before == ReplayMonitorLevel(SubSeq(history, IF start = 0 THEN 1 ELSE start, n),
                                   Initial(DOMAIN live.rules))
      result == StepMonitorLevel(before, live)
  IN [exact |-> anchor > 0 \/ complete,
      lifecycle |-> IF anchor = 0 THEN result.next
                    ELSE SettleMonitorLevelLifecycle(result.next, anchor),
      live |-> result, anchor |-> anchor]
=============================================================================
