----------------------- MODULE MonitorEvaluationProofs -----------------------
(***************************************************************************)
(* What MonitorEvaluation guarantees for any market, any Strategy and any   *)
(* number of sessions, passes and edits.                                    *)
(***************************************************************************)
EXTENDS MonitorEvaluation, MonitorLifecycleProofs

-----------------------------------------------------------------------------
(* The sessions of a level.                                                 *)

\* The rules of a logic that have no Conditions.
Conditionless(g) == {k \in RulesOf(g) : \E day \in Days : day[g][k].conditions = NoPart}

LEMMA RulesOfADay ==
  ASSUME NEW day \in Days, NEW g \in Logics
  PROVE  /\ DOMAIN day[g] = RulesOf(g) /\ day[g] \in [RulesOf(g) -> Observed]
         /\ \A k \in RulesOf(g) : day[g][k].conditions = NoPart <=> k \in Conditionless(g)
<1>1. \A a \in Days : DOMAIN a[g] = DOMAIN day[g]
  BY DaysAssumption
<1>2. DOMAIN day[g] = RulesOf(g)
  BY <1>1 DEF RulesOf
<1> QED
  BY <1>2, DaysAssumption DEF Conditionless

\* What a level is decided from are numbered sessions of its rules.
LEMMA StepsAreSessions ==
  ASSUME NEW bars \in Seq(Days), NEW g \in Logics, NEW start \in Int,
         NEW from \in Nat \ {0}, NEW to \in (from - 1) .. Len(bars)
  PROVE  SessionsFrom(StepsOn(bars, g, start, from, to), to - from + 1, from - 1,
                      RulesOf(g), Conditionless(g))
<1> DEFINE steps == StepsOn(bars, g, start, from, to)
           n == to - from + 1
<1>1. DOMAIN steps = 1 .. n
  BY DEF StepsOn
<1>2. ASSUME NEW i \in 1 .. n
      PROVE  /\ Shaped(steps[i], RulesOf(g), Conditionless(g))
             /\ steps[i].date = (from - 1) + i
  <2>1. from + i - 1 \in 1 .. Len(bars) /\ from + i - 1 = (from - 1) + i
    OBVIOUS
  <2>2. steps[i] = [date |-> from + i - 1, eligible |-> from + i - 1 >= start,
                    rules |-> bars[from + i - 1][g]]
    BY DEF StepsOn, StepOn
  <2> HIDE DEF steps
  <2>3. bars[from + i - 1] \in Days
    BY <2>1, ElementOfSeq
  <2>4. steps[i].rules = bars[from + i - 1][g] /\ steps[i].date = from + i - 1
    BY <2>2
  <2>5. steps[i] \in Step(RulesOf(g))
    BY <2>1, <2>2, <2>3, RulesOfADay DEF Step
  <2> QED
    BY <2>1, <2>3, <2>4, <2>5, RulesOfADay DEF Shaped
<1> QED
  BY <1>1, <1>2 DEF SessionsFrom

-----------------------------------------------------------------------------
(* What is stored of a level.                                               *)

\* A stored level of the rules K that moved on sessions up to d only, and that
\* began on one of them when something of it is current.
Held(level, K, d) ==
  /\ level \in Stable(K) /\ level.since <= d
  /\ ~AtRest(level.state) => level.since > 0
  /\ \A k \in K : level.rules[k].since <= d /\ level.rules[k].triggerDate <= d

\* A rule's dates are those it had or the session's.
LEMMA RuleDates ==
  ASSUME NEW rule \in Rule, NEW seen \in Observed, NEW date \in Nat,
         NEW eligible \in BOOLEAN
  PROVE  LET after == StepRule(rule, seen, date, eligible).afterOpen
         IN after.since \in {rule.since, date} /\ after.triggerDate \in {rule.triggerDate, date}
  BY DEF StepRule, Close, ClosedTo, Open, AtRest, Rule, Observed, LifecycleStates

LEMMA HeldInitial == ASSUME NEW K, NEW d \in Nat PROVE Held(Initial(K), K, d)
<1>1. Initial(K) \in Stable(K)
  BY StableSteps
<1> QED
  BY <1>1 DEF Held, Initial, RuleLifecycle, AtRest

LEMMA HeldStep ==
  ASSUME NEW K, NEW d \in Nat, NEW level, Held(level, K, d),
         NEW step \in Step(K), step.date \in 1 .. d
  PROVE  Held(StepMonitorLevel(level, step).next, K, d)
<1> DEFINE rs == RuleSteps(level, step)
           next == StepMonitorLevel(level, step).next
<1>1. /\ level \in Level(K) /\ LevelMatchesRules(level) /\ DOMAIN level.rules = K
      /\ level.since \in Nat
  BY DEF Held, Stable, Level
<1>2. next \in Stable(K)
  BY StableSteps DEF Held
<1>3. /\ next.since = IF Moves(level.state, rs) THEN step.date ELSE level.since
      /\ next.state = IF Moves(level.state, rs) THEN OpenedTo(level.state, rs) ELSE level.state
  <2> DEFINE rules == [k \in DOMAIN level.rules |-> rs[k].afterOpen]
             since == IF Moves(level.state, rs) THEN step.date ELSE level.since
             stands == IF Moves(level.state, rs) THEN OpenedTo(level.state, rs) ELSE level.state
  <2>1. next = [state |-> stands, since |-> since, rules |-> rules]
    BY StepTakenApart
  <2> HIDE DEF next, rules, since, stands
  <2>2. next.since = since /\ next.state = stands
    BY <2>1
  <2> QED
    BY <2>2 DEF since, stands
<1>4. next.rules = [k \in K |-> StepRule(level.rules[k], step.rules[k],
                                        step.date, step.eligible).afterOpen]
  BY <1>1, NextRules
<1>5. \A k \in K : next.rules[k].since <= d /\ next.rules[k].triggerDate <= d
  <2> TAKE k \in K
  <2>1. /\ level.rules[k] \in Rule /\ step.rules[k] \in Observed
        /\ step.date \in Nat /\ step.eligible \in BOOLEAN
    BY <1>1 DEF Level, Step
  <2>2. next.rules[k] = StepRule(level.rules[k], step.rules[k], step.date, step.eligible).afterOpen
    BY <1>4
  <2>3. level.rules[k].since <= d /\ level.rules[k].triggerDate <= d
    BY DEF Held
  <2> HIDE DEF next
  <2> QED
    BY <2>1, <2>2, <2>3, RuleDates
<1> HIDE DEF next, rs
<1> QED
  BY <1>1, <1>2, <1>3, <1>5 DEF Held, next

LEMMA HeldSettled ==
  ASSUME NEW K, NEW d \in Nat, NEW level, Held(level, K, d), NEW a \in 0 .. d
  PROVE  Held(Settled(level, a), K, d)
<1> DEFINE settled == Settled(level, a)
           rests == AtRest(level.state) /\ level.since <= a
<1>1. /\ level \in Level(K) /\ LevelMatchesRules(level) /\ DOMAIN level.rules = K
      /\ \A k \in K : level.rules[k] \in Rule
  BY DEF Held, Stable, Level
<1>2. settled = [state |-> IF rests THEN "INACTIVE" ELSE level.state,
                 since |-> IF rests THEN a ELSE level.since,
                 rules |-> [k \in K |-> SettledRule(level.rules[k], a)]]
  BY <1>1, SettledLevel
<1>3. \A k \in K : LET rule == SettledRule(level.rules[k], a)
                   IN /\ rule \in Rule /\ rule.since <= d /\ rule.triggerDate <= d
                      /\ ~AtRest(rule.state) \/ ~AtRest(level.rules[k].state)
                           => rule.state = level.rules[k].state
  <2> TAKE k \in K
  <2>1. /\ level.rules[k] \in Rule
        /\ level.rules[k].since <= d /\ level.rules[k].triggerDate <= d
    BY <1>1 DEF Held
  <2> QED
    BY <2>1 DEF SettledRule, Rule, AtRest, LifecycleStates
<1> HIDE DEF settled
<1>4. settled \in Level(K)
  BY <1>1, <1>2, <1>3 DEF Level, LifecycleStates
<1> DEFINE S == {level.rules[k].state : k \in DOMAIN level.rules}
           T == {settled.rules[k].state : k \in DOMAIN settled.rules}
<1>5. \A k \in K : \A s \in {"ACTIVE", "PENDING_TRIGGER"} :
        settled.rules[k].state = s <=> level.rules[k].state = s
  BY <1>2, <1>3 DEF AtRest
<1>6. \A s \in {"ACTIVE", "PENDING_TRIGGER"} : s \in S <=> s \in T
  BY <1>1, <1>2, <1>5
<1>7. LevelOf(S, "REST") = LevelOf(T, "REST")
  <2> HIDE DEF S, T
  <2> QED
    BY <1>6 DEF LevelOf
<1> DEFINE stood == IF AtRest(level.state) THEN "REST" ELSE level.state
           stands == IF AtRest(settled.state) THEN "REST" ELSE settled.state
<1>8. LevelOf(S, "REST") = stood
  BY <1>1 DEF LevelMatchesRules
<1>9. stands = stood
  BY <1>2 DEF AtRest
<1>10. LevelMatchesRules(settled)
  <2>1. LevelOf(T, "REST") = stands
    BY <1>7, <1>8, <1>9
  <2> QED
    BY <2>1 DEF LevelMatchesRules
<1>11. settled.since <= d /\ (~AtRest(settled.state) => settled.since > 0)
  BY <1>1, <1>2 DEF Held, AtRest, Level
<1>12. \A k \in K : settled.rules[k].since <= d /\ settled.rules[k].triggerDate <= d
  BY <1>2, <1>3
<1> QED
  BY <1>4, <1>10, <1>11, <1>12 DEF Held, Stable, settled

LEMMA HeldUnresolved ==
  ASSUME NEW K, NEW d \in Nat, NEW level, Held(level, K, d)
  PROVE  /\ Held(Unresolved(level), K, d)
         /\ AtRest(Unresolved(level).state) => Unresolved(level).state = "INACTIVE"
<1>1. level \in Level(K) /\ LevelMatchesRules(level)
  BY DEF Held, Stable
<1>2. CASE level.state # "RESOLVED"
  BY <1>1, <1>2 DEF Unresolved, AtRest, Level, LifecycleStates
<1>3. CASE level.state = "RESOLVED"
  <2> DEFINE u == [level EXCEPT !.state = "INACTIVE"]
  <2>1. /\ Unresolved(level) = u /\ u \in Level(K) /\ u.rules = level.rules
        /\ u.since = level.since /\ u.state = "INACTIVE"
    BY <1>1, <1>3 DEF Unresolved, Level, LifecycleStates
  <2> HIDE DEF u
  <2>2. LevelMatchesRules(u)
    BY <1>1, <1>3, <2>1 DEF LevelMatchesRules, AtRest
  <2> QED
    BY <2>1, <2>2 DEF Held, Stable, AtRest
<1> QED
  BY <1>2, <1>3

LEMMA HeldReplay ==
  ASSUME NEW K, NEW d \in Nat, NEW n \in Nat, NEW steps, DOMAIN steps = 1 .. n,
         \A i \in 1 .. n : steps[i] \in Step(K) /\ steps[i].date \in 1 .. d,
         NEW initial, Held(initial, K, d)
  PROVE  Held(ReplayMonitorLevel(steps, initial), K, d)
<1> DEFINE X == {level \in Stable(K) : Held(level, K, d)}
<1>1. initial \in X
  BY DEF Held
<1>2. ASSUME NEW level \in X, NEW i \in 1 .. n
      PROVE  StepMonitorLevel(level, steps[i]).next \in X
  <2>1. Held(StepMonitorLevel(level, steps[i]).next, K, d)
    BY HeldStep
  <2> QED
    BY <2>1 DEF Held
<1> HIDE DEF X
<1>3. ReplayMonitorLevel(steps, initial) \in X
  BY <1>1, <1>2, ReplayFold
<1> QED
  BY <1>3 DEF X

LEMMA HeldReconstructed ==
  ASSUME NEW K, NEW d \in Nat, NEW n \in Nat, NEW history \in Seq(Step(K)), Len(history) = n,
         \A i \in 1 .. n : history[i].date \in 1 .. d,
         NEW live \in Step(K), live.date \in 1 .. d, NEW complete
  PROVE  Held(ReconstructMonitorLevel(history, live, complete).lifecycle, K, d)
<1> DEFINE resting == {i \in 1 .. n : IsRestingMonitorStep(history[i])}
           start == IF resting = {} THEN 0
                    ELSE CHOOSE i \in resting : \A j \in resting : j <= i
           from == IF start = 0 THEN 1 ELSE start
           tail == SubSeq(history, from, n)
           anchor == IF start > 0 THEN history[start].date
                     ELSE IF IsRestingMonitorStep(live) THEN live.date ELSE 0
           before == ReplayMonitorLevel(tail, Initial(DOMAIN live.rules))
           next == StepMonitorLevel(before, live).next
<1>1. start \in 0 .. n
  <2>1. CASE resting = {}
    <3>1. start = 0
      BY <2>1
    <3> HIDE DEF start
    <3> QED
      BY <3>1
  <2>2. CASE resting # {}
    <3>1. Max(resting) \in resting /\ \A j \in resting : j <= Max(resting)
      BY <2>2, MaxInInterval
    <3>2. \E i \in resting : \A j \in resting : j <= i
      BY <3>1
    <3>3. start \in resting
      BY <2>2, <3>2
    <3> HIDE DEF start
    <3> QED
      BY <3>3
  <2> QED
    BY <2>1, <2>2
<1>2. ReconstructMonitorLevel(history, live, complete).lifecycle =
        IF anchor = 0 THEN next ELSE Settled(next, anchor)
  BY DEF ReconstructMonitorLevel, Settled
<1> HIDE DEF start
<1>3. anchor \in 0 .. d
  BY <1>1
<1> DEFINE m == n - from + 1
<1>4. /\ m \in Nat /\ DOMAIN tail = 1 .. m
      /\ \A i \in 1 .. m : tail[i] \in Step(K) /\ tail[i].date \in 1 .. d
  <2>1. from \in 1 .. (n + 1) /\ m \in Nat
    BY <1>1
  <2> HIDE DEF from
  <2>2. tail = [i \in 1 .. m |-> history[from + i - 1]]
    BY <2>1
  <2>3. \A i \in 1 .. m : from + i - 1 \in 1 .. n
    BY <2>1
  <2> HIDE DEF m, tail
  <2>4. \A j \in 1 .. n : history[j] \in Step(K)
    OBVIOUS
  <2> QED
    BY <2>1, <2>2, <2>3, <2>4
<1>5. DOMAIN live.rules = K
  BY DEF Step
<1> HIDE DEF tail, m
<1>6. Held(before, K, d)
  BY <1>4, <1>5, HeldInitial, HeldReplay
<1> HIDE DEF before
<1>7. Held(next, K, d)
  BY <1>6, HeldStep
<1> HIDE DEF next, anchor
<1> QED
  BY <1>2, <1>3, <1>7, HeldSettled

-----------------------------------------------------------------------------
(* The changes a step records.                                              *)

ChangeRow == [kind : {"STEP", "ADMINISTRATIVE", "RECONSTRUCTED"}, session : Nat,
              from : LifecycleStates, to : LifecycleStates,
              closes : BOOLEAN, opens : BOOLEAN]

\* Changes in order that lead without a gap from where a level stood to where it
\* stands, each of which ends or begins an occurrence exactly with ACTIVE.
Follows(changes, s, e) ==
  /\ \A i \in 1 .. Len(changes) :
       /\ Rest(changes[i].from) = Rest(IF i = 1 THEN s ELSE changes[i - 1].to)
       /\ changes[i].closes <=> changes[i].from = "ACTIVE"
       /\ changes[i].opens <=> changes[i].to = "ACTIVE"
  /\ Rest(e) = Rest(IF Len(changes) = 0 THEN s ELSE changes[Len(changes)].to)

\* ... recorded on sessions from a to b.
Within(changes, a, b) == \A i \in 1 .. Len(changes) : changes[i].session \in a .. b

LEMMA NothingFollows ==
  ASSUME NEW s, NEW e, Rest(s) = Rest(e), NEW a, NEW b
  PROVE  << >> \in Seq(ChangeRow) /\ Follows(<< >>, s, e) /\ Within(<< >>, a, b)
  BY DEF Follows, Within

LEMMA OneFollows ==
  ASSUME NEW c \in ChangeRow, NEW s, Rest(c.from) = Rest(s), NEW e, Rest(e) = Rest(c.to),
         c.closes <=> c.from = "ACTIVE", c.opens <=> c.to = "ACTIVE",
         NEW a, NEW b, c.session \in a .. b
  PROVE  <<c>> \in Seq(ChangeRow) /\ Follows(<<c>>, s, e) /\ Within(<<c>>, a, b)
  BY DEF Follows, Within

\* Changes that lead on from where others end.
LEMMA FollowsOn ==
  ASSUME NEW c \in Seq(ChangeRow), NEW d \in Seq(ChangeRow),
         NEW s, NEW m, NEW e, Follows(c, s, m), Follows(d, m, e)
  PROVE  c \o d \in Seq(ChangeRow) /\ Follows(c \o d, s, e)
<1> DEFINE all == c \o d
           k == Len(c)
           n == Len(d)
<1>1. /\ all \in Seq(ChangeRow) /\ Len(all) = k + n /\ k \in Nat /\ n \in Nat
      /\ \A i \in 1 .. k : all[i] = c[i]
      /\ \A i \in 1 .. n : all[k + i] = d[i]
  OBVIOUS
<1> HIDE DEF all
<1>2. ASSUME NEW i \in 1 .. (k + n)
      PROVE  /\ Rest(all[i].from) = Rest(IF i = 1 THEN s ELSE all[i - 1].to)
             /\ all[i].closes <=> all[i].from = "ACTIVE"
             /\ all[i].opens <=> all[i].to = "ACTIVE"
  <2>1. CASE i \in 1 .. k
    <3>1. all[i] = c[i]
      BY <1>1, <2>1
    <3>2. ASSUME i # 1 PROVE all[i - 1] = c[i - 1]
      <4>1. i - 1 \in 1 .. k
        BY <2>1, <3>2
      <4> QED
        BY <1>1, <4>1
    <3>3. /\ Rest(c[i].from) = Rest(IF i = 1 THEN s ELSE c[i - 1].to)
          /\ c[i].closes <=> c[i].from = "ACTIVE"
          /\ c[i].opens <=> c[i].to = "ACTIVE"
      BY <2>1 DEF Follows
    <3>4. Rest(all[i].from) = Rest(IF i = 1 THEN s ELSE all[i - 1].to)
      BY <3>1, <3>2, <3>3
    <3>5. all[i].closes <=> all[i].from = "ACTIVE"
      BY <3>1, <3>3
    <3>6. all[i].opens <=> all[i].to = "ACTIVE"
      BY <3>1, <3>3
    <3> QED
      BY <3>4, <3>5, <3>6
  <2>2. CASE i = k + 1
    <3>0. 1 \in 1 .. n /\ i = k + 1 /\ i - 1 = k /\ (k > 0 => k \in 1 .. k)
      BY <1>1, <2>2
    <3>1. 1 \in 1 .. n /\ all[i] = d[1] /\ (k > 0 => all[i - 1] = c[k])
      BY <1>1, <3>0
    <3>2. Rest(d[1].from) = Rest(m)
      BY <3>1 DEF Follows
    <3>3. Rest(m) = Rest(IF k = 0 THEN s ELSE c[k].to)
      BY DEF Follows
    <3>4. Rest(all[i].from) = Rest(IF i = 1 THEN s ELSE all[i - 1].to)
      BY <1>1, <2>2, <3>1, <3>2, <3>3
    <3> QED
      BY <3>1, <3>4 DEF Follows
  <2>3. CASE i > k + 1
    <3>1. /\ i - k \in 1 .. n /\ i - k # 1 /\ i # 1 /\ (i - k) - 1 \in 1 .. n
          /\ k + (i - k) = i /\ k + ((i - k) - 1) = i - 1
      BY <1>1, <2>3
    <3>2. all[i] = d[i - k] /\ all[i - 1] = d[(i - k) - 1]
      BY <1>1, <3>1
    <3>3. \A j \in 1 .. n : /\ j # 1 => Rest(d[j].from) = Rest(d[j - 1].to)
                            /\ d[j].closes <=> d[j].from = "ACTIVE"
                            /\ d[j].opens <=> d[j].to = "ACTIVE"
      BY DEF Follows
    <3> DEFINE j == i - k
    <3>4. /\ Rest(d[j].from) = Rest(d[j - 1].to)
          /\ d[j].closes <=> d[j].from = "ACTIVE"
          /\ d[j].opens <=> d[j].to = "ACTIVE"
      BY <3>1, <3>3
    <3> QED
      BY <3>1, <3>2, <3>4
  <2> QED
    BY <1>1, <2>1, <2>2, <2>3
<1>3. Rest(e) = Rest(IF k + n = 0 THEN s ELSE all[k + n].to)
  <2>1. CASE n = 0
    <3>1. Rest(e) = Rest(m)
      BY <2>1 DEF Follows
    <3>2. Rest(m) = Rest(IF k = 0 THEN s ELSE c[k].to)
      BY DEF Follows
    <3>3. k > 0 => all[k] = c[k]
      BY <1>1
    <3> QED
      BY <1>1, <2>1, <3>1, <3>2, <3>3
  <2>2. CASE n > 0
    <3>1. all[k + n] = d[n]
      BY <1>1, <2>2
    <3> QED
      BY <1>1, <2>2, <3>1 DEF Follows
  <2> QED
    BY <1>1, <2>1, <2>2
<1> QED
  BY <1>1, <1>2, <1>3 DEF Follows, all

LEMMA WithinBoth ==
  ASSUME NEW c \in Seq(ChangeRow), NEW d \in Seq(ChangeRow), NEW a, NEW b,
         Within(c, a, b), Within(d, a, b)
  PROVE  Within(c \o d, a, b)
  BY DEF Within

\* What one session changes leads from where the level stood to where it stands.
LEMMA StepFollows ==
  ASSUME NEW K, NEW level \in Stable(K), NEW step \in Step(K), NEW session \in Nat
  PROVE  LET r == StepMonitorLevel(level, step)
             changes == ChangesOf(r, session)
         IN /\ changes \in Seq(ChangeRow)
            /\ Follows(changes, level.state, r.next.state)
            /\ Within(changes, session, session)
<1> DEFINE rs == RuleSteps(level, step)
           prior == level.state
           closed == LevelClosedTo(prior, rs)
           opened == OpenedTo(prior, rs)
           closes == LevelEnded(prior, rs)
           opens == LevelOpens(rs, closed, opened)
           r == StepMonitorLevel(level, step)
           change(from, to) == Change("STEP", session, from, to, from = "ACTIVE" /\ r.closed,
                                      to = "ACTIVE" /\ r.opened)
           changes == ChangesOf(r, session)
<1>1. /\ r.next.state = opened /\ prior \in LifecycleStates
      /\ closed \in LifecycleStates /\ opened \in LifecycleStates
      /\ closed = "ACTIVE" => opened = "ACTIVE"
      /\ IF closes
           THEN \/ prior = "ACTIVE" /\ closed = "RESOLVED"
                \/ prior = "PENDING_TRIGGER" /\ closed = "INACTIVE"
           ELSE closed = prior
      /\ opens <=> opened # closed
  <2>1. level \in Level(K) /\ LevelMatchesRules(level) /\ prior \in LifecycleStates
    BY DEF Stable, Level
  <2>m. MovedLevel(K, level, step)
    BY <2>1, LevelMoves
  <2>2. r.next.state = opened
    <3> DEFINE since == IF Moves(prior, rs) THEN step.date ELSE level.since
               rules == [k \in K |-> rs[k].afterOpen]
    <3>1. r.next = [state |-> opened, since |-> since, rules |-> rules]
      BY <2>m DEF MovedLevel
    <3> HIDE DEF r, since, rules, opened
    <3> QED
      BY <3>1
  <2>3. closed \in LifecycleStates /\ opened \in LifecycleStates
    BY <2>m DEF MovedLevel
  <2>4. closed = "ACTIVE" => opened = "ACTIVE"
    BY <2>m DEF MovedLevel
  <2>5. IF closes
          THEN \/ prior = "ACTIVE" /\ closed = "RESOLVED"
               \/ prior = "PENDING_TRIGGER" /\ closed = "INACTIVE"
          ELSE closed = prior
    BY <2>m DEF MovedLevel
  <2>6. opens <=> opened # closed
    BY <2>m DEF MovedLevel
  <2> HIDE DEF r, rs, prior, closed, opened, closes, opens
  <2> QED
    BY <2>1, <2>2, <2>3, <2>4, <2>5, <2>6
<1>2. r.transitions = TransitionsOf(prior, closed, opened, closes, opens)
  BY StepTakenApart DEF TransitionsIn
<1>3. /\ r.closed = (prior = "ACTIVE" /\ closed = "RESOLVED" /\ closes)
      /\ r.opened = (opened = "ACTIVE" /\ closed # "ACTIVE")
  <2> DEFINE result == LevelResult(level, step.date, rs, closed, opened)
  <2>1. r = result
    BY DEF StepMonitorLevel, LevelStep, RuleSteps, LevelClosedTo, OpenedTo
  <2>2. /\ result.closed = (prior = "ACTIVE" /\ closed = "RESOLVED" /\ closes)
        /\ result.opened = (opened = "ACTIVE" /\ closed # "ACTIVE")
    BY DEF LevelResult, LevelEnded
  <2> QED
    BY <2>1, <2>2
<1>4. changes = [i \in 1 .. Len(r.transitions) |->
                   change(r.transitions[i].from, r.transitions[i].to)]
  BY DEF ChangesOf
<1> HIDE DEF rs, closed, opened, closes, opens, r, changes
<1>5. CASE r.transitions = << >>
  <2>1. changes = << >>
    BY <1>4, <1>5
  <2> DEFINE first == IF closes THEN <<[from |-> prior, to |-> closed]>> ELSE << >>
             second == IF opens THEN <<[from |-> closed, to |-> opened]>> ELSE << >>
  <2>2. CASE prior = "PENDING_TRIGGER" /\ opened = "PENDING_TRIGGER"
    BY <1>1, <2>1, <2>2, NothingFollows DEF changes, r
  <2>3. CASE ~(prior = "PENDING_TRIGGER" /\ opened = "PENDING_TRIGGER")
    <3>1. first \o second = << >>
      BY <1>2, <1>5, <2>3 DEF TransitionsOf
    <3>2. ~closes /\ ~opens
      BY <3>1
    <3> QED
      BY <1>1, <2>1, <3>2, NothingFollows DEF changes, r
  <2> QED
    BY <2>2, <2>3
<1> DEFINE ending == change(prior, closed)
           beginning == change(closed, opened)
<1>6. closes => /\ ending \in ChangeRow
                /\ ending.from = prior /\ ending.to = closed /\ ending.session = session
                /\ ending.closes <=> ending.from = "ACTIVE"
                /\ ending.opens <=> ending.to = "ACTIVE"
  BY <1>1, <1>3 DEF Change, ChangeRow
<1>7. opens => /\ beginning \in ChangeRow
               /\ beginning.from = closed /\ beginning.to = opened
               /\ beginning.session = session
               /\ beginning.closes <=> beginning.from = "ACTIVE"
               /\ beginning.opens <=> beginning.to = "ACTIVE"
  BY <1>1, <1>3 DEF Change, ChangeRow
<1>8. CASE r.transitions # << >>
  <2> DEFINE first == [from |-> prior, to |-> closed]
             second == [from |-> closed, to |-> opened]
  <2>1. /\ r.transitions = (IF closes THEN <<first>> ELSE << >>) \o
                           (IF opens THEN <<second>> ELSE << >>)
        /\ change(first.from, first.to) = ending
        /\ change(second.from, second.to) = beginning
    BY <1>2, <1>8 DEF TransitionsOf
  <2> HIDE DEF first, second, ending, beginning, change
  <2>2. CASE closes /\ opens
    <3>1. Len(r.transitions) = 2 /\ r.transitions[1] = first /\ r.transitions[2] = second
      BY <2>1, <2>2
    <3>2. changes = <<ending>> \o <<beginning>>
      BY <1>4, <2>1, <3>1
    <3>3. <<ending>> \in Seq(ChangeRow) /\ Follows(<<ending>>, prior, closed)
          /\ Within(<<ending>>, session, session)
      BY <1>6, <2>2, OneFollows
    <3>4. <<beginning>> \in Seq(ChangeRow) /\ Follows(<<beginning>>, closed, opened)
          /\ Within(<<beginning>>, session, session)
      BY <1>7, <2>2, OneFollows
    <3>5. /\ changes \in Seq(ChangeRow) /\ Follows(changes, prior, opened)
          /\ Within(changes, session, session)
      BY <3>2, <3>3, <3>4, FollowsOn, WithinBoth
    <3> QED
      BY <1>1, <3>5 DEF changes, r
  <2>3. CASE closes /\ ~opens
    <3>1. Len(r.transitions) = 1 /\ r.transitions[1] = first
      BY <2>1, <2>3
    <3>2. changes = <<ending>> /\ opened = closed
      BY <1>1, <1>4, <2>1, <2>3, <3>1
    <3> QED
      BY <1>1, <1>6, <2>3, <3>2, OneFollows DEF changes, r
  <2>4. CASE ~closes /\ opens
    <3>1. Len(r.transitions) = 1 /\ r.transitions[1] = second
      BY <2>1, <2>4
    <3>2. changes = <<beginning>> /\ closed = prior
      BY <1>1, <1>4, <2>1, <2>4, <3>1
    <3> QED
      BY <1>1, <1>7, <2>4, <3>2, OneFollows DEF changes, r
  <2>5. CASE ~closes /\ ~opens
    BY <1>8, <2>1, <2>5
  <2> QED
    BY <2>2, <2>3, <2>4, <2>5
<1> QED
  BY <1>5, <1>8

-----------------------------------------------------------------------------
(* The sessions of a level stepped through, and the changes written.        *)

\* What has been made of a level once a session is stepped through.
Stepped(acc, step) ==
  [lifecycle |-> StepMonitorLevel(acc.lifecycle, step).next,
   changes |-> acc.changes \o ChangesOf(StepMonitorLevel(acc.lifecycle, step), step.date)]

LEMMA StepThroughFold ==
  ASSUME NEW n \in Nat, NEW steps, DOMAIN steps = 1 .. n,
         NEW X, NEW from, [lifecycle |-> from, changes |-> << >>] \in X,
         \A acc \in X, i \in 1 .. n : Stepped(acc, steps[i]) \in X
  PROVE  \E h \in [0 .. n -> X] :
           /\ h[0] = [lifecycle |-> from, changes |-> << >>]
           /\ \A i \in 1 .. n : h[i] = Stepped(h[i - 1], steps[i])
           /\ h[n] = StepThrough(from, steps)
<1> DEFINE base == [lifecycle |-> from, changes |-> << >>]
           F == [p \in X \X (1 .. n) |-> Stepped(p[1], steps[p[2]])]
           Eqn(g) == g = [s \in SUBSET (DOMAIN steps) |->
                            IF s = {} THEN base
                            ELSE Stepped(g[s \ {Max(s)}], steps[Max(s)])]
           fold == CHOOSE g : Eqn(g)
<1>1. StepThrough(from, steps) = fold[DOMAIN steps]
  BY DEF StepThrough, FoldLeft, MapThenFoldSet, Stepped
<1>2. F \in [X \X (1 .. n) -> X] /\ base \in X
  OBVIOUS
<1>3. PICK g \in [SUBSET (1 .. n) -> X] : FoldsBy(g, n, base, F)
  BY <1>2, FoldExists
<1> HIDE DEF base
<1>4. ASSUME NEW s \in SUBSET (1 .. n), s # {}
      PROVE  g[s] = Stepped(g[s \ {Max(s)}], steps[Max(s)])
  <2>1. Max(s) \in 1 .. n
    BY <1>4, MaxInInterval
  <2>2. g[s \ {Max(s)}] \in X
    OBVIOUS
  <2>3. g[s] = F[<<g[s \ {Max(s)}], Max(s)>>]
    BY <1>3, <1>4 DEF FoldsBy
  <2> QED
    BY <2>1, <2>2, <2>3
<1>5. g[{}] = base
  BY <1>3 DEF FoldsBy
<1>6. Eqn(g)
  BY <1>4, <1>5
<1>7. Eqn(fold)
  BY <1>6
<1> HIDE DEF fold
<1>8. ASSUME NEW i \in 1 .. n PROVE fold[1 .. i] = Stepped(fold[1 .. (i - 1)], steps[i])
  <2>1. /\ 1 .. i \in SUBSET (DOMAIN steps) /\ 1 .. i # {}
        /\ Max(1 .. i) = i /\ (1 .. i) \ {i} = 1 .. (i - 1)
    BY Initials
  <2> QED
    BY <1>7, <2>1
<1>9. fold[1 .. 0] = base
  <2>1. 1 .. 0 = {}
    OBVIOUS
  <2> QED
    BY <1>7, <2>1
<1> DEFINE h == [i \in 0 .. n |-> fold[1 .. i]]
<1>10. h[0] = base /\ \A i \in 1 .. n : h[i] = Stepped(h[i - 1], steps[i])
  BY <1>8, <1>9
<1>11. h[n] = StepThrough(from, steps) /\ h = [i \in 0 .. n |-> h[i]]
  BY <1>1
<1> HIDE DEF h
<1>12. \A i \in 0 .. n : h[i] \in X
  <2>1. \A i \in 1 .. n : h[i - 1] \in X => h[i] \in X
    BY <1>10
  <2> QED
    BY <1>2, <1>10, <2>1, StaysIn
<1>13. h \in [0 .. n -> X]
  BY <1>11, <1>12
<1> QED
  BY <1>10, <1>11, <1>13 DEF base

\* Stepping sessions through a level replays them.
LEMMA StepThroughReplays ==
  ASSUME NEW K, NEW n \in Nat, NEW steps, DOMAIN steps = 1 .. n,
         \A i \in 1 .. n : steps[i] \in Step(K), NEW from \in Stable(K)
  PROVE  StepThrough(from, steps).lifecycle = ReplayMonitorLevel(steps, from)
<1> DEFINE X == [lifecycle : Stable(K), changes : Seq(ChangeRow)]
<1>1. [lifecycle |-> from, changes |-> << >>] \in X
  OBVIOUS
<1>2. ASSUME NEW acc \in X, NEW i \in 1 .. n PROVE Stepped(acc, steps[i]) \in X
  <2>1. acc.lifecycle \in Stable(K) /\ acc.changes \in Seq(ChangeRow)
    OBVIOUS
  <2>2. steps[i].date \in Nat
    BY DEF Step
  <2>3. /\ StepMonitorLevel(acc.lifecycle, steps[i]).next \in Stable(K)
        /\ ChangesOf(StepMonitorLevel(acc.lifecycle, steps[i]), steps[i].date) \in Seq(ChangeRow)
    BY <2>1, <2>2, StableSteps, StepFollows
  <2> DEFINE r == StepMonitorLevel(acc.lifecycle, steps[i])
             changes == ChangesOf(r, steps[i].date)
  <2>4. /\ Stepped(acc, steps[i]) = [lifecycle |-> r.next, changes |-> acc.changes \o changes]
        /\ r.next \in Stable(K) /\ changes \in Seq(ChangeRow)
    BY <2>3 DEF Stepped
  <2> HIDE DEF r, changes
  <2> QED
    BY <2>1, <2>4
<1> HIDE DEF X
<1>3. PICK h \in [0 .. n -> X] :
        /\ h[0] = [lifecycle |-> from, changes |-> << >>]
        /\ \A i \in 1 .. n : h[i] = Stepped(h[i - 1], steps[i])
        /\ h[n] = StepThrough(from, steps)
  BY <1>1, <1>2, StepThroughFold, SMTT(30)
<1> DEFINE g == [i \in 0 .. n |-> h[i].lifecycle]
<1>4. g[0] = from /\ g[n] = StepThrough(from, steps).lifecycle
  BY <1>3
<1>5. ASSUME NEW i \in 1 .. n PROVE g[i] = StepMonitorLevel(g[i - 1], steps[i]).next
  <2>1. h[i] = Stepped(h[i - 1], steps[i])
    BY <1>3
  <2>2. h[i].lifecycle = StepMonitorLevel(h[i - 1].lifecycle, steps[i]).next
    BY <2>1 DEF Stepped
  <2>3. g[i] = h[i].lifecycle /\ g[i - 1] = h[i - 1].lifecycle
    OBVIOUS
  <2> QED
    BY <2>2, <2>3
<1> HIDE DEF g
<1>6. IsReplay(g, n, from, steps)
  BY <1>4, <1>5 DEF IsReplay
<1>7. ReplayMonitorLevel(steps, from) = g[n]
  BY <1>6, StableSteps, ReplayIs
<1> QED
  BY <1>4, <1>7

\* What sessions make of a level, and the changes that led there.
LEMMA StepThroughFollows ==
  ASSUME NEW K, NEW d \in Nat, NEW n \in Nat, NEW steps, DOMAIN steps = 1 .. n,
         NEW a \in 1 .. d, NEW b \in 0 .. d,
         \A i \in 1 .. n : steps[i] \in Step(K) /\ steps[i].date \in a .. b,
         NEW from, Held(from, K, d)
  PROVE  LET r == StepThrough(from, steps)
         IN /\ Held(r.lifecycle, K, d) /\ r.changes \in Seq(ChangeRow)
            /\ Follows(r.changes, from.state, r.lifecycle.state)
            /\ Within(r.changes, a, b)
<1> DEFINE T == [lifecycle : Stable(K), changes : Seq(ChangeRow)]
           X == {acc \in T : /\ Held(acc.lifecycle, K, d)
                              /\ Follows(acc.changes, from.state, acc.lifecycle.state)
                              /\ Within(acc.changes, a, b)}
           base == [lifecycle |-> from, changes |-> << >>]
<1>1. base \in X
  <2>1. << >> \in Seq(ChangeRow) /\ Follows(<< >>, from.state, from.state) /\ Within(<< >>, a, b)
    BY NothingFollows
  <2>2. from \in Stable(K)
    BY DEF Held
  <2> QED
    BY <2>1, <2>2
<1>2. ASSUME NEW acc \in X, NEW i \in 1 .. n PROVE Stepped(acc, steps[i]) \in X
  <2> DEFINE level == acc.lifecycle
             r == StepMonitorLevel(level, steps[i])
             changes == ChangesOf(r, steps[i].date)
  <2>1. /\ level \in Stable(K) /\ Held(level, K, d) /\ acc.changes \in Seq(ChangeRow)
        /\ Follows(acc.changes, from.state, level.state) /\ Within(acc.changes, a, b)
    OBVIOUS
  <2>2. steps[i] \in Step(K) /\ steps[i].date \in a .. b /\ steps[i].date \in Nat
        /\ steps[i].date \in 1 .. d
    OBVIOUS
  <2> HIDE DEF X
  <2>3. Held(r.next, K, d) /\ r.next \in Stable(K)
    <3>1. Held(r.next, K, d)
      BY <2>1, <2>2, HeldStep
    <3> QED
      BY <3>1 DEF Held
  <2>4. /\ changes \in Seq(ChangeRow) /\ Follows(changes, level.state, r.next.state)
        /\ Within(changes, steps[i].date, steps[i].date)
    BY <2>1, <2>2, StepFollows
  <2> DEFINE all == acc.changes \o changes
  <2>5. Stepped(acc, steps[i]) = [lifecycle |-> r.next, changes |-> all]
    BY DEF Stepped
  <2> HIDE DEF r, changes, level
  <2>6. Within(changes, a, b)
    BY <2>2, <2>4 DEF Within
  <2>7. all \in Seq(ChangeRow) /\ Follows(all, from.state, r.next.state) /\ Within(all, a, b)
    BY <2>1, <2>4, <2>6, FollowsOn, WithinBoth
  <2> HIDE DEF all
  <2> QED
    BY <2>3, <2>5, <2>7 DEF X
<1> HIDE DEF X
<1>3. StepThrough(from, steps) \in X
  BY <1>1, <1>2, StepThroughFold
<1> QED
  BY <1>3 DEF X

\* What a change makes of the Signals not resolved.
Occurred(acc, c) ==
  LET kept == IF c.closes THEN acc.open \ {acc.active} ELSE acc.open
      now == IF c.closes THEN None ELSE acc.active
  IN IF c.opens
       THEN [open |-> kept \cup {acc.id + 1}, active |-> acc.id + 1, id |-> acc.id + 1]
       ELSE [open |-> kept, active |-> now, id |-> acc.id]

\* What every change keeps in T, and takes from one set of a family to the next,
\* the changes together take to the last.
LEMMA OccurrencesFold ==
  ASSUME NEW n \in Nat, NEW changes, DOMAIN changes = 1 .. n,
         NEW X, NEW unresolved, NEW active,
         [open |-> unresolved, active |-> active, id |-> nextId] \in X,
         \A acc \in X, i \in 1 .. n : Occurred(acc, changes[i]) \in X,
         NEW family, [open |-> unresolved, active |-> active, id |-> nextId] \in family[0],
         \A acc \in X, i \in 1 .. n : acc \in family[i - 1] =>
                                       Occurred(acc, changes[i]) \in family[i]
  PROVE  /\ Occurrences(changes, unresolved, active) \in X
         /\ Occurrences(changes, unresolved, active) \in family[n]
<1> DEFINE base == [open |-> unresolved, active |-> active, id |-> nextId]
           F == [p \in X \X (1 .. n) |-> Occurred(p[1], changes[p[2]])]
           Eqn(g) == g = [s \in SUBSET (DOMAIN changes) |->
                            IF s = {} THEN base
                            ELSE Occurred(g[s \ {Max(s)}], changes[Max(s)])]
           fold == CHOOSE g : Eqn(g)
<1>1. Occurrences(changes, unresolved, active) = fold[DOMAIN changes]
  BY DEF Occurrences, FoldLeft, MapThenFoldSet, Occurred
<1>2. F \in [X \X (1 .. n) -> X] /\ base \in X
  OBVIOUS
<1>3. PICK g \in [SUBSET (1 .. n) -> X] : FoldsBy(g, n, base, F)
  BY <1>2, FoldExists
<1> HIDE DEF base
<1>4. ASSUME NEW s \in SUBSET (1 .. n), s # {}
      PROVE  g[s] = Occurred(g[s \ {Max(s)}], changes[Max(s)])
  <2>1. Max(s) \in 1 .. n
    BY <1>4, MaxInInterval
  <2>2. g[s \ {Max(s)}] \in X
    OBVIOUS
  <2>3. g[s] = F[<<g[s \ {Max(s)}], Max(s)>>]
    BY <1>3, <1>4 DEF FoldsBy
  <2> QED
    BY <2>1, <2>2, <2>3
<1>5. g[{}] = base
  BY <1>3 DEF FoldsBy
<1>6. Eqn(g)
  BY <1>4, <1>5
<1>7. Eqn(fold)
  BY <1>6
<1> HIDE DEF fold
<1>8. ASSUME NEW i \in 1 .. n PROVE fold[1 .. i] = Occurred(fold[1 .. (i - 1)], changes[i])
  <2>1. /\ 1 .. i \in SUBSET (DOMAIN changes) /\ 1 .. i # {}
        /\ Max(1 .. i) = i /\ (1 .. i) \ {i} = 1 .. (i - 1)
    BY Initials
  <2> QED
    BY <1>7, <2>1
<1>9. fold[1 .. 0] = base
  <2>1. 1 .. 0 = {}
    OBVIOUS
  <2> QED
    BY <1>7, <2>1
<1> DEFINE h == [i \in 0 .. n |-> fold[1 .. i]]
<1>10. h[0] = base /\ \A i \in 1 .. n : h[i] = Occurred(h[i - 1], changes[i])
  BY <1>8, <1>9
<1>11. h[n] = Occurrences(changes, unresolved, active) /\ h = [i \in 0 .. n |-> h[i]]
  BY <1>1
<1> HIDE DEF h
<1>12. \A i \in 0 .. n : h[i] \in X
  <2>1. \A i \in 1 .. n : h[i - 1] \in X => h[i] \in X
    BY <1>10
  <2> QED
    BY <1>2, <1>10, <2>1, StaysIn
<1> DEFINE S == {i \in 0 .. n : h[i] \in family[i]}
<1>13. 0 \in S
  BY <1>10 DEF base
<1>14. ASSUME NEW i \in 1 .. n, i - 1 \in S PROVE i \in S
  <2>1. h[i - 1] \in X /\ h[i - 1] \in family[i - 1] /\ h[i] = Occurred(h[i - 1], changes[i])
    BY <1>10, <1>12, <1>14
  <2> QED
    BY <2>1
<1> HIDE DEF S
<1>15. \A i \in 0 .. n : i \in S
  BY <1>13, <1>14, Climb
<1> QED
  BY <1>11, <1>12, <1>15 DEF S

\* The Signals after changes: ids only grow, and are given once.
LEMMA OccurrencesTyped ==
  ASSUME nextId \in Nat, NEW changes \in Seq(ChangeRow),
         NEW unresolved \in SUBSET (1 .. nextId), NEW active \in {None} \cup 1 .. nextId
  PROVE  LET after == Occurrences(changes, unresolved, active)
         IN /\ after.id \in Nat /\ after.id >= nextId /\ after.open \subseteq 1 .. after.id
            /\ after.active \in {None} \cup 1 .. after.id
<1> DEFINE n == Len(changes)
           T == [open : SUBSET Nat, active : {None} \cup Nat, id : Nat]
           Sound(acc) == /\ acc.id >= nextId /\ acc.open \subseteq 1 .. acc.id
                         /\ acc.active \in {None} \cup 1 .. acc.id
           X == {acc \in T : Sound(acc)}
<1>1. ASSUME NEW o, NEW a, NEW id \in Nat, id >= nextId,
             \A x \in o : x \in 1 .. id, a = None \/ a \in 1 .. id
      PROVE  [open |-> o, active |-> a, id |-> id] \in X
  <2>1. o \in SUBSET Nat /\ a \in {None} \cup Nat /\ o \subseteq 1 .. id
    BY <1>1
  <2> QED
    BY <1>1, <2>1
<1>2. [open |-> unresolved, active |-> active, id |-> nextId] \in X
  <2>1. /\ nextId >= nextId /\ \A x \in unresolved : x \in 1 .. nextId
        /\ active = None \/ active \in 1 .. nextId
    OBVIOUS
  <2> HIDE DEF X
  <2> QED
    BY <1>1, <2>1
<1>3. ASSUME NEW acc \in X, NEW i \in 1 .. n PROVE Occurred(acc, changes[i]) \in X
  <2> DEFINE c == changes[i]
             kept == IF c.closes THEN acc.open \ {acc.active} ELSE acc.open
             now == IF c.closes THEN None ELSE acc.active
             id == acc.id
  <2>1. /\ id \in Nat /\ id >= nextId
        /\ \A x \in kept : x \in 1 .. id
        /\ now = None \/ now \in 1 .. id
    OBVIOUS
  <2>2. Occurred(acc, c) =
          IF c.opens THEN [open |-> kept \cup {id + 1}, active |-> id + 1, id |-> id + 1]
          ELSE [open |-> kept, active |-> now, id |-> id]
    BY DEF Occurred
  <2> HIDE DEF X, kept, now, c, id
  <2>3. CASE c.opens
    <3>1. /\ id + 1 \in Nat /\ id + 1 >= nextId /\ id + 1 \in 1 .. (id + 1)
          /\ \A x \in kept \cup {id + 1} : x \in 1 .. (id + 1)
      BY <2>1
    <3>2. [open |-> kept \cup {id + 1}, active |-> id + 1, id |-> id + 1] \in X
      BY <1>1, <3>1
    <3> QED
      BY <2>2, <2>3, <3>2 DEF c
  <2>4. CASE ~c.opens
    <3>1. [open |-> kept, active |-> now, id |-> id] \in X
      BY <1>1, <2>1
    <3> QED
      BY <2>2, <2>4, <3>1 DEF c
  <2> QED
    BY <2>3, <2>4
<1> DEFINE family == [i \in 0 .. n |-> X]
<1> HIDE DEF X
<1>4. /\ n \in Nat /\ DOMAIN changes = 1 .. n /\ \A i \in 0 .. n : family[i] = X
      /\ \A i \in 1 .. n : i - 1 \in 0 .. n
  OBVIOUS
<1> HIDE DEF family, n
<1>5. Occurrences(changes, unresolved, active) \in X
  BY <1>2, <1>3, <1>4, OccurrencesFold
<1> QED
  BY <1>5 DEF X

\* The Signal not resolved is the one of a level that stands in ACTIVE.
Pointing(signals, s) ==
  /\ signals.open = IF signals.active = None THEN {} ELSE {signals.active}
  /\ signals.active # None <=> s = "ACTIVE"

\* While the Signal of a level in ACTIVE is the one not resolved, changes that
\* lead on from there keep it so.
LEMMA OccurrencesFollow ==
  ASSUME nextId \in Nat, NEW changes \in Seq(ChangeRow),
         NEW active \in {None} \cup 1 .. nextId,
         NEW unresolved, unresolved = IF active = None THEN {} ELSE {active},
         NEW s, NEW e, Follows(changes, s, e), active # None <=> s = "ACTIVE"
  PROVE  Pointing(Occurrences(changes, unresolved, active), e)
<1> DEFINE n == Len(changes)
           base == [open |-> unresolved, active |-> active, id |-> nextId]
           X == [open : SUBSET Nat, active : {None} \cup Nat, id : Nat]
           stood(i) == IF i = 0 THEN s ELSE changes[i].to
           Sound(acc, i) ==
             /\ acc.open = IF acc.active = None THEN {} ELSE {acc.active}
             /\ acc.active # None <=> stood(i) = "ACTIVE"
<1>1. base \in X /\ Sound(base, 0)
  <2>1. unresolved \in SUBSET Nat /\ active \in {None} \cup Nat
    OBVIOUS
  <2>2. base \in X
    BY <2>1
  <2> QED
    BY <2>2
<1>2. ASSUME NEW acc \in X, NEW i \in 1 .. n
      PROVE  /\ Occurred(acc, changes[i]) \in X
             /\ Sound(acc, i - 1) => Sound(Occurred(acc, changes[i]), i)
  <2> DEFINE c == changes[i]
             kept == IF c.closes THEN acc.open \ {acc.active} ELSE acc.open
             now == IF c.closes THEN None ELSE acc.active
             id == acc.id
             after == Occurred(acc, c)
             begun == [open |-> kept \cup {id + 1}, active |-> id + 1, id |-> id + 1]
             went == [open |-> kept, active |-> now, id |-> id]
  <2>1. id \in Nat /\ kept \in SUBSET Nat /\ now \in {None} \cup Nat
    OBVIOUS
  <2>2. after = IF c.opens THEN begun ELSE went
    BY DEF Occurred
  <2>3. /\ Rest(c.from) = Rest(stood(i - 1))
        /\ c.closes <=> c.from = "ACTIVE"
        /\ c.opens <=> c.to = "ACTIVE"
    BY DEF Follows
  <2>4. c.closes <=> stood(i - 1) = "ACTIVE"
    <3> HIDE DEF c, stood
    <3> QED
      BY <2>3 DEF Rest, AtRest
  <2>5. stood(i) = c.to
    OBVIOUS
  <2>6. Sound(acc, i - 1) => kept = {} /\ now = None
    <3> HIDE DEF c, stood
    <3> QED
      BY <2>4
  <2> HIDE DEF kept, now, id, c, after, stood
  <2>7. begun \in X /\ went \in X
    BY <2>1
  <2>8. Sound(acc, i - 1) => Sound(after, i)
    <3>1. CASE c.opens
      <4>1. after = begun /\ id + 1 # None
        BY <2>1, <2>2, <3>1, NullIsNoRow
      <4> QED
        BY <2>3, <2>5, <2>6, <3>1, <4>1
    <3>2. CASE ~c.opens
      BY <2>2, <2>3, <2>5, <2>6, <3>2
    <3> QED
      BY <3>1, <3>2
  <2> QED
    BY <2>2, <2>7, <2>8 DEF after, c
<1> HIDE DEF X, base, Sound
<1> DEFINE family == [i \in 0 .. n |-> {acc \in X : Sound(acc, i)}]
           after == Occurrences(changes, unresolved, active)
<1>3. /\ n \in Nat /\ DOMAIN changes = 1 .. n
      /\ base \in family[0]
      /\ \A acc \in X, i \in 1 .. n : acc \in family[i - 1] => Occurred(acc, changes[i]) \in family[i]
  BY <1>1, <1>2
<1>4. after \in family[n]
  <2> HIDE DEF family, n
  <2>1. \A acc \in X, i \in 1 .. n : Occurred(acc, changes[i]) \in X
    BY <1>2
  <2> QED
    BY <1>1, <1>3, <2>1, OccurrencesFold DEF base
<1>5. Sound(after, n)
  BY <1>3, <1>4
<1>6. Rest(e) = Rest(stood(n))
  BY DEF Follows
<1>7. e = "ACTIVE" <=> stood(n) = "ACTIVE"
  <2> HIDE DEF stood
  <2> QED
    BY <1>6 DEF Rest, AtRest
<1> QED
  <2> HIDE DEF after, stood
  <2>1. Pointing(after, e)
    BY <1>5, <1>7 DEF Sound, Pointing
  <2> QED
    BY <2>1 DEF after

-----------------------------------------------------------------------------
(* What a pass decides.                                                     *)

\* A stored state, as sessions up to m and ids up to next leave it.
RowOK(row, m, next) ==
  /\ row \in StateRow /\ row.id \in 1 .. next /\ row.signal \in {None} \cup 1 .. next
  /\ Held(row.lifecycle, RulesOf(row.logic), m)

\* A state points at a Signal exactly while it is ACTIVE.
Points(row) == row.signal # None <=> row.lifecycle.state = "ACTIVE"

\* Where a level stands, with what is stored of it or without.
StandsAt(row) == IF row = None THEN "INACTIVE" ELSE row.lifecycle.state
LeftAt(lifecycle) == IF lifecycle = None THEN "INACTIVE" ELSE lifecycle.state

LEMMA EndingFollows ==
  ASSUME NEW m \in Nat, NEW next \in Nat, NEW row, row = None \/ RowOK(row, m, next)
  PROVE  /\ Ending(row) \in Seq(ChangeRow) /\ Within(Ending(row), 0, m)
         /\ (row # None => Points(row)) => Follows(Ending(row), StandsAt(row), "INACTIVE")
<1>1. CASE row = None \/ AtRest(row.lifecycle.state)
  <2>1. Ending(row) = << >>
    BY <1>1 DEF Ending
  <2>2. Rest(StandsAt(row)) = Rest("INACTIVE")
    BY <1>1 DEF StandsAt, Rest, AtRest
  <2> QED
    BY <2>1, <2>2, NothingFollows
<1>2. CASE row # None /\ ~AtRest(row.lifecycle.state)
  <2> DEFINE s == row.lifecycle.state
             c == Change("ADMINISTRATIVE", 0, s, EndedStateOf(s), row.signal # None, FALSE)
  <2>1. Ending(row) = <<c>>
    BY <1>2 DEF Ending
  <2>2. s \in {"ACTIVE", "PENDING_TRIGGER"}
    BY <1>2 DEF AtRest
  <2>3. /\ c \in ChangeRow /\ c.from = s /\ c.to \in {"RESOLVED", "INACTIVE"}
        /\ c.session = 0 /\ c.closes = (row.signal # None) /\ c.opens = FALSE
    <3> HIDE DEF s
    <3> QED
      BY <2>2 DEF Change, ChangeRow, EndedStateOf, LifecycleStates
  <2> HIDE DEF c
  <2>4. /\ Rest(c.from) = Rest(s) /\ Rest("INACTIVE") = Rest(c.to)
        /\ c.opens <=> c.to = "ACTIVE"
    BY <2>3 DEF Rest, AtRest
  <2>5. <<c>> \in Seq(ChangeRow) /\ Within(<<c>>, 0, m)
    BY <2>3 DEF Within
  <2>6. ASSUME Points(row) PROVE Follows(<<c>>, s, "INACTIVE")
    <3>1. c.closes <=> c.from = "ACTIVE"
      BY <2>3, <2>6 DEF Points
    <3>2. c.session \in 0 .. m
      BY <2>3
    <3> HIDE DEF s
    <3> QED
      BY <2>3, <2>4, <3>1, <3>2, OneFollows
  <2> QED
    BY <1>2, <2>1, <2>5, <2>6 DEF StandsAt
<1> QED
  BY <1>1, <1>2

LEMMA EstablishedFollows ==
  ASSUME NEW K, NEW d \in Nat, NEW level, Held(level, K, d)
  PROVE  /\ Established(level) \in Seq(ChangeRow) /\ Within(Established(level), 0, d)
         /\ Follows(Established(level), "INACTIVE", level.state)
<1>1. /\ level.state \in LifecycleStates /\ level.since \in Nat /\ level.since <= d
      /\ ~AtRest(level.state) => level.since # 0
  BY DEF Held, Stable, Level
<1>2. CASE AtRest(level.state)
  <2>1. Established(level) = << >>
    BY <1>2 DEF Established
  <2>2. Rest("INACTIVE") = Rest(level.state)
    BY <1>2 DEF Rest, AtRest
  <2> QED
    BY <2>1, <2>2, NothingFollows
<1>3. CASE ~AtRest(level.state)
  <2> DEFINE c == Change("RECONSTRUCTED", level.since, "INACTIVE", level.state,
                         FALSE, level.state = "ACTIVE")
  <2>1. Established(level) = <<c>>
    BY <1>1, <1>3 DEF Established
  <2>2. /\ c \in ChangeRow /\ c.from = "INACTIVE" /\ c.to = level.state
        /\ c.session = level.since /\ c.closes = FALSE /\ c.opens = (level.state = "ACTIVE")
    BY <1>1 DEF Change, ChangeRow, LifecycleStates
  <2> HIDE DEF c
  <2>3. c.session \in 0 .. d
    BY <1>1, <2>2
  <2> QED
    BY <2>1, <2>2, <2>3, OneFollows
<1> QED
  BY <1>2, <1>3

LEMMA StepOnASession ==
  ASSUME NEW bars \in Seq(Days), NEW g \in Logics, NEW start \in Int, NEW d \in 1 .. Len(bars)
  PROVE  /\ StepOn(bars, g, start, d) \in Step(RulesOf(g))
         /\ StepOn(bars, g, start, d).date = d
<1>1. bars[d] \in Days
  BY ElementOfSeq
<1>2. bars[d][g] \in [RulesOf(g) -> Observed]
  BY <1>1, RulesOfADay
<1> QED
  BY <1>2 DEF StepOn, Step

\* The sessions of a span, as the folds take them.
Span(steps, n, K, a, b) ==
  /\ n \in Nat /\ steps \in Seq(Step(K)) /\ Len(steps) = n /\ DOMAIN steps = 1 .. n
  /\ \A i \in 1 .. n : steps[i] \in Step(K) /\ steps[i].date \in a .. b

LEMMA StepsOnASpan ==
  ASSUME NEW bars \in Seq(Days), NEW g \in Logics, NEW start \in Int,
         NEW from \in Nat \ {0}, NEW to \in (from - 1) .. Len(bars)
  PROVE  Span(StepsOn(bars, g, start, from, to), to - from + 1, RulesOf(g), from, to)
<1> DEFINE n == to - from + 1
           steps == StepsOn(bars, g, start, from, to)
<1>1. n \in Nat /\ steps = [i \in 1 .. n |-> StepOn(bars, g, start, from + i - 1)]
  BY DEF StepsOn
<1>2. \A i \in 1 .. n : from + i - 1 \in 1 .. Len(bars) /\ from + i - 1 \in from .. to
  OBVIOUS
<1> HIDE DEF n, steps
<1>3. \A i \in 1 .. n : steps[i] \in Step(RulesOf(g)) /\ steps[i].date \in from .. to
  <2> TAKE i \in 1 .. n
  <2>1. steps[i] = StepOn(bars, g, start, from + i - 1)
    BY <1>1
  <2>2. StepOn(bars, g, start, from + i - 1).date = from + i - 1
    BY <1>2, StepOnASession
  <2> QED
    BY <1>2, <2>1, <2>2, StepOnASession
<1>4. steps \in Seq(Step(RulesOf(g))) /\ Len(steps) = n /\ DOMAIN steps = 1 .. n
  <2> DEFINE T == Step(RulesOf(g))
  <2>1. \A i \in 1 .. n : steps[i] \in T
    BY <1>3
  <2>2. DOMAIN steps = 1 .. n /\ steps = [i \in 1 .. n |-> steps[i]]
    BY <1>1
  <2> HIDE DEF T
  <2>3. steps \in [1 .. n -> T]
    BY <2>1, <2>2
  <2>4. n \in Nat
    BY <1>1
  <2>5. steps \in Seq(T)
    BY <2>3, <2>4
  <2>6. Len(steps) = n
    BY <2>2, <2>4, <2>5
  <2> QED
    BY <2>2, <2>5, <2>6 DEF T
<1>5. Span(steps, n, RulesOf(g), from, to)
  BY <1>1, <1>3, <1>4 DEF Span
<1> QED
  BY <1>5 DEF n, steps

LEMMA ReconstructedAtHeld ==
  ASSUME market \in Seq(Days), NEW g \in Logics, NEW start \in Int, NEW d \in 1 .. Len(market)
  PROVE  /\ Held(ReconstructedAt(g, start, d), RulesOf(g), Len(market))
         /\ AtRest(ReconstructedAt(g, start, d).state) =>
              ReconstructedAt(g, start, d).state = "INACTIVE"
<1> DEFINE K == RulesOf(g)
           m == Len(market)
           history == StepsOn(market, g, start, 1, d - 1)
           live == StepOn(market, g, start, d)
           level == ReconstructMonitorLevel(history, live, TRUE).lifecycle
<1>1. m \in Nat /\ d \in 1 .. m /\ 1 \in Nat \ {0} /\ d - 1 \in (1 - 1) .. m
  OBVIOUS
<1>2. /\ history \in Seq(Step(K)) /\ Len(history) = d - 1
      /\ \A i \in 1 .. (d - 1) : history[i].date \in 1 .. (d - 1)
  <2>1. d - 1 = (d - 1) - 1 + 1
    OBVIOUS
  <2>2. Span(history, (d - 1) - 1 + 1, RulesOf(g), 1, d - 1)
    BY <1>1, StepsOnASpan
  <2> HIDE DEF history
  <2> QED
    BY <2>1, <2>2 DEF Span
<1>3. live \in Step(K) /\ live.date = d
  BY StepOnASession
<1> HIDE DEF history, live, K, m
<1>4. \A i \in 1 .. (d - 1) : history[i].date \in 1 .. m
  BY <1>1, <1>2
<1>5. d - 1 \in Nat /\ Len(history) = d - 1 /\ live.date \in 1 .. m
  BY <1>1, <1>2, <1>3
<1>6. Held(level, K, m)
  <2> HIDE DEF level
  <2> QED
    BY <1>1, <1>2, <1>3, <1>4, <1>5, HeldReconstructed DEF level
<1>7. ReconstructedAt(g, start, d) = Unresolved(level)
  BY DEF ReconstructedAt, history, live
<1> HIDE DEF level
<1>8. /\ Held(Unresolved(level), K, m)
      /\ AtRest(Unresolved(level).state) => Unresolved(level).state = "INACTIVE"
  BY <1>1, <1>6, HeldUnresolved
<1> QED
  BY <1>7, <1>8 DEF K, m

\* The sessions from .. to stepped through a level held so far.
LEMMA SteppedThrough ==
  ASSUME market \in Seq(Days), NEW g \in Logics, NEW start \in Int,
         NEW from \in 1 .. Len(market), NEW to \in from .. Len(market),
         NEW level, Held(level, RulesOf(g), Len(market))
  PROVE  LET r == StepThrough(level, StepsOn(market, g, start, from, to))
         IN /\ Held(r.lifecycle, RulesOf(g), Len(market)) /\ r.changes \in Seq(ChangeRow)
            /\ Follows(r.changes, level.state, r.lifecycle.state)
            /\ Within(r.changes, from, to)
<1> DEFINE steps == StepsOn(market, g, start, from, to)
           n == to - from + 1
           K == RulesOf(g)
           d == Len(market)
<1>1. /\ d \in Nat /\ from \in 1 .. d /\ to \in 0 .. d /\ from \in Nat \ {0}
      /\ to \in (from - 1) .. Len(market)
  OBVIOUS
<1>2. Span(steps, n, K, from, to)
  BY <1>1, StepsOnASpan
<1> HIDE DEF steps, n, K, d
<1>3. /\ n \in Nat /\ DOMAIN steps = 1 .. n
      /\ \A i \in 1 .. n : steps[i] \in Step(K) /\ steps[i].date \in from .. to
  BY <1>2 DEF Span
<1>4. Held(level, K, d)
  BY DEF K, d
<1>5. LET r == StepThrough(level, steps)
      IN /\ Held(r.lifecycle, K, d) /\ r.changes \in Seq(ChangeRow)
         /\ Follows(r.changes, level.state, r.lifecycle.state)
         /\ Within(r.changes, from, to)
  BY <1>1, <1>3, <1>4, StepThroughFollows
<1> QED
  BY <1>5 DEF steps, K, d

\* What is decided is stored of the level's own rules, and its changes lead from
\* where the stored state stood to where the decided one stands; a state that is
\* caught up records changes of the sessions it is caught up with only.
LEMMA Decided ==
  ASSUME market \in Seq(Days), NEW next \in Nat,
         NEW previous, previous = None \/ RowOK(previous, Len(market), next),
         NEW g \in Logics, NEW start \in Int, NEW from \in 1 .. Len(market),
         NEW to \in from .. Len(market), NEW replay \in BOOLEAN
  PROVE  LET w == DecideLevelSessions(previous, g, start, from, to, replay)
         IN /\ w.changes \in Seq(ChangeRow) /\ w.outcome \in Evaluability
            /\ Within(w.changes, 0, Len(market))
            /\ w.lifecycle = None \/ Held(w.lifecycle, RulesOf(g), Len(market))
            /\ (previous # None => Points(previous)) =>
                 Follows(w.changes, StandsAt(previous), LeftAt(w.lifecycle))
            /\ previous # None /\ previous.logic = g =>
                 w.lifecycle # None /\ Within(w.changes, from, to)
<1> DEFINE stale == previous # None /\ previous.logic # g
           reset == IF stale THEN Ending(previous) ELSE << >>
           readings == {d \in (from - 1)..to :
                          /\ d >= 1 /\ (replay \/ d = to)
                          /\ Outcome(StepOn(market, g, start, d)) # "NOT_EVALUABLE"}
           newest == Outcome(StepOn(market, g, start, to))
           prefix == IF from = 1 THEN Initial(DOMAIN market[1][g])
                     ELSE ReconstructedAt(g, start, from - 1)
           stepped == StepThrough(prefix, StepsOn(market, g, start, from, to))
           found == ReconstructedAt(g, start, to)
           caughtUp == StepThrough(previous.lifecycle, StepsOn(market, g, start, from, to))
           w == DecideLevelSessions(previous, g, start, from, to, replay)
           K == RulesOf(g)
           m == Len(market)
           pointed == previous # None => Points(previous)
           Good(v) ==
             /\ v.changes \in Seq(ChangeRow) /\ v.outcome \in Evaluability
             /\ Within(v.changes, 0, m)
             /\ v.lifecycle = None \/ Held(v.lifecycle, K, m)
             /\ pointed => Follows(v.changes, StandsAt(previous), LeftAt(v.lifecycle))
             /\ previous # None /\ previous.logic = g =>
                  v.lifecycle # None /\ Within(v.changes, from, to)
<1>1. w = IF previous # None /\ ~stale
            THEN LevelWrite(caughtUp.changes, caughtUp.lifecycle, newest)
          ELSE IF readings = {} THEN LevelWrite(reset, None, "NOT_EVALUABLE")
          ELSE IF replay
            THEN LevelWrite(reset \o Established(prefix) \o stepped.changes,
                            stepped.lifecycle, newest)
          ELSE LevelWrite(reset \o Established(found), found, newest)
  BY DEF DecideLevelSessions
<1>2. newest \in Evaluability /\ "NOT_EVALUABLE" \in Evaluability
  BY DEF Outcome, Evaluability
<1>3. /\ m \in Nat /\ to \in 1 .. m /\ from \in 1 .. m /\ from - 1 \in 0 .. m
      /\ from # 1 => from - 1 \in 1 .. m
  OBVIOUS
<1>4. \A level : Held(level, K, m) => level # None /\ LeftAt(level) = level.state
  BY NullIsNoRow DEF Held, Stable, LeftAt
<1>5. Held(prefix, K, m)
  <2>1. CASE from = 1
    <3>1. market[1] \in Days
      BY <1>3, <2>1, ElementOfSeq
    <3>2. DOMAIN market[1][g] = K
      BY <3>1, RulesOfADay
    <3>3. prefix = Initial(K)
      BY <2>1, <3>2
    <3> HIDE DEF prefix, m, K
    <3> QED
      BY <1>3, <3>3, HeldInitial
  <2>2. CASE from # 1
    <3>1. Held(ReconstructedAt(g, start, from - 1), RulesOf(g), Len(market))
      BY <1>3, <2>2, ReconstructedAtHeld
    <3> QED
      BY <2>2, <3>1
  <2> QED
    BY <2>1, <2>2
<1>6. Held(found, K, m)
  BY <1>3, ReconstructedAtHeld
<1> HIDE DEF prefix
<1>7. /\ Held(stepped.lifecycle, K, m) /\ stepped.changes \in Seq(ChangeRow)
      /\ Follows(stepped.changes, prefix.state, stepped.lifecycle.state)
      /\ Within(stepped.changes, from, to)
  BY <1>5, SteppedThrough
<1>8. previous # None /\ ~stale =>
        /\ Held(caughtUp.lifecycle, K, m) /\ caughtUp.changes \in Seq(ChangeRow)
        /\ Follows(caughtUp.changes, previous.lifecycle.state, caughtUp.lifecycle.state)
        /\ Within(caughtUp.changes, from, to)
  <2>1. previous # None /\ ~stale => Held(previous.lifecycle, RulesOf(g), Len(market))
    BY DEF RowOK
  <2> HIDE DEF stale
  <2> QED
    BY <2>1, SteppedThrough
<1>9. /\ Established(prefix) \in Seq(ChangeRow) /\ Within(Established(prefix), 0, m)
      /\ Follows(Established(prefix), "INACTIVE", prefix.state)
      /\ Established(found) \in Seq(ChangeRow) /\ Within(Established(found), 0, m)
      /\ Follows(Established(found), "INACTIVE", found.state)
  <2> HIDE DEF m, K, found
  <2> QED
    BY <1>3, <1>5, <1>6, EstablishedFollows
<1>10. previous = None \/ stale =>
         /\ reset \in Seq(ChangeRow) /\ Within(reset, 0, m)
         /\ pointed => Follows(reset, StandsAt(previous), "INACTIVE")
  <2>1. CASE stale
    <3>1. /\ Ending(previous) \in Seq(ChangeRow) /\ Within(Ending(previous), 0, m)
          /\ pointed => Follows(Ending(previous), StandsAt(previous), "INACTIVE")
      BY <1>3, EndingFollows
    <3> QED
      BY <2>1, <3>1
  <2>2. CASE previous = None
    <3>1. reset = << >> /\ StandsAt(previous) = "INACTIVE"
      BY <2>2 DEF StandsAt
    <3> QED
      BY <3>1, NothingFollows
  <2> QED
    BY <2>1, <2>2
<1>11. \A changes, lifecycle, outcome :
         LET v == LevelWrite(changes, lifecycle, outcome)
         IN v.changes = changes /\ v.lifecycle = lifecycle /\ v.outcome = outcome
  BY DEF LevelWrite
<1>12. \A changes : Within(changes, from, to) => Within(changes, 0, m)
  <2> HIDE DEF m
  <2> QED
    BY <1>3 DEF Within
<1> HIDE DEF w, readings, newest, stepped, found, caughtUp, K, m, reset, pointed
<1> SUFFICES Good(w)
  BY DEF w, K, m, pointed
<1>13. CASE previous # None /\ ~stale
  <2>1. StandsAt(previous) = previous.lifecycle.state
    BY <1>13 DEF StandsAt
  <2> QED
    BY <1>1, <1>2, <1>4, <1>8, <1>11, <1>12, <1>13, <2>1
<1>14. CASE (previous = None \/ stale) /\ readings = {}
  <2>1. LeftAt(None) = "INACTIVE"
    BY DEF LeftAt
  <2> QED
    BY <1>1, <1>2, <1>10, <1>11, <1>14, <2>1
<1>15. CASE (previous = None \/ stale) /\ readings # {} /\ replay
  <2> DEFINE begun == reset \o Established(prefix)
             all == begun \o stepped.changes
  <2>1. begun \in Seq(ChangeRow) /\ Within(begun, 0, m)
    BY <1>9, <1>10, <1>15, WithinBoth
  <2>2. pointed => Follows(begun, StandsAt(previous), prefix.state)
    BY <1>9, <1>10, <1>15, FollowsOn
  <2>3. w = LevelWrite(all, stepped.lifecycle, newest)
    BY <1>1, <1>15
  <2> HIDE DEF begun
  <2>4. all \in Seq(ChangeRow) /\ Within(all, 0, m)
    BY <1>7, <1>12, <2>1, WithinBoth
  <2>5. pointed => Follows(all, StandsAt(previous), stepped.lifecycle.state)
    BY <1>7, <2>1, <2>2, FollowsOn
  <2> HIDE DEF all
  <2> QED
    BY <1>2, <1>4, <1>7, <1>11, <1>15, <2>3, <2>4, <2>5
<1>16. CASE (previous = None \/ stale) /\ readings # {} /\ ~replay
  <2> DEFINE all == reset \o Established(found)
  <2>1. all \in Seq(ChangeRow) /\ Within(all, 0, m)
    BY <1>9, <1>10, <1>16, WithinBoth
  <2>2. pointed => Follows(all, StandsAt(previous), found.state)
    BY <1>9, <1>10, <1>16, FollowsOn
  <2>3. w = LevelWrite(all, found, newest)
    BY <1>1, <1>16
  <2> HIDE DEF all
  <2> QED
    BY <1>2, <1>4, <1>6, <1>11, <1>16, <2>1, <2>2, <2>3
<1> QED
  BY <1>13, <1>14, <1>15, <1>16

-----------------------------------------------------------------------------
(* The type invariant: the rows, and what passes have read of them.         *)

LEMMA MaxOfTwo ==
  ASSUME NEW a \in Int, NEW b \in Int
  PROVE  Max({a, b}) \in {a, b} /\ Max({a, b}) >= a /\ Max({a, b}) >= b
<1>1. \E x \in {a, b} : \A y \in {a, b} : x >= y
  OBVIOUS
<1> QED
  BY <1>1 DEF Max

LEMMA MaxOfFour ==
  ASSUME NEW a \in Int, NEW b \in Int, NEW c \in Int, NEW d \in Int
  PROVE  /\ Max({a, b, c, d}) \in {a, b, c, d}
         /\ \A y \in {a, b, c, d} : Max({a, b, c, d}) >= y
<1>1. \E x \in {a, b, c, d} : \A y \in {a, b, c, d} : x >= y
  OBVIOUS
<1> QED
  BY <1>1 DEF Max

LEMMA MaxFromZero ==
  ASSUME NEW n \in Nat, NEW S \in SUBSET (0 .. n), S # {}
  PROVE  Max(S) \in S
<1>1. \E x \in S : \A y \in S : x >= y
  <2>1. CASE S = {0}
    BY <2>1
  <2>2. CASE S # {0}
    <3> DEFINE T == S \ {0}
    <3>1. T \in SUBSET (1 .. n) /\ T # {}
      BY <2>2
    <3>2. Max(T) \in T /\ \A i \in T : i <= Max(T)
      BY <3>1, MaxInInterval
    <3>3. Max(T) \in 1 .. n /\ S \subseteq T \cup {0} /\ T \subseteq S
      BY <3>1, <3>2
    <3> DEFINE x == Max(T)
    <3>4. x \in S /\ \A y \in S : x >= y
      <4>1. x \in T /\ \A i \in T : i <= x
        BY <3>2
      <4>2. x \in 1 .. n
        BY <3>3
      <4> HIDE DEF x, T
      <4> QED
        BY <3>1, <3>3, <4>1, <4>2
    <3> QED
      BY <3>4
  <2> QED
    BY <2>1, <2>2
<1> QED
  BY <1>1 DEF Max

PassStates == {"IDLE", "STATES", "CHECKPOINTS", "RECORDED", "MEMBER", "RECONCILE",
               "RESOLVE", "PRUNE"}
PassRow == [pc : PassStates, config : Nat, logic : Logics \cup {NoLogic}, start : Starts,
            expected : Nat, state : StateRow \cup {None},
            checkpoint : CheckpointRow \cup {None}, recorded : Nat]

\* Progress within the first m sessions, under a configuration there was.
CheckpointOK(c, m, config) ==
  /\ c \in CheckpointRow /\ c.through \in 1 .. m /\ c.start \in 0 .. c.through
  /\ c.config <= config

\* What a pass has read is of rows that were there.
PassOK(r, m, config, next) ==
  /\ r \in PassRow /\ r.config <= config /\ r.expected <= m
  /\ r.state # None => RowOK(r.state, m, next)
  /\ r.checkpoint # None => CheckpointOK(r.checkpoint, m, config)
  /\ r.pc = "RESOLVE" => r.state # None

RowsOK ==
  /\ nextId \in Nat /\ open \subseteq 1 .. nextId
  /\ log \in Seq(ChangeRow) /\ Within(log, 0, Len(market))
  /\ state # None => RowOK(state, Len(market), nextId)
  /\ checkpoint # None => CheckpointOK(checkpoint, Len(market), monitor.config)

OwnerOK ==
  /\ monitor \in [config : Nat, logic : Logics \cup {NoLogic}, start : Starts]
  /\ edits \in 0 .. MaxEdits /\ monitor.config <= edits

MarketOK == market \in Seq(Days) /\ Len(market) <= MaxSession

PassesOK ==
  /\ pass \in [Passes -> PassRow]
  /\ \A p \in Passes : PassOK(pass[p], Len(market), monitor.config, nextId)

Typed == MarketOK /\ OwnerOK /\ RowsOK /\ PassesOK

LEMMA TypedIsTypeOK == Typed => TypeOK
<1> SUFFICES ASSUME Typed PROVE TypeOK
  OBVIOUS
<1> USE EvaluationAssumption
<1>1. /\ market \in Seq(Days) /\ Len(market) <= MaxSession /\ Len(market) \in Nat
      /\ MaxSession \in Nat
  BY DEF Typed, MarketOK
<1>2. /\ monitor \in [config : 0 .. MaxEdits, logic : Logics \cup {NoLogic}, start : Starts]
      /\ edits \in 0 .. MaxEdits
  BY DEF Typed, OwnerOK
<1>3. checkpoint # None => /\ checkpoint.through \in 1 .. Len(market)
                           /\ checkpoint.start \in 0 .. checkpoint.through
                           /\ checkpoint.config \in 0 .. monitor.config
  BY <1>2 DEF Typed, RowsOK, CheckpointOK, CheckpointRow
<1>4. ASSUME state # None
      PROVE  /\ state.logic \in Logics /\ state.outcome \in Evaluability
             /\ state.id \in 1 .. nextId /\ state.version \in Nat
             /\ state.signal \in {None} \cup 1 .. nextId
             /\ Stored(state.lifecycle)
  <2> DEFINE K == RulesOf(state.logic)
             level == state.lifecycle
  <2>1. RowOK(state, Len(market), nextId)
    BY <1>4 DEF Typed, RowsOK
  <2>2. /\ level \in Level(K) /\ level.since <= Len(market)
        /\ \A k \in K : level.rules[k].since <= Len(market) /\ level.rules[k].triggerDate <= Len(market)
    BY <2>1 DEF RowOK, Held, Stable
  <2>3. /\ level.state \in LifecycleStates /\ level.since \in Nat /\ DOMAIN level.rules = K
        /\ \A k \in K : level.rules[k] \in Rule
    BY <2>2 DEF Level
  <2> HIDE DEF K, level
  <2>4. level.since \in 0 .. MaxSession
    BY <1>1, <2>2, <2>3
  <2>5. \A k \in DOMAIN level.rules :
          /\ level.rules[k].state \in LifecycleStates
          /\ level.rules[k].since \in 0 .. MaxSession
          /\ level.rules[k].triggerDate \in 0 .. MaxSession
    BY <1>1, <2>2, <2>3 DEF Rule
  <2>6. Stored(level)
    BY <2>3, <2>4, <2>5 DEF Stored
  <2> QED
    BY <2>1, <2>6 DEF RowOK, StateRow, level
<1>5. open \subseteq 1 .. nextId /\ DOMAIN pass = Passes
  BY DEF Typed, RowsOK, PassesOK
<1> QED
  BY <1>1, <1>2, <1>3, <1>4, <1>5 DEF TypeOK

\* More sessions, more ids and more configurations leave what was read as it was.
LEMMA OKLater ==
  ASSUME NEW m \in Nat, NEW n \in Nat, m <= n, NEW config \in Nat, NEW later \in Nat,
         config <= later, NEW next \in Nat, NEW after \in Nat, next <= after
  PROVE  /\ \A row : RowOK(row, m, next) => RowOK(row, n, after)
         /\ \A c : CheckpointOK(c, m, config) => CheckpointOK(c, n, later)
         /\ \A r : PassOK(r, m, config, next) => PassOK(r, n, later, after)
<1>1. ASSUME NEW row, RowOK(row, m, next) PROVE RowOK(row, n, after)
  <2> DEFINE K == RulesOf(row.logic)
             level == row.lifecycle
  <2>1. Held(level, K, m) /\ level \in Level(K)
    BY <1>1 DEF RowOK, Held, Stable
  <2>2. /\ level.since \in Nat
        /\ \A k \in K : level.rules[k].since \in Nat /\ level.rules[k].triggerDate \in Nat
    BY <2>1 DEF Level, Rule
  <2> HIDE DEF K, level
  <2>3. Held(level, K, n)
    BY <2>1, <2>2 DEF Held
  <2>4. row.id \in 1 .. after /\ row.signal \in {None} \cup 1 .. after /\ row \in StateRow
    BY <1>1 DEF RowOK
  <2> QED
    BY <2>3, <2>4 DEF RowOK, K, level
<1>2. ASSUME NEW c, CheckpointOK(c, m, config) PROVE CheckpointOK(c, n, later)
  BY <1>2 DEF CheckpointOK, CheckpointRow
<1>3. ASSUME NEW r, PassOK(r, m, config, next) PROVE PassOK(r, n, later, after)
  <2>1. r.config \in Nat /\ r.expected \in Nat
    BY <1>3 DEF PassOK, PassRow
  <2> QED
    BY <1>1, <1>2, <1>3, <2>1 DEF PassOK
<1> QED
  BY <1>1, <1>2, <1>3

\* A statement of a pass keeps the types when its rows and what it read do.
LEMMA ReadingTyped ==
  ASSUME Typed, NEW p \in Passes, NEW pc, NEW next, Reading(p, pc, next), RowsOK',
         nextId <= nextId', PassOK(next, Len(market), monitor.config, nextId')
  PROVE  Typed'
<1>1. /\ pass \in [Passes -> PassRow] /\ pass' = [pass EXCEPT ![p] = next]
      /\ market' = market /\ monitor' = monitor /\ edits' = edits
      /\ next \in PassRow
  BY DEF Typed, PassesOK, Reading, PassOK
<1>2. /\ Len(market) \in Nat /\ monitor.config \in Nat /\ nextId \in Nat /\ nextId' \in Nat
      /\ Len(market) <= Len(market) /\ monitor.config <= monitor.config
  BY DEF Typed, MarketOK, OwnerOK, RowsOK
<1>3. pass' \in [Passes -> PassRow]
  BY <1>1
<1>4. \A q \in Passes : PassOK(pass'[q], Len(market), monitor.config, nextId')
  <2> TAKE q \in Passes
  <2>1. CASE q = p
    BY <1>1, <2>1
  <2>2. CASE q # p
    <3>1. pass'[q] = pass[q]
      BY <1>1, <2>2
    <3>2. PassOK(pass[q], Len(market), monitor.config, nextId)
      BY DEF Typed, PassesOK
    <3> QED
      BY <1>2, <3>1, <3>2, OKLater
  <2> QED
    BY <2>1, <2>2
<1> QED
  BY <1>1, <1>3, <1>4 DEF Typed, MarketOK, OwnerOK, PassesOK

\* What a pass decided before is progress under its own membership.
LEMMA DecidedThroughTyped ==
  ASSUME NEW m \in Nat, NEW config, NEW next, NEW r, PassOK(r, m, config, next)
  PROVE  /\ DecidedThrough(r) \in 0 .. m
         /\ DecidedThrough(r) # 0 =>
              /\ r.checkpoint # None /\ DecidedThrough(r) = r.checkpoint.through
              /\ r.checkpoint.config = r.config /\ r.start <= DecidedThrough(r)
<1>1. CASE /\ r.checkpoint # None /\ ~ResetMembership(r) /\ r.checkpoint.config = r.config
  <2>1. DecidedThrough(r) = r.checkpoint.through
    BY <1>1 DEF DecidedThrough
  <2>2. r.checkpoint.start = r.start
    BY <1>1 DEF ResetMembership
  <2>3. r.checkpoint.through \in 1 .. m /\ r.checkpoint.start \in 0 .. r.checkpoint.through
    BY <1>1 DEF PassOK, CheckpointOK
  <2> QED
    BY <1>1, <2>1, <2>2, <2>3
<1>2. CASE ~(/\ r.checkpoint # None /\ ~ResetMembership(r) /\ r.checkpoint.config = r.config)
  <2>1. DecidedThrough(r) = 0
    BY <1>2 DEF DecidedThrough
  <2> QED
    BY <2>1
<1> QED
  BY <1>1, <1>2

\* The sessions a member is decided on are final ones, up to one of its
\* membership; state under its own logic and membership is decided on sessions
\* after the progress it is at.
LEMMA SessionsTyped ==
  ASSUME NEW m \in Nat, NEW config, NEW next, NEW r, PassOK(r, m, config, next),
         CurrentMember(r), NEW through \in 1 .. r.expected,
         NEW sessions \in SessionsOf(r, through)
  PROVE  /\ sessions.from \in 1 .. m /\ sessions.to \in sessions.from .. m
         /\ sessions.replay \in BOOLEAN /\ r.start \in 0 .. sessions.to
         /\ ~LogicChanged(r) => sessions.from > DecidedThrough(r)
<1> DEFINE d == DecidedThrough(r)
           first == Max({d + 1, r.start})
           begin == ReplayFrom(r)
           Good == /\ sessions.from \in 1 .. m /\ sessions.to \in sessions.from .. m
                   /\ r.start \in 0 .. sessions.to
                   /\ ~LogicChanged(r) => sessions.from > d
<1>1. /\ r.expected \in Nat /\ r.expected <= m /\ r.start \in 0 .. r.expected
      /\ r.recorded \in Nat /\ through \in Nat /\ 1 <= through /\ through <= m
  BY DEF PassOK, PassRow, CurrentMember
<1>2. /\ d \in 0 .. m
      /\ d # 0 => r.start <= d
  BY DecidedThroughTyped
<1>3. first \in Int /\ first >= d + 1 /\ first >= r.start
  <2> DEFINE a == d + 1
             b == r.start
  <2>1. a \in Int /\ b \in Int
    BY <1>1, <1>2
  <2> HIDE DEF a, b
  <2>2. Max({a, b}) \in {a, b} /\ Max({a, b}) >= a /\ Max({a, b}) >= b
    BY <2>1, MaxOfTwo
  <2>3. Max({a, b}) \in Int
    BY <2>1, <2>2
  <2> QED
    BY <2>2, <2>3 DEF a, b
<1>4. begin \in Int /\ begin >= 1 /\ begin >= r.start
  <2> DEFINE a == 1
             b == r.expected - Window + 1
             c == r.start
             e == r.recorded + 1
  <2>1. Window \in Int
    BY EvaluationAssumption
  <2>2. a \in Int /\ b \in Int /\ c \in Int /\ e \in Int
    BY <1>1, <2>1
  <2>3. begin = Max({a, b, c, e})
    BY DEF ReplayFrom
  <2> HIDE DEF a, b, c, e, begin
  <2>4. /\ Max({a, b, c, e}) \in {a, b, c, e}
        /\ \A y \in {a, b, c, e} : Max({a, b, c, e}) >= y
    BY <2>2, MaxOfFour
  <2>5. begin \in Int /\ begin >= a /\ begin >= c
    BY <2>2, <2>3, <2>4
  <2> QED
    BY <2>5 DEF a, c
<1>5. Fresh(r) => d = 0
  BY DEF Fresh
<1> DEFINE Is(a, b) == sessions.from = a /\ sessions.to = b
<1>6. \/ Fresh(r) /\ begin <= through /\ Is(begin, through)
      \/ first <= through /\ d = 0 /\ Is(through, through)
      \/ first <= through /\ d # 0 /\ Is(first, through)
      \/ d > 0 /\ LogicChanged(r) /\ Is(d, d)
  BY DEF SessionsOf
<1>7. sessions.replay \in BOOLEAN
  <2> DEFINE span(a, b, replay) == [from |-> a, to |-> b, replay |-> replay]
             c == IF d = 0 THEN through ELSE first
  <2>1. SessionsOf(r, through) \subseteq
          {span(begin, through, TRUE), span(c, through, FALSE), span(d, d, FALSE)}
    <3> HIDE DEF span, c, first, begin
    <3>1. SessionsOf(r, through) \in
            {{span(begin, through, TRUE)}, {span(c, through, FALSE)}, {span(d, d, FALSE)}, {}}
      BY DEF SessionsOf, span, c, first, begin
    <3> QED
      BY <3>1
  <2>2. \A a, b, replay : span(a, b, replay).replay = replay
    OBVIOUS
  <2> HIDE DEF span
  <2>3. sessions.replay = TRUE \/ sessions.replay = FALSE
    BY <2>1, <2>2
  <2> QED
    BY <2>3
<1> HIDE DEF d, first, begin
<1>8. ASSUME Fresh(r), begin <= through, Is(begin, through) PROVE Good
  BY <1>1, <1>2, <1>4, <1>5, <1>8
<1>9. ASSUME first <= through, d = 0, Is(through, through) PROVE Good
  BY <1>1, <1>2, <1>3, <1>9
<1>10. ASSUME first <= through, d # 0, Is(first, through) PROVE Good
  BY <1>1, <1>2, <1>3, <1>10
<1>11. ASSUME d > 0, LogicChanged(r), Is(d, d) PROVE Good
  BY <1>1, <1>2, <1>11
<1> HIDE DEF Is
<1>12. Good
  <2> HIDE DEF Good
  <2> QED
    BY <1>6, <1>8, <1>9, <1>10, <1>11
<1> QED
  BY <1>12, <1>7 DEF d

LEMMA RecordedTyped == ASSUME Typed PROVE LastRecorded \in 0 .. Len(market)
<1> DEFINE S == {0} \cup {log[i].session : i \in DOMAIN log}
           m == Len(market)
<1>1. m \in Nat /\ log \in Seq(ChangeRow) /\ \A i \in 1 .. Len(log) : log[i].session \in 0 .. m
  BY DEF Typed, MarketOK, RowsOK, Within
<1> HIDE DEF m
<1>2. DOMAIN log = 1 .. Len(log)
  BY <1>1
<1>3. S \in SUBSET (0 .. m) /\ S # {}
  BY <1>1, <1>2
<1> HIDE DEF S
<1>4. Max(S) \in S
  BY <1>1, <1>3, MaxFromZero
<1> QED
  BY <1>3, <1>4 DEF LastRecorded, S, m

\* What a transaction starts from are rows, or none.
LEMMA BaseTyped ==
  ASSUME RowsOK, Len(market) \in Nat, NEW reset
  PROVE  /\ Ended(reset).state \in {None, state} /\ Ended(reset).open \subseteq open
         /\ Ended(reset).log \in Seq(ChangeRow) /\ Within(Ended(reset).log, 0, Len(market))
         /\ Ended(reset).log = IF reset THEN log \o Ending(state) ELSE log
<1> DEFINE m == Len(market)
           base == Ended(reset)
<1>1. /\ log \in Seq(ChangeRow) /\ Within(log, 0, m) /\ nextId \in Nat
      /\ state = None \/ RowOK(state, m, nextId)
  BY DEF RowsOK
<1>2. Ending(state) \in Seq(ChangeRow) /\ Within(Ending(state), 0, m)
  <2> HIDE DEF m
  <2> QED
    BY <1>1, EndingFollows DEF m
<1>3. log \o Ending(state) \in Seq(ChangeRow) /\ Within(log \o Ending(state), 0, m)
  BY <1>1, <1>2, WithinBoth
<1>4. CASE ~reset \/ state = None
  <2>1. base = [state |-> state, open |-> open, log |-> log]
    BY <1>4 DEF Ended
  <2>2. state = None => log \o Ending(state) = log
    BY <1>1 DEF Ending
  <2>3. base.state = state /\ base.open = open /\ base.log = log
    BY <2>1
  <2> QED
    BY <1>1, <1>4, <2>2, <2>3
<1>5. CASE reset /\ state # None
  <2> DEFINE o == open \ {state.signal}
             l == log \o Ending(state)
  <2>1. base = [state |-> None, open |-> o, log |-> l]
    BY <1>5 DEF Ended
  <2>2. o \subseteq open
    OBVIOUS
  <2>3. l \in Seq(ChangeRow) /\ Within(l, 0, m)
    BY <1>3
  <2> HIDE DEF o, l
  <2>4. base.state = None /\ base.open = o /\ base.log = l
    BY <2>1
  <2> HIDE DEF base
  <2> QED
    BY <1>5, <2>2, <2>3, <2>4 DEF base, l
<1> QED
  BY <1>4, <1>5

\* A decided lifecycle is stored as a row.
LEMMA RowTyped ==
  ASSUME NEW m \in Nat, NEW next \in Nat, NEW id \in 1 .. next, NEW version \in Nat,
         NEW g \in Logics, NEW write, write.outcome \in Evaluability,
         write.lifecycle # None, write.lifecycle = None \/ Held(write.lifecycle, RulesOf(g), m),
         NEW active \in {None} \cup 1 .. next
  PROVE  /\ RowOK(Row(id, version, g, write, active), m, next)
         /\ Row(id, version, g, write, active).lifecycle = write.lifecycle
         /\ Row(id, version, g, write, active).logic = g
         /\ Row(id, version, g, write, active).id = id
         /\ Row(id, version, g, write, active).version = version
         /\ Row(id, version, g, write, active).signal =
              IF write.lifecycle.state = "ACTIVE" THEN active ELSE None
<1> DEFINE level == write.lifecycle
           signal == IF level.state = "ACTIVE" THEN active ELSE None
           outcome == write.outcome
           row == Row(id, version, g, write, active)
<1>1. level \in UNION {Level(RulesOf(h)) : h \in Logics} /\ Held(level, RulesOf(g), m)
  BY DEF Held, Stable
<1>2. signal \in {None} \cup 1 .. next /\ outcome \in Evaluability
  OBVIOUS
<1>3. row = [id |-> id, version |-> version, logic |-> g, outcome |-> outcome,
             lifecycle |-> level, signal |-> signal]
  BY DEF Row
<1> HIDE DEF row, signal, level, outcome
<1>4. row \in StateRow
  <2>1. id \in Nat /\ signal \in Nat \cup {None}
    BY <1>2
  <2> QED
    BY <1>1, <1>2, <1>3, <2>1 DEF StateRow
<1>5. /\ row.id = id /\ row.version = version /\ row.logic = g
      /\ row.lifecycle = level /\ row.signal = signal
  BY <1>3
<1> QED
  BY <1>1, <1>2, <1>4, <1>5 DEF RowOK, row, level, signal

\* What any row written of a decision shows of it.
RowsShow(next, g, write, active) ==
  write.lifecycle # None =>
    \A id \in 1 .. next, version \in Nat :
      LET row == Row(id, version, g, write, active)
      IN /\ row \in StateRow /\ row.lifecycle = write.lifecycle
         /\ row.logic = g /\ row.id = id
         /\ row.signal = IF write.lifecycle.state = "ACTIVE" THEN active ELSE None

LEMMA RowsTyped ==
  ASSUME NEW m \in Nat, NEW next \in Nat, NEW g \in Logics,
         NEW write, write.outcome \in Evaluability,
         write.lifecycle = None \/ Held(write.lifecycle, RulesOf(g), m),
         NEW active \in {None} \cup 1 .. next
  PROVE  RowsShow(next, g, write, active)
<1> SUFFICES ASSUME write.lifecycle # None, NEW id \in 1 .. next, NEW version \in Nat
             PROVE  LET row == Row(id, version, g, write, active)
                    IN /\ row \in StateRow /\ row.lifecycle = write.lifecycle
                       /\ row.logic = g /\ row.id = id
                       /\ row.signal = IF write.lifecycle.state = "ACTIVE" THEN active ELSE None
  BY DEF RowsShow
<1> DEFINE row == Row(id, version, g, write, active)
<1>1. /\ RowOK(row, m, next) /\ row.lifecycle = write.lifecycle
      /\ row.logic = g /\ row.id = id
      /\ row.signal = IF write.lifecycle.state = "ACTIVE" THEN active ELSE None
  BY RowTyped
<1> HIDE DEF row
<1>2. row \in StateRow
  BY <1>1 DEF RowOK
<1> QED
  BY <1>1, <1>2 DEF row

\* A transaction of a pass writes rows.
LEMMA ApplyTyped ==
  ASSUME Typed, NEW r, PassOK(r, Len(market), monitor.config, nextId), CurrentMember(r),
         NEW through \in 1 .. r.expected, NEW sessions \in SessionsOf(r, through),
         ApplyMemberEvaluation(r, sessions), market' = market, monitor' = monitor
  PROVE  RowsOK' /\ nextId <= nextId'
<1> DEFINE m == Len(market)
           reset == ResetMembership(r)
           base == Ended(reset)
           previous == IF reset THEN None ELSE r.state
           write == DecideLevelSessions(previous, r.logic, r.start, sessions.from,
                                        sessions.to, sessions.replay)
           untouched == r.logic = NoLogic \/ Unchanged(previous, r.logic, write)
<1>1. /\ market \in Seq(Days) /\ m \in Nat /\ nextId \in Nat /\ RowsOK
      /\ r \in PassRow /\ r.config <= monitor.config /\ monitor.config \in Nat
  BY DEF Typed, MarketOK, OwnerOK, RowsOK, PassOK
<1>2. /\ sessions.from \in 1 .. m /\ sessions.to \in sessions.from .. m
      /\ sessions.replay \in BOOLEAN /\ r.start \in 0 .. sessions.to
  BY <1>1, SessionsTyped
<1>3. /\ base.state \in {None, state} /\ base.open \subseteq open
      /\ base.log \in Seq(ChangeRow) /\ Within(base.log, 0, m)
  BY <1>1, BaseTyped
<1>4. /\ open \subseteq 1 .. nextId
      /\ state = None \/ RowOK(state, m, nextId)
  BY <1>1 DEF RowsOK
<1>5. previous = None \/ RowOK(previous, m, nextId)
  BY DEF PassOK
<1>6. CASE rowVars' = rowVars
  <2>1. /\ nextId' = nextId /\ open' = open /\ log' = log /\ state' = state
        /\ checkpoint' = checkpoint
    BY <1>6 DEF rowVars
  <2> QED
    BY <1>1, <2>1 DEF RowsOK
<1>7. CASE /\ checkpoint' = [through |-> sessions.to, config |-> r.config, start |-> r.start]
           /\ IF untouched
                THEN /\ state' = base.state /\ open' = base.open /\ log' = base.log
                     /\ nextId' = nextId
                ELSE ApplyLevelSessions(base, previous, r.logic, write)
  <2>1. CheckpointOK(checkpoint', m, monitor.config)
    <3> DEFINE to == sessions.to
    <3>1. to \in 1 .. m /\ to \in Nat /\ r.start \in 0 .. to /\ r.config \in Nat /\ r.start \in Nat
      BY <1>1, <1>2 DEF PassRow
    <3>2. checkpoint' = [through |-> to, config |-> r.config, start |-> r.start]
      BY <1>7
    <3> HIDE DEF to
    <3>3. checkpoint' \in CheckpointRow /\ checkpoint'.through = to
          /\ checkpoint'.config = r.config /\ checkpoint'.start = r.start
      BY <3>1, <3>2 DEF CheckpointRow
    <3> QED
      BY <1>1, <3>1, <3>3 DEF CheckpointOK
  <2> SUFFICES /\ nextId' \in Nat /\ nextId <= nextId' /\ open' \subseteq 1 .. nextId'
               /\ log' \in Seq(ChangeRow) /\ Within(log', 0, m)
               /\ state' # None => RowOK(state', m, nextId')
    BY <2>1 DEF RowsOK
  <2>2. CASE untouched
    <3>1. state' = base.state /\ open' = base.open /\ log' = base.log /\ nextId' = nextId
      BY <1>7, <2>2
    <3> HIDE DEF base, m
    <3>2. open' \subseteq 1 .. nextId'
      BY <1>3, <1>4, <3>1
    <3>3. state' # None => RowOK(state', m, nextId')
      BY <1>3, <1>4, <3>1
    <3> QED
      BY <1>1, <1>3, <3>1, <3>2, <3>3
  <2>3. CASE ~untouched
    <3> DEFINE active == IF previous = None THEN None ELSE previous.signal
               after == Occurrences(write.changes, base.open, active)
    <3>1. ApplyLevelSessions(base, previous, r.logic, write)
      BY <1>7, <2>3
    <3>2. r.logic \in Logics /\ r.start \in Int
      BY <1>1, <1>2, <2>3 DEF PassRow
    <3>3. /\ write.changes \in Seq(ChangeRow) /\ write.outcome \in Evaluability
          /\ Within(write.changes, 0, m)
          /\ write.lifecycle = None \/ Held(write.lifecycle, RulesOf(r.logic), m)
      <4> HIDE DEF previous
      <4> QED
        BY <1>1, <1>2, <1>5, <3>2, Decided
    <3>4. active \in {None} \cup 1 .. nextId
      <4> HIDE DEF previous
      <4> QED
        BY <1>5 DEF RowOK
    <3>5. base.open \in SUBSET (1 .. nextId)
      BY <1>3, <1>4
    <3> HIDE DEF active, write, base
    <3>6. /\ after.id \in Nat /\ after.id >= nextId /\ after.open \subseteq 1 .. after.id
          /\ after.active \in {None} \cup 1 .. after.id
      BY <1>1, <3>3, <3>4, <3>5, OccurrencesTyped
    <3>7. open' = after.open /\ log' = base.log \o write.changes
      BY <3>1 DEF ApplyLevelSessions, active
    <3>8. log' \in Seq(ChangeRow) /\ Within(log', 0, m)
      BY <1>3, <3>3, <3>7, WithinBoth
    <3>9. \/ write.lifecycle = None /\ state' = None /\ nextId' = after.id
          \/ /\ write.lifecycle # None /\ previous = None
             /\ state' = Row(after.id + 1, 0, r.logic, write, after.active)
             /\ nextId' = after.id + 1
          \/ /\ write.lifecycle # None /\ previous # None
             /\ state' = Row(previous.id, previous.version + 1, r.logic, write, after.active)
             /\ nextId' = after.id
      BY <3>1 DEF ApplyLevelSessions, active
    <3> HIDE DEF after, previous
    <3>10. CASE write.lifecycle = None /\ state' = None /\ nextId' = after.id
      BY <1>1, <3>6, <3>7, <3>8, <3>10
    <3>11. CASE /\ write.lifecycle # None
                /\ state' = Row(after.id + 1, 0, r.logic, write, after.active)
                /\ nextId' = after.id + 1
      <4>1. after.id + 1 \in 1 .. nextId' /\ after.active \in {None} \cup 1 .. nextId'
        BY <3>6, <3>11
      <4>2. RowOK(state', m, nextId')
        BY <3>2, <3>3, <3>11, <4>1, RowTyped
      <4> QED
        BY <1>1, <3>6, <3>7, <3>8, <3>11, <4>2
    <3>12. CASE /\ write.lifecycle # None /\ previous # None
                /\ state' = Row(previous.id, previous.version + 1, r.logic, write, after.active)
                /\ nextId' = after.id
      <4>1. /\ previous.id \in 1 .. nextId' /\ after.active \in {None} \cup 1 .. nextId'
            /\ previous.version + 1 \in Nat
        BY <1>1, <1>5, <3>6, <3>12 DEF RowOK, StateRow
      <4>2. RowOK(state', m, nextId')
        <5> DEFINE id == previous.id
                   version == previous.version + 1
        <5>1. id \in 1 .. nextId' /\ version \in Nat /\ nextId' \in Nat /\ m \in Nat
          BY <1>1, <3>6, <3>12, <4>1
        <5>2. state' = Row(id, version, r.logic, write, after.active)
          BY <3>12
        <5> HIDE DEF id, version
        <5>3. RowOK(Row(id, version, r.logic, write, after.active), m, nextId')
          BY <3>2, <3>3, <3>12, <4>1, <5>1, RowTyped
        <5> QED
          BY <5>2, <5>3
      <4> QED
        BY <1>1, <3>6, <3>7, <3>8, <3>12, <4>2
    <3> QED
      BY <3>9, <3>10, <3>11, <3>12
  <2> QED
    BY <2>2, <2>3
<1> QED
  BY <1>6, <1>7 DEF ApplyMemberEvaluation, AdvanceCheckpoint

\* A statement that only reads leaves the rows as they were.
LEMMA RowsKept ==
  ASSUME Typed, UNCHANGED rowVars, market' = market, monitor' = monitor
  PROVE  RowsOK' /\ nextId' = nextId
<1>1. /\ state' = state /\ checkpoint' = checkpoint /\ open' = open /\ log' = log
      /\ nextId' = nextId
  BY DEF rowVars
<1> QED
  BY <1>1 DEF Typed, RowsOK

LEMMA IdleTyped ==
  ASSUME Typed PROVE PassOK(IdlePass, Len(market), monitor.config, nextId)
<1>1. /\ Len(market) \in Nat /\ monitor.config \in Nat
  BY DEF Typed, MarketOK, OwnerOK
<1>2. IdlePass \in PassRow
  BY DEF IdlePass, PassRow, PassStates, Starts
<1> QED
  BY <1>1, <1>2 DEF IdlePass, PassOK

LEMMA LoadTyped ==
  ASSUME Typed, NEW p \in Passes, Load(p) PROVE Typed'
<1> DEFINE r == pass[p]
           ok(row) == PassOK(row, Len(market), monitor.config, nextId)
<1>1. /\ r \in PassRow /\ PassOK(r, Len(market), monitor.config, nextId)
      /\ Len(market) \in Nat /\ nextId \in Nat
      /\ monitor.config \in Nat /\ monitor.logic \in Logics \cup {NoLogic}
      /\ monitor.start \in Starts
  BY DEF Typed, PassesOK, MarketOK, OwnerOK, RowsOK
<1>2. /\ state # None => RowOK(state, Len(market), nextId) /\ state \in StateRow
      /\ checkpoint # None => /\ CheckpointOK(checkpoint, Len(market), monitor.config)
                              /\ checkpoint \in CheckpointRow
  BY DEF Typed, RowsOK, RowOK, CheckpointOK
<1>3. ASSUME NEW pc, NEW next, Reading(p, pc, next), UNCHANGED rowVars,
             PassOK(next, Len(market), monitor.config, nextId)
      PROVE  Typed'
  <2>1. RowsOK' /\ nextId' = nextId
    BY <1>3, RowsKept DEF Reading
  <2> QED
    BY <1>1, <1>3, <2>1, ReadingTyped
<1>4. CASE StartPass(p)
  <2> DEFINE next == [IdlePass EXCEPT !.pc = "STATES", !.config = monitor.config,
                        !.logic = monitor.logic, !.start = monitor.start,
                        !.expected = Len(market)]
  <2>1. next \in PassRow
    BY <1>1 DEF IdlePass, PassRow, PassStates, Starts
  <2>2. /\ next.config = monitor.config /\ next.expected = Len(market)
        /\ next.state = None /\ next.checkpoint = None /\ next.pc # "RESOLVE"
    BY DEF IdlePass
  <2>3. Reading(p, "IDLE", next) /\ UNCHANGED rowVars
    BY <1>4 DEF StartPass
  <2> HIDE DEF next
  <2>4. PassOK(next, Len(market), monitor.config, nextId)
    BY <1>1, <2>1, <2>2 DEF PassOK
  <2> QED
    BY <1>3, <2>3, <2>4
<1>5. CASE LoadSignalStates(p)
  <2> DEFINE next == [pass[p] EXCEPT !.pc = "CHECKPOINTS", !.state = state]
  <2>1. /\ next \in PassRow /\ next.config = r.config /\ next.expected = r.expected
        /\ next.state = state /\ next.checkpoint = r.checkpoint /\ next.pc = "CHECKPOINTS"
    BY <1>1, <1>2 DEF PassRow, PassStates
  <2>2. Reading(p, "STATES", next) /\ UNCHANGED rowVars
    BY <1>5 DEF LoadSignalStates
  <2> HIDE DEF next
  <2>3. PassOK(next, Len(market), monitor.config, nextId)
    BY <1>1, <1>2, <2>1 DEF PassOK
  <2> QED
    BY <1>3, <2>2, <2>3
<1>6. CASE LoadCheckpoints(p)
  <2> DEFINE next == [pass[p] EXCEPT !.pc = "RECORDED", !.checkpoint = checkpoint]
  <2>1. /\ next \in PassRow /\ next.config = r.config /\ next.expected = r.expected
        /\ next.state = r.state /\ next.checkpoint = checkpoint /\ next.pc = "RECORDED"
    BY <1>1, <1>2 DEF PassRow, PassStates
  <2>2. Reading(p, "CHECKPOINTS", next) /\ UNCHANGED rowVars
    BY <1>6 DEF LoadCheckpoints
  <2> HIDE DEF next
  <2>3. PassOK(next, Len(market), monitor.config, nextId)
    BY <1>1, <1>2, <2>1 DEF PassOK
  <2> QED
    BY <1>3, <2>2, <2>3
<1>7. CASE LoadLastRecordedSessions(p)
  <2> DEFINE recorded == LastRecorded
             next == [pass[p] EXCEPT !.pc = "MEMBER", !.recorded = recorded]
  <2>1. recorded \in Nat
    BY <1>1, RecordedTyped
  <2>2. Reading(p, "RECORDED", next) /\ UNCHANGED rowVars
    BY <1>7 DEF LoadLastRecordedSessions
  <2> HIDE DEF recorded
  <2>3. /\ next \in PassRow /\ next.config = r.config /\ next.expected = r.expected
        /\ next.state = r.state /\ next.checkpoint = r.checkpoint /\ next.pc = "MEMBER"
    BY <1>1, <2>1 DEF PassRow, PassStates
  <2> HIDE DEF next
  <2>4. PassOK(next, Len(market), monitor.config, nextId)
    BY <1>1, <2>3 DEF PassOK
  <2> QED
    BY <1>3, <2>2, <2>4
<1> QED
  BY <1>4, <1>5, <1>6, <1>7 DEF Load

\* A pass that goes on to its next statement has read what it had read.
LEMMA AtTyped ==
  ASSUME Typed, NEW p \in Passes, NEW pc \in PassStates \ {"RESOLVE"},
         nextId' \in Nat, nextId <= nextId'
  PROVE  PassOK(At(pass[p], pc), Len(market), monitor.config, nextId')
<1> DEFINE r == pass[p]
           next == At(r, pc)
<1>1. /\ r \in PassRow /\ PassOK(r, Len(market), monitor.config, nextId)
      /\ Len(market) \in Nat /\ nextId \in Nat /\ monitor.config \in Nat
  BY DEF Typed, PassesOK, MarketOK, OwnerOK, RowsOK
<1>2. PassOK(r, Len(market), monitor.config, nextId')
  <2>1. Len(market) <= Len(market) /\ monitor.config <= monitor.config
    BY <1>1
  <2> QED
    BY <1>1, <2>1, OKLater
<1>3. /\ next \in PassRow /\ next.config = r.config /\ next.expected = r.expected
      /\ next.state = r.state /\ next.checkpoint = r.checkpoint /\ next.pc # "RESOLVE"
  BY <1>1 DEF At, PassRow
<1> HIDE DEF next
<1>4. PassOK(next, Len(market), monitor.config, nextId')
  BY <1>2, <1>3 DEF PassOK
<1> QED
  BY <1>4 DEF next

LEMMA MemberTyped ==
  ASSUME Typed, NEW p \in Passes, EvaluateMember(p) \/ PassOverMember(p) PROVE Typed'
<1> DEFINE r == pass[p]
<1>1. PassOK(r, Len(market), monitor.config, nextId)
  BY DEF Typed, PassesOK
<1>2. Reading(p, "MEMBER", At(r, "RECONCILE"))
  BY DEF EvaluateMember, PassOverMember
<1>3. market' = market /\ monitor' = monitor
  BY <1>2 DEF Reading
<1>4. RowsOK' /\ nextId <= nextId'
  <2>1. CASE EvaluateMember(p)
    <3>1. PICK through \in 1 .. r.expected :
            \E sessions \in SessionsOf(r, through) : ApplyMemberEvaluation(r, sessions)
      BY <2>1 DEF EvaluateMember
    <3>2. PICK sessions \in SessionsOf(r, through) : ApplyMemberEvaluation(r, sessions)
      BY <3>1
    <3>3. CurrentMember(r)
      BY <2>1 DEF EvaluateMember
    <3> HIDE DEF r
    <3> QED
      BY <1>1, <1>3, <3>2, <3>3, ApplyTyped
  <2>2. CASE PassOverMember(p)
    <3>1. UNCHANGED rowVars
      BY <2>2 DEF PassOverMember
    <3>2. RowsOK' /\ nextId' = nextId
      BY <1>3, <3>1, RowsKept
    <3> QED
      BY <3>2 DEF Typed, RowsOK
  <2> QED
    BY <2>1, <2>2
<1>5. PassOK(At(r, "RECONCILE"), Len(market), monitor.config, nextId')
  <2>1. nextId' \in Nat
    BY <1>4 DEF RowsOK
  <2> QED
    BY <1>4, <2>1, AtTyped DEF PassStates
<1> QED
  BY <1>2, <1>4, <1>5, ReadingTyped

LEMMA ReconcileTyped ==
  ASSUME Typed, NEW p \in Passes, Reconcile(p) \/ GiveUp(p) PROVE Typed'
<1> DEFINE r == pass[p]
           m == Len(market)
<1>1. /\ r \in PassRow /\ PassOK(r, m, monitor.config, nextId)
      /\ m \in Nat /\ nextId \in Nat /\ monitor.config \in Nat
  BY DEF Typed, PassesOK, MarketOK, OwnerOK, RowsOK
<1>2. /\ state # None => RowOK(state, m, nextId) /\ state \in StateRow
      /\ open \subseteq 1 .. nextId /\ log \in Seq(ChangeRow) /\ Within(log, 0, m)
      /\ checkpoint # None => CheckpointOK(checkpoint, m, monitor.config)
  BY DEF Typed, RowsOK, RowOK
<1>3. CASE ReadUnvisitedStates(p)
  <2> DEFINE unvisited == state # None /\ (~CurrentMember(r) \/ r.logic = NoLogic)
             read == IF unvisited THEN state ELSE None
             pc == IF unvisited THEN "RESOLVE" ELSE "PRUNE"
             next == [r EXCEPT !.state = read, !.pc = pc]
  <2>1. /\ read # None => RowOK(read, m, nextId)
        /\ pc = "RESOLVE" => read # None
        /\ pc \in PassStates /\ read \in StateRow \cup {None}
    BY <1>2 DEF PassStates
  <2>2. Reading(p, "RECONCILE", next) /\ UNCHANGED rowVars
    BY <1>3 DEF ReadUnvisitedStates
  <2> HIDE DEF read, pc
  <2>3. /\ next \in PassRow /\ next.config = r.config /\ next.expected = r.expected
        /\ next.state = read /\ next.checkpoint = r.checkpoint /\ next.pc = pc
    BY <1>1, <2>1 DEF PassRow
  <2> HIDE DEF next
  <2>4. PassOK(next, m, monitor.config, nextId)
    BY <1>1, <2>1, <2>3 DEF PassOK
  <2>5. RowsOK' /\ nextId' = nextId
    BY <2>2, RowsKept DEF Reading
  <2> QED
    BY <1>1, <2>2, <2>4, <2>5, ReadingTyped
<1>4. CASE ResolveUnvisitedStates(p)
  <2> DEFINE orphan == r.state
  <2>1. Reading(p, "RESOLVE", At(r, "PRUNE"))
    BY <1>4 DEF ResolveUnvisitedStates
  <2>2. r.pc = "RESOLVE" /\ market' = market /\ monitor' = monitor
    BY <2>1 DEF Reading
  <2>3. RowOK(orphan, m, nextId)
    BY <1>1, <2>2 DEF PassOK
  <2>4. /\ Ending(orphan) \in Seq(ChangeRow) /\ Within(Ending(orphan), 0, m)
    <3> HIDE DEF orphan, m
    <3> QED
      BY <1>1, <2>3, EndingFollows
  <2>5. log \o Ending(orphan) \in Seq(ChangeRow) /\ Within(log \o Ending(orphan), 0, m)
    BY <1>2, <2>4, WithinBoth
  <2>6. RowsOK' /\ nextId' = nextId
    <3>1. CASE BindingCurrent(r)
      <4> DEFINE l == log \o Ending(orphan)
      <4>1. /\ open' \subseteq open /\ log' = l
            /\ state' \in {None, state} /\ checkpoint' = checkpoint /\ nextId' = nextId
        BY <1>4, <3>1 DEF ResolveUnvisitedStates
      <4> HIDE DEF l, m
      <4>2. l \in Seq(ChangeRow) /\ Within(l, 0, m)
        BY <2>5 DEF l
      <4>3. /\ state' # None => RowOK(state', m, nextId')
            /\ checkpoint' # None => CheckpointOK(checkpoint', m, monitor.config)
            /\ open' \subseteq 1 .. nextId' /\ nextId' \in Nat
        BY <1>1, <1>2, <4>1
      <4>4. log' \in Seq(ChangeRow) /\ Within(log', 0, m)
        BY <4>1, <4>2
      <4> QED
        BY <2>2, <4>1, <4>3, <4>4 DEF RowsOK, m
    <3>2. CASE ~BindingCurrent(r)
      <4>1. UNCHANGED rowVars
        BY <1>4, <3>2 DEF ResolveUnvisitedStates
      <4> QED
        BY <2>2, <4>1, RowsKept
    <3> QED
      BY <3>1, <3>2
  <2>7. PassOK(At(r, "PRUNE"), m, monitor.config, nextId')
    BY <1>1, <2>6, AtTyped DEF PassStates
  <2> QED
    BY <1>1, <2>1, <2>6, <2>7, ReadingTyped
<1>5. CASE PruneCheckpoints(p)
  <2>1. /\ Reading(p, "PRUNE", IdlePass) /\ checkpoint' \in {None, checkpoint}
        /\ UNCHANGED <<state, open, log, nextId>>
    BY <1>5 DEF PruneCheckpoints
  <2>2. market' = market /\ monitor' = monitor
    BY <2>1 DEF Reading
  <2>3. RowsOK'
    BY <1>1, <1>2, <2>1, <2>2 DEF RowsOK
  <2> QED
    BY <1>1, <2>1, <2>3, IdleTyped, ReadingTyped
<1>6. CASE GiveUp(p)
  <2>1. Reading(p, r.pc, IdlePass) /\ UNCHANGED rowVars
    BY <1>6 DEF GiveUp
  <2>2. RowsOK' /\ nextId' = nextId
    BY <2>1, RowsKept DEF Reading
  <2> QED
    BY <1>1, <2>1, <2>2, IdleTyped, ReadingTyped
<1> QED
  BY <1>3, <1>4, <1>5, <1>6 DEF Reconcile

LEMMA MarketTyped == ASSUME Typed, FinalizeSession PROVE Typed'
<1> DEFINE m == Len(market)
           n == Len(market')
<1>1. /\ market \in Seq(Days) /\ m < MaxSession /\ m \in Nat /\ monitor.config \in Nat
      /\ nextId \in Nat /\ MaxSession \in Nat
  BY EvaluationAssumption DEF Typed, MarketOK, OwnerOK, RowsOK, FinalizeSession
<1>2. PICK day \in Days : market' = Append(market, day)
  BY DEF FinalizeSession
<1>3. market' \in Seq(Days) /\ n = m + 1
  BY <1>1, <1>2
<1>4. MarketOK'
  BY <1>1, <1>3 DEF MarketOK
<1>5. UNCHANGED <<monitor, rowVars, pass, edits>>
  BY DEF FinalizeSession
<1>6. /\ state' = state /\ checkpoint' = checkpoint /\ open' = open /\ log' = log
      /\ nextId' = nextId /\ monitor' = monitor /\ pass' = pass /\ edits' = edits
  BY <1>5 DEF rowVars
<1> HIDE DEF m, n
<1>7. /\ n \in Nat /\ m <= n /\ monitor.config <= monitor.config /\ nextId <= nextId
  BY <1>1, <1>3
<1>8. /\ \A row : RowOK(row, m, nextId) => RowOK(row, n, nextId)
      /\ \A c : CheckpointOK(c, m, monitor.config) => CheckpointOK(c, n, monitor.config)
      /\ \A r : PassOK(r, m, monitor.config, nextId) => PassOK(r, n, monitor.config, nextId)
  BY <1>1, <1>7, OKLater
<1>9. Within(log, 0, n)
  <2>1. Within(log, 0, m)
    BY DEF Typed, RowsOK, m
  <2> QED
    BY <1>1, <1>7, <2>1 DEF Within
<1>10. RowsOK'
  BY <1>6, <1>8, <1>9 DEF Typed, RowsOK, m, n
<1>11. PassesOK'
  BY <1>6, <1>8 DEF Typed, PassesOK, m, n
<1>12. OwnerOK'
  BY <1>6 DEF Typed, OwnerOK
<1> QED
  BY <1>4, <1>10, <1>11, <1>12 DEF Typed

LEMMA OwnerTyped == ASSUME Typed, Owner PROVE Typed'
<1> DEFINE m == Len(market)
<1>1. /\ market \in Seq(Days) /\ m \in Nat /\ nextId \in Nat /\ edits \in 0 .. MaxEdits
      /\ monitor \in [config : Nat, logic : Logics \cup {NoLogic}, start : Starts]
      /\ monitor.config <= edits /\ MaxEdits \in Nat /\ Contents \subseteq Logics \cup {NoLogic}
  BY EvaluationAssumption DEF Typed, MarketOK, OwnerOK, RowsOK
<1>2. ASSUME NEW next, Edit(next), RowsOK', nextId' = nextId,
             next \in [config : Nat, logic : Logics \cup {NoLogic}, start : Starts],
             next.config \in {monitor.config, monitor.config + 1}
      PROVE  Typed'
  <2>1. /\ edits < MaxEdits /\ edits' = edits + 1 /\ monitor' = next
        /\ market' = market /\ pass' = pass
    BY <1>2 DEF Edit
  <2>2. next.config \in Nat /\ monitor.config \in Nat /\ monitor.config <= next.config
    BY <1>1, <1>2
  <2>3. m <= m /\ nextId <= nextId
    BY <1>1
  <2>4. \A r : PassOK(r, m, monitor.config, nextId) => PassOK(r, m, next.config, nextId)
    <3> HIDE DEF m
    <3> QED
      BY <1>1, <2>2, <2>3, OKLater
  <2>5. PassesOK'
    BY <1>2, <2>1, <2>4 DEF Typed, PassesOK
  <2>6. OwnerOK'
    BY <1>1, <1>2, <2>1 DEF OwnerOK
  <2>7. MarketOK'
    BY <2>1 DEF Typed, MarketOK
  <2> QED
    BY <1>2, <2>5, <2>6, <2>7 DEF Typed
<1>3. ASSUME NEW next, Edit(next), UNCHANGED rowVars, next.config = monitor.config
      PROVE  RowsOK' /\ nextId' = nextId
  <2>1. market' = market /\ monitor'.config = monitor.config
    BY <1>3 DEF Edit
  <2>2. /\ state' = state /\ checkpoint' = checkpoint /\ open' = open /\ log' = log
        /\ nextId' = nextId
    BY <1>3 DEF rowVars
  <2> QED
    BY <2>1, <2>2 DEF Typed, RowsOK
<1>4. CASE EditStrategy
  <2>1. PICK g \in Contents \ {monitor.logic} :
          Edit([monitor EXCEPT !.logic = g]) /\ UNCHANGED rowVars
    BY <1>4 DEF EditStrategy
  <2> DEFINE next == [monitor EXCEPT !.logic = g]
  <2>2. /\ next \in [config : Nat, logic : Logics \cup {NoLogic}, start : Starts]
        /\ next.config = monitor.config
    BY <1>1
  <2>3. Edit(next) /\ UNCHANGED rowVars
    BY <2>1
  <2> HIDE DEF next
  <2> QED
    BY <1>2, <1>3, <2>2, <2>3
<1>5. CASE EditList
  <2>1. PICK s \in Starts \ {monitor.start} :
          Edit([monitor EXCEPT !.start = s]) /\ UNCHANGED rowVars
    BY <1>5 DEF EditList
  <2> DEFINE next == [monitor EXCEPT !.start = s]
  <2>2. /\ next \in [config : Nat, logic : Logics \cup {NoLogic}, start : Starts]
        /\ next.config = monitor.config
    BY <1>1
  <2>3. Edit(next) /\ UNCHANGED rowVars
    BY <2>1
  <2> HIDE DEF next
  <2> QED
    BY <1>2, <1>3, <2>2, <2>3
<1>6. CASE RebindMonitor
  <2>1. PICK g \in Contents, s \in Starts :
          /\ Edit([config |-> monitor.config + 1, logic |-> g, start |-> s])
          /\ log' = log \o Ending(state)
          /\ open' = {} /\ state' = None /\ checkpoint' = None
          /\ UNCHANGED nextId
    BY <1>6 DEF RebindMonitor
  <2> DEFINE next == [config |-> monitor.config + 1, logic |-> g, start |-> s]
  <2>2. /\ next \in [config : Nat, logic : Logics \cup {NoLogic}, start : Starts]
        /\ next.config = monitor.config + 1
    BY <1>1
  <2>3. Edit(next)
    BY <2>1
  <2> HIDE DEF next
  <2>4. market' = market
    BY <2>3 DEF Edit
  <2>5. Ending(state) \in Seq(ChangeRow) /\ Within(Ending(state), 0, m)
    <3>1. state = None \/ RowOK(state, m, nextId)
      BY DEF Typed, RowsOK
    <3> HIDE DEF m
    <3> QED
      BY <1>1, <3>1, EndingFollows
  <2>6. log' \in Seq(ChangeRow) /\ Within(log', 0, m)
    <3>1. log \in Seq(ChangeRow) /\ Within(log, 0, m)
      BY DEF Typed, RowsOK
    <3> QED
      BY <2>1, <2>5, <3>1, WithinBoth
  <2>7. RowsOK'
    BY <1>1, <2>1, <2>4, <2>6 DEF RowsOK
  <2> QED
    BY <1>2, <2>1, <2>2, <2>3, <2>7
<1> QED
  BY <1>4, <1>5, <1>6 DEF Owner

LEMMA TypedInitially == Init => Typed
<1> SUFFICES ASSUME Init PROVE Typed
  OBVIOUS
<1> USE EvaluationAssumption
<1>1. /\ market = << >> /\ log = << >> /\ open = {} /\ nextId = 0
      /\ state = None /\ checkpoint = None /\ edits = 0
      /\ monitor \in [config : {0}, logic : Logics, start : {NotMember, 0}]
      /\ pass = [p \in Passes |-> IdlePass]
  BY DEF Init
<1>2. MarketOK
  BY <1>1 DEF MarketOK
<1>3. OwnerOK
  BY <1>1 DEF OwnerOK, Starts
<1>4. RowsOK
  BY <1>1 DEF RowsOK, Within
<1>5. PassesOK
  <2>1. IdlePass \in PassRow
    BY DEF IdlePass, PassRow, PassStates, Starts
  <2>2. Len(market) = 0 /\ monitor.config = 0
    BY <1>1
  <2>3. PassOK(IdlePass, 0, 0, nextId)
    BY <2>1 DEF PassOK, IdlePass
  <2> QED
    BY <1>1, <2>1, <2>2, <2>3 DEF PassesOK
<1> QED
  BY <1>2, <1>3, <1>4, <1>5 DEF Typed

LEMMA TypedStep == Typed /\ [Next]_vars => Typed'
<1> SUFFICES ASSUME Typed, [Next]_vars PROVE Typed'
  OBVIOUS
<1>1. ASSUME NEW p \in Passes, Pass(p) PROVE Typed'
  BY <1>1, LoadTyped, MemberTyped, ReconcileTyped DEF Pass
<1>2. CASE UNCHANGED vars
  <2>1. /\ market' = market /\ monitor' = monitor /\ pass' = pass /\ edits' = edits
        /\ UNCHANGED rowVars
    BY <1>2 DEF vars
  <2>2. RowsOK' /\ nextId' = nextId
    BY <2>1, RowsKept
  <2> QED
    BY <2>1, <2>2 DEF Typed, MarketOK, OwnerOK, PassesOK
<1> QED
  BY <1>1, <1>2, MarketTyped, OwnerTyped DEF Next

\* What is stored of a member keeps its shape, and its progress stays within the
\* membership it was made under and the sessions that are final: however passes
\* overlap with each other and with the owner's edits, whatever a transaction
\* decides (applyMemberEvaluation, resolveUnvisitedStates) is a row again.
THEOREM EvaluationTypeCorrect == Spec => []TypeOK
<1>1. Spec => []Typed
  BY TypedInitially, TypedStep, PTL DEF Spec
<1> QED
  BY <1>1, TypedIsTypeOK, PTL

-----------------------------------------------------------------------------
(* One pass at a time: what it writes is made of what it read.              *)

Alone == \A p, q \in Passes : pass[p].pc # "IDLE" /\ pass[q].pc # "IDLE" => p = q

\* While the Monitor stays on the binding a pass loaded, the rows are those the
\* pass read, and what it may prune the progress of has no state left.
ReadsHold(r, config, row, progress) ==
  r.config = config =>
    /\ r.pc \in {"CHECKPOINTS", "RECORDED", "MEMBER", "RESOLVE"} => r.state = row
    /\ r.pc \in {"RECORDED", "MEMBER"} => r.checkpoint = progress
    /\ r.pc = "PRUNE" /\ ~CurrentMember(r) => row = None

\* State is stored with progress, under the present binding.
ProgressKept == state # None => checkpoint # None /\ checkpoint.config = monitor.config

\* The history leads from nothing to the stored state.
HistoryLeads == Follows(log, "INACTIVE", StandsAt(state))

Sole ==
  /\ Alone /\ \A p \in Passes : ReadsHold(pass[p], monitor.config, state, checkpoint)
  /\ ProgressKept /\ OpenMeansActive /\ HistoryLeads

\* Unresolved Signals are those of the state, if it has one.
LEMMA OpenOfState ==
  ASSUME Typed, OpenMeansActive
  PROVE  /\ state # None => RowOK(state, Len(market), nextId) /\ Points(state)
         /\ open = IF state = None \/ state.signal = None THEN {} ELSE {state.signal}
         /\ state # None => open \ {state.signal} = {}
         /\ Ending(state) \in Seq(ChangeRow)
         /\ Follows(Ending(state), StandsAt(state), "INACTIVE")
<1> DEFINE m == Len(market)
<1>1. /\ state = None \/ RowOK(state, m, nextId)
      /\ m \in Nat /\ nextId \in Nat
  BY DEF Typed, MarketOK, RowsOK
<1>2. state # None => Points(state)
  BY DEF OpenMeansActive, Points
<1>3. open = IF state = None \/ state.signal = None THEN {} ELSE {state.signal}
  BY DEF OpenMeansActive
<1>4. /\ Ending(state) \in Seq(ChangeRow)
      /\ (state # None => Points(state)) => Follows(Ending(state), StandsAt(state), "INACTIVE")
  <2> HIDE DEF m
  <2> QED
    BY <1>1, EndingFollows
<1> QED
  BY <1>1, <1>2, <1>3, <1>4

AppliedOnce ==
  (/\ state # None /\ state' # None /\ log' # log
   /\ state'.id = state.id /\ state'.logic = state.logic)
  => /\ checkpoint # None /\ checkpoint.through < checkpoint'.through
     /\ \A i \in (Len(log) + 1)..Len(log') :
          log'[i].session \in (checkpoint.through + 1)..checkpoint'.through

\* Changes that are appended lie where they were made.
LEMMA AppendedWithin ==
  ASSUME NEW c \in Seq(ChangeRow), NEW d \in Seq(ChangeRow),
         NEW a \in Int, NEW b \in Int, Within(d, a, b)
  PROVE  \A i \in (Len(c) + 1) .. Len(c \o d) : (c \o d)[i].session \in a .. b
<1> DEFINE all == c \o d
           k == Len(c)
           n == Len(d)
<1>1. /\ Len(all) = k + n /\ k \in Nat /\ n \in Nat
      /\ \A i \in 1 .. n : all[k + i] = d[i]
  OBVIOUS
<1>2. \A i \in 1 .. n : d[i].session \in a .. b
  BY DEF Within
<1> HIDE DEF all, k, n
<1>3. \A i \in (k + 1) .. Len(all) : all[i].session \in a .. b
  <2> TAKE i \in (k + 1) .. Len(all)
  <2>1. i - k \in 1 .. n /\ k + (i - k) = i
    BY <1>1
  <2>2. all[k + (i - k)] = d[i - k]
    BY <1>1, <2>1
  <2> QED
    BY <1>2, <2>1, <2>2
<1> QED
  BY <1>3 DEF all, k

(* A transaction that starts from the rows its pass read, and what becomes   *)
(* of them.                                                                  *)
LEMMA ApplySole ==
  ASSUME Typed, ProgressKept, OpenMeansActive, HistoryLeads,
         NEW r, PassOK(r, Len(market), monitor.config, nextId), CurrentMember(r),
         r.config = monitor.config, r.state = state, r.checkpoint = checkpoint,
         NEW through \in 1 .. r.expected, NEW sessions \in SessionsOf(r, through),
         ApplyMemberEvaluation(r, sessions), rowVars' # rowVars
  PROVE  /\ checkpoint' = [through |-> sessions.to, config |-> r.config, start |-> r.start]
         /\ OpenMeansActive' /\ HistoryLeads' /\ AppliedOnce
<1> DEFINE m == Len(market)
           reset == ResetMembership(r)
           base == Ended(reset)
           previous == IF reset THEN None ELSE r.state
           write == DecideLevelSessions(previous, r.logic, r.start, sessions.from,
                                        sessions.to, sessions.replay)
           untouched == r.logic = NoLogic \/ Unchanged(previous, r.logic, write)
           active == IF previous = None THEN None ELSE previous.signal
           after == Occurrences(write.changes, base.open, active)
<1>1. /\ market \in Seq(Days) /\ m \in Nat /\ nextId \in Nat /\ log \in Seq(ChangeRow)
      /\ r \in PassRow
  BY DEF Typed, MarketOK, RowsOK, PassOK
<1>2. /\ sessions.from \in 1 .. m /\ sessions.to \in sessions.from .. m
      /\ sessions.replay \in BOOLEAN /\ r.start \in 0 .. sessions.to
      /\ ~LogicChanged(r) => sessions.from > DecidedThrough(r)
  BY <1>1, SessionsTyped
<1>3. /\ checkpoint' = [through |-> sessions.to, config |-> r.config, start |-> r.start]
      /\ IF untouched
           THEN /\ state' = base.state /\ open' = base.open /\ log' = base.log
                /\ nextId' = nextId
           ELSE ApplyLevelSessions(base, previous, r.logic, write)
  BY DEF ApplyMemberEvaluation, AdvanceCheckpoint, rowVars
<1>4. /\ state # None => RowOK(state, m, nextId) /\ Points(state)
      /\ open = IF state = None \/ state.signal = None THEN {} ELSE {state.signal}
      /\ state # None => open \ {state.signal} = {}
      /\ Ending(state) \in Seq(ChangeRow)
      /\ Follows(Ending(state), StandsAt(state), "INACTIVE")
  BY OpenOfState
<1>5. /\ base.state = previous /\ base.log \in Seq(ChangeRow)
      /\ base.open = IF active = None THEN {} ELSE {active}
      /\ Follows(base.log, "INACTIVE", StandsAt(previous))
  <2>1. CASE ~reset \/ state = None
    <3>1. base = [state |-> state, open |-> open, log |-> log] /\ previous = state
      BY <2>1 DEF Ended
    <3>2. base.state = state /\ base.open = open /\ base.log = log
      BY <3>1
    <3> QED
      BY <1>1, <1>4, <3>1, <3>2 DEF HistoryLeads
  <2>2. CASE reset /\ state # None
    <3> DEFINE o == open \ {state.signal}
               l == log \o Ending(state)
    <3>1. base = [state |-> None, open |-> o, log |-> l] /\ previous = None /\ active = None
      BY <2>2 DEF Ended
    <3>2. o = {}
      BY <1>4, <2>2
    <3>3. l \in Seq(ChangeRow) /\ Follows(l, "INACTIVE", "INACTIVE")
      BY <1>1, <1>4, FollowsOn DEF HistoryLeads
    <3>4. StandsAt(None) = "INACTIVE"
      BY DEF StandsAt
    <3> HIDE DEF o, l
    <3>5. base.state = None /\ base.open = o /\ base.log = l
      BY <3>1
    <3> HIDE DEF base, previous, active
    <3> QED
      BY <3>1, <3>2, <3>3, <3>4, <3>5
  <2> QED
    BY <2>1, <2>2
<1>6. /\ previous \in {None, state}
      /\ previous # None => /\ previous = state /\ ~reset /\ base.log = log
                            /\ RowOK(previous, m, nextId) /\ Points(previous)
  <2>1. ~reset => base.log = log
    BY DEF Ended
  <2> QED
    BY <1>4, <2>1
<1>7. CASE untouched
  <2>1. state' = previous /\ open' = base.open /\ log' = base.log
    BY <1>3, <1>5, <1>7
  <2>2. active # None => previous # None /\ active = previous.signal
    OBVIOUS
  <2>3. active = IF previous = None THEN None ELSE previous.signal
    OBVIOUS
  <2> HIDE DEF base, previous, active
  <2>4. OpenMeansActive'
    BY <1>5, <1>6, <2>1, <2>3 DEF OpenMeansActive, Points
  <2>5. HistoryLeads'
    BY <1>5, <2>1 DEF HistoryLeads, StandsAt
  <2>6. AppliedOnce
    BY <1>6, <2>1 DEF AppliedOnce
  <2> QED
    BY <1>3, <2>4, <2>5, <2>6
<1>8. CASE ~untouched
  <2>1. ApplyLevelSessions(base, previous, r.logic, write)
    BY <1>3, <1>8
  <2>2. r.logic \in Logics /\ r.start \in Int
    BY <1>1, <1>2, <1>8 DEF PassRow
  <2>3. /\ write.changes \in Seq(ChangeRow) /\ write.outcome \in Evaluability
        /\ write.lifecycle = None \/ Held(write.lifecycle, RulesOf(r.logic), m)
        /\ Follows(write.changes, StandsAt(previous), LeftAt(write.lifecycle))
        /\ previous # None /\ previous.logic = r.logic =>
             Within(write.changes, sessions.from, sessions.to)
    <3> HIDE DEF previous
    <3> QED
      BY <1>1, <1>2, <1>6, <2>2, Decided
  <2>4. active \in {None} \cup 1 .. nextId /\ (active # None <=> StandsAt(previous) = "ACTIVE")
    <3> HIDE DEF previous
    <3> QED
      BY <1>6 DEF RowOK, Points, StandsAt
  <2>5. active = IF previous = None THEN None ELSE previous.signal
    OBVIOUS
  <2> HIDE DEF active, write, base, previous
  <2>6. /\ after.open = IF after.active = None THEN {} ELSE {after.active}
        /\ after.active # None <=> LeftAt(write.lifecycle) = "ACTIVE"
    <3> DEFINE changes == write.changes
               s == StandsAt(previous)
               e == LeftAt(write.lifecycle)
               unresolved == base.open
    <3>1. after = Occurrences(changes, unresolved, active)
      OBVIOUS
    <3>2. /\ unresolved = IF active = None THEN {} ELSE {active}
          /\ changes \in Seq(ChangeRow) /\ Follows(changes, s, e)
          /\ active \in {None} \cup 1 .. nextId
          /\ active # None <=> s = "ACTIVE"
      BY <1>5, <2>3, <2>4
    <3> HIDE DEF changes, unresolved, s, e, after
    <3>3. Pointing(Occurrences(changes, unresolved, active), e)
      BY <1>1, <3>2, OccurrencesFollow
    <3> QED
      BY <3>1, <3>3 DEF e, Pointing
  <2>7. /\ after.id \in Nat /\ after.id >= nextId
        /\ after.active \in {None} \cup 1 .. after.id
    <3>1. base.open \in SUBSET (1 .. nextId)
      BY <1>5, <2>4
    <3> QED
      BY <1>1, <2>3, <2>4, <3>1, OccurrencesTyped
  <2>8. /\ open' = after.open /\ log' = base.log \o write.changes
        /\ \/ write.lifecycle = None /\ state' = None
           \/ /\ write.lifecycle # None /\ previous = None
              /\ state' = Row(after.id + 1, 0, r.logic, write, after.active)
           \/ /\ write.lifecycle # None /\ previous # None
              /\ state' = Row(previous.id, previous.version + 1, r.logic, write, after.active)
    BY <2>1, <2>5 DEF ApplyLevelSessions
  <2> HIDE DEF after
  <2>9. \/ write.lifecycle = None /\ state' = None
        \/ /\ write.lifecycle # None /\ state' # None /\ state'.lifecycle = write.lifecycle
           /\ state'.logic = r.logic
           /\ state'.signal = IF write.lifecycle.state = "ACTIVE" THEN after.active ELSE None
           /\ previous = None => state'.id = after.id + 1
    <3> DEFINE next == after.id + 1
    <3>1. /\ next \in Nat /\ next \in 1 .. next /\ m \in Nat
          /\ after.active \in {None} \cup 1 .. next
      BY <1>1, <2>7
    <3>2. write.lifecycle # None =>
            \A id \in 1 .. next, version \in Nat :
              LET row == Row(id, version, r.logic, write, after.active)
              IN /\ row \in StateRow /\ row.lifecycle = write.lifecycle
                 /\ row.logic = r.logic /\ row.id = id
                 /\ row.signal = IF write.lifecycle.state = "ACTIVE" THEN after.active ELSE None
      <4> DEFINE g == r.logic
                 shown == after.active
      <4>1. /\ g \in Logics /\ shown \in {None} \cup 1 .. next
            /\ write.outcome \in Evaluability
            /\ write.lifecycle = None \/ Held(write.lifecycle, RulesOf(g), m)
        BY <2>2, <2>3, <3>1
      <4> HIDE DEF next, m, g, shown
      <4>2. RowsShow(next, g, write, shown)
        BY <3>1, <4>1, RowsTyped
      <4> QED
        BY <4>2 DEF RowsShow, g, shown
    <3>3. previous # None => previous.id \in 1 .. next /\ previous.version + 1 \in Nat
      BY <1>1, <1>6, <2>7 DEF RowOK, StateRow
    <3> HIDE DEF next
    <3>4. CASE write.lifecycle = None /\ state' = None
      BY <3>4
    <3>5. CASE /\ write.lifecycle # None /\ previous = None
               /\ state' = Row(next, 0, r.logic, write, after.active)
      <4>1. state' \in StateRow /\ state'.id = next /\ state'.lifecycle = write.lifecycle
            /\ state'.logic = r.logic
            /\ state'.signal = IF write.lifecycle.state = "ACTIVE" THEN after.active ELSE None
        BY <3>1, <3>2, <3>5
      <4> QED
        BY <3>5, <4>1, NullIsNoRow DEF next
    <3>6. CASE /\ write.lifecycle # None /\ previous # None
               /\ state' = Row(previous.id, previous.version + 1, r.logic, write, after.active)
      <4> DEFINE id == previous.id
                 version == previous.version + 1
      <4>1. /\ id \in 1 .. next /\ version \in Nat
            /\ state' = Row(id, version, r.logic, write, after.active)
        BY <3>3, <3>6
      <4> HIDE DEF id, version
      <4>2. state' \in StateRow /\ state'.lifecycle = write.lifecycle
            /\ state'.logic = r.logic
            /\ state'.signal = IF write.lifecycle.state = "ACTIVE" THEN after.active ELSE None
        BY <3>2, <3>6, <4>1
      <4> QED
        BY <3>6, <4>2, NullIsNoRow
    <3> QED
      BY <2>8, <3>4, <3>5, <3>6 DEF next
  <2>10. OpenMeansActive'
    BY <2>6, <2>8, <2>9 DEF OpenMeansActive, LeftAt
  <2>11. HistoryLeads'
    <3>1. StandsAt(state)' = LeftAt(write.lifecycle)
      BY <2>9 DEF StandsAt, LeftAt
    <3> QED
      BY <1>5, <2>3, <2>8, <3>1, FollowsOn DEF HistoryLeads
  <2>12. AppliedOnce
    <3> SUFFICES ASSUME state # None, state' # None, state'.id = state.id,
                        state'.logic = state.logic
                 PROVE  /\ checkpoint # None /\ checkpoint.through < checkpoint'.through
                        /\ \A i \in (Len(log) + 1)..Len(log') :
                             log'[i].session \in (checkpoint.through + 1)..checkpoint'.through
      BY DEF AppliedOnce
    <3>1. previous = state /\ ~reset /\ base.log = log /\ r.logic = state.logic
      <4>1. state.id \in 1 .. nextId
        BY <1>4 DEF RowOK
      <4>2. previous # None
        BY <1>1, <2>7, <2>9, <4>1
      <4> QED
        BY <1>6, <2>9, <4>2
    <3>2. checkpoint # None /\ checkpoint.config = r.config
      BY DEF ProgressKept
    <3>3. DecidedThrough(r) = checkpoint.through
      BY <3>1, <3>2 DEF DecidedThrough
    <3>4. checkpoint.through \in 1 .. m
      BY <3>2 DEF Typed, RowsOK, CheckpointOK
    <3>5. ~LogicChanged(r)
      BY <3>1 DEF LogicChanged
    <3> DEFINE past == checkpoint.through
               to == sessions.to
    <3>6. /\ sessions.from > past /\ past \in Nat /\ sessions.from \in Nat
          /\ to \in sessions.from .. m /\ checkpoint'.through = to
      BY <1>2, <1>3, <3>3, <3>4, <3>5
    <3>7. log' = log \o write.changes /\ Within(write.changes, sessions.from, to)
      BY <2>3, <2>8, <3>1
    <3> HIDE DEF past, to, m
    <3>8. \A i \in (Len(log) + 1) .. Len(log') : log'[i].session \in sessions.from .. to
      <4> DEFINE from == sessions.from
                 changes == write.changes
      <4>1. /\ from \in Int /\ to \in Int /\ changes \in Seq(ChangeRow)
            /\ Within(changes, from, to) /\ log' = log \o changes
        BY <1>1, <2>3, <3>6, <3>7 DEF m
      <4> HIDE DEF from, changes
      <4>2. \A i \in (Len(log) + 1) .. Len(log \o changes) :
              (log \o changes)[i].session \in from .. to
        BY <1>1, <4>1, AppendedWithin
      <4> QED
        BY <4>1, <4>2 DEF from
    <3>9. past < to /\ \A x \in sessions.from .. to : x \in (past + 1) .. to
      BY <1>1, <3>6
    <3> QED
      BY <3>2, <3>6, <3>8, <3>9 DEF past
  <2> QED
    BY <1>3, <2>10, <2>11, <2>12
<1> QED
  BY <1>7, <1>8

\* A statement of a pass, while no other pass is under way.
LEMMA ReadingSole ==
  ASSUME Typed, Sole, NEW p \in Passes, NEW pc, NEW next, Reading(p, pc, next),
         pc # "IDLE" \/ \A q \in Passes : pass[q].pc = "IDLE",
         ReadsHold(next, monitor.config, state', checkpoint'),
         ProgressKept', OpenMeansActive', HistoryLeads'
  PROVE  Sole'
<1>1. /\ pass' = [pass EXCEPT ![p] = next] /\ pass[p].pc = pc /\ monitor' = monitor
      /\ pass \in [Passes -> PassRow]
  BY DEF Reading, Typed, PassesOK
<1>2. \A q \in Passes : q # p => pass[q].pc = "IDLE"
  BY <1>1 DEF Sole, Alone
<1>3. /\ pass'[p] = next
      /\ \A q \in Passes : q # p => pass'[q].pc = "IDLE"
  BY <1>1, <1>2
<1>4. Alone'
  BY <1>3 DEF Alone
<1>5. \A q \in Passes : ReadsHold(pass'[q], monitor.config, state', checkpoint')
  BY <1>3 DEF ReadsHold
<1> QED
  BY <1>1, <1>4, <1>5 DEF Sole

\* Where no row changes, and the Monitor stays on its binding.
LEMMA RowsSole ==
  ASSUME Sole, UNCHANGED rowVars, monitor'.config = monitor.config
  PROVE  /\ state' = state /\ checkpoint' = checkpoint
         /\ ProgressKept' /\ OpenMeansActive' /\ HistoryLeads' /\ AppliedOnce
<1>1. state' = state /\ checkpoint' = checkpoint /\ open' = open /\ log' = log
  BY DEF rowVars
<1> QED
  BY <1>1 DEF Sole, ProgressKept, OpenMeansActive, HistoryLeads, StandsAt, AppliedOnce

LEMMA LoadSole ==
  ASSUME Typed, Sole, ~PassesOverlap, NEW p \in Passes, Load(p) PROVE Sole' /\ AppliedOnce
<1> DEFINE r == pass[p]
<1>1. /\ r \in PassRow /\ ReadsHold(r, monitor.config, state, checkpoint)
  BY DEF Typed, PassesOK, Sole
<1>2. UNCHANGED rowVars /\ monitor' = monitor
  BY DEF Load, StartPass, LoadSignalStates, LoadCheckpoints, LoadLastRecordedSessions, Reading
<1>3. /\ state' = state /\ checkpoint' = checkpoint
      /\ ProgressKept' /\ OpenMeansActive' /\ HistoryLeads' /\ AppliedOnce
  BY <1>2, RowsSole
<1>4. ASSUME NEW pc, NEW next, Reading(p, pc, next),
             pc # "IDLE" \/ \A q \in Passes : pass[q].pc = "IDLE",
             ReadsHold(next, monitor.config, state, checkpoint)
      PROVE  Sole'
  BY <1>3, <1>4, ReadingSole
<1>5. CASE StartPass(p)
  <2> DEFINE next == [IdlePass EXCEPT !.pc = "STATES", !.config = monitor.config,
                        !.logic = monitor.logic, !.start = monitor.start,
                        !.expected = Len(market)]
  <2>1. next.pc = "STATES"
    BY DEF IdlePass
  <2>2. Reading(p, "IDLE", next) /\ \A q \in Passes : pass[q].pc = "IDLE"
    BY <1>5 DEF StartPass
  <2> HIDE DEF next
  <2>3. ReadsHold(next, monitor.config, state, checkpoint)
    BY <2>1 DEF ReadsHold
  <2> QED
    BY <1>3, <1>4, <2>2, <2>3
<1>6. CASE LoadSignalStates(p)
  <2> DEFINE next == [r EXCEPT !.pc = "CHECKPOINTS", !.state = state]
  <2>1. next.pc = "CHECKPOINTS" /\ next.state = state
    BY <1>1 DEF PassRow
  <2>2. Reading(p, "STATES", next)
    BY <1>6 DEF LoadSignalStates
  <2> HIDE DEF next
  <2>3. ReadsHold(next, monitor.config, state, checkpoint)
    BY <2>1 DEF ReadsHold
  <2> QED
    BY <1>3, <1>4, <2>2, <2>3
<1>7. CASE LoadCheckpoints(p)
  <2> DEFINE next == [r EXCEPT !.pc = "RECORDED", !.checkpoint = checkpoint]
  <2>1. /\ next.pc = "RECORDED" /\ next.checkpoint = checkpoint
        /\ next.state = r.state /\ next.config = r.config
    BY <1>1 DEF PassRow
  <2>2. Reading(p, "CHECKPOINTS", next)
    BY <1>7 DEF LoadCheckpoints
  <2>3. r.pc = "CHECKPOINTS"
    BY <2>2 DEF Reading
  <2> HIDE DEF next
  <2>4. ReadsHold(next, monitor.config, state, checkpoint)
    BY <1>1, <2>1, <2>3 DEF ReadsHold
  <2> QED
    BY <1>3, <1>4, <2>2, <2>4
<1>8. CASE LoadLastRecordedSessions(p)
  <2> DEFINE recorded == LastRecorded
             next == [r EXCEPT !.pc = "MEMBER", !.recorded = recorded]
  <2>1. Reading(p, "RECORDED", next)
    BY <1>8 DEF LoadLastRecordedSessions
  <2> HIDE DEF recorded
  <2>2. /\ next.pc = "MEMBER" /\ next.checkpoint = r.checkpoint
        /\ next.state = r.state /\ next.config = r.config
    BY <1>1 DEF PassRow
  <2>3. r.pc = "RECORDED"
    BY <2>1 DEF Reading
  <2> HIDE DEF next
  <2>4. ReadsHold(next, monitor.config, state, checkpoint)
    BY <1>1, <2>2, <2>3 DEF ReadsHold
  <2> QED
    BY <1>3, <1>4, <2>1, <2>4
<1> QED
  BY <1>5, <1>6, <1>7, <1>8 DEF Load

LEMMA MemberSole ==
  ASSUME Typed, Sole, NEW p \in Passes, EvaluateMember(p) \/ PassOverMember(p)
  PROVE  Sole' /\ AppliedOnce
<1> DEFINE r == pass[p]
           next == At(r, "RECONCILE")
<1>1. /\ r \in PassRow /\ PassOK(r, Len(market), monitor.config, nextId)
      /\ ReadsHold(r, monitor.config, state, checkpoint)
  BY DEF Typed, PassesOK, Sole
<1>2. Reading(p, "MEMBER", next)
  BY DEF EvaluateMember, PassOverMember
<1>3. r.pc = "MEMBER" /\ market' = market /\ monitor' = monitor
  BY <1>2 DEF Reading
<1>4. next.pc = "RECONCILE"
  BY <1>1 DEF At, PassRow
<1>5. ReadsHold(next, monitor.config, state', checkpoint')
  BY <1>4 DEF ReadsHold
<1>6. ProgressKept' /\ OpenMeansActive' /\ HistoryLeads' /\ AppliedOnce
  <2>1. CASE UNCHANGED rowVars
    BY <1>3, <2>1, RowsSole
  <2>2. CASE ~UNCHANGED rowVars
    <3>1. PICK through \in 1 .. r.expected :
            \E sessions \in SessionsOf(r, through) : ApplyMemberEvaluation(r, sessions)
      BY <2>2 DEF EvaluateMember, PassOverMember
    <3>2. PICK sessions \in SessionsOf(r, through) : ApplyMemberEvaluation(r, sessions)
      BY <3>1
    <3>3. CurrentMember(r)
      BY <2>2 DEF EvaluateMember, PassOverMember
    <3>4. r.config = monitor.config
      BY <2>2, <3>2 DEF ApplyMemberEvaluation, BindingCurrent
    <3>5. r.state = state /\ r.checkpoint = checkpoint
      BY <1>1, <1>3, <3>4 DEF ReadsHold
    <3>6. ProgressKept /\ OpenMeansActive /\ HistoryLeads
      BY DEF Sole
    <3> HIDE DEF r
    <3>7. /\ checkpoint' = [through |-> sessions.to, config |-> r.config, start |-> r.start]
          /\ OpenMeansActive' /\ HistoryLeads' /\ AppliedOnce
      BY <1>1, <2>2, <3>2, <3>3, <3>4, <3>5, <3>6, ApplySole
    <3>8. checkpoint' # None /\ checkpoint'.config = monitor'.config
      <4>1. /\ sessions.to \in 1 .. Len(market) /\ r.start \in Nat /\ r.config \in Nat
        <5>1. Len(market) \in Nat
          BY DEF Typed, MarketOK
        <5>2. /\ sessions.from \in 1 .. Len(market)
              /\ sessions.to \in sessions.from .. Len(market) /\ r.start \in 0 .. sessions.to
          BY <1>1, <3>3, <5>1, SessionsTyped
        <5> QED
          BY <1>1, <5>1, <5>2 DEF PassRow
      <4> DEFINE to == sessions.to
      <4>2. to \in Nat
        BY <4>1 DEF Typed, MarketOK
      <4> HIDE DEF to
      <4>3. checkpoint' \in CheckpointRow /\ checkpoint'.config = r.config
        BY <3>7, <4>1, <4>2 DEF CheckpointRow, to
      <4> QED
        BY <1>3, <3>4, <4>3, NullIsNoRow
    <3> QED
      BY <3>7, <3>8 DEF ProgressKept
  <2> QED
    BY <2>1, <2>2
<1> HIDE DEF next
<1> QED
  BY <1>2, <1>5, <1>6, ReadingSole

LEMMA ReconcileSole ==
  ASSUME Typed, Sole, NEW p \in Passes, Reconcile(p) \/ GiveUp(p)
  PROVE  Sole' /\ AppliedOnce
<1> DEFINE r == pass[p]
<1>1. /\ r \in PassRow /\ PassOK(r, Len(market), monitor.config, nextId)
      /\ ReadsHold(r, monitor.config, state, checkpoint)
  BY DEF Typed, PassesOK, Sole
<1>2. ReadsHold(IdlePass, monitor.config, state', checkpoint')
  BY DEF ReadsHold, IdlePass
<1>3. ASSUME monitor' = monitor, UNCHANGED rowVars
      PROVE  /\ state' = state /\ checkpoint' = checkpoint
             /\ ProgressKept' /\ OpenMeansActive' /\ HistoryLeads' /\ AppliedOnce
  BY <1>3, RowsSole
<1>4. CASE ReadUnvisitedStates(p)
  <2> DEFINE unvisited == state # None /\ (~CurrentMember(r) \/ r.logic = NoLogic)
             read == IF unvisited THEN state ELSE None
             pc == IF unvisited THEN "RESOLVE" ELSE "PRUNE"
             next == [r EXCEPT !.state = read, !.pc = pc]
  <2>1. Reading(p, "RECONCILE", next) /\ UNCHANGED rowVars
    BY <1>4 DEF ReadUnvisitedStates
  <2>2. \/ pc = "RESOLVE" /\ read = state
        \/ pc = "PRUNE" /\ (CurrentMember(r) \/ state = None)
    OBVIOUS
  <2> HIDE DEF read, pc
  <2>3. /\ next.config = r.config /\ next.state = read /\ next.pc = pc
        /\ CurrentMember(next) <=> CurrentMember(r)
    BY <1>1 DEF PassRow, CurrentMember
  <2> HIDE DEF next
  <2>4. ReadsHold(next, monitor.config, state, checkpoint)
    BY <2>2, <2>3 DEF ReadsHold
  <2>5. monitor' = monitor
    BY <2>1 DEF Reading
  <2> QED
    BY <1>3, <2>1, <2>4, <2>5, ReadingSole
<1>5. CASE ResolveUnvisitedStates(p)
  <2> DEFINE orphan == r.state
             next == At(r, "PRUNE")
  <2>1. Reading(p, "RESOLVE", next)
    BY <1>5 DEF ResolveUnvisitedStates
  <2>2. r.pc = "RESOLVE" /\ monitor' = monitor
    BY <2>1 DEF Reading
  <2>3. next.pc = "PRUNE" /\ next.config = r.config
    BY <1>1 DEF At, PassRow
  <2> HIDE DEF next
  <2>4. CASE BindingCurrent(r)
    <3>1. r.config = monitor.config /\ orphan = state /\ state # None
      BY <1>1, <2>2, <2>4 DEF ReadsHold, PassOK, BindingCurrent
    <3>2. /\ open' = open \ {state.signal} /\ log' = log \o Ending(state)
          /\ state' = None /\ checkpoint' = checkpoint
      BY <1>5, <2>4, <3>1 DEF ResolveUnvisitedStates
    <3>3. /\ open \ {state.signal} = {} /\ Ending(state) \in Seq(ChangeRow)
          /\ Follows(Ending(state), StandsAt(state), "INACTIVE")
      BY <3>1, OpenOfState DEF Sole
    <3>4. log \in Seq(ChangeRow) /\ Follows(log, "INACTIVE", StandsAt(state))
      BY DEF Typed, RowsOK, Sole, HistoryLeads
    <3>5. Follows(log', "INACTIVE", StandsAt(state)')
      BY <3>2, <3>3, <3>4, FollowsOn DEF StandsAt
    <3>6. ProgressKept' /\ OpenMeansActive' /\ HistoryLeads' /\ AppliedOnce
      BY <3>2, <3>3, <3>5 DEF ProgressKept, OpenMeansActive, HistoryLeads, AppliedOnce
    <3>7. ReadsHold(next, monitor.config, state', checkpoint')
      BY <2>3, <3>2 DEF ReadsHold
    <3> QED
      BY <2>1, <3>6, <3>7, ReadingSole
  <2>5. CASE ~BindingCurrent(r)
    <3>1. UNCHANGED rowVars
      BY <1>5, <2>5 DEF ResolveUnvisitedStates
    <3>2. ReadsHold(next, monitor.config, state', checkpoint')
      BY <2>3, <2>5 DEF ReadsHold, BindingCurrent
    <3> QED
      BY <1>3, <2>1, <2>2, <3>1, <3>2, ReadingSole
  <2> QED
    BY <2>4, <2>5
<1>6. CASE PruneCheckpoints(p)
  <2>1. /\ Reading(p, "PRUNE", IdlePass) /\ UNCHANGED <<state, open, log, nextId>>
        /\ checkpoint' = IF BindingCurrent(r) /\ ~CurrentMember(r) THEN None ELSE checkpoint
    BY <1>6 DEF PruneCheckpoints
  <2>2. r.pc = "PRUNE" /\ monitor' = monitor
    BY <2>1 DEF Reading
  <2>3. BindingCurrent(r) /\ ~CurrentMember(r) => state = None
    BY <1>1, <2>2 DEF ReadsHold, BindingCurrent
  <2>4. ProgressKept' /\ OpenMeansActive' /\ HistoryLeads' /\ AppliedOnce
    BY <2>1, <2>2, <2>3
       DEF Sole, ProgressKept, OpenMeansActive, HistoryLeads, StandsAt, AppliedOnce
  <2> QED
    BY <1>2, <2>1, <2>4, ReadingSole
<1>7. CASE GiveUp(p)
  <2>1. Reading(p, r.pc, IdlePass) /\ UNCHANGED rowVars /\ r.pc # "IDLE"
    BY <1>7 DEF GiveUp
  <2>2. monitor' = monitor
    BY <2>1 DEF Reading
  <2> QED
    BY <1>2, <1>3, <2>1, <2>2, ReadingSole
<1> QED
  BY <1>4, <1>5, <1>6, <1>7 DEF Reconcile

\* The market and the owner's edits: what a pass read stays true of the binding
\* it loaded, and a rebinding ends that.
LEMMA OwnerSole ==
  ASSUME Typed, Sole, FinalizeSession \/ Owner PROVE Sole' /\ AppliedOnce
<1>1. pass' = pass
  BY DEF FinalizeSession, Owner, EditStrategy, EditList, RebindMonitor, Edit
<1>2. Alone'
  BY <1>1 DEF Sole, Alone
<1>3. CASE FinalizeSession \/ EditStrategy \/ EditList
  <2>1. UNCHANGED rowVars
    BY <1>3 DEF FinalizeSession, EditStrategy, EditList
  <2>2. monitor'.config = monitor.config
    <3>1. monitor \in [config : Nat, logic : Logics \cup {NoLogic}, start : Starts]
      BY DEF Typed, OwnerOK
    <3> QED
      BY <1>3, <3>1 DEF FinalizeSession, EditStrategy, EditList, Edit
  <2>3. /\ state' = state /\ checkpoint' = checkpoint
        /\ ProgressKept' /\ OpenMeansActive' /\ HistoryLeads' /\ AppliedOnce
    BY <2>1, <2>2, RowsSole
  <2>4. \A p \in Passes : ReadsHold(pass[p], monitor.config, state, checkpoint)'
    BY <1>1, <2>2, <2>3 DEF Sole
  <2> QED
    BY <1>2, <2>3, <2>4 DEF Sole
<1>4. CASE RebindMonitor
  <2>1. /\ monitor'.config = monitor.config + 1
        /\ log' = log \o Ending(state)
        /\ open' = {} /\ state' = None /\ checkpoint' = None
    BY <1>4 DEF RebindMonitor, Edit
  <2>2. /\ Ending(state) \in Seq(ChangeRow)
        /\ Follows(Ending(state), StandsAt(state), "INACTIVE")
    BY OpenOfState DEF Sole
  <2>3. log \in Seq(ChangeRow) /\ Follows(log, "INACTIVE", StandsAt(state))
    BY DEF Typed, RowsOK, Sole, HistoryLeads
  <2>4. Follows(log', "INACTIVE", StandsAt(state)')
    BY <2>1, <2>2, <2>3, FollowsOn DEF StandsAt
  <2>5. ProgressKept' /\ OpenMeansActive' /\ HistoryLeads' /\ AppliedOnce
    BY <2>1, <2>4 DEF ProgressKept, OpenMeansActive, HistoryLeads, AppliedOnce
  <2>6. \A p \in Passes : ReadsHold(pass[p], monitor.config, state, checkpoint)'
    <3>1. \A p \in Passes : pass[p].config \in Nat /\ pass[p].config <= monitor.config
      BY DEF Typed, PassesOK, PassOK, PassRow
    <3>2. monitor.config \in Nat
      BY DEF Typed, OwnerOK
    <3>3. \A p \in Passes : pass[p].config # monitor'.config
      BY <2>1, <3>1, <3>2
    <3> QED
      BY <1>1, <3>3 DEF ReadsHold
  <2> QED
    BY <1>2, <2>5, <2>6 DEF Sole
<1> QED
  BY <1>3, <1>4 DEF Owner

LEMMA SoleInitially == Init => Sole
<1> SUFFICES ASSUME Init PROVE Sole
  OBVIOUS
<1>1. /\ state = None /\ checkpoint = None /\ open = {} /\ log = << >>
      /\ \A p \in Passes : pass[p].pc = "IDLE"
  BY DEF Init, IdlePass
<1>2. HistoryLeads
  BY <1>1 DEF HistoryLeads, StandsAt, Follows
<1> QED
  BY <1>1, <1>2 DEF Sole, Alone, ReadsHold, ProgressKept, OpenMeansActive

LEMMA SoleStep ==
  ASSUME ~PassesOverlap
  PROVE  Typed /\ Sole /\ [Next]_vars => Sole' /\ [AppliedOnce]_vars
<1> SUFFICES ASSUME Typed, Sole, [Next]_vars PROVE Sole' /\ (AppliedOnce \/ UNCHANGED vars)
  OBVIOUS
<1>1. ASSUME NEW p \in Passes, Pass(p) PROVE Sole' /\ AppliedOnce
  BY <1>1, LoadSole, MemberSole, ReconcileSole DEF Pass
<1>2. CASE UNCHANGED vars
  <2>1. monitor' = monitor /\ pass' = pass /\ UNCHANGED rowVars
    BY <1>2 DEF vars
  <2>2. /\ state' = state /\ checkpoint' = checkpoint
        /\ ProgressKept' /\ OpenMeansActive' /\ HistoryLeads'
    BY <2>1, RowsSole
  <2> QED
    BY <1>2, <2>1, <2>2 DEF Sole, Alone
<1> QED
  BY <1>1, <1>2, OwnerSole DEF Next

LEMMA LeadsIsAChain == Typed /\ HistoryLeads => HistoryIsAChain
<1> SUFFICES ASSUME Typed, HistoryLeads PROVE HistoryIsAChain
  OBVIOUS
<1>1. log \in Seq(ChangeRow) /\ Follows(log, "INACTIVE", StandsAt(state))
  BY DEF Typed, RowsOK, HistoryLeads
<1>2. \A i \in 2 .. Len(log) : Rest(log[i].from) = Rest(log[i - 1].to)
  BY <1>1 DEF Follows
<1>3. Rest(IF log = << >> THEN "INACTIVE" ELSE Last(log).to) = Rest(StandsAt(state))
  BY <1>1 DEF Follows, Last
<1> QED
  BY <1>2, <1>3 DEF HistoryIsAChain, StandsAt

LEMMA SoleAlways == ASSUME ~PassesOverlap PROVE Spec => [](Typed /\ Sole)
<1>1. Init => Typed /\ Sole
  BY TypedInitially, SoleInitially
<1>2. Typed /\ Sole /\ [Next]_vars => (Typed /\ Sole)'
  BY TypedStep, SoleStep
<1> QED
  BY <1>1, <1>2, PTL DEF Spec

\* While the schedule holds passes to one at a time, a Signal is unresolved
\* exactly while a state in ACTIVE points at it: the transactions of a pass open
\* and resolve Signals with the states they write (applyLevelSessions,
\* endMemberStates, resolveUnvisitedStates), wherever it is cut short and
\* whatever the owner edits in between.
THEOREM UnresolvedMeansActive == ASSUME ~PassesOverlap PROVE Spec => []OpenMeansActive
<1>1. Typed /\ Sole => OpenMeansActive
  BY DEF Sole
<1> QED
  BY <1>1, SoleAlways, PTL

\* While the schedule holds passes to one at a time, the recorded transitions of
\* a member lead without a gap from nothing to its stored state, over catch-ups,
\* reconstructions, replays, resets and rebindings.
THEOREM HistoryHasNoGap == ASSUME ~PassesOverlap PROVE Spec => []HistoryIsAChain
<1>1. Typed /\ Sole => HistoryIsAChain
  BY LeadsIsAChain DEF Sole
<1> QED
  BY <1>1, SoleAlways, PTL

\* While the schedule holds passes to one at a time, what applyMemberEvaluation
\* records for a state it keeps are changes of sessions after the stored
\* progress, which moves past them: no session is applied twice.
THEOREM SessionsApplyOnce == ASSUME ~PassesOverlap PROVE Spec => NoSessionTwice
<1>1. Typed /\ Sole /\ [Next]_vars => [AppliedOnce]_vars
  BY SoleStep
<1>2. Spec => [][AppliedOnce]_vars
  BY <1>1, SoleAlways, PTL DEF Spec
<1> QED
  BY <1>2, PTL DEF NoSessionTwice, AppliedOnce

\* A member is decided on nothing before the progress that counts for it, whatever
\* the data of this pass ends at.
LEMMA SessionsNotBehind ==
  ASSUME NEW m \in Nat, NEW config, NEW next, NEW r, PassOK(r, m, config, next),
         CurrentMember(r), NEW through \in 1 .. r.expected,
         NEW sessions \in SessionsOf(r, through)
  PROVE  sessions.to >= DecidedThrough(r)
<1> DEFINE d == DecidedThrough(r)
           first == Max({d + 1, r.start})
           begin == ReplayFrom(r)
<1>1. d \in Nat /\ r.start \in Int /\ through \in Nat
  BY DecidedThroughTyped DEF CurrentMember, PassOK, PassRow
<1>2. first \in Int /\ first >= d + 1
  <2> DEFINE a == d + 1
             b == r.start
  <2>1. a \in Int /\ b \in Int
    BY <1>1
  <2> HIDE DEF a, b
  <2>2. Max({a, b}) \in {a, b} /\ Max({a, b}) >= a
    BY <2>1, MaxOfTwo
  <2>3. Max({a, b}) \in Int
    BY <2>1, <2>2
  <2> QED
    BY <2>2, <2>3 DEF a, b
<1>3. Fresh(r) => d = 0
  BY DEF Fresh
<1>4. \/ Fresh(r) /\ sessions.to = through
      \/ first <= through /\ sessions.to = through
      \/ sessions.to = d
  BY DEF SessionsOf
<1> HIDE DEF d, first
<1>5. sessions.to >= d
  BY <1>1, <1>2, <1>3, <1>4
<1> QED
  BY <1>5 DEF d

NotBack ==
  (/\ checkpoint # None /\ checkpoint' # None
   /\ checkpoint'.config = checkpoint.config /\ checkpoint'.start = checkpoint.start)
  => checkpoint'.through >= checkpoint.through

\* Progress moves in a member's transaction, or is forgotten.
LEMMA NotBackStep == ASSUME Typed, Sole, [Next]_vars PROVE NotBack
<1>1. CASE checkpoint' = checkpoint
  <2>1. checkpoint # None => checkpoint.through \in 1 .. Len(market)
    BY DEF Typed, RowsOK, CheckpointOK
  <2> QED
    BY <1>1, <2>1 DEF NotBack
<1>2. CASE checkpoint' = None
  BY <1>2 DEF NotBack
<1>3. ASSUME NEW p \in Passes, EvaluateMember(p), checkpoint' # checkpoint PROVE NotBack
  <2> DEFINE r == pass[p]
  <2>1. /\ PassOK(r, Len(market), monitor.config, nextId) /\ Len(market) \in Nat
        /\ ReadsHold(r, monitor.config, state, checkpoint)
    BY DEF Typed, MarketOK, PassesOK, Sole
  <2>2. r.pc = "MEMBER" /\ CurrentMember(r)
    BY <1>3 DEF EvaluateMember, Reading
  <2>3. PICK through \in 1 .. r.expected :
          \E sessions \in SessionsOf(r, through) : ApplyMemberEvaluation(r, sessions)
    BY <1>3 DEF EvaluateMember
  <2>4. PICK sessions \in SessionsOf(r, through) : ApplyMemberEvaluation(r, sessions)
    BY <2>3
  <2> HIDE DEF r
  <2>5. /\ BindingCurrent(r)
        /\ checkpoint' = [through |-> sessions.to, config |-> r.config, start |-> r.start]
    BY <1>3, <2>4 DEF ApplyMemberEvaluation, AdvanceCheckpoint, rowVars
  <2>6. r.checkpoint = checkpoint
    BY <2>1, <2>2, <2>5 DEF ReadsHold, BindingCurrent
  <2>7. sessions.to >= DecidedThrough(r)
    BY <2>1, <2>2, SessionsNotBehind
  <2>8. /\ checkpoint'.through = sessions.to /\ checkpoint'.config = r.config
        /\ checkpoint'.start = r.start
    BY <2>5
  <2>9. /\ checkpoint # None /\ checkpoint.config = r.config /\ checkpoint.start = r.start
        => DecidedThrough(r) = checkpoint.through
    BY <2>6 DEF DecidedThrough, ResetMembership
  <2> QED
    BY <2>7, <2>8, <2>9 DEF NotBack
<1>4. ASSUME NEW p \in Passes, Pass(p), ~EvaluateMember(p)
      PROVE  checkpoint' = checkpoint \/ checkpoint' = None
  BY <1>4 DEF Pass, Load, StartPass, LoadSignalStates, LoadCheckpoints,
     LoadLastRecordedSessions, PassOverMember, Reconcile, ReadUnvisitedStates,
     ResolveUnvisitedStates, PruneCheckpoints, GiveUp, rowVars
<1>5. ASSUME FinalizeSession \/ Owner PROVE checkpoint' = checkpoint \/ checkpoint' = None
  BY <1>5 DEF FinalizeSession, Owner, EditStrategy, EditList, RebindMonitor, rowVars
<1>6. UNCHANGED vars => checkpoint' = checkpoint
  BY DEF vars, rowVars
<1> QED
  BY <1>1, <1>2, <1>3, <1>4, <1>5, <1>6 DEF Next

\* While the schedule holds passes to one at a time, a member's progress under one
\* binding and one membership never goes back, wherever the data of a pass ends,
\* whatever the owner edits and whatever a pass read before it.
THEOREM ProgressOnlyGrows == ASSUME ~PassesOverlap PROVE Spec => ProgressNeverBack
<1>1. Typed /\ Sole /\ [Next]_vars => [NotBack]_vars
  BY NotBackStep
<1>2. Spec => [][NotBack]_vars
  BY <1>1, SoleAlways, PTL DEF Spec
<1> QED
  BY <1>2, PTL DEF ProgressNeverBack, NotBack

-----------------------------------------------------------------------------
(* The stored state is what the whole history makes of it.                  *)

\* What the sessions up to d make of a level under the membership from start.
Replayed(bars, g, start, d) ==
  ReplayMonitorLevel(StepsOn(bars, g, start, 1, d), Initial(RulesOf(g)))

\* A level as good as the replay of the sessions up to d.
AsReplayed(level, bars, g, start, d) ==
  Alike(level, Replayed(bars, g, start, d), RulesOf(g), Conditionless(g), d)

\* The sessions 1 .. d, and the levels their replay goes through.
LEMMA ReplayedReached ==
  ASSUME NEW bars \in Seq(Days), NEW g \in Logics, NEW start \in Int, NEW d \in 0 .. Len(bars)
  PROVE  /\ SessionsFrom(StepsOn(bars, g, start, 1, d), d, 0, RulesOf(g), Conditionless(g))
         /\ Reached(Replayed(bars, g, start, d), RulesOf(g), Conditionless(g), d)
         /\ Held(Replayed(bars, g, start, d), RulesOf(g), d)
<1> DEFINE K == RulesOf(g)
           C == Conditionless(g)
           steps == StepsOn(bars, g, start, 1, d)
<1>1. SessionsFrom(steps, d, 0, K, C)
  <2>1. d - 1 + 1 = d /\ 1 - 1 = 0 /\ d \in (1 - 1) .. Len(bars) /\ 1 \in Nat \ {0}
    OBVIOUS
  <2>2. SessionsFrom(steps, d - 1 + 1, 1 - 1, K, C)
    BY <2>1, StepsAreSessions
  <2> QED
    BY <2>1, <2>2
<1>2. d \in Nat
  OBVIOUS
<1> HIDE DEF K, C, steps
<1>3. /\ DOMAIN steps = 1 .. d
      /\ \A i \in 1 .. d : steps[i] \in Step(K) /\ steps[i].date \in 1 .. d
  BY <1>1, <1>2 DEF SessionsFrom, Shaped
<1>4. Initial(K) \in Stable(K) /\ Reached(Initial(K), K, C, 0)
  BY StableSteps, InitialReached
<1>5. PICK h : IsReplay(h, d, Initial(K), steps) /\ h[d] = ReplayMonitorLevel(steps, Initial(K))
  BY <1>2, <1>3, <1>4, ReplayOf
<1>6. Reached(h[d], K, C, d)
  <2>1. \A i \in 0 .. d : Reached(h[i], K, C, 0 + i)
    BY <1>1, <1>2, <1>4, <1>5, ReachedReplay
  <2> QED
    BY <1>2, <2>1
<1>7. Held(ReplayMonitorLevel(steps, Initial(K)), K, d)
  BY <1>2, <1>3, HeldInitial, HeldReplay
<1> QED
  BY <1>1, <1>5, <1>6, <1>7 DEF Replayed, K, C, steps

\* A replay of sessions goes on where the replay of those before them ended.
LEMMA ReplayJoins ==
  ASSUME NEW bars \in Seq(Days), NEW g \in Logics, NEW start \in Int,
         NEW from \in 1 .. Len(bars), NEW to \in from .. Len(bars)
  PROVE  Replayed(bars, g, start, to) =
           ReplayMonitorLevel(StepsOn(bars, g, start, from, to), Replayed(bars, g, start, from - 1))
<1> DEFINE K == RulesOf(g)
           C == Conditionless(g)
           steps == StepsOn(bars, g, start, 1, to)
           first == StepsOn(bars, g, start, 1, from - 1)
           rest == StepsOn(bars, g, start, from, to)
           m == from - 1
<1>1. SessionsFrom(steps, to, 0, K, C)
  <2>1. to \in 0 .. Len(bars)
    OBVIOUS
  <2> QED
    BY <2>1, ReplayedReached
<1>2. /\ m \in 0 .. to /\ to \in Nat
      /\ DOMAIN first = 1 .. m
      /\ \A i \in 1 .. m : first[i] = steps[0 + i]
      /\ DOMAIN rest = 1 .. (to - m)
      /\ \A i \in 1 .. (to - m) : rest[i] = steps[m + i]
  BY DEF StepsOn
<1> HIDE DEF K, C, steps, first, rest, m
<1>3. /\ DOMAIN steps = 1 .. to
      /\ \A i \in 1 .. to : steps[i] \in Step(K)
      /\ Initial(K) \in Stable(K)
  BY <1>1, StableSteps DEF SessionsFrom, Shaped
<1>4. /\ Stretch(first, m, steps, to, 0, K)
      /\ Stretch(rest, to - m, steps, to, m, K)
  BY <1>2, <1>3 DEF Stretch
<1>5. ReplayMonitorLevel(steps, Initial(K)) =
        ReplayMonitorLevel(rest, ReplayMonitorLevel(first, Initial(K)))
  BY <1>3, <1>4, ReplayGoesOn
<1> QED
  BY <1>5 DEF Replayed, K, steps, first, rest, m

\* A level settled at a session no rule fired on cannot be told from itself.
LEMMA AlikeSettled ==
  ASSUME NEW K, NEW C, NEW d \in Nat, NEW level, Reached(level, K, C, d), Held(level, K, d),
         NEW a \in 1 .. d, NotFiredOn(level, K, a)
  PROVE  Alike(Settled(level, a), level, K, C, d)
<1> DEFINE settled == Settled(level, a)
           rests == AtRest(level.state) /\ level.since <= a
<1>1. level \in Level(K) /\ DOMAIN level.rules = K /\ a \in 0 .. d
  BY DEF Reached, Level
<1>2. settled = [state |-> IF rests THEN "INACTIVE" ELSE level.state,
                 since |-> IF rests THEN a ELSE level.since,
                 rules |-> [k \in K |-> SettledRule(level.rules[k], a)]]
  BY <1>1, SettledLevel
<1>3. Held(settled, K, d)
  BY <1>1, HeldSettled
<1> HIDE DEF settled
<1>4. ASSUME NEW k \in K
      PROVE  LET rule == SettledRule(level.rules[k], a)
             IN /\ rule.triggerDate <= rule.since /\ rule.since <= d
                /\ k \in C => rule.state # "PENDING_TRIGGER"
                /\ SettledRule(rule, a) = rule /\ rule.triggerDate # a
  <2>1. /\ level.rules[k] \in Rule /\ level.rules[k].triggerDate <= level.rules[k].since
        /\ level.rules[k].since <= d /\ level.rules[k].triggerDate # a
        /\ k \in C => level.rules[k].state # "PENDING_TRIGGER"
    BY <1>1 DEF Reached, Level, NotFiredOn
  <2> QED
    BY <2>1 DEF SettledRule, Rule, AtRest, LifecycleStates
<1>5. \A k \in K : settled.rules[k] = SettledRule(level.rules[k], a)
  BY <1>2
<1>6. Reached(settled, K, C, d)
  <2>1. settled \in Level(K) /\ LevelMatchesRules(settled) /\ settled.since <= d
    BY <1>3 DEF Held, Stable
  <2> QED
    BY <1>4, <1>5, <2>1 DEF Reached
<1>7. SameCurrent(settled, level)
  BY <1>2 DEF SameCurrent, AtRest
<1>8. SameFrom(settled, level, K, a)
  BY <1>4, <1>5 DEF SameFrom, NotFiredOn
<1> QED
  BY <1>1, <1>6, <1>7, <1>8 DEF Alike, settled

LEMMA AlikeUnresolved ==
  ASSUME NEW K, NEW C, NEW d \in Nat, NEW x, NEW y, Alike(x, y, K, C, d), Held(x, K, d)
  PROVE  Alike(Unresolved(x), y, K, C, d)
<1>1. CASE x.state # "RESOLVED"
  BY <1>1 DEF Unresolved
<1>2. CASE x.state = "RESOLVED"
  <2> DEFINE u == Unresolved(x)
  <2>1. x \in Level(K)
    BY DEF Held, Stable
  <2>2. u.rules = x.rules /\ u.since = x.since /\ u.state = "INACTIVE"
    BY <1>2, <2>1 DEF Unresolved, Level
  <2>3. u \in Level(K) /\ LevelMatchesRules(u)
    BY HeldUnresolved DEF Held, Stable
  <2> HIDE DEF u
  <2>4. Reached(u, K, C, d)
    BY <2>2, <2>3 DEF Alike, Reached
  <2>5. SameCurrent(u, y)
    BY <1>2, <2>2 DEF Alike, SameCurrent, AtRest
  <2>6. u.rules = y.rules \/ \E a \in 0 .. d : SameFrom(u, y, K, a)
    BY <2>2 DEF Alike, SameFrom, NotFiredOn
  <2> QED
    BY <2>4, <2>5, <2>6 DEF Alike, u
<1> QED
  BY <1>1, <1>2

\* What is reconstructed is as good as the replay of every session.
LEMMA ReconstructedAsReplayed ==
  ASSUME market \in Seq(Days), NEW g \in Logics, NEW start \in Int, NEW d \in 1 .. Len(market)
  PROVE  AsReplayed(ReconstructedAt(g, start, d), market, g, start, d)
<1> DEFINE K == RulesOf(g)
           C == Conditionless(g)
           steps == StepsOn(market, g, start, 1, d)
           whole == ReplayMonitorLevel(steps, Initial(K))
           history == StepsOn(market, g, start, 1, d - 1)
           live == StepOn(market, g, start, d)
           r == ReconstructMonitorLevel(history, live, TRUE)
<1>1. SessionsFrom(steps, d, 0, K, C) /\ Reached(whole, K, C, d) /\ Held(whole, K, d)
  <2>1. d \in 0 .. Len(market)
    OBVIOUS
  <2> QED
    BY <2>1, ReplayedReached DEF Replayed
<1>2. /\ history = [i \in 1 .. (d - 1) |-> steps[1 + i - 1]]
      /\ history = [i \in 1 .. (d - 1) |-> steps[i]]
      /\ live = steps[d]
  BY DEF StepsOn
<1>3. ReconstructedAt(g, start, d) = Unresolved(r.lifecycle)
  BY DEF ReconstructedAt
<1>4. d \in Nat \ {0} /\ d \in Nat
  OBVIOUS
<1> HIDE DEF K, C, steps, history, live
<1>5. r.lifecycle = IF r.anchor = 0 THEN whole ELSE Settled(whole, r.anchor)
  <2>1. FromWhole(r, steps, d)
    BY <1>2 DEF FromWhole
  <2> HIDE DEF r
  <2>2. SettledAtAnchor(r, ReplayMonitorLevel(steps, Initial(K)))
    BY <1>1, <1>4, <2>1, WholeReconstructed
  <2> HIDE DEF whole
  <2> QED
    BY <2>2 DEF SettledAtAnchor, Settled, whole
<1>6. r.anchor = 0 \/ (r.anchor \in 1 .. d /\ IsRestingMonitorStep(steps[r.anchor]))
  <2>1. \A i \in 1 .. d : steps[i].date = i
    BY <1>1, <1>4 DEF SessionsFrom
  <2> QED
    BY <1>2, <1>4, <2>1, AnchorRests
<1> DEFINE level == r.lifecycle
<1>7. Alike(level, whole, K, C, d) /\ Held(level, K, d)
  <2> DEFINE a == r.anchor
  <2>1. CASE a = 0
    <3>1. level = whole
      BY <1>5, <2>1
    <3>2. SameCurrent(whole, whole)
      BY DEF SameCurrent
    <3> QED
      BY <1>1, <3>1, <3>2 DEF Alike
  <2>2. CASE a # 0
    <3>1. a \in 1 .. d /\ IsRestingMonitorStep(steps[a]) /\ level = Settled(whole, a)
      BY <1>5, <1>6, <2>2
    <3> HIDE DEF a, level
    <3>2. NotFiredOn(whole, K, a)
      BY <1>1, <1>4, <3>1, RestingNeverFired
    <3>3. a \in 0 .. d
      BY <3>1
    <3> HIDE DEF whole
    <3> QED
      BY <1>1, <1>4, <3>1, <3>2, <3>3, AlikeSettled, HeldSettled
  <2> QED
    BY <2>1, <2>2
<1> HIDE DEF level, whole
<1>8. Alike(Unresolved(level), whole, K, C, d)
  BY <1>4, <1>7, AlikeUnresolved
<1> QED
  BY <1>3, <1>8 DEF AsReplayed, Replayed, level, whole, K, C, steps

\* Sessions stepped through a level as good as the replay of those before them.
LEMMA SteppedAsReplayed ==
  ASSUME market \in Seq(Days), NEW g \in Logics, NEW start \in Int,
         NEW from \in 1 .. Len(market), NEW to \in from .. Len(market),
         NEW level, AsReplayed(level, market, g, start, from - 1)
  PROVE  AsReplayed(StepThrough(level, StepsOn(market, g, start, from, to)).lifecycle,
                    market, g, start, to)
<1> DEFINE K == RulesOf(g)
           C == Conditionless(g)
           steps == StepsOn(market, g, start, from, to)
           n == to - from + 1
           b == from - 1
           before == Replayed(market, g, start, b)
<1>1. SessionsFrom(steps, n, b, K, C)
  <2>1. from \in Nat \ {0} /\ to \in (from - 1) .. Len(market)
    OBVIOUS
  <2> QED
    BY <2>1, StepsAreSessions
<1>2. n \in Nat /\ b \in Nat /\ b + n = to
  OBVIOUS
<1>3. Replayed(market, g, start, to) = ReplayMonitorLevel(steps, before)
  BY ReplayJoins
<1>4. Alike(level, before, K, C, b)
  BY DEF AsReplayed
<1> HIDE DEF K, C, steps, n, b, before
<1>5. Alike(ReplayMonitorLevel(steps, level), ReplayMonitorLevel(steps, before), K, C, to)
  <2>1. Alike(ReplayMonitorLevel(steps, level), ReplayMonitorLevel(steps, before), K, C, b + n)
    BY <1>1, <1>2, <1>4, AlikeReplay
  <2> QED
    BY <1>2, <2>1
<1>6. StepThrough(level, steps).lifecycle = ReplayMonitorLevel(steps, level)
  <2>1. /\ DOMAIN steps = 1 .. n /\ \A i \in 1 .. n : steps[i] \in Step(K)
        /\ level \in Stable(K)
    BY <1>1, <1>4 DEF SessionsFrom, Shaped, Alike, Reached, Stable
  <2> QED
    BY <1>2, <2>1, StepThroughReplays
<1> QED
  BY <1>3, <1>5, <1>6 DEF AsReplayed, K, C, steps

\* What is decided is as good as the replay of every session it is decided
\* through, when the state it is caught up from was.
LEMMA DecidedAsReplayed ==
  ASSUME market \in Seq(Days), NEW previous, NEW g \in Logics, NEW start \in Int,
         NEW from \in 1 .. Len(market), NEW to \in from .. Len(market), NEW replay \in BOOLEAN,
         previous # None /\ previous.logic = g =>
           AsReplayed(previous.lifecycle, market, g, start, from - 1)
  PROVE  LET w == DecideLevelSessions(previous, g, start, from, to, replay)
         IN w.lifecycle # None => AsReplayed(w.lifecycle, market, g, start, to)
<1> DEFINE stale == previous # None /\ previous.logic # g
           reset == IF stale THEN Ending(previous) ELSE << >>
           readings == {d \in (from - 1)..to :
                          /\ d >= 1 /\ (replay \/ d = to)
                          /\ Outcome(StepOn(market, g, start, d)) # "NOT_EVALUABLE"}
           newest == Outcome(StepOn(market, g, start, to))
           prefix == IF from = 1 THEN Initial(DOMAIN market[1][g])
                     ELSE ReconstructedAt(g, start, from - 1)
           stepped == StepThrough(prefix, StepsOn(market, g, start, from, to))
           found == ReconstructedAt(g, start, to)
           caughtUp == StepThrough(previous.lifecycle, StepsOn(market, g, start, from, to))
           w == DecideLevelSessions(previous, g, start, from, to, replay)
           K == RulesOf(g)
<1>1. w = IF previous # None /\ ~stale
            THEN LevelWrite(caughtUp.changes, caughtUp.lifecycle, newest)
          ELSE IF readings = {} THEN LevelWrite(reset, None, "NOT_EVALUABLE")
          ELSE IF replay
            THEN LevelWrite(reset \o Established(prefix) \o stepped.changes,
                            stepped.lifecycle, newest)
          ELSE LevelWrite(reset \o Established(found), found, newest)
  BY DEF DecideLevelSessions
<1>2. \A changes, lifecycle, outcome : LevelWrite(changes, lifecycle, outcome).lifecycle = lifecycle
  BY DEF LevelWrite
<1>3. /\ to \in 1 .. Len(market) /\ 0 \in 0 .. Len(market) /\ 1 \in 1 .. Len(market)
      /\ from # 1 => from - 1 \in 1 .. Len(market)
  OBVIOUS
<1>4. AsReplayed(prefix, market, g, start, from - 1)
  <2>1. CASE from = 1
    <3>1. market[1] \in Days
      BY <1>3, ElementOfSeq
    <3>2. prefix = Initial(K)
      BY <2>1, <3>1, RulesOfADay
    <3> DEFINE steps == StepsOn(market, g, start, 1, 0)
    <3>3. /\ SessionsFrom(steps, 0, 0, K, Conditionless(g))
          /\ Reached(Replayed(market, g, start, 0), K, Conditionless(g), 0)
      BY <1>3, ReplayedReached
    <3> HIDE DEF prefix, K, steps
    <3>4. Replayed(market, g, start, 0) = Initial(K)
      <4> DEFINE n == 0
      <4>1. /\ n \in Nat /\ Initial(K) \in Stable(K) /\ DOMAIN steps = 1 .. n
            /\ \A i \in 1 .. n : steps[i] \in Step(K)
        BY <3>3, StableSteps DEF SessionsFrom
      <4> HIDE DEF n
      <4>2. PICK h : /\ IsReplay(h, n, Initial(K), steps)
                     /\ h[n] = ReplayMonitorLevel(steps, Initial(K))
        BY <4>1, ReplayOf
      <4> QED
        BY <4>2 DEF IsReplay, Replayed, K, steps, n
    <3>5. from - 1 = 0 /\ SameCurrent(Initial(K), Initial(K))
      BY <2>1 DEF SameCurrent
    <3> QED
      BY <3>2, <3>3, <3>4, <3>5 DEF AsReplayed, Alike, K
  <2>2. CASE from # 1
    BY <1>3, <2>2, ReconstructedAsReplayed
  <2> QED
    BY <2>1, <2>2
<1>5. AsReplayed(found, market, g, start, to)
  BY <1>3, ReconstructedAsReplayed
<1> HIDE DEF prefix
<1>6. AsReplayed(stepped.lifecycle, market, g, start, to)
  BY <1>4, SteppedAsReplayed
<1>7. previous # None /\ ~stale => AsReplayed(caughtUp.lifecycle, market, g, start, to)
  BY SteppedAsReplayed
<1> HIDE DEF w, readings, newest, stepped, found, caughtUp, K, reset, stale
<1>8. \/ previous # None /\ ~stale /\ w.lifecycle = caughtUp.lifecycle
      \/ w.lifecycle \in {None, stepped.lifecycle, found}
  BY <1>1, <1>2
<1> QED
  BY <1>5, <1>6, <1>7, <1>8 DEF w

\* State under its own logic and membership is decided on from the session after
\* its progress.
LEMMA SessionsGoOn ==
  ASSUME NEW m \in Nat, NEW config, NEW next, NEW r, PassOK(r, m, config, next),
         CurrentMember(r), NEW through \in 1 .. r.expected,
         NEW sessions \in SessionsOf(r, through),
         DecidedThrough(r) # 0, ~LogicChanged(r)
  PROVE  sessions.from = DecidedThrough(r) + 1
<1> DEFINE d == DecidedThrough(r)
           a == d + 1
           b == r.start
           first == Max({a, b})
<1>1. d \in Nat /\ d > 0 /\ b \in Int /\ b <= d
  <2>1. d \in 0 .. m /\ b <= d /\ d # 0
    BY DecidedThroughTyped
  <2>2. b \in 0 .. r.expected
    BY DEF CurrentMember
  <2> HIDE DEF d, b
  <2> QED
    BY <2>1, <2>2
<1>2. first = a
  <2>1. a \in Int /\ b \in Int /\ b < a
    BY <1>1
  <2> HIDE DEF a, b
  <2>2. Max({a, b}) \in {a, b} /\ Max({a, b}) >= a
    BY <2>1, MaxOfTwo
  <2> QED
    BY <2>1, <2>2
<1>3. ~Fresh(r)
  BY DEF Fresh
<1>4. sessions = [from |-> first, to |-> through, replay |-> FALSE]
  BY <1>3 DEF SessionsOf
<1> HIDE DEF first
<1> QED
  BY <1>2, <1>4

\* A level that was removed from the Strategy is not put back into it.
NotPutBack ==
  monitor.logic = NoLogic /\ monitor'.logic # NoLogic => monitor'.config # monitor.config

\* The stored level is as good as the replay of the sessions its progress says,
\* unless the Strategy no longer holds it.
Exact ==
  state # None /\ monitor.logic # NoLogic =>
    AsReplayed(state.lifecycle, market, state.logic, checkpoint.start, checkpoint.through)

\* A pass that loaded the level as removed is one of now.
RemovedNow ==
  \A p \in Passes : /\ pass[p].pc # "IDLE" /\ pass[p].logic = NoLogic
                    /\ pass[p].config = monitor.config
                    => monitor.logic = NoLogic

LEMMA ApplyExact ==
  ASSUME Typed, ProgressKept, Exact, monitor.logic # NoLogic,
         NEW r, PassOK(r, Len(market), monitor.config, nextId), CurrentMember(r),
         r.config = monitor.config, r.state = state, r.checkpoint = checkpoint,
         r.logic # NoLogic,
         NEW through \in 1 .. r.expected, NEW sessions \in SessionsOf(r, through),
         ApplyMemberEvaluation(r, sessions), rowVars' # rowVars, state' # None
  PROVE  AsReplayed(state'.lifecycle, market, state'.logic, checkpoint'.start,
                    checkpoint'.through)
<1> DEFINE m == Len(market)
           reset == ResetMembership(r)
           base == Ended(reset)
           previous == IF reset THEN None ELSE r.state
           write == DecideLevelSessions(previous, r.logic, r.start, sessions.from,
                                        sessions.to, sessions.replay)
           untouched == r.logic = NoLogic \/ Unchanged(previous, r.logic, write)
           g == r.logic
           start == r.start
           from == sessions.from
           to == sessions.to
<1>1. /\ market \in Seq(Days) /\ m \in Nat /\ r \in PassRow
      /\ g \in Logics /\ start \in Int
      /\ from \in 1 .. m /\ to \in from .. m /\ sessions.replay \in BOOLEAN
  <2>1. market \in Seq(Days) /\ m \in Nat /\ r \in PassRow
    BY DEF Typed, MarketOK, PassOK
  <2>2. /\ from \in 1 .. m /\ to \in from .. m /\ sessions.replay \in BOOLEAN
        /\ start \in 0 .. to
    BY <2>1, SessionsTyped
  <2>3. g \in Logics
    BY <2>1 DEF PassRow
  <2> HIDE DEF g, start
  <2> QED
    BY <2>1, <2>2, <2>3
<1>2. /\ checkpoint' = [through |-> to, config |-> r.config, start |-> start]
      /\ IF untouched
           THEN /\ state' = base.state /\ open' = base.open /\ log' = base.log
                /\ nextId' = nextId
           ELSE ApplyLevelSessions(base, previous, r.logic, write)
  BY DEF ApplyMemberEvaluation, AdvanceCheckpoint, rowVars
<1>3. /\ base.state = previous
      /\ previous # None => previous = state /\ ~reset
  <2>1. CASE ~reset \/ state = None
    BY <2>1 DEF Ended
  <2>2. CASE reset /\ state # None
    BY <2>2 DEF Ended
  <2> QED
    BY <2>1, <2>2
<1>4. ASSUME previous # None, previous.logic = g
      PROVE  AsReplayed(previous.lifecycle, market, g, start, from - 1)
  <2>1. previous = state /\ ~reset /\ state # None
    BY <1>3, <1>4
  <2>2. checkpoint # None /\ checkpoint.config = r.config /\ checkpoint.start = start
    BY <2>1 DEF ProgressKept, ResetMembership
  <2>3. DecidedThrough(r) = checkpoint.through
    BY <2>1, <2>2 DEF DecidedThrough
  <2>4. checkpoint.through \in 1 .. m
    BY <2>2 DEF Typed, RowsOK, CheckpointOK
  <2>5. ~LogicChanged(r)
    BY <1>4, <2>1 DEF LogicChanged
  <2> DEFINE past == checkpoint.through
  <2>6. from = past + 1
    BY <1>1, <2>3, <2>4, <2>5, SessionsGoOn
  <2>7. AsReplayed(state.lifecycle, market, state.logic, checkpoint.start, past)
    BY <2>1 DEF Exact
  <2>8. from - 1 = past
    BY <1>1, <2>4, <2>6
  <2> HIDE DEF past, from, previous
  <2> QED
    BY <1>4, <2>1, <2>2, <2>7, <2>8
<1>5. write.lifecycle # None => AsReplayed(write.lifecycle, market, g, start, to)
  <2> HIDE DEF previous, g, start, from, to
  <2> DEFINE replay == sessions.replay
             w == DecideLevelSessions(previous, g, start, from, to, replay)
  <2>1. write = w
    BY DEF g, start, from, to
  <2>2. replay \in BOOLEAN
    BY <1>1
  <2> HIDE DEF write, replay
  <2>3. w.lifecycle # None => AsReplayed(w.lifecycle, market, g, start, to)
    BY <1>1, <1>4, <2>2, DecidedAsReplayed DEF m
  <2> QED
    BY <2>1, <2>3
<1>6. /\ write.lifecycle # None /\ state'.lifecycle = write.lifecycle /\ state'.logic = g
  <2>1. CASE untouched
    <3>1. state' = previous /\ Unchanged(previous, g, write)
      BY <1>2, <1>3, <2>1
    <3> HIDE DEF previous, write
    <3> QED
      BY <3>1 DEF Unchanged
  <2>2. CASE ~untouched
    <3>1. ApplyLevelSessions(base, previous, g, write)
      BY <1>2, <2>2
    <3> HIDE DEF base, previous, g, write
    <3>2. /\ write.lifecycle # None
          /\ \E id, version, active : state' = Row(id, version, g, write, active)
      BY <3>1 DEF ApplyLevelSessions
    <3> QED
      BY <3>2 DEF Row
  <2> QED
    BY <2>1, <2>2
<1>7. checkpoint'.start = start /\ checkpoint'.through = to
  BY <1>2
<1> HIDE DEF write, g, start, to
<1> QED
  BY <1>5, <1>6, <1>7

\* Sessions that are final later change nothing of a replay.
LEMMA AsReplayedLater ==
  ASSUME market \in Seq(Days), NEW day \in Days, NEW bars, bars = Append(market, day),
         NEW g, NEW start, NEW d \in 0 .. Len(market), NEW level,
         AsReplayed(level, market, g, start, d)
  PROVE  AsReplayed(level, bars, g, start, d)
<1>1. StepsOn(bars, g, start, 1, d) = StepsOn(market, g, start, 1, d)
  <2>1. \A i \in 1 .. d : bars[i] = market[i]
    OBVIOUS
  <2>2. \A i \in 1 .. (d - 1 + 1) : 1 + i - 1 \in 1 .. d
    OBVIOUS
  <2> QED
    BY <2>1, <2>2 DEF StepsOn, StepOn
<1> QED
  BY <1>1 DEF AsReplayed, Replayed

\* A statement of a pass: what it knows of the level is what it loaded.
LEMMA PassRemovedNow ==
  ASSUME Typed, RemovedNow, NEW p \in Passes, Pass(p)
  PROVE  RemovedNow' /\ monitor' = monitor /\ market' = market
<1> DEFINE r == pass[p]
           Kept(next) == \/ next.pc = "IDLE" \/ next.logic = monitor.logic
                         \/ r.pc # "IDLE" /\ next.logic = r.logic /\ next.config = r.config
<1>1. r \in PassRow /\ pass \in [Passes -> PassRow]
  BY DEF Typed, PassesOK
<1>2. ASSUME NEW pc, NEW next, Reading(p, pc, next), Kept(next)
      PROVE  RemovedNow' /\ monitor' = monitor /\ market' = market
  <2>1. pass' = [pass EXCEPT ![p] = next] /\ monitor' = monitor /\ market' = market
    BY <1>2 DEF Reading
  <2>2. pass'[p] = next /\ \A q \in Passes : q # p => pass'[q] = pass[q]
    BY <1>1, <2>1
  <2> QED
    BY <1>2, <2>1, <2>2 DEF RemovedNow
<1>3. CASE StartPass(p)
  <2> DEFINE next == [IdlePass EXCEPT !.pc = "STATES", !.config = monitor.config,
                        !.logic = monitor.logic, !.start = monitor.start,
                        !.expected = Len(market)]
  <2>1. Kept(next)
    BY DEF IdlePass
  <2> HIDE DEF next, Kept
  <2> QED
    BY <1>2, <1>3, <2>1 DEF StartPass, next
<1>4. CASE LoadSignalStates(p)
  <2> DEFINE next == [r EXCEPT !.pc = "CHECKPOINTS", !.state = state]
  <2>1. Reading(p, "STATES", next)
    BY <1>4 DEF LoadSignalStates
  <2>2. Kept(next)
    BY <1>1, <2>1 DEF Reading, PassRow
  <2> HIDE DEF next, Kept
  <2> QED
    BY <1>2, <2>1, <2>2
<1>5. CASE LoadCheckpoints(p)
  <2> DEFINE next == [r EXCEPT !.pc = "RECORDED", !.checkpoint = checkpoint]
  <2>1. Reading(p, "CHECKPOINTS", next)
    BY <1>5 DEF LoadCheckpoints
  <2>2. Kept(next)
    BY <1>1, <2>1 DEF Reading, PassRow
  <2> HIDE DEF next, Kept
  <2> QED
    BY <1>2, <2>1, <2>2
<1>6. CASE LoadLastRecordedSessions(p)
  <2> DEFINE recorded == LastRecorded
             next == [r EXCEPT !.pc = "MEMBER", !.recorded = recorded]
  <2>1. Reading(p, "RECORDED", next)
    BY <1>6 DEF LoadLastRecordedSessions
  <2> HIDE DEF recorded
  <2>2. Kept(next)
    BY <1>1, <2>1 DEF Reading, PassRow
  <2> HIDE DEF next, Kept
  <2> QED
    BY <1>2, <2>1, <2>2
<1>7. ASSUME NEW pc, pc # "IDLE", NEW to, Reading(p, pc, At(r, to))
      PROVE  RemovedNow' /\ monitor' = monitor /\ market' = market
  <2> DEFINE next == At(r, to)
  <2>1. Reading(p, pc, next)
    BY <1>7
  <2>2. Kept(next)
    BY <1>1, <1>7, <2>1 DEF Reading, PassRow, At
  <2> HIDE DEF next, Kept
  <2> QED
    BY <1>2, <2>1, <2>2
<1>8. CASE EvaluateMember(p) \/ PassOverMember(p)
  BY <1>7, <1>8 DEF EvaluateMember, PassOverMember
<1>9. CASE ReadUnvisitedStates(p)
  <2> DEFINE unvisited == state # None /\ (~CurrentMember(r) \/ r.logic = NoLogic)
             read == IF unvisited THEN state ELSE None
             pc == IF unvisited THEN "RESOLVE" ELSE "PRUNE"
             next == [r EXCEPT !.state = read, !.pc = pc]
  <2>1. Reading(p, "RECONCILE", next)
    BY <1>9 DEF ReadUnvisitedStates
  <2> HIDE DEF read, pc
  <2>2. Kept(next)
    BY <1>1, <2>1 DEF Reading, PassRow
  <2> HIDE DEF next, Kept
  <2> QED
    BY <1>2, <2>1, <2>2
<1>10. CASE ResolveUnvisitedStates(p)
  BY <1>7, <1>10 DEF ResolveUnvisitedStates
<1>11. CASE PruneCheckpoints(p) \/ GiveUp(p)
  <2>1. Kept(IdlePass)
    BY DEF IdlePass
  <2> HIDE DEF Kept
  <2> QED
    BY <1>2, <1>11, <2>1 DEF PruneCheckpoints, GiveUp
<1> QED
  BY <1>3, <1>4, <1>5, <1>6, <1>8, <1>9, <1>10, <1>11 DEF Pass, Load, Reconcile

\* Progress and state that a step keeps or drops.
LEMMA ExactKept ==
  ASSUME Exact, ProgressKept', market' = market, monitor' = monitor,
         state' \in {None, state}, checkpoint' \in {None, checkpoint}
  PROVE  Exact'
BY DEF Exact, ProgressKept

LEMMA PassExact ==
  ASSUME Typed, Sole, Sole', Exact, RemovedNow, NEW p \in Passes, Pass(p)
  PROVE  Exact'
<1> DEFINE r == pass[p]
<1>1. monitor' = monitor /\ market' = market
  BY PassRemovedNow
<1>2. ASSUME state' \in {None, state}, checkpoint' \in {None, checkpoint} PROVE Exact'
  <2>1. ProgressKept'
    BY DEF Sole
  <2> QED
    BY <1>1, <1>2, <2>1, ExactKept
<1>3. ASSUME UNCHANGED rowVars PROVE Exact'
  BY <1>2, <1>3 DEF rowVars
<1>4. CASE Load(p) \/ PassOverMember(p) \/ GiveUp(p) \/ ReadUnvisitedStates(p)
  BY <1>3, <1>4 DEF Load, StartPass, LoadSignalStates, LoadCheckpoints,
     LoadLastRecordedSessions, PassOverMember, GiveUp, ReadUnvisitedStates
<1>5. CASE ResolveUnvisitedStates(p)
  <2>1. CASE BindingCurrent(r)
    BY <1>2, <1>5, <2>1 DEF ResolveUnvisitedStates
  <2>2. CASE ~BindingCurrent(r)
    BY <1>3, <1>5, <2>2 DEF ResolveUnvisitedStates
  <2> QED
    BY <2>1, <2>2
<1>6. CASE PruneCheckpoints(p)
  BY <1>2, <1>6 DEF PruneCheckpoints
<1>7. CASE EvaluateMember(p)
  <2> SUFFICES ASSUME rowVars' # rowVars, state' # None, monitor.logic # NoLogic
               PROVE  Exact'
    <3>1. state' = None \/ monitor.logic = NoLogic => Exact'
      BY <1>1 DEF Exact
    <3> QED
      BY <1>3, <3>1
  <2>1. r.pc = "MEMBER" /\ CurrentMember(r)
    BY <1>7 DEF EvaluateMember, Reading
  <2>2. PICK through \in 1 .. r.expected :
          \E sessions \in SessionsOf(r, through) : ApplyMemberEvaluation(r, sessions)
    BY <1>7 DEF EvaluateMember
  <2>3. PICK sessions \in SessionsOf(r, through) : ApplyMemberEvaluation(r, sessions)
    BY <2>2
  <2>4. r.config = monitor.config
    BY <2>3 DEF ApplyMemberEvaluation, BindingCurrent
  <2>5. /\ ReadsHold(r, monitor.config, state, checkpoint) /\ ProgressKept
        /\ PassOK(r, Len(market), monitor.config, nextId)
    BY DEF Sole, Typed, PassesOK
  <2>6. r.state = state /\ r.checkpoint = checkpoint
    BY <2>1, <2>4, <2>5 DEF ReadsHold
  <2>7. r.logic # NoLogic
    BY <2>1, <2>4 DEF RemovedNow
  <2> HIDE DEF r
  <2>8. AsReplayed(state'.lifecycle, market, state'.logic, checkpoint'.start,
                   checkpoint'.through)
    BY <2>1, <2>3, <2>4, <2>5, <2>6, <2>7, ApplyExact
  <2> QED
    BY <1>1, <2>8 DEF Exact
<1> QED
  BY <1>4, <1>5, <1>6, <1>7 DEF Pass, Reconcile

\* The market and the owner's edits.
LEMMA OwnerExact ==
  ASSUME Typed, Sole, NotPutBack, Exact, RemovedNow, FinalizeSession \/ Owner
  PROVE  Exact' /\ RemovedNow'
<1>1. CASE FinalizeSession
  <2>1. PICK day \in Days : market' = Append(market, day)
    BY <1>1 DEF FinalizeSession
  <2>2. /\ monitor' = monitor /\ pass' = pass
        /\ state' = state /\ checkpoint' = checkpoint
    BY <1>1 DEF FinalizeSession, rowVars
  <2>3. RemovedNow'
    BY <2>2 DEF RemovedNow
  <2>4. ASSUME state # None, monitor.logic # NoLogic
        PROVE  AsReplayed(state.lifecycle, market', state.logic, checkpoint.start,
                          checkpoint.through)
    <3> DEFINE d == checkpoint.through
    <3>1. market \in Seq(Days)
      BY DEF Typed, MarketOK
    <3>2. d \in 0 .. Len(market)
      <4>1. checkpoint # None
        BY <2>4 DEF Sole, ProgressKept
      <4>2. d \in 1 .. Len(market) /\ Len(market) \in Nat
        BY <3>1, <4>1 DEF Typed, RowsOK, CheckpointOK
      <4> HIDE DEF d
      <4> QED
        BY <4>2
    <3>3. AsReplayed(state.lifecycle, market, state.logic, checkpoint.start, d)
      BY <2>4 DEF Exact
    <3> HIDE DEF d
    <3>4. AsReplayed(state.lifecycle, market', state.logic, checkpoint.start, d)
      BY <2>1, <3>1, <3>2, <3>3, AsReplayedLater
    <3> QED
      BY <3>4 DEF d
  <2> QED
    BY <2>2, <2>3, <2>4 DEF Exact
<1>2. CASE Owner
  <2>1. market' = market /\ pass' = pass
    BY <1>2 DEF Owner, EditStrategy, EditList, RebindMonitor, Edit
  <2>2. CASE monitor'.config = monitor.config
    <3>1. monitor.logic = NoLogic => monitor'.logic = NoLogic
      BY <2>2 DEF NotPutBack
    <3>2. RemovedNow'
      BY <2>1, <2>2, <3>1 DEF RemovedNow
    <3>3. state' = None \/ (state' = state /\ checkpoint' = checkpoint)
      <4>1. CASE EditStrategy \/ EditList
        BY <4>1 DEF EditStrategy, EditList, rowVars
      <4>2. CASE RebindMonitor
        BY <4>2 DEF RebindMonitor
      <4> QED
        BY <1>2, <4>1, <4>2 DEF Owner
    <3>4. Exact'
      BY <2>1, <3>1, <3>3 DEF Exact
    <3> QED
      BY <3>2, <3>4
  <2>3. CASE monitor'.config # monitor.config
    <3>1. monitor \in [config : Nat, logic : Logics \cup {NoLogic}, start : Starts]
      BY DEF Typed, OwnerOK
    <3>2. RebindMonitor
      BY <1>2, <2>3, <3>1 DEF Owner, EditStrategy, EditList, Edit
    <3>3. monitor'.config = monitor.config + 1 /\ state' = None
      BY <3>2 DEF RebindMonitor, Edit
    <3>4. \A p \in Passes : pass[p].config # monitor'.config
      <4>1. \A p \in Passes : pass[p].config \in Nat /\ pass[p].config <= monitor.config
        BY DEF Typed, PassesOK, PassOK, PassRow
      <4>2. monitor.config \in Nat
        BY <3>1
      <4> QED
        BY <3>3, <4>1, <4>2
    <3> QED
      BY <2>1, <3>3, <3>4 DEF RemovedNow, Exact
  <2> QED
    BY <2>2, <2>3
<1> QED
  BY <1>1, <1>2

\* A level as good as the replay stands where the replay does.
LEMMA ExactStands == Typed /\ Sole /\ Exact => StateIsExact
<1> SUFFICES ASSUME Typed, Sole, Exact,
                    state # None, checkpoint # None, monitor.logic # NoLogic
             PROVE  Standing(state.lifecycle) =
                      Standing(ReplayMonitorLevel(
                        StepsOn(market, state.logic, checkpoint.start, 1, checkpoint.through),
                        Initial(DOMAIN state.lifecycle.rules)))
  BY DEF StateIsExact
<1> DEFINE level == state.lifecycle
           whole == Replayed(market, state.logic, checkpoint.start, checkpoint.through)
<1>1. AsReplayed(level, market, state.logic, checkpoint.start, checkpoint.through)
  BY DEF Exact
<1>2. SameCurrent(level, whole) /\ DOMAIN level.rules = RulesOf(state.logic)
  BY <1>1 DEF AsReplayed, Alike, Reached, Level
<1>3. Standing(level) = Standing(whole)
  BY <1>2 DEF SameCurrent, Standing
<1> QED
  BY <1>2, <1>3 DEF Replayed

\* While the schedule holds passes to one at a time, and no level that was removed
\* from the Strategy is put back into it, a member's stored state is what the whole
\* of its finalized history makes of it, replayed from the first session through
\* its checkpoint: however often decideLevelSessions reconstructed it, replayed
\* the window or caught it up, wherever a pass was cut short, and whatever else
\* the owner edits in between.
THEOREM StateStaysExact ==
  ASSUME ~PassesOverlap PROVE Spec /\ [][NotPutBack]_vars => []StateIsExact
<1> DEFINE Inv == Typed /\ Sole /\ Exact /\ RemovedNow
<1>1. Init => Inv
  <2>1. Init => Exact /\ RemovedNow
    <3> SUFFICES ASSUME Init PROVE Exact /\ RemovedNow
      OBVIOUS
    <3>1. state = None /\ \A p \in Passes : pass[p].pc = "IDLE"
      BY DEF Init, IdlePass
    <3> QED
      BY <3>1 DEF Exact, RemovedNow
  <2> QED
    BY <2>1, TypedInitially, SoleInitially
<1>2. Inv /\ [Next]_vars /\ [NotPutBack]_vars => Inv'
  <2> SUFFICES ASSUME Inv, [Next]_vars, [NotPutBack]_vars PROVE Inv'
    OBVIOUS
  <2>1. Typed' /\ Sole'
    BY TypedStep, SoleStep
  <2>2. ASSUME UNCHANGED vars PROVE Exact' /\ RemovedNow'
    BY <2>2 DEF vars, rowVars, Exact, RemovedNow
  <2>3. ASSUME NEW p \in Passes, Pass(p) PROVE Exact' /\ RemovedNow'
    BY <2>1, <2>3, PassExact, PassRemovedNow
  <2>4. ASSUME FinalizeSession \/ Owner, ~UNCHANGED vars PROVE Exact' /\ RemovedNow'
    BY <2>4, OwnerExact
  <2>5. Exact' /\ RemovedNow'
    BY <2>2, <2>3, <2>4 DEF Next
  <2> QED
    BY <2>1, <2>5
<1>3. Inv => StateIsExact
  BY ExactStands
<1> QED
  BY <1>1, <1>2, <1>3, PTL DEF Spec

\* A level that edits never remove, or that the last of them removes, is not put
\* back.
LEMMA RemovedLast ==
  ASSUME NoLogic \notin Contents \/ MaxEdits <= 1 PROVE Spec => [][NotPutBack]_vars
<1> DEFINE Removed == monitor.logic = NoLogic => NoLogic \in Contents /\ edits > 0
<1>1. Init => Removed
  BY EvaluationAssumption DEF Init
<1>2. ASSUME Typed, Removed, [Next]_vars PROVE Removed' /\ (monitor' = monitor \/ NotPutBack)
  <2>1. CASE Owner
    <3>1. /\ edits < MaxEdits /\ edits' = edits + 1 /\ edits \in Nat /\ MaxEdits \in Nat
          /\ monitor'.logic \in Contents \cup {monitor.logic}
      <4>1. /\ monitor \in [config : Nat, logic : Logics \cup {NoLogic}, start : Starts]
            /\ edits \in 0 .. MaxEdits
        BY <1>2 DEF Typed, OwnerOK
      <4> QED
        BY <2>1, <4>1, EvaluationAssumption
           DEF Owner, EditStrategy, EditList, RebindMonitor, Edit
    <3>2. monitor.logic # NoLogic
      BY <1>2, <3>1
    <3> QED
      BY <3>1, <3>2 DEF NotPutBack
  <2>2. CASE ~Owner
    <3>1. monitor' = monitor /\ edits' = edits
      <4>1. CASE FinalizeSession \/ UNCHANGED vars
        BY <4>1 DEF FinalizeSession, vars
      <4>2. CASE \E p \in Passes : Pass(p)
        BY <4>2 DEF Pass, Load, StartPass, LoadSignalStates, LoadCheckpoints,
           LoadLastRecordedSessions, EvaluateMember, PassOverMember, Reconcile,
           ReadUnvisitedStates, ResolveUnvisitedStates, PruneCheckpoints, GiveUp, Reading
      <4> QED
        BY <1>2, <2>2, <4>1, <4>2 DEF Next
    <3> QED
      BY <1>2, <3>1
  <2> QED
    BY <2>1, <2>2
<1>3. Spec => []Typed
  BY TypedInitially, TypedStep, PTL DEF Spec
<1>4. Typed /\ Removed /\ [Next]_vars => Removed'
  BY <1>2
<1>5. Typed /\ Removed /\ [Next]_vars => [NotPutBack]_vars
  <2>1. monitor' = monitor => NotPutBack
    BY DEF NotPutBack
  <2> QED
    BY <1>2, <2>1
<1> QED
  BY <1>1, <1>3, <1>4, <1>5, PTL DEF Spec

\* So it is in the instances the Evaluation run checks: where the owner edits
\* once, removals included, or never removes the level.
THEOREM StateExactWithoutReturn ==
  ASSUME ~PassesOverlap, NoLogic \notin Contents \/ MaxEdits <= 1
  PROVE  Spec => []StateIsExact
<1>1. Spec => [][NotPutBack]_vars
  BY RemovedLast
<1> QED
  BY <1>1, StateStaysExact, PTL

-----------------------------------------------------------------------------
\* The finalized sessions only grow.
LEMMA MarketAlways == Spec => [](market \in Seq(Days))
<1>1. Init => market \in Seq(Days)
  BY DEF Init
<1>2. market \in Seq(Days) /\ [Next]_vars => (market \in Seq(Days))'
  <2> SUFFICES ASSUME market \in Seq(Days), [Next]_vars PROVE market' \in Seq(Days)
    OBVIOUS
  <2>1. CASE FinalizeSession
    BY <2>1 DEF FinalizeSession
  <2>2. CASE Owner
    BY <2>2 DEF Owner, EditStrategy, EditList, RebindMonitor, Edit
  <2>3. CASE \E p \in Passes : Pass(p)
    BY <2>3 DEF Pass, Load, StartPass, LoadSignalStates, LoadCheckpoints,
       LoadLastRecordedSessions, EvaluateMember, PassOverMember, Reconcile,
       ReadUnvisitedStates, ResolveUnvisitedStates, PruneCheckpoints, GiveUp, Reading
  <2>4. CASE UNCHANGED vars
    BY <2>4 DEF vars
  <2> QED
    BY <2>1, <2>2, <2>3, <2>4 DEF Next
<1> QED
  BY <1>1, <1>2, PTL DEF Spec

(* Wherever the history before a new session is cut, and whatever the market *)
(* did, a reconstruction of a level that calls itself exact finds what a     *)
(* replay of the whole of it finds (reconstructMonitorLevel, on which        *)
(* decideLevelSessions founds every state it does not catch up).             *)
THEOREM ReconstructionStaysExact == Spec => ReconstructionIsExact
<1>1. market \in Seq(Days) /\ [Next]_vars =>
        [market' # market => \A bars \in {market'}, g \in Logics :
                               \A cut \in 1 .. Len(bars) : ExactAt(bars, g, cut)]_vars
  <2> SUFFICES ASSUME market \in Seq(Days), [Next]_vars, market' # market,
                      NEW g \in Logics, NEW cut \in 1 .. Len(market')
               PROVE  ExactAt(market', g, cut)
    OBVIOUS
  <2>1. PICK day \in Days : market' = Append(market, day)
    <3>1. CASE FinalizeSession
      BY <3>1 DEF FinalizeSession
    <3>2. CASE Owner
      BY <3>2 DEF Owner, EditStrategy, EditList, RebindMonitor, Edit
    <3>3. CASE \E p \in Passes : Pass(p)
      BY <3>3 DEF Pass, Load, StartPass, LoadSignalStates, LoadCheckpoints,
         LoadLastRecordedSessions, EvaluateMember, PassOverMember, Reconcile,
         ReadUnvisitedStates, ResolveUnvisitedStates, PruneCheckpoints, GiveUp, Reading
    <3>4. CASE UNCHANGED vars
      BY <3>4 DEF vars
    <3> QED
      BY <3>1, <3>2, <3>3, <3>4 DEF Next
  <2> DEFINE bars == market'
             n == Len(bars)
             K == RulesOf(g)
             steps == StepsOn(bars, g, 0, 1, n)
             history == StepsOn(bars, g, 0, cut, n - 1)
  <2>2. bars \in Seq(Days) /\ n \in Nat \ {0} /\ 1 \in 1 .. n
    BY <2>1
  <2> HIDE DEF bars
  <2>3. bars[1] \in Days /\ DOMAIN bars[1][g] = K
    <3>1. bars[1] \in Days
      BY <2>2, ElementOfSeq
    <3> QED
      BY <3>1, RulesOfADay
  <2>4. SessionsFrom(steps, n, 0, K, Conditionless(g))
    <3>1. n - 1 + 1 = n /\ 1 - 1 = 0 /\ n \in (1 - 1) .. Len(bars) /\ 1 \in Nat \ {0}
      BY <2>2
    <3>2. SessionsFrom(steps, n - 1 + 1, 1 - 1, K, Conditionless(g))
      BY <2>2, <3>1, StepsAreSessions
    <3> QED
      BY <3>1, <3>2
  <2>5. history = [i \in 1 .. (n - cut) |-> steps[cut + i - 1]]
    BY <2>2 DEF StepsOn, bars
  <2>6. steps[n] = StepOn(bars, g, 0, n)
    BY <2>2 DEF StepsOn
  <2> HIDE DEF steps, history, n, K
  <2>7. cut \in 1 .. n
    BY DEF n, bars
  <2> QED
    BY <2>2, <2>3, <2>4, <2>5, <2>6, <2>7, ReconstructionExact
       DEF ExactAt, ExactFrom, bars, n, steps, history
<1> QED
  BY <1>1, MarketAlways, PTL DEF Spec, ReconstructionIsExact
=============================================================================
