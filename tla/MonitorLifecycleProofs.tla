------------------------ MODULE MonitorLifecycleProofs ------------------------
(***************************************************************************)
(* What one step of the lifecycle reducer guarantees, for any set of rules  *)
(* and any dates: the facts the evaluation and the reconstruction rest on.  *)
(***************************************************************************)
EXTENDS MonitorLifecycle, SequenceTheorems, WellFoundedInduction, TLAPS

-----------------------------------------------------------------------------
(* One rule.                                                                *)

\* A step of a rule yields stored rules.
LEMMA StepRuleType ==
  ASSUME NEW rule \in Rule, NEW seen \in Observed, NEW date \in Nat,
         NEW eligible \in BOOLEAN
  PROVE  LET r == StepRule(rule, seen, date, eligible)
         IN /\ r.before = rule /\ r.afterClose \in Rule /\ r.afterOpen \in Rule
  BY DEF StepRule, Close, ClosedTo, Open, AtRest, Rule, Observed, LifecycleStates

\* The close phase ends what is current or leaves the rule alone.
LEMMA CloseOnlyEnds ==
  ASSUME NEW rule \in Rule, NEW seen \in Observed, NEW date \in Nat,
         NEW eligible \in BOOLEAN
  PROVE  LET r == StepRule(rule, seen, date, eligible)
         IN \/ r.afterClose = rule
            \/ rule.state = "ACTIVE" /\ r.afterClose.state = "RESOLVED"
            \/ rule.state = "PENDING_TRIGGER" /\ r.afterClose.state = "INACTIVE"
  BY DEF StepRule, Close, ClosedTo, AtRest, Rule, Observed, LifecycleStates

\* The open phase begins something or leaves the rule alone.
LEMMA OpenOnlyBegins ==
  ASSUME NEW rule \in Rule, NEW seen \in Observed, NEW date \in Nat,
         NEW eligible \in BOOLEAN
  PROVE  LET r == StepRule(rule, seen, date, eligible)
         IN \/ r.afterOpen = r.afterClose
            \/ /\ r.afterClose.state # "ACTIVE" /\ r.afterOpen.state = "ACTIVE"
            \/ /\ r.afterClose.state \notin {"ACTIVE", "PENDING_TRIGGER"}
               /\ r.afterOpen.state = "PENDING_TRIGGER"
  BY DEF StepRule, Close, ClosedTo, Open, AtRest, Rule, Observed, LifecycleStates

\* A rule that has seen a session is not moved by seeing it again.
LEMMA StepRuleTwice ==
  ASSUME NEW rule \in Rule, NEW seen \in Observed, NEW date \in Nat,
         NEW eligible \in BOOLEAN
  PROVE  LET once == StepRule(rule, seen, date, eligible).afterOpen
             again == StepRule(once, seen, date, eligible)
         IN again.afterClose = once /\ again.afterOpen = once
<1> DEFINE closed == Close(rule, seen, date, eligible)
           once == Open(closed, seen, date, eligible)
<1>1. CASE date < rule.since
  BY <1>1 DEF StepRule
<1>2. CASE ~(date < rule.since)
  <2>0. ClosedTo(rule, seen, date, eligible) \in LifecycleStates
    BY DEF ClosedTo, AtRest, Rule, LifecycleStates
  <2>1. closed \in Rule /\ closed.since <= date
    <3>1. rule.since \in Nat /\ rule.since <= date
      BY <1>2 DEF Rule
    <3>2. closed \in Rule /\ closed.since \in {rule.since, date}
      BY <2>0 DEF Close, Rule
    <3> HIDE DEF closed
    <3> QED
      BY <3>1, <3>2
  <2>2. /\ ~eligible => AtRest(closed.state)
        /\ seen.conditions = "FALSE" => AtRest(closed.state)
        /\ seen.conditions = NoPart /\ closed.state = "ACTIVE" => closed.since >= date
    BY <1>2 DEF Close, ClosedTo, AtRest, Rule, Observed, LifecycleStates
  <2>6. StepRule(rule, seen, date, eligible).afterOpen = once
    BY <1>2 DEF StepRule
  <2> HIDE DEF closed
  <2>3. once \in Rule /\ once.since <= date
    <3>1. once \in Rule /\ once.since \in {closed.since, date}
      BY <2>1 DEF Open, Rule, LifecycleStates
    <3> HIDE DEF once
    <3> QED
      BY <2>1, <3>1
  <2>4. ClosedTo(once, seen, date, eligible) = once.state
    BY <2>1, <2>2, <2>3 DEF ClosedTo, Open, AtRest, Rule, Observed, NoPart
  <2>5. Open(once, seen, date, eligible) = once
    BY <2>1, <2>3 DEF Open, Rule, Observed, NoPart
  <2> HIDE DEF once
  <2>7. StepRule(once, seen, date, eligible).afterClose = once
    BY <2>3, <2>4 DEF StepRule, Close, Rule
  <2>8. StepRule(once, seen, date, eligible).afterOpen = once
    BY <2>3, <2>4, <2>5 DEF StepRule, Close, Rule
  <2> QED
    BY <2>6, <2>7, <2>8
<1> QED
  BY <1>1, <1>2

\* A resting session leaves a rule at rest, whatever it was.
LEMMA RestingRule ==
  ASSUME NEW rule \in Rule, NEW seen \in Observed, NEW date \in Nat,
         NEW eligible \in BOOLEAN,
         rule.since < date,
         seen.conditions = NoPart => rule.state # "PENDING_TRIGGER",
         \/ ~eligible
         \/ seen.conditions # NoPart /\ seen.conditions = "FALSE"
         \/ seen.conditions = NoPart /\ seen.trigger # "TRUE"
  PROVE  LET after == StepRule(rule, seen, date, eligible).afterOpen
         IN AtRest(after.state) /\ after.since <= date
  BY DEF StepRule, Close, ClosedTo, Open, AtRest, Rule, Observed, LifecycleStates, NoPart

\* ... and nothing fires on it.
LEMMA RestingRuleKeepsTrigger ==
  ASSUME NEW rule \in Rule, NEW seen \in Observed, NEW date \in Nat,
         NEW eligible \in BOOLEAN,
         rule.triggerDate < date,
         \/ ~eligible
         \/ seen.conditions # NoPart /\ seen.conditions = "FALSE"
         \/ seen.conditions = NoPart /\ seen.trigger # "TRUE"
  PROVE  StepRule(rule, seen, date, eligible).afterOpen.triggerDate # date
  BY DEF StepRule, Close, ClosedTo, Open, AtRest, Rule, Observed, LifecycleStates, NoPart

-----------------------------------------------------------------------------
(* One level.                                                               *)

\* The rules of a level move each for itself.
LEMMA NextRules ==
  ASSUME NEW K, NEW level \in Level(K), NEW step \in Step(K)
  PROVE  StepMonitorLevel(level, step).next.rules =
           [k \in K |-> StepRule(level.rules[k], step.rules[k],
                                 step.date, step.eligible).afterOpen]
  BY DEF StepMonitorLevel, LevelStep, LevelResult, Level

\* The step of a level taken apart: the steps of its rules, what it stands at
\* once they closed, where it opens, and whether that is a change.
RuleSteps(level, step) ==
  [k \in DOMAIN level.rules |->
     StepRule(level.rules[k], step.rules[k], step.date, step.eligible)]

OpenedTo(prior, rs) ==
  LevelOf({rs[k].afterOpen.state : k \in DOMAIN rs}, LevelCloses(prior, rs))

LevelClosedTo(prior, rs) ==
  IF prior = "ACTIVE" /\ TakenOver(rs, LevelCloses(prior, rs), OpenedTo(prior, rs))
    THEN "ACTIVE" ELSE LevelCloses(prior, rs)

LevelEnded(prior, rs) ==
  /\ LevelClosedTo(prior, rs) # prior
  /\ \E k \in DOMAIN rs : RuleEnded(rs[k]) /\ rs[k].before.state = prior

TransitionsIn(prior, rs) ==
  TransitionsOf(prior, LevelClosedTo(prior, rs), OpenedTo(prior, rs), LevelEnded(prior, rs),
                LevelOpens(rs, LevelClosedTo(prior, rs), OpenedTo(prior, rs)))

Moves(prior, rs) == TransitionsIn(prior, rs) # << >>

LEMMA StepTakenApart ==
  ASSUME NEW level, NEW step
  PROVE  LET rs == RuleSteps(level, step)
             r == StepMonitorLevel(level, step)
         IN /\ r.transitions = TransitionsIn(level.state, rs)
            /\ r.next = [state |-> IF Moves(level.state, rs) THEN OpenedTo(level.state, rs)
                                   ELSE level.state,
                         since |-> IF Moves(level.state, rs) THEN step.date ELSE level.since,
                         rules |-> [k \in DOMAIN level.rules |-> rs[k].afterOpen]]
  BY DEF StepMonitorLevel, LevelStep, LevelResult, RuleSteps, OpenedTo, LevelClosedTo,
         LevelEnded, TransitionsIn, Moves

\* How a level moves: where its rules take it, and whether its occurrence or
\* setup ends and another begins.
MovedLevel(K, level, step) ==
  LET rs == RuleSteps(level, step)
      prior == level.state
      closed == LevelClosedTo(prior, rs)
      opened == OpenedTo(prior, rs)
      next == StepMonitorLevel(level, step).next
  IN /\ next = [state |-> opened,
                since |-> IF Moves(prior, rs) THEN step.date ELSE level.since,
                rules |-> [k \in K |-> rs[k].afterOpen]]
     /\ \A k \in K : rs[k].afterOpen \in Rule
     /\ closed \in LifecycleStates /\ opened \in LifecycleStates
     /\ opened = "ACTIVE" <=> \E k \in K : rs[k].afterOpen.state = "ACTIVE"
     /\ opened = "PENDING_TRIGGER" <=>
          /\ \E k \in K : rs[k].afterOpen.state = "PENDING_TRIGGER"
          /\ \A k \in K : rs[k].afterOpen.state # "ACTIVE"
     /\ closed = "ACTIVE" => opened = "ACTIVE"
     /\ IF LevelEnded(prior, rs)
          THEN \/ prior = "ACTIVE" /\ closed = "RESOLVED"
               \/ prior = "PENDING_TRIGGER" /\ closed = "INACTIVE"
          ELSE closed = prior
     /\ LevelOpens(rs, closed, opened) <=> opened # closed

LEMMA LevelMoves ==
  ASSUME NEW K, NEW level \in Level(K), NEW step \in Step(K),
         LevelMatchesRules(level)
  PROVE  MovedLevel(K, level, step)
<1> DEFINE rs == [k \in DOMAIN level.rules |->
                    StepRule(level.rules[k], step.rules[k], step.date, step.eligible)]
           prior == level.state
           standing == LevelOf({rs[k].afterClose.state : k \in DOMAIN rs}, "REST")
           ended == LevelCloses(prior, rs)
           opened == LevelOf({rs[k].afterOpen.state : k \in DOMAIN rs}, ended)
           closed == IF prior = "ACTIVE" /\ TakenOver(rs, ended, opened)
                       THEN "ACTIVE" ELSE ended
           closes == /\ closed # prior
                     /\ \E k \in DOMAIN rs : RuleEnded(rs[k]) /\ rs[k].before.state = prior
           replaced == /\ prior = "PENDING_TRIGGER" /\ closed = "INACTIVE"
                       /\ opened = "PENDING_TRIGGER"
           transitions == TransitionsOf(prior, closed, opened, closes,
                                        LevelOpens(rs, closed, opened))
           next == StepMonitorLevel(level, step).next
<1>1. /\ next = [state |-> IF transitions # << >> THEN opened ELSE prior,
                 since |-> IF transitions # << >> THEN step.date ELSE level.since,
                 rules |-> [k \in DOMAIN level.rules |-> rs[k].afterOpen]]
      /\ rs = RuleSteps(level, step) /\ opened = OpenedTo(prior, rs)
      /\ closed = LevelClosedTo(prior, rs) /\ closes = LevelEnded(prior, rs)
      /\ Moves(prior, rs) <=> transitions # << >>
  BY DEF StepMonitorLevel, LevelStep, LevelResult, RuleSteps, OpenedTo, LevelClosedTo,
         LevelEnded, TransitionsIn, Moves
<1>2. DOMAIN rs = DOMAIN level.rules /\ DOMAIN level.rules = K /\ prior \in LifecycleStates
  BY DEF Level
<1>3. \A k \in DOMAIN level.rules :
        /\ rs[k].before = level.rules[k]
        /\ rs[k].afterClose \in Rule /\ rs[k].afterOpen \in Rule
        /\ \/ rs[k].afterClose = rs[k].before
           \/ rs[k].before.state = "ACTIVE" /\ rs[k].afterClose.state = "RESOLVED"
           \/ /\ rs[k].before.state = "PENDING_TRIGGER"
              /\ rs[k].afterClose.state = "INACTIVE"
        /\ \/ rs[k].afterOpen = rs[k].afterClose
           \/ rs[k].afterClose.state # "ACTIVE" /\ rs[k].afterOpen.state = "ACTIVE"
           \/ /\ rs[k].afterClose.state \notin {"ACTIVE", "PENDING_TRIGGER"}
              /\ rs[k].afterOpen.state = "PENDING_TRIGGER"
  <2> TAKE k \in DOMAIN level.rules
  <2>1. /\ level.rules[k] \in Rule /\ step.rules[k] \in Observed
        /\ step.date \in Nat /\ step.eligible \in BOOLEAN
    BY DEF Level, Step
  <2>2. rs[k] = StepRule(level.rules[k], step.rules[k], step.date, step.eligible)
    OBVIOUS
  <2> HIDE DEF rs
  <2>3. /\ rs[k].before = level.rules[k]
        /\ rs[k].afterClose \in Rule /\ rs[k].afterOpen \in Rule
    BY <2>1, <2>2, StepRuleType
  <2>4. \/ rs[k].afterClose = level.rules[k]
        \/ level.rules[k].state = "ACTIVE" /\ rs[k].afterClose.state = "RESOLVED"
        \/ level.rules[k].state = "PENDING_TRIGGER" /\ rs[k].afterClose.state = "INACTIVE"
    BY <2>1, <2>2, CloseOnlyEnds
  <2>5. \/ rs[k].afterOpen = rs[k].afterClose
        \/ rs[k].afterClose.state # "ACTIVE" /\ rs[k].afterOpen.state = "ACTIVE"
        \/ /\ rs[k].afterClose.state \notin {"ACTIVE", "PENDING_TRIGGER"}
           /\ rs[k].afterOpen.state = "PENDING_TRIGGER"
    BY <2>1, <2>2, OpenOnlyBegins
  <2> QED
    BY <2>3, <2>4, <2>5
<1> HIDE DEF rs, next
<1>4. LET before == {level.rules[k].state : k \in DOMAIN level.rules}
      IN /\ prior = "ACTIVE" <=> "ACTIVE" \in before
         /\ prior = "PENDING_TRIGGER" <=>
              "PENDING_TRIGGER" \in before /\ "ACTIVE" \notin before
  BY <1>2 DEF LevelMatchesRules, LevelOf, AtRest, LifecycleStates
<1>5. /\ prior = "ACTIVE" <=> \E k \in DOMAIN level.rules : rs[k].before.state = "ACTIVE"
      /\ prior = "PENDING_TRIGGER" <=>
           /\ \E k \in DOMAIN level.rules : rs[k].before.state = "PENDING_TRIGGER"
           /\ \A k \in DOMAIN level.rules : rs[k].before.state # "ACTIVE"
  BY <1>3, <1>4
<1>6. /\ standing = "ACTIVE" <=> \E k \in DOMAIN level.rules : rs[k].afterClose.state = "ACTIVE"
      /\ standing = "REST" <=>
           \A k \in DOMAIN level.rules : rs[k].afterClose.state \notin {"ACTIVE", "PENDING_TRIGGER"}
  BY <1>2 DEF LevelOf
<1>e. ended = IF prior = "ACTIVE" /\ standing # "ACTIVE" THEN "RESOLVED"
              ELSE IF prior = "PENDING_TRIGGER" /\ standing = "REST" THEN "INACTIVE"
              ELSE prior
  BY DEF LevelCloses
<1> HIDE DEF standing
<1>7. /\ ended \in LifecycleStates
      /\ ended \in {"ACTIVE", "PENDING_TRIGGER"} =>
           \E k \in DOMAIN level.rules : rs[k].afterClose.state = ended
      /\ ended = "PENDING_TRIGGER" => \A k \in DOMAIN level.rules : rs[k].afterClose.state # "ACTIVE"
      /\ ended # prior => \E k \in DOMAIN level.rules : RuleEnded(rs[k]) /\ rs[k].before.state = prior
  BY <1>e, <1>2, <1>3, <1>5, <1>6 DEF RuleEnded, LifecycleStates
<1>8. /\ opened = "ACTIVE" <=> \E k \in DOMAIN level.rules : rs[k].afterOpen.state = "ACTIVE"
      /\ opened = "PENDING_TRIGGER" <=>
           /\ \E k \in DOMAIN level.rules : rs[k].afterOpen.state = "PENDING_TRIGGER"
           /\ \A k \in DOMAIN level.rules : rs[k].afterOpen.state # "ACTIVE"
      /\ opened \in {"ACTIVE", "PENDING_TRIGGER", ended}
  BY <1>2, <1>3, <1>7 DEF LevelOf
<1> HIDE DEF ended, opened
<1>9. transitions = << >> => replaced \/ (~closes /\ ~LevelOpens(rs, closed, opened))
  BY DEF TransitionsOf
<1> HIDE DEF transitions
<1>10. replaced => opened = prior
  OBVIOUS
<1>11. ~closes => closed = prior
  BY <1>2, <1>7 DEF TakenOver
<1>12. ~LevelOpens(rs, closed, opened) => opened = closed
  BY <1>2, <1>3, <1>5, <1>6, <1>7, <1>8, <1>e DEF LevelOpens, TakenOver, RuleBegan
<1>13. next.state = opened
  BY <1>1, <1>9, <1>10, <1>11, <1>12
<1>14. closed = "ACTIVE" => opened = "ACTIVE"
  BY <1>3, <1>5, <1>6, <1>7, <1>8, <1>e DEF TakenOver
<1>15. IF closes THEN \/ prior = "ACTIVE" /\ closed = "RESOLVED"
                      \/ prior = "PENDING_TRIGGER" /\ closed = "INACTIVE"
       ELSE closed = prior
  BY <1>11, <1>e
<1>16. LevelOpens(rs, closed, opened) => opened # closed
  BY DEF LevelOpens
<1>17. closed \in LifecycleStates /\ opened \in LifecycleStates
  BY <1>7, <1>8 DEF LifecycleStates
<1>18. next = [state |-> opened, since |-> IF transitions # << >> THEN step.date ELSE level.since,
               rules |-> [k \in K |-> rs[k].afterOpen]]
  <2>1. opened = IF transitions # << >> THEN opened ELSE prior
    BY <1>9, <1>10, <1>11, <1>12
  <2> QED
    BY <1>1, <1>2, <2>1
<1> HIDE DEF closed, closes
<1> QED
  BY <1>1, <1>2, <1>3, <1>8, <1>12, <1>13, <1>14, <1>15, <1>16, <1>17, <1>18
     DEF MovedLevel, next

(* A level and its rules never part: whichever of the rules ends, waits or   *)
(* takes over on a session, the state stepMonitorLevel stores for the level  *)
(* is the one its rules make of it.                                          *)
THEOREM LevelFollowsRules ==
  ASSUME NEW K, NEW level \in Level(K), NEW step \in Step(K),
         LevelMatchesRules(level)
  PROVE  /\ StepMonitorLevel(level, step).next \in Level(K)
         /\ LevelMatchesRules(StepMonitorLevel(level, step).next)
         /\ StepMonitorLevel(level, step).next.since \in {level.since, step.date}
<1> DEFINE rs == RuleSteps(level, step)
           opened == OpenedTo(level.state, rs)
           next == StepMonitorLevel(level, step).next
           S == {next.rules[k].state : k \in DOMAIN next.rules}
           since == IF Moves(level.state, rs) THEN step.date ELSE level.since
<1>1. /\ next = [state |-> opened, since |-> since, rules |-> [k \in K |-> rs[k].afterOpen]]
      /\ opened \in LifecycleStates
      /\ \A k \in K : rs[k].afterOpen \in Rule
      /\ opened = "ACTIVE" <=> \E k \in K : rs[k].afterOpen.state = "ACTIVE"
      /\ opened = "PENDING_TRIGGER" <=>
           /\ \E k \in K : rs[k].afterOpen.state = "PENDING_TRIGGER"
           /\ \A k \in K : rs[k].afterOpen.state # "ACTIVE"
  <2>1. MovedLevel(K, level, step)
    BY LevelMoves
  <2> QED
    BY <2>1 DEF MovedLevel
<1>2. since \in {level.since, step.date}
  OBVIOUS
<1> HIDE DEF rs, opened, next, since
<1>3. /\ "ACTIVE" \in S <=> opened = "ACTIVE"
      /\ "ACTIVE" \notin S => ("PENDING_TRIGGER" \in S <=> opened = "PENDING_TRIGGER")
  BY <1>1
<1> HIDE DEF S
<1>4. LevelOf(S, "REST") = IF AtRest(next.state) THEN "REST" ELSE next.state
  BY <1>1, <1>3 DEF LevelOf, AtRest, LifecycleStates
<1>5. next \in Level(K)
  <2>1. step.date \in Nat /\ level.since \in Nat
    BY DEF Level, Step
  <2>2. [k \in K |-> rs[k].afterOpen] \in [K -> Rule] /\ since \in Nat
    BY <1>1, <1>2, <2>1
  <2> QED
    BY <1>1, <2>2 DEF Level
<1> QED
  BY <1>1, <1>2, <1>4, <1>5 DEF LevelMatchesRules, S, next

(* Deciding a session twice changes nothing: a level that has seen a session *)
(* keeps its state and records no transition when stepMonitorLevel sees the  *)
(* same session again.                                                       *)
THEOREM SteppingTwiceIsOnce ==
  ASSUME NEW K, NEW level \in Level(K), NEW step \in Step(K),
         LevelMatchesRules(level)
  PROVE  LET once == StepMonitorLevel(level, step).next
         IN /\ StepMonitorLevel(once, step).next = once
            /\ StepMonitorLevel(once, step).transitions = << >>
<1> DEFINE once == StepMonitorLevel(level, step).next
           rs == [k \in DOMAIN once.rules |-> StepRule(once.rules[k], step.rules[k],
                                       step.date, step.eligible)]
<1>1. once.rules = [k \in K |-> StepRule(level.rules[k], step.rules[k],
                                         step.date, step.eligible).afterOpen]
  BY NextRules
<1>2. once \in Level(K) /\ LevelMatchesRules(once)
  BY LevelFollowsRules
<1> HIDE DEF once
<1>3. DOMAIN once.rules = K /\ DOMAIN rs = K
  BY <1>1
<1>4. \A k \in K : /\ rs[k].before = once.rules[k]
                    /\ rs[k].afterClose = once.rules[k] /\ rs[k].afterOpen = once.rules[k]
  <2> SUFFICES ASSUME NEW k \in K
               PROVE  /\ rs[k].before = once.rules[k]
                      /\ rs[k].afterClose = once.rules[k] /\ rs[k].afterOpen = once.rules[k]
    OBVIOUS
  <2>1. /\ level.rules[k] \in Rule /\ step.rules[k] \in Observed
        /\ step.date \in Nat /\ step.eligible \in BOOLEAN
    BY DEF Level, Step
  <2>2. once.rules[k] = StepRule(level.rules[k], step.rules[k],
                                 step.date, step.eligible).afterOpen
    BY <1>1
  <2>3. once.rules[k] \in Rule
    BY <1>2 DEF Level
  <2>4. rs[k] = StepRule(once.rules[k], step.rules[k], step.date, step.eligible)
    BY <1>3
  <2> HIDE DEF rs
  <2>5. rs[k].before = once.rules[k]
    BY <2>1, <2>3, <2>4, StepRuleType
  <2> QED
    BY <2>1, <2>2, <2>4, <2>5, StepRuleTwice
<1> DEFINE prior == once.state
           standing == LevelOf({rs[k].afterClose.state : k \in DOMAIN rs}, "REST")
           ended == LevelCloses(prior, rs)
           opened == LevelOf({rs[k].afterOpen.state : k \in DOMAIN rs}, ended)
           closed == IF prior = "ACTIVE" /\ TakenOver(rs, ended, opened)
                       THEN "ACTIVE" ELSE ended
           closes == /\ closed # prior
                     /\ \E k \in DOMAIN rs : RuleEnded(rs[k]) /\ rs[k].before.state = prior
           replaced == /\ prior = "PENDING_TRIGGER" /\ closed = "INACTIVE"
                       /\ opened = "PENDING_TRIGGER"
           transitions == TransitionsOf(prior, closed, opened, closes,
                                        LevelOpens(rs, closed, opened))
           again == StepMonitorLevel(once, step)
<1>5. /\ again.transitions = transitions
      /\ again.next = [state |-> IF transitions # << >> THEN opened ELSE prior,
                       since |-> IF transitions # << >> THEN step.date ELSE once.since,
                       rules |-> [k \in DOMAIN once.rules |-> rs[k].afterOpen]]
  BY DEF StepMonitorLevel, LevelStep, LevelResult
<1>6. {rs[k].afterClose.state : k \in DOMAIN once.rules} = {once.rules[k].state : k \in DOMAIN once.rules}
  BY <1>3, <1>4
<1>7. {rs[k].afterOpen.state : k \in DOMAIN once.rules} = {once.rules[k].state : k \in DOMAIN once.rules}
  BY <1>3, <1>4
<1>8. standing = IF AtRest(prior) THEN "REST" ELSE prior
  BY <1>2, <1>6 DEF LevelMatchesRules
<1>9. ended = prior
  <2>1. ended = IF prior = "ACTIVE" /\ standing # "ACTIVE" THEN "RESOLVED"
                ELSE IF prior = "PENDING_TRIGGER" /\ standing = "REST" THEN "INACTIVE"
                ELSE prior
    BY DEF LevelCloses
  <2> QED
    BY <2>1, <1>8 DEF AtRest
<1>10. opened = prior
  BY <1>7, <1>8, <1>9, <1>6 DEF LevelOf, AtRest
<1>11. closed = prior /\ ~closes /\ ~LevelOpens(rs, closed, opened)
  BY <1>9, <1>10 DEF LevelOpens
<1>12. transitions = << >>
  <2> HIDE DEF closes, closed, opened, replaced, rs
  <2> QED  BY <1>11 DEF TransitionsOf
<1>13. [k \in DOMAIN once.rules |-> rs[k].afterOpen] = once.rules
  BY <1>1, <1>4
<1>14. once = [state |-> once.state, since |-> once.since, rules |-> once.rules]
  BY <1>2 DEF Level
<1>15. again.next = once /\ again.transitions = << >>
  <2> HIDE DEF transitions, opened, prior, rs, again
  <2> QED  BY <1>5, <1>12, <1>13, <1>14 DEF prior
<1> QED
  BY <1>15 DEF once

-----------------------------------------------------------------------------
(* Folds.                                                                   *)

\* What holds at 0 and is handed on from number to number holds up to n.
LEMMA Climb ==
  ASSUME NEW n \in Nat, NEW S, 0 \in S, \A i \in 1 .. n : i - 1 \in S => i \in S
  PROVE  \A i \in 0 .. n : i \in S
<1> DEFINE T == {i \in 0 .. n : i \notin S}
<1> SUFFICES ASSUME T # {} PROVE FALSE
  OBVIOUS
<1>1. T \subseteq Nat /\ T # {}
  OBVIOUS
<1> HIDE DEF T
<1>2. PICK i \in T : \A j \in T : ~(<<j, i>> \in OpToRel(<, Nat))
  BY <1>1, NatLessThanWellFounded, WFMin
<1>3. ASSUME NEW j \in T, j < i PROVE FALSE
  <2>1. i \in Nat /\ j \in Nat
    BY <1>1
  <2> QED
    BY <1>2, <1>3, <2>1 DEF OpToRel
<1>4. i \in 0 .. n /\ i \notin S /\ i # 0
  BY DEF T
<1>5. i \in 1 .. n /\ i - 1 \in 0 .. n /\ i - 1 < i
  BY <1>4
<1>6. i - 1 \in S
  BY <1>3, <1>5 DEF T
<1> QED
  BY <1>4, <1>5, <1>6

\* The function a fold over 1 .. n is defined by exists.
FoldsBy(g, n, base, F) ==
  \A s \in SUBSET (1 .. n) :
    g[s] = IF s = {} THEN base ELSE F[<<g[s \ {Max(s)}], Max(s)>>]

LEMMA MaxOfInterval ==
  ASSUME NEW m \in Nat \ {0}, NEW s \in SUBSET (1 .. m), m \in s
  PROVE  Max(s) = m
<1>1. \A y \in s : m >= y
  OBVIOUS
<1>2. \A x \in s : (\A y \in s : x >= y) => x = m
  OBVIOUS
<1> QED
  BY <1>1, <1>2 DEF Max

LEMMA Initials ==
  ASSUME NEW n \in Nat, NEW i \in 1 .. n
  PROVE  /\ 1 .. i \in SUBSET (1 .. n) /\ 1 .. i # {}
         /\ Max(1 .. i) = i /\ (1 .. i) \ {i} = 1 .. (i - 1)
<1>1. 1 .. i \in SUBSET (1 .. n) /\ i \in 1 .. i /\ i \in Nat \ {0}
  OBVIOUS
<1>2. Max(1 .. i) = i
  BY <1>1, MaxOfInterval
<1>3. (1 .. i) \ {i} = 1 .. (i - 1)
  OBVIOUS
<1> QED
  BY <1>1, <1>2, <1>3

LEMMA MaxInInterval ==
  ASSUME NEW n \in Nat, NEW s \in SUBSET (1 .. n), s # {}
  PROVE  Max(s) \in s /\ \A i \in s : i <= Max(s)
<1> DEFINE S == {m \in 0 .. n : \A t \in SUBSET (1 .. m) :
                                  t = {} \/ (Max(t) \in t /\ \A i \in t : i <= Max(t))}
<1>1. 0 \in S
  OBVIOUS
<1>2. ASSUME NEW m \in 1 .. n, m - 1 \in S PROVE m \in S
  <2> SUFFICES ASSUME NEW t \in SUBSET (1 .. m), t # {}
               PROVE  Max(t) \in t /\ \A i \in t : i <= Max(t)
    OBVIOUS
  <2>1. CASE m \in t
    <3>1. Max(t) = m
      BY <2>1, MaxOfInterval
    <3> QED
      BY <2>1, <3>1
  <2>2. CASE m \notin t
    <3>1. t \in SUBSET (1 .. (m - 1))
      BY <2>2
    <3> QED
      BY <1>2, <3>1
  <2> QED
    BY <2>1, <2>2
<1>3. n \in S
  <2> HIDE DEF S
  <2>1. \A i \in 0 .. n : i \in S
    BY <1>1, <1>2, Climb
  <2> QED
    BY <2>1
<1> QED
  BY <1>3

LEMMA FoldExists ==
  ASSUME NEW n \in Nat, NEW X, NEW base \in X, NEW F \in [X \X (1 .. n) -> X]
  PROVE  \E g \in [SUBSET (1 .. n) -> X] : FoldsBy(g, n, base, F)
<1> DEFINE S == {m \in 0 .. n : \E g \in [SUBSET (1 .. m) -> X] : FoldsBy(g, m, base, F)}
<1>1. 0 \in S
  <2> DEFINE g == [s \in SUBSET (1 .. 0) |-> base]
  <2>1. g \in [SUBSET (1 .. 0) -> X]
    OBVIOUS
  <2>2. \A s \in SUBSET (1 .. 0) : s = {}
    OBVIOUS
  <2>3. FoldsBy(g, 0, base, F)
    BY <2>2 DEF FoldsBy
  <2> QED
    BY <2>1, <2>3
<1>2. ASSUME NEW m \in 1 .. n, m - 1 \in S PROVE m \in S
  <2>1. PICK g \in [SUBSET (1 .. (m - 1)) -> X] : FoldsBy(g, m - 1, base, F)
    BY <1>2
  <2> DEFINE h == [s \in SUBSET (1 .. m) |-> IF m \in s THEN F[<<g[s \ {m}], m>>] ELSE g[s]]
  <2>2. \A s \in SUBSET (1 .. m) : s \ {m} \in SUBSET (1 .. (m - 1))
    OBVIOUS
  <2>3. \A s \in SUBSET (1 .. m) : m \notin s => s \in SUBSET (1 .. (m - 1))
    OBVIOUS
  <2>4. h \in [SUBSET (1 .. m) -> X]
    <3>1. ASSUME NEW s \in SUBSET (1 .. m), m \in s PROVE F[<<g[s \ {m}], m>>] \in X
      <4>1. g[s \ {m}] \in X
        BY <2>1, <2>2
      <4> QED
        BY <4>1
    <3>2. ASSUME NEW s \in SUBSET (1 .. m), m \notin s PROVE g[s] \in X
      BY <2>1, <2>3, <3>2
    <3> QED
      BY <3>1, <3>2
  <2>5. ASSUME NEW s \in SUBSET (1 .. m)
        PROVE  h[s] = IF s = {} THEN base ELSE F[<<h[s \ {Max(s)}], Max(s)>>]
    <3>1. CASE m \in s
      <4>1. Max(s) = m
        BY <3>1, MaxOfInterval
      <4>2. s \ {m} \in SUBSET (1 .. m) /\ m \notin s \ {m}
        OBVIOUS
      <4>3. h[s \ {m}] = g[s \ {m}]
        BY <4>2
      <4> QED
        BY <3>1, <4>1, <4>3
    <3>2. CASE m \notin s
      <4>1. h[s] = g[s]
        BY <3>2
      <4>2. s \in SUBSET (1 .. (m - 1))
        BY <2>3, <3>2
      <4>3. s \ {Max(s)} \in SUBSET (1 .. m) /\ m \notin s \ {Max(s)}
        BY <3>2
      <4>4. h[s \ {Max(s)}] = g[s \ {Max(s)}]
        BY <4>3
      <4> HIDE DEF h
      <4> QED
        BY <2>1, <4>1, <4>2, <4>4 DEF FoldsBy
    <3> QED
      BY <3>1, <3>2
  <2> HIDE DEF h
  <2>6. FoldsBy(h, m, base, F)
    BY <2>5 DEF FoldsBy
  <2> QED
    BY <2>4, <2>6
<1>3. n \in S
  <2> HIDE DEF S
  <2> QED
    BY <1>1, <1>2, Climb
<1> QED
  BY <1>3

\* A run whose every step stays in a set stays in it.
LEMMA StaysIn ==
  ASSUME NEW n \in Nat, NEW X, NEW h, h[0] \in X,
         \A i \in 1 .. n : h[i - 1] \in X => h[i] \in X
  PROVE  \A i \in 0 .. n : h[i] \in X
<1> DEFINE S == {i \in 0 .. n : h[i] \in X}
<1>1. 0 \in S
  OBVIOUS
<1>2. ASSUME NEW i \in 1 .. n, i - 1 \in S PROVE i \in S
  BY <1>2
<1> HIDE DEF S
<1>3. \A i \in 0 .. n : i \in S
  BY <1>1, <1>2, Climb
<1> QED
  BY <1>3 DEF S

\* The levels a run of n sessions goes through.
IsReplay(h, n, initial, steps) ==
  /\ h[0] = initial
  /\ \A i \in 1 .. n : h[i] = StepMonitorLevel(h[i - 1], steps[i]).next

LEMMA ReplayFold ==
  ASSUME NEW n \in Nat, NEW X, NEW initial \in X, NEW steps, DOMAIN steps = 1 .. n,
         \A level \in X, i \in 1 .. n : StepMonitorLevel(level, steps[i]).next \in X
  PROVE  \E h \in [0 .. n -> X] : /\ IsReplay(h, n, initial, steps)
                                 /\ h[n] = ReplayMonitorLevel(steps, initial)
<1> DEFINE F == [p \in X \X (1 .. n) |-> StepMonitorLevel(p[1], steps[p[2]]).next]
           Eqn(g) == g = [s \in SUBSET (DOMAIN steps) |->
                            IF s = {} THEN initial
                            ELSE StepMonitorLevel(g[s \ {Max(s)}], steps[Max(s)]).next]
           fold == CHOOSE g : Eqn(g)
<1>1. F \in [X \X (1 .. n) -> X]
  OBVIOUS
<1>2. ReplayMonitorLevel(steps, initial) = fold[DOMAIN steps]
  BY DEF ReplayMonitorLevel, FoldLeft, MapThenFoldSet
<1>3. PICK g \in [SUBSET (1 .. n) -> X] : FoldsBy(g, n, initial, F)
  BY <1>1, FoldExists
<1>4. ASSUME NEW s \in SUBSET (1 .. n), s # {}
      PROVE  g[s] = StepMonitorLevel(g[s \ {Max(s)}], steps[Max(s)]).next
  <2>1. Max(s) \in 1 .. n
    BY <1>4, MaxInInterval
  <2>2. g[s \ {Max(s)}] \in X
    OBVIOUS
  <2>3. g[s] = F[<<g[s \ {Max(s)}], Max(s)>>]
    BY <1>3, <1>4 DEF FoldsBy
  <2> QED
    BY <2>1, <2>2, <2>3
<1>5. g[{}] = initial
  BY <1>3 DEF FoldsBy
<1>6. Eqn(g)
  BY <1>4, <1>5
<1>7. Eqn(fold)
  BY <1>6
<1> HIDE DEF fold, F
<1>8. ASSUME NEW i \in 1 .. n
      PROVE  fold[1 .. i] = StepMonitorLevel(fold[1 .. (i - 1)], steps[i]).next
  <2> DEFINE s == 1 .. i
  <2>1. /\ s \in SUBSET DOMAIN steps /\ s # {}
        /\ Max(s) = i /\ s \ {i} = 1 .. (i - 1)
    BY Initials
  <2> HIDE DEF s
  <2>2. fold[s] = StepMonitorLevel(fold[s \ {Max(s)}], steps[Max(s)]).next
    BY <1>7, <2>1
  <2> QED
    BY <2>1, <2>2 DEF s
<1>9. fold[1 .. 0] = initial
  <2>1. 1 .. 0 = {}
    OBVIOUS
  <2> QED
    BY <1>7, <2>1
<1> DEFINE h == [i \in 0 .. n |-> fold[1 .. i]]
<1>10. h[0] = initial /\ \A i \in 1 .. n : h[i] = StepMonitorLevel(h[i - 1], steps[i]).next
  BY <1>8, <1>9
<1>11. h[n] = ReplayMonitorLevel(steps, initial) /\ h = [i \in 0 .. n |-> h[i]]
  BY <1>2
<1> HIDE DEF h
<1>12. \A i \in 0 .. n : h[i] \in X
  BY <1>10, StaysIn
<1>13. h \in [0 .. n -> X]
  BY <1>11, <1>12
<1> QED
  BY <1>10, <1>11, <1>13 DEF IsReplay

\* A run of levels that follows the sessions is the replay's.
LEMMA ReplayIs ==
  ASSUME NEW n \in Nat, NEW X, NEW initial \in X, NEW steps, DOMAIN steps = 1 .. n,
         \A level \in X, i \in 1 .. n : StepMonitorLevel(level, steps[i]).next \in X,
         NEW h, IsReplay(h, n, initial, steps)
  PROVE  ReplayMonitorLevel(steps, initial) = h[n]
<1>1. PICK g \in [0 .. n -> X] : /\ IsReplay(g, n, initial, steps)
                                 /\ g[n] = ReplayMonitorLevel(steps, initial)
  BY ReplayFold
<1> DEFINE S == {i \in 0 .. n : g[i] = h[i]}
<1>2. 0 \in S
  BY <1>1 DEF IsReplay
<1>3. \A i \in 1 .. n : i - 1 \in S => i \in S
  BY <1>1 DEF IsReplay
<1>4. n \in S
  <2> HIDE DEF S
  <2>1. \A i \in 0 .. n : i \in S
    BY <1>2, <1>3, Climb
  <2> QED
    BY <2>1
<1> QED
  BY <1>1, <1>4

-----------------------------------------------------------------------------
(* Reconstruction.                                                          *)

\* The level and its rules last moved before the session, and no rule without
\* Conditions waits for a Trigger.
Before(level, step) ==
  /\ level.since < step.date
  /\ \A k \in DOMAIN level.rules :
       /\ level.rules[k].since < step.date
       /\ step.rules[k].conditions = NoPart => level.rules[k].state # "PENDING_TRIGGER"

\* A resting session settles a level completely: nothing is left but INACTIVE.
LEMMA RestingLevelSettles ==
  ASSUME NEW K, NEW level \in Level(K), NEW step \in Step(K),
         LevelMatchesRules(level), Before(level, step), IsRestingMonitorStep(step)
  PROVE  SettleMonitorLevelLifecycle(StepMonitorLevel(level, step).next, step.date) =
           [state |-> "INACTIVE", since |-> step.date,
            rules |-> [k \in K |-> [state |-> "INACTIVE", since |-> step.date,
                                    triggerDate |-> 0]]]
<1> DEFINE next == StepMonitorLevel(level, step).next
<1>1. next \in Level(K) /\ LevelMatchesRules(next)
  BY LevelFollowsRules
<1>2. next.rules = [k \in K |-> StepRule(level.rules[k], step.rules[k],
                                         step.date, step.eligible).afterOpen]
  BY NextRules
<1>3. next.since <= step.date
  <2>1. level.since \in Nat /\ step.date \in Nat /\ level.since < step.date
    BY DEF Level, Step, Before
  <2>2. next.since \in {level.since, step.date}
    BY LevelFollowsRules
  <2> HIDE DEF next
  <2> QED
    BY <2>1, <2>2
<1> HIDE DEF next
<1>4. \A k \in K : AtRest(next.rules[k].state) /\ next.rules[k].since <= step.date
  <2> TAKE k \in K
  <2>1. /\ level.rules[k] \in Rule /\ step.rules[k] \in Observed
        /\ step.date \in Nat /\ step.eligible \in BOOLEAN
        /\ DOMAIN level.rules = K /\ DOMAIN step.rules = K
    BY DEF Level, Step
  <2>2. /\ level.rules[k].since < step.date
        /\ step.rules[k].conditions = NoPart => level.rules[k].state # "PENDING_TRIGGER"
    BY <2>1 DEF Before
  <2>3. \/ ~step.eligible
        \/ step.rules[k].conditions # NoPart /\ step.rules[k].conditions = "FALSE"
        \/ step.rules[k].conditions = NoPart /\ step.rules[k].trigger # "TRUE"
    BY <2>1 DEF IsRestingMonitorStep
  <2> QED
    BY <1>2, <2>1, <2>2, <2>3, RestingRule
<1>5. DOMAIN next.rules = K
  BY <1>1 DEF Level
<1>6. AtRest(next.state)
  BY <1>1, <1>4, <1>5 DEF LevelMatchesRules, LevelOf, AtRest, Level, LifecycleStates
<1>7. SettleMonitorLevelLifecycle(next, step.date) =
        [state |-> "INACTIVE", since |-> step.date,
         rules |-> [k \in K |-> [state |-> "INACTIVE", since |-> step.date,
                                 triggerDate |-> 0]]]
  BY <1>3, <1>4, <1>5, <1>6 DEF SettleMonitorLevelLifecycle
<1> QED
  BY <1>7 DEF next

(* Why a reconstruction may start at the latest resting session: whatever a  *)
(* level was before it, once settled there it is the same, so nothing older  *)
(* than the anchor of reconstructMonitorLevel can tell two histories apart.  *)
THEOREM RestingSessionForgets ==
  ASSUME NEW K, NEW a \in Level(K), NEW b \in Level(K), NEW step \in Step(K),
         LevelMatchesRules(a), LevelMatchesRules(b),
         Before(a, step), Before(b, step), IsRestingMonitorStep(step)
  PROVE  SettleMonitorLevelLifecycle(StepMonitorLevel(a, step).next, step.date) =
         SettleMonitorLevelLifecycle(StepMonitorLevel(b, step).next, step.date)
<1>1. SettleMonitorLevelLifecycle(StepMonitorLevel(a, step).next, step.date) =
        [state |-> "INACTIVE", since |-> step.date,
         rules |-> [k \in K |-> [state |-> "INACTIVE", since |-> step.date,
                                 triggerDate |-> 0]]]
  BY RestingLevelSettles
<1>2. SettleMonitorLevelLifecycle(StepMonitorLevel(b, step).next, step.date) =
        [state |-> "INACTIVE", since |-> step.date,
         rules |-> [k \in K |-> [state |-> "INACTIVE", since |-> step.date,
                                 triggerDate |-> 0]]]
  BY RestingLevelSettles
<1> QED
  BY <1>1, <1>2

-----------------------------------------------------------------------------
(* Reconstruction is exact.                                                 *)

\* What an observation says of which rules have no Conditions.
Shaped(step, K, C) ==
  /\ step \in Step(K)
  /\ \A k \in K : step.rules[k].conditions = NoPart <=> k \in C

\* A level as sessions up to d leave it.
Reached(level, K, C, d) ==
  /\ level \in Level(K) /\ LevelMatchesRules(level) /\ level.since <= d
  /\ \A k \in K : /\ level.rules[k].triggerDate <= level.rules[k].since
                  /\ level.rules[k].since <= d
                  /\ k \in C => level.rules[k].state # "PENDING_TRIGGER"

LEMMA ReachedRule ==
  ASSUME NEW rule \in Rule, NEW seen \in Observed, NEW date \in Nat,
         NEW eligible \in BOOLEAN, rule.triggerDate <= rule.since, rule.since < date,
         seen.conditions = NoPart => rule.state # "PENDING_TRIGGER"
  PROVE  LET after == StepRule(rule, seen, date, eligible).afterOpen
         IN /\ after.triggerDate <= after.since /\ after.since <= date
            /\ seen.conditions = NoPart => after.state # "PENDING_TRIGGER"
  BY DEF StepRule, Close, ClosedTo, Open, AtRest, Rule, Observed, LifecycleStates, NoPart

LEMMA ReachedStep ==
  ASSUME NEW K, NEW C, NEW d \in Nat, NEW level, Reached(level, K, C, d),
         NEW step, Shaped(step, K, C), d < step.date
  PROVE  Reached(StepMonitorLevel(level, step).next, K, C, step.date)
<1> DEFINE next == StepMonitorLevel(level, step).next
<1>1. level \in Level(K) /\ LevelMatchesRules(level) /\ step \in Step(K)
  BY DEF Reached, Shaped
<1>2. /\ next \in Level(K) /\ LevelMatchesRules(next)
      /\ next.since \in {level.since, step.date}
  BY <1>1, LevelFollowsRules
<1>3. next.rules = [k \in K |-> StepRule(level.rules[k], step.rules[k],
                                         step.date, step.eligible).afterOpen]
  BY <1>1, NextRules
<1> HIDE DEF next
<1>4. step.date \in Nat /\ step.eligible \in BOOLEAN /\ level.since \in Nat
  BY <1>1 DEF Step, Level
<1>5. ASSUME NEW k \in K
      PROVE  /\ next.rules[k].triggerDate <= next.rules[k].since
             /\ next.rules[k].since <= step.date
             /\ k \in C => next.rules[k].state # "PENDING_TRIGGER"
  <2>1. level.rules[k] \in Rule /\ step.rules[k] \in Observed
    BY <1>1 DEF Step, Level
  <2>2. level.rules[k].triggerDate <= level.rules[k].since /\ level.rules[k].since < step.date
    <3>1. level.rules[k].since \in Nat /\ level.rules[k].triggerDate \in Nat
      BY <2>1 DEF Rule
    <3> QED
      BY <1>4, <3>1 DEF Reached
  <2>3. /\ step.rules[k].conditions = NoPart <=> k \in C
        /\ k \in C => level.rules[k].state # "PENDING_TRIGGER"
    BY DEF Shaped, Reached
  <2>4. next.rules[k] = StepRule(level.rules[k], step.rules[k], step.date, step.eligible).afterOpen
    BY <1>3
  <2> QED
    BY <1>4, <2>1, <2>2, <2>3, <2>4, ReachedRule
<1>6. next.since <= step.date
  BY <1>2, <1>4 DEF Reached
<1> QED
  BY <1>2, <1>5, <1>6 DEF Reached, next

\* What of a rule a session after the anchor can tell.
SettledRule(rule, a) ==
  IF AtRest(rule.state) /\ rule.since <= a
    THEN [state |-> "INACTIVE", since |-> a, triggerDate |-> 0]
    ELSE [rule EXCEPT !.triggerDate = IF @ < a THEN 0 ELSE @]

Current(state) == IF AtRest(state) THEN "REST" ELSE state

\* Two rules that are the same once settled move alike on a later session.
LEMMA RulesAlike ==
  ASSUME NEW x \in Rule, NEW y \in Rule, NEW seen \in Observed, NEW date \in Nat,
         NEW eligible \in BOOLEAN, NEW a \in Nat, a < date,
         x.triggerDate <= x.since, x.since < date, x.triggerDate # a,
         y.triggerDate <= y.since, y.since < date, y.triggerDate # a,
         SettledRule(x, a) = SettledRule(y, a)
  PROVE  LET rx == StepRule(x, seen, date, eligible)
             ry == StepRule(y, seen, date, eligible)
         IN /\ SettledRule(rx.afterOpen, a) = SettledRule(ry.afterOpen, a)
            /\ rx.afterOpen.triggerDate # a /\ ry.afterOpen.triggerDate # a
            /\ RuleEnded(rx) <=> RuleEnded(ry)
            /\ RuleBegan(rx) <=> RuleBegan(ry)
            /\ Current(rx.before.state) = Current(ry.before.state)
            /\ Current(rx.afterClose.state) = Current(ry.afterClose.state)
            /\ Current(rx.afterOpen.state) = Current(ry.afterOpen.state)
<1> DEFINE rx == StepRule(x, seen, date, eligible)
           ry == StepRule(y, seen, date, eligible)
<1>1. \/ x.state = y.state /\ x.since = y.since
      \/ AtRest(x.state) /\ AtRest(y.state) /\ x.since <= a /\ y.since <= a
  BY DEF SettledRule, AtRest, Rule, LifecycleStates
<1>2. \/ x.triggerDate = y.triggerDate
      \/ x.triggerDate < a /\ y.triggerDate < a
  <2>1. /\ AtRest(x.state) /\ x.since <= a => x.triggerDate < a
        /\ AtRest(y.state) /\ y.since <= a => y.triggerDate < a
    BY DEF Rule
  <2> QED
    BY <2>1 DEF SettledRule, AtRest, Rule, LifecycleStates
<1>3. /\ rx.before = x /\ rx.afterClose = Close(x, seen, date, eligible)
      /\ rx.afterOpen = Open(Close(x, seen, date, eligible), seen, date, eligible)
      /\ ry.before = y /\ ry.afterClose = Close(y, seen, date, eligible)
      /\ ry.afterOpen = Open(Close(y, seen, date, eligible), seen, date, eligible)
  BY DEF StepRule, Rule
<1> HIDE DEF rx, ry
<1> DEFINE cx == Close(x, seen, date, eligible)
           cy == Close(y, seen, date, eligible)
<1>4. /\ cx \in Rule /\ cy \in Rule
      /\ cx.triggerDate = x.triggerDate /\ cy.triggerDate = y.triggerDate
  BY DEF Close, ClosedTo, AtRest, Rule, LifecycleStates
<1>5. \/ /\ cx.state = cy.state /\ cx.since = cy.since
         /\ cx # x <=> cy # y
      \/ /\ AtRest(cx.state) /\ AtRest(cy.state) /\ cx.since <= a /\ cy.since <= a
         /\ cx = x /\ cy = y
  BY <1>1 DEF Close, ClosedTo, AtRest, Rule, LifecycleStates
<1>6. Current(x.state) = Current(y.state) /\ Current(cx.state) = Current(cy.state)
  BY <1>1, <1>5 DEF Current
<1>7. \/ cx.triggerDate = cy.triggerDate
      \/ cx.triggerDate < a /\ cy.triggerDate < a
  <2> HIDE DEF cx, cy
  <2> QED
    BY <1>2, <1>4
<1> DEFINE ox == Open(cx, seen, date, eligible)
           oy == Open(cy, seen, date, eligible)
<1>8. /\ cx.triggerDate < date /\ cy.triggerDate < date /\ a < date
      /\ cx.triggerDate # a /\ cy.triggerDate # a
  <2>1. x.triggerDate \in Nat /\ x.since \in Nat /\ y.triggerDate \in Nat /\ y.since \in Nat
    BY DEF Rule
  <2> HIDE DEF cx, cy
  <2> QED
    BY <1>4, <2>1
<1> HIDE DEF cx, cy
<1>9. /\ SettledRule(ox, a) = SettledRule(oy, a)
      /\ ox.triggerDate # a /\ oy.triggerDate # a
      /\ ox # cx <=> oy # cy
      /\ Current(ox.state) = Current(oy.state)
  <2>1. CASE \/ ~eligible \/ cx.state = "ACTIVE" \/ cy.state = "ACTIVE"
             \/ seen.conditions \notin {"TRUE", NoPart}
    <3>1. ox = cx /\ oy = cy
      BY <1>5, <2>1 DEF Open, AtRest
    <3> HIDE DEF ox, oy
    <3>2. SettledRule(cx, a) = SettledRule(cy, a)
      BY <1>4, <1>5, <1>7 DEF SettledRule, AtRest, Rule
    <3> QED
      BY <1>6, <1>8, <3>1, <3>2
  <2>2. CASE ~(\/ ~eligible \/ cx.state = "ACTIVE" \/ cy.state = "ACTIVE"
               \/ seen.conditions \notin {"TRUE", NoPart})
    <3>1. CASE seen.trigger = "TRUE"
      <4>1. /\ ox = [state |-> "ACTIVE", since |-> date, triggerDate |-> date]
            /\ oy = [state |-> "ACTIVE", since |-> date, triggerDate |-> date]
        BY <1>8, <2>2, <3>1 DEF Open
      <4>2. ox.state = "ACTIVE" /\ oy.state = "ACTIVE"
        BY <4>1
      <4> QED
        BY <1>8, <2>2, <4>1, <4>2
    <3>2. CASE seen.trigger # "TRUE" /\ seen.conditions = NoPart
      <4>1. ox = cx /\ oy = cy
        BY <3>2 DEF Open
      <4> HIDE DEF ox, oy
      <4>2. SettledRule(cx, a) = SettledRule(cy, a)
        BY <1>4, <1>5, <1>7 DEF SettledRule, AtRest, Rule
      <4> QED
        BY <1>6, <1>8, <4>1, <4>2
    <3>3. CASE seen.trigger # "TRUE" /\ seen.conditions # NoPart /\ seen.trigger = NoPart
      <4>1. /\ ox = [cx EXCEPT !.state = "ACTIVE", !.since = date]
            /\ oy = [cy EXCEPT !.state = "ACTIVE", !.since = date]
        BY <2>2, <3>3 DEF Open
      <4> HIDE DEF ox, oy
      <4>2. /\ ox \in Rule /\ ox.state = "ACTIVE" /\ ox.since = date /\ ox.triggerDate = cx.triggerDate
            /\ oy \in Rule /\ oy.state = "ACTIVE" /\ oy.since = date /\ oy.triggerDate = cy.triggerDate
        BY <1>4, <4>1 DEF Rule, LifecycleStates
      <4>3. SettledRule(ox, a) = SettledRule(oy, a)
        BY <1>7, <4>2 DEF SettledRule, AtRest, Rule
      <4> QED
        BY <1>8, <2>2, <4>2, <4>3
    <3>4. CASE seen.trigger # "TRUE" /\ seen.conditions # NoPart /\ seen.trigger # NoPart
      <4>1. /\ ox = IF cx.state = "PENDING_TRIGGER" THEN cx
                    ELSE [cx EXCEPT !.state = "PENDING_TRIGGER", !.since = date]
            /\ oy = IF cy.state = "PENDING_TRIGGER" THEN cy
                    ELSE [cy EXCEPT !.state = "PENDING_TRIGGER", !.since = date]
        BY <2>2, <3>4 DEF Open
      <4> HIDE DEF ox, oy
      <4>2. cx.state = "PENDING_TRIGGER" <=> cy.state = "PENDING_TRIGGER"
        BY <1>5 DEF AtRest
      <4>3. CASE cx.state = "PENDING_TRIGGER"
        <5>1. ox = cx /\ oy = cy
          BY <4>1, <4>2, <4>3
        <5>2. SettledRule(cx, a) = SettledRule(cy, a)
          BY <1>4, <1>5, <1>7, <4>2, <4>3 DEF SettledRule, AtRest, Rule
        <5> QED
          BY <1>6, <1>8, <5>1, <5>2
      <4>4. CASE cx.state # "PENDING_TRIGGER"
        <5>1. /\ ox \in Rule /\ ox.state = "PENDING_TRIGGER" /\ ox.since = date
              /\ ox.triggerDate = cx.triggerDate
              /\ oy \in Rule /\ oy.state = "PENDING_TRIGGER" /\ oy.since = date
              /\ oy.triggerDate = cy.triggerDate
          BY <1>4, <4>1, <4>2, <4>4 DEF Rule, LifecycleStates
        <5>2. SettledRule(ox, a) = SettledRule(oy, a)
          BY <1>7, <5>1 DEF SettledRule, AtRest, Rule
        <5> QED
          BY <1>8, <4>2, <4>4, <5>1, <5>2
      <4> QED
        BY <4>3, <4>4
    <3> QED
      BY <3>1, <3>2, <3>3, <3>4
  <2> QED
    BY <2>1, <2>2
<1> QED
  BY <1>3, <1>5, <1>6, <1>9 DEF RuleEnded, RuleBegan, rx, ry, cx, cy, ox, oy

\* Two rules go through the same on a session, as far as it is current.
MoveAlike(x, y) ==
  /\ RuleEnded(x) <=> RuleEnded(y)
  /\ RuleBegan(x) <=> RuleBegan(y)
  /\ Current(x.before.state) = Current(y.before.state)
  /\ Current(x.afterClose.state) = Current(y.afterClose.state)
  /\ Current(x.afterOpen.state) = Current(y.afterOpen.state)

\* Two levels whose rules move alike, and that stand at the same or both at
\* rest, open at the same, and both change or neither.
LEMMA MovesAlike ==
  ASSUME NEW K, NEW x, NEW y, DOMAIN x = K, DOMAIN y = K,
         NEW p \in LifecycleStates, NEW q \in LifecycleStates,
         p = q \/ (AtRest(p) /\ AtRest(q)),
         \A k \in K : MoveAlike(x[k], y[k])
  PROVE  /\ Moves(p, x) <=> Moves(q, y)
         /\ Moves(p, x) => OpenedTo(p, x) = OpenedTo(q, y)
<1> DEFINE cx == {x[k].afterClose.state : k \in K}
           cy == {y[k].afterClose.state : k \in K}
           ox == {x[k].afterOpen.state : k \in K}
           oy == {y[k].afterOpen.state : k \in K}
<1>0. \A k \in K : /\ RuleEnded(x[k]) <=> RuleEnded(y[k])
                   /\ RuleBegan(x[k]) <=> RuleBegan(y[k])
                   /\ Current(x[k].before.state) = Current(y[k].before.state)
                   /\ Current(x[k].afterClose.state) = Current(y[k].afterClose.state)
                   /\ Current(x[k].afterOpen.state) = Current(y[k].afterOpen.state)
  BY DEF MoveAlike
<1>1. \A k \in K : \A s \in {"ACTIVE", "PENDING_TRIGGER"} :
        /\ x[k].before.state = s <=> y[k].before.state = s
        /\ x[k].afterClose.state = s <=> y[k].afterClose.state = s
        /\ x[k].afterOpen.state = s <=> y[k].afterOpen.state = s
  BY <1>0 DEF Current, AtRest
<1>2. \A s \in {"ACTIVE", "PENDING_TRIGGER"} : (s \in cx <=> s \in cy) /\ (s \in ox <=> s \in oy)
  BY <1>1
<1>3. LevelOf(cx, "REST") = LevelOf(cy, "REST")
  BY <1>2 DEF LevelOf
<1>4. /\ LevelCloses(p, x) = IF p = "ACTIVE" /\ LevelOf(cx, "REST") # "ACTIVE" THEN "RESOLVED"
                             ELSE IF p = "PENDING_TRIGGER" /\ LevelOf(cx, "REST") = "REST"
                               THEN "INACTIVE" ELSE p
      /\ LevelCloses(q, y) = IF q = "ACTIVE" /\ LevelOf(cy, "REST") # "ACTIVE" THEN "RESOLVED"
                             ELSE IF q = "PENDING_TRIGGER" /\ LevelOf(cy, "REST") = "REST"
                               THEN "INACTIVE" ELSE q
  BY DEF LevelCloses
<1> DEFINE ex == LevelCloses(p, x)
           ey == LevelCloses(q, y)
           tx == OpenedTo(p, x)
           ty == OpenedTo(q, y)
<1>5. /\ p = q => ex = ey
      /\ AtRest(p) => ex = p
      /\ AtRest(q) => ey = q
  BY <1>3, <1>4 DEF AtRest
<1>6. tx = LevelOf(ox, ex) /\ ty = LevelOf(oy, ey)
  BY DEF OpenedTo
<1> HIDE DEF ex, ey, tx, ty, ox, oy
<1>7. /\ p = q => tx = ty
      /\ tx \in {"ACTIVE", "PENDING_TRIGGER", ex} /\ ty \in {"ACTIVE", "PENDING_TRIGGER", ey}
      /\ \/ tx = ty
         \/ tx = ex /\ ty = ey
  BY <1>2, <1>5, <1>6 DEF LevelOf
<1>8. p = q => (TakenOver(x, ex, tx) <=> TakenOver(y, ey, ty))
  BY <1>0, <1>1, <1>5, <1>7 DEF TakenOver
<1> DEFINE dx == LevelClosedTo(p, x)
           dy == LevelClosedTo(q, y)
<1>9. /\ dx = IF p = "ACTIVE" /\ TakenOver(x, ex, tx) THEN "ACTIVE" ELSE ex
      /\ dy = IF q = "ACTIVE" /\ TakenOver(y, ey, ty) THEN "ACTIVE" ELSE ey
  BY DEF LevelClosedTo, ex, ey, tx, ty
<1>10. /\ p = q => dx = dy
       /\ AtRest(p) => dx = p
       /\ AtRest(q) => dy = q
  BY <1>5, <1>8, <1>9 DEF AtRest
<1>11. LevelEnded(p, x) <=> LevelEnded(q, y)
  BY <1>0, <1>1, <1>10 DEF LevelEnded, AtRest, LifecycleStates
<1>12. /\ tx # dx => tx \in {"ACTIVE", "PENDING_TRIGGER"}
       /\ ty # dy => ty \in {"ACTIVE", "PENDING_TRIGGER"}
  BY <1>7, <1>9 DEF TakenOver
<1> HIDE DEF dx, dy
<1>13. /\ tx # dx <=> ty # dy
       /\ tx # dx => tx = ty
  BY <1>5, <1>7, <1>10, <1>12 DEF AtRest
<1>14. LevelOpens(x, dx, tx) <=> LevelOpens(y, dy, ty)
  BY <1>0, <1>1, <1>12, <1>13 DEF LevelOpens
<1>15. /\ Moves(p, x) <=> /\ ~(p = "PENDING_TRIGGER" /\ dx = "INACTIVE" /\ tx = "PENDING_TRIGGER")
                          /\ LevelEnded(p, x) \/ LevelOpens(x, dx, tx)
       /\ Moves(q, y) <=> /\ ~(q = "PENDING_TRIGGER" /\ dy = "INACTIVE" /\ ty = "PENDING_TRIGGER")
                          /\ LevelEnded(q, y) \/ LevelOpens(y, dy, ty)
  BY DEF Moves, TransitionsIn, TransitionsOf, dx, dy, tx, ty
<1>16. LevelEnded(p, x) => p = q
  BY <1>10 DEF LevelEnded, dx
<1>17. LevelOpens(x, dx, tx) => tx = ty
  BY <1>13 DEF LevelOpens
<1>18. Moves(p, x) <=> Moves(q, y)
  BY <1>7, <1>10, <1>11, <1>14, <1>15 DEF AtRest
<1>19. Moves(p, x) => tx = ty
  BY <1>7, <1>15, <1>16, <1>17
<1> QED
  BY <1>18, <1>19 DEF tx, ty

\* No rule last fired on the anchor.
NotFiredOn(level, K, a) == \A k \in K : level.rules[k].triggerDate # a

Settled(level, a) == SettleMonitorLevelLifecycle(level, a)

LEMMA SettledLevel ==
  ASSUME NEW level, NEW a
  PROVE  LET rests == AtRest(level.state) /\ level.since <= a
         IN Settled(level, a) =
              [state |-> IF rests THEN "INACTIVE" ELSE level.state,
               since |-> IF rests THEN a ELSE level.since,
               rules |-> [k \in DOMAIN level.rules |-> SettledRule(level.rules[k], a)]]
  BY DEF Settled, SettleMonitorLevelLifecycle, SettledRule

\* Two levels that are the same once settled stay so on every later session.
LEMMA LevelsAlike ==
  ASSUME NEW K, NEW C, NEW a \in Nat, NEW d \in Nat, a <= d,
         NEW x, Reached(x, K, C, d), NotFiredOn(x, K, a),
         NEW y, Reached(y, K, C, d), NotFiredOn(y, K, a),
         Settled(x, a) = Settled(y, a),
         NEW step, Shaped(step, K, C), d < step.date
  PROVE  LET nx == StepMonitorLevel(x, step).next
             ny == StepMonitorLevel(y, step).next
         IN /\ Settled(nx, a) = Settled(ny, a)
            /\ NotFiredOn(nx, K, a) /\ NotFiredOn(ny, K, a)
<1> DEFINE rx == RuleSteps(x, step)
           ry == RuleSteps(y, step)
           nx == StepMonitorLevel(x, step).next
           ny == StepMonitorLevel(y, step).next
<1>1. x \in Level(K) /\ y \in Level(K) /\ step \in Step(K)
  BY DEF Reached, Shaped
<1>2. /\ DOMAIN x.rules = K /\ DOMAIN y.rules = K
      /\ x.state \in LifecycleStates /\ y.state \in LifecycleStates
      /\ x.since \in Nat /\ y.since \in Nat
      /\ step.date \in Nat /\ step.eligible \in BOOLEAN /\ a < step.date
  BY <1>1 DEF Level, Step
<1>3. \A k \in K : SettledRule(x.rules[k], a) = SettledRule(y.rules[k], a)
  <2>1. Settled(x, a).rules = Settled(y, a).rules
    OBVIOUS
  <2>2. /\ Settled(x, a).rules = [k \in K |-> SettledRule(x.rules[k], a)]
        /\ Settled(y, a).rules = [k \in K |-> SettledRule(y.rules[k], a)]
    BY <1>2, SettledLevel
  <2>3. \A k \in K : /\ Settled(x, a).rules[k] = SettledRule(x.rules[k], a)
                     /\ Settled(y, a).rules[k] = SettledRule(y.rules[k], a)
    BY <2>2
  <2> QED
    BY <2>1, <2>3
<1>4. \/ x.state = y.state /\ x.since = y.since
      \/ AtRest(x.state) /\ AtRest(y.state) /\ x.since <= a /\ y.since <= a
  <2>1. /\ Settled(x, a).state = IF AtRest(x.state) /\ x.since <= a THEN "INACTIVE" ELSE x.state
        /\ Settled(x, a).since = IF AtRest(x.state) /\ x.since <= a THEN a ELSE x.since
        /\ Settled(y, a).state = IF AtRest(y.state) /\ y.since <= a THEN "INACTIVE" ELSE y.state
        /\ Settled(y, a).since = IF AtRest(y.state) /\ y.since <= a THEN a ELSE y.since
    BY SettledLevel
  <2>2. Settled(x, a).state = Settled(y, a).state /\ Settled(x, a).since = Settled(y, a).since
    OBVIOUS
  <2> QED
    BY <1>2, <2>1, <2>2 DEF AtRest
<1>5. ASSUME NEW k \in K
      PROVE  /\ SettledRule(rx[k].afterOpen, a) = SettledRule(ry[k].afterOpen, a)
             /\ rx[k].afterOpen.triggerDate # a /\ ry[k].afterOpen.triggerDate # a
             /\ MoveAlike(rx[k], ry[k])
  <2>1. x.rules[k] \in Rule /\ y.rules[k] \in Rule /\ step.rules[k] \in Observed
    BY <1>1 DEF Level, Step
  <2>2. /\ rx[k] = StepRule(x.rules[k], step.rules[k], step.date, step.eligible)
        /\ ry[k] = StepRule(y.rules[k], step.rules[k], step.date, step.eligible)
    BY <1>2 DEF RuleSteps
  <2>3. /\ x.rules[k].triggerDate <= x.rules[k].since /\ x.rules[k].since < step.date
        /\ y.rules[k].triggerDate <= y.rules[k].since /\ y.rules[k].since < step.date
    <3>1. x.rules[k].since \in Nat /\ y.rules[k].since \in Nat
      BY <2>1 DEF Rule
    <3> QED
      BY <1>2, <3>1 DEF Reached
  <2>4. x.rules[k].triggerDate # a /\ y.rules[k].triggerDate # a
    BY DEF NotFiredOn
  <2> HIDE DEF rx, ry
  <2> QED
    BY <1>2, <1>3, <2>1, <2>2, <2>3, <2>4, RulesAlike DEF MoveAlike
<1>6. DOMAIN rx = K /\ DOMAIN ry = K
  BY <1>2 DEF RuleSteps
<1>7. /\ nx = [state |-> IF Moves(x.state, rx) THEN OpenedTo(x.state, rx) ELSE x.state,
               since |-> IF Moves(x.state, rx) THEN step.date ELSE x.since,
               rules |-> [k \in K |-> rx[k].afterOpen]]
      /\ ny = [state |-> IF Moves(y.state, ry) THEN OpenedTo(y.state, ry) ELSE y.state,
               since |-> IF Moves(y.state, ry) THEN step.date ELSE y.since,
               rules |-> [k \in K |-> ry[k].afterOpen]]
  BY <1>2, StepTakenApart
<1> HIDE DEF rx, ry, nx, ny
<1>8. /\ Moves(x.state, rx) <=> Moves(y.state, ry)
      /\ Moves(x.state, rx) => OpenedTo(x.state, rx) = OpenedTo(y.state, ry)
  BY <1>2, <1>4, <1>5, <1>6, MovesAlike
<1>9. \/ nx.state = ny.state /\ nx.since = ny.since
      \/ /\ AtRest(nx.state) /\ AtRest(ny.state)
         /\ nx.since <= a /\ ny.since <= a
  BY <1>4, <1>7, <1>8
<1>10. DOMAIN nx.rules = K /\ DOMAIN ny.rules = K
  BY <1>7
<1>11. \A k \in K : /\ SettledRule(nx.rules[k], a) = SettledRule(ny.rules[k], a)
                    /\ nx.rules[k].triggerDate # a /\ ny.rules[k].triggerDate # a
  BY <1>5, <1>7
<1>12. /\ [k \in DOMAIN nx.rules |-> SettledRule(nx.rules[k], a)] =
          [k \in DOMAIN ny.rules |-> SettledRule(ny.rules[k], a)]
  BY <1>10, <1>11
<1>13. Settled(nx, a) = Settled(ny, a)
  BY <1>9, <1>12, SettledLevel
<1> QED
  BY <1>11, <1>13 DEF NotFiredOn, nx, ny

\* The levels stored of the rules K.
Stable(K) == {level \in Level(K) : LevelMatchesRules(level)}

LEMMA StableSteps ==
  ASSUME NEW K
  PROVE  /\ Initial(K) \in Stable(K)
         /\ \A level \in Stable(K), step \in Step(K) :
              StepMonitorLevel(level, step).next \in Stable(K)
<1>1. Initial(K) \in Level(K)
  BY DEF Initial, Level, Rule, RuleLifecycle, LifecycleStates
<1>2. LevelMatchesRules(Initial(K))
  BY DEF Initial, RuleLifecycle, LevelMatchesRules, LevelOf, AtRest
<1> QED
  BY <1>1, <1>2, LevelFollowsRules DEF Stable

\* Sessions numbered on from b, of a level with rules K.
SessionsFrom(steps, n, b, K, C) ==
  /\ DOMAIN steps = 1 .. n
  /\ \A i \in 1 .. n : Shaped(steps[i], K, C) /\ steps[i].date = b + i

\* Every level of a replay is as the sessions so far leave it.
LEMMA ReachedReplay ==
  ASSUME NEW K, NEW C, NEW n \in Nat, NEW b \in Nat, NEW steps,
         SessionsFrom(steps, n, b, K, C),
         NEW initial, Reached(initial, K, C, b),
         NEW h, IsReplay(h, n, initial, steps)
  PROVE  \A i \in 0 .. n : Reached(h[i], K, C, b + i)
<1> DEFINE S == {i \in 0 .. n : Reached(h[i], K, C, b + i)}
<1>1. 0 \in S
  <2>1. h[0] = initial /\ b + 0 = b
    BY DEF IsReplay
  <2> QED
    BY <2>1
<1>2. ASSUME NEW i \in 1 .. n, i - 1 \in S PROVE i \in S
  <2>1. Reached(h[i - 1], K, C, b + (i - 1)) /\ b + (i - 1) \in Nat
    BY <1>2
  <2>2. Shaped(steps[i], K, C) /\ steps[i].date = b + i /\ b + (i - 1) < steps[i].date
    BY DEF SessionsFrom
  <2>3. h[i] = StepMonitorLevel(h[i - 1], steps[i]).next
    BY DEF IsReplay
  <2>4. Reached(h[i], K, C, b + i)
    BY <2>1, <2>2, <2>3, ReachedStep
  <2> QED
    BY <2>4
<1> HIDE DEF S
<1>3. \A i \in 0 .. n : i \in S
  BY <1>1, <1>2, Climb
<1> QED
  BY <1>3 DEF S

LEMMA InitialReached == ASSUME NEW K, NEW C, NEW b \in Nat PROVE Reached(Initial(K), K, C, b)
<1>1. Initial(K) \in Stable(K)
  BY StableSteps
<1>2. /\ Initial(K).since = 0
      /\ \A k \in K : Initial(K).rules[k] = [state |-> "INACTIVE", since |-> 0, triggerDate |-> 0]
  BY DEF Initial, RuleLifecycle
<1> QED
  BY <1>1, <1>2 DEF Reached, Stable

\* A replay of n sessions, and what it makes of them.
LEMMA ReplayOf ==
  ASSUME NEW K, NEW n \in Nat, NEW steps, DOMAIN steps = 1 .. n,
         \A i \in 1 .. n : steps[i] \in Step(K), NEW initial \in Stable(K)
  PROVE  \E h : /\ IsReplay(h, n, initial, steps)
                /\ h[n] = ReplayMonitorLevel(steps, initial)
<1>1. \A level \in Stable(K), i \in 1 .. n : StepMonitorLevel(level, steps[i]).next \in Stable(K)
  BY StableSteps
<1> QED
  BY <1>1, ReplayFold

\* The l sessions of n that follow the first m, as a level may be stepped through.
Stretch(t, l, steps, n, m, K) ==
  /\ n \in Nat /\ m \in Nat /\ l \in Nat /\ m + l <= n
  /\ DOMAIN steps = 1 .. n /\ \A i \in 1 .. n : steps[i] \in Step(K)
  /\ DOMAIN t = 1 .. l /\ \A i \in 1 .. l : t[i] = steps[m + i]

\* The replay of a stretch is a stretch of the replay.
LEMMA ReplayOfStretch ==
  ASSUME NEW K, NEW n, NEW m, NEW l, NEW steps, NEW t, Stretch(t, l, steps, n, m, K),
         NEW initial \in Stable(K), NEW h, IsReplay(h, n, initial, steps)
  PROVE  ReplayMonitorLevel(t, h[m]) = h[m + l]
<1> DEFINE f == [i \in 0 .. l |-> h[m + i]]
<1>1. /\ n \in Nat /\ m \in 0 .. n /\ l \in Nat /\ m + l \in 0 .. n
      /\ \A i \in 1 .. n : steps[i] \in Step(K)
      /\ DOMAIN t = 1 .. l /\ \A i \in 1 .. l : t[i] = steps[m + i]
  BY DEF Stretch
<1>2. h[m] \in Stable(K)
  <2>1. \A i \in 1 .. n : h[i - 1] \in Stable(K) => h[i] \in Stable(K)
    BY <1>1, StableSteps DEF IsReplay
  <2>2. h[0] \in Stable(K)
    BY DEF IsReplay
  <2>3. \A i \in 0 .. n : h[i] \in Stable(K)
    BY <1>1, <2>1, <2>2, StaysIn
  <2> QED
    BY <1>1, <2>3
<1>3. ASSUME NEW i \in 1 .. l
      PROVE  f[i] = StepMonitorLevel(f[i - 1], t[i]).next /\ t[i] \in Step(K)
  <2>1. /\ m + i \in 1 .. n /\ m + (i - 1) = (m + i) - 1
        /\ f[i] = h[m + i] /\ f[i - 1] = h[m + (i - 1)] /\ t[i] = steps[m + i]
    BY <1>1
  <2> HIDE DEF f
  <2> QED
    BY <1>1, <2>1 DEF IsReplay
<1>4. f[0] = h[m] /\ f[l] = h[m + l]
  BY <1>1
<1>5. l \in Nat /\ DOMAIN t = 1 .. l
  BY <1>1
<1> HIDE DEF f
<1>6. IsReplay(f, l, h[m], t)
  BY <1>3, <1>4 DEF IsReplay
<1>7. \A level \in Stable(K), i \in 1 .. l : StepMonitorLevel(level, t[i]).next \in Stable(K)
  BY <1>3, StableSteps
<1>8. ReplayMonitorLevel(t, h[m]) = f[l]
  BY <1>2, <1>5, <1>6, <1>7, ReplayIs
<1> QED
  BY <1>4, <1>8

\* A resting session fires no rule.
LEMMA RestingFiresNothing ==
  ASSUME NEW K, NEW level \in Level(K), NEW step \in Step(K), IsRestingMonitorStep(step),
         \A k \in K : level.rules[k].triggerDate < step.date
  PROVE  NotFiredOn(StepMonitorLevel(level, step).next, K, step.date)
<1> SUFFICES ASSUME NEW k \in K
             PROVE  StepMonitorLevel(level, step).next.rules[k].triggerDate # step.date
  BY DEF NotFiredOn
<1>1. StepMonitorLevel(level, step).next.rules[k] =
        StepRule(level.rules[k], step.rules[k], step.date, step.eligible).afterOpen
  <2>1. StepMonitorLevel(level, step).next.rules =
          [j \in K |-> StepRule(level.rules[j], step.rules[j],
                                step.date, step.eligible).afterOpen]
    BY NextRules
  <2> QED
    BY <2>1
<1>2. /\ level.rules[k] \in Rule /\ step.rules[k] \in Observed
      /\ step.eligible \in BOOLEAN /\ step.date \in Nat /\ DOMAIN step.rules = K
  BY DEF Level, Step
<1>3. \/ ~step.eligible
      \/ step.rules[k].conditions # NoPart /\ step.rules[k].conditions = "FALSE"
      \/ step.rules[k].conditions = NoPart /\ step.rules[k].trigger # "TRUE"
  BY <1>2 DEF IsRestingMonitorStep
<1>4. StepRule(level.rules[k], step.rules[k], step.date, step.eligible).afterOpen.triggerDate
        # step.date
  BY <1>2, <1>3, RestingRuleKeepsTrigger
<1> QED
  BY <1>1, <1>4

LEMMA ReachedBefore ==
  ASSUME NEW K, NEW C, NEW d \in Nat, NEW level, Reached(level, K, C, d),
         NEW step, Shaped(step, K, C), d < step.date
  PROVE  /\ level \in Level(K) /\ LevelMatchesRules(level) /\ Before(level, step)
         /\ \A k \in K : level.rules[k].triggerDate < step.date
<1>1. /\ level \in Level(K) /\ LevelMatchesRules(level) /\ DOMAIN level.rules = K
      /\ step \in Step(K)
  BY DEF Reached, Level, Shaped
<1>2. /\ level.since \in Nat /\ step.date \in Nat
      /\ \A k \in K : level.rules[k].since \in Nat /\ level.rules[k].triggerDate \in Nat
  BY <1>1 DEF Level, Rule, Step
<1>3. /\ level.since < step.date
      /\ \A k \in K : /\ level.rules[k].since < step.date
                      /\ level.rules[k].triggerDate < step.date
  BY <1>2 DEF Reached
<1> QED
  BY <1>1, <1>3 DEF Before, Reached, Shaped

\* From a resting session on, a replay of the whole and one that starts there
\* are the same once settled.
LEMMA RestingStart ==
  ASSUME NEW K, NEW C, NEW n \in Nat, NEW b \in Nat, NEW steps, SessionsFrom(steps, n, b, K, C),
         NEW x, Reached(x, K, C, b), NEW y, Reached(y, K, C, b),
         NEW g, IsReplay(g, n, x, steps), NEW h, IsReplay(h, n, y, steps),
         n > 0, IsRestingMonitorStep(steps[1])
  PROVE  \A i \in 1 .. n : Settled(g[i], b + 1) = Settled(h[i], b + 1)
<1> DEFINE a == b + 1
           S == {i \in 0 .. n : i > 0 => /\ Settled(g[i], a) = Settled(h[i], a)
                                         /\ NotFiredOn(g[i], K, a) /\ NotFiredOn(h[i], K, a)}
<1>0. /\ \A i \in 0 .. n : Reached(g[i], K, C, b + i)
      /\ \A i \in 0 .. n : Reached(h[i], K, C, b + i)
  BY ReachedReplay
<1>1. 0 \in S
  OBVIOUS
<1>2. ASSUME NEW i \in 1 .. n, i - 1 \in S, i > 1 PROVE i \in S
  <2>1. /\ Settled(g[i - 1], a) = Settled(h[i - 1], a)
        /\ NotFiredOn(g[i - 1], K, a) /\ NotFiredOn(h[i - 1], K, a)
    BY <1>2
  <2>2. /\ Reached(g[i - 1], K, C, b + (i - 1)) /\ Reached(h[i - 1], K, C, b + (i - 1))
        /\ b + (i - 1) \in Nat /\ a <= b + (i - 1) /\ a \in Nat
    BY <1>0, <1>2
  <2>3. Shaped(steps[i], K, C) /\ b + (i - 1) < steps[i].date
    BY DEF SessionsFrom
  <2>4. /\ g[i] = StepMonitorLevel(g[i - 1], steps[i]).next
        /\ h[i] = StepMonitorLevel(h[i - 1], steps[i]).next
    BY DEF IsReplay
  <2> HIDE DEF a
  <2>5. /\ Settled(g[i], a) = Settled(h[i], a)
        /\ NotFiredOn(g[i], K, a) /\ NotFiredOn(h[i], K, a)
    BY <2>1, <2>2, <2>3, <2>4, LevelsAlike
  <2> QED
    BY <2>5
<1>3. ASSUME NEW i \in 1 .. n, i = 1 PROVE i \in S
  <2>1. /\ Shaped(steps[1], K, C) /\ steps[1].date = a /\ steps[1] \in Step(K) /\ 1 \in 1 .. n
    BY DEF SessionsFrom, Shaped
  <2>2. /\ g[1] = StepMonitorLevel(x, steps[1]).next
        /\ h[1] = StepMonitorLevel(y, steps[1]).next
    BY <2>1 DEF IsReplay
  <2>3. ASSUME NEW l, Reached(l, K, C, b)
        PROVE  /\ l \in Level(K) /\ LevelMatchesRules(l) /\ Before(l, steps[1])
               /\ NotFiredOn(StepMonitorLevel(l, steps[1]).next, K, a)
    <3>1. b < steps[1].date
      BY <2>1
    <3>2. /\ l \in Level(K) /\ LevelMatchesRules(l) /\ Before(l, steps[1])
          /\ \A k \in K : l.rules[k].triggerDate < steps[1].date
      BY <2>1, <2>3, <3>1, ReachedBefore
    <3> QED
      BY <2>1, <3>2, RestingFiresNothing
  <2>4. Settled(g[1], a) = Settled(h[1], a)
    BY <2>1, <2>2, <2>3, RestingSessionForgets DEF Settled
  <2> HIDE DEF a
  <2> QED
    BY <1>3, <2>2, <2>3, <2>4
<1> HIDE DEF S
<1>4. \A i \in 0 .. n : i \in S
  <2>1. \A i \in 1 .. n : i - 1 \in S => i \in S
    BY <1>2, <1>3
  <2> QED
    BY <1>1, <2>1, Climb
<1> QED
  BY <1>4 DEF S

\* What a reconstruction from the sessions cut .. n finds, when it is exact.
ExactFrom(steps, n, K, cut) ==
  LET whole == ReplayMonitorLevel(steps, Initial(K))
      r == ReconstructMonitorLevel([i \in 1 .. (n - cut) |-> steps[cut + i - 1]],
                                   steps[n], cut = 1)
  IN r.exact => r.lifecycle = IF r.anchor = 0 THEN whole
                              ELSE SettleMonitorLevelLifecycle(whole, r.anchor)

(* A reconstruction that calls itself exact is: wherever the history before  *)
(* the live session is cut, reconstructMonitorLevel finds what the replay of *)
(* every session finds, settled at the session it settled at itself.         *)
THEOREM ReconstructionExact ==
  ASSUME NEW K, NEW C, NEW n \in Nat \ {0}, NEW steps, SessionsFrom(steps, n, 0, K, C),
         NEW cut \in 1 .. n
  PROVE  ExactFrom(steps, n, K, cut)
<1> DEFINE whole == ReplayMonitorLevel(steps, Initial(K))
           history == [i \in 1 .. (n - cut) |-> steps[cut + i - 1]]
           live == steps[n]
           r == ReconstructMonitorLevel(history, live, cut = 1)
           resting == {i \in 1 .. Len(history) : IsRestingMonitorStep(history[i])}
           start == IF resting = {} THEN 0
                    ELSE CHOOSE i \in resting : \A j \in resting : j <= i
           from == IF start = 0 THEN cut ELSE cut + start - 1
           tail == [i \in 1 .. (n - from) |-> steps[from + i - 1]]
           anchor == IF start > 0 THEN history[start].date
                     ELSE IF IsRestingMonitorStep(live) THEN live.date ELSE 0
<1> SUFFICES r.exact => r.lifecycle = IF r.anchor = 0 THEN whole
                                       ELSE SettleMonitorLevelLifecycle(whole, r.anchor)
  BY DEF ExactFrom
<1>1. /\ DOMAIN steps = 1 .. n
      /\ \A i \in 1 .. n : /\ steps[i] \in Step(K) /\ Shaped(steps[i], K, C)
                           /\ steps[i].date = i
  BY DEF SessionsFrom, Shaped
<1>2. Len(history) = n - cut /\ n - cut \in Nat
  OBVIOUS
<1>3. start \in 0 .. (n - cut) /\ (start > 0 => IsRestingMonitorStep(history[start]))
  <2>1. CASE resting = {}
    <3>1. start = 0
      BY <2>1
    <3> HIDE DEF start
    <3> QED
      BY <1>2, <3>1
  <2>2. CASE resting # {}
    <3>1. \E i \in resting : \A j \in resting : j <= i
      <4>1. resting \in SUBSET (1 .. (n - cut))
        BY <1>2
      <4>2. Max(resting) \in resting /\ \A j \in resting : j <= Max(resting)
        BY <1>2, <2>2, <4>1, MaxInInterval
      <4> QED
        BY <4>2
    <3>2. start \in resting
      BY <2>2, <3>1
    <3> QED
      BY <1>2, <3>2
  <2> QED
    BY <2>1, <2>2
<1> HIDE DEF start
<1>4. from \in cut .. n
  BY <1>3
<1>5. SubSeq(history, IF start = 0 THEN 1 ELSE start, Len(history)) = tail
  <2>1. CASE start = 0
    BY <1>2, <2>1
  <2>2. CASE start # 0
    BY <1>2, <1>3, <2>2
  <2> QED
    BY <2>1, <2>2
<1> DEFINE m == n - from + 1
           all == [i \in 1 .. m |-> steps[from + i - 1]]
<1>6. SessionsFrom(all, m, from - 1, K, C) /\ m \in Nat \ {0} /\ from - 1 \in Nat
  <2>1. \A i \in 1 .. m : from + i - 1 \in 1 .. n /\ all[i] = steps[from + i - 1]
    BY <1>4
  <2> HIDE DEF from
  <2> QED
    BY <1>1, <1>4, <2>1 DEF SessionsFrom
<1>7. /\ Initial(K) \in Stable(K) /\ Reached(Initial(K), K, C, 0)
      /\ Reached(Initial(K), K, C, from - 1)
  BY <1>6, StableSteps, InitialReached
<1>8. PICK h : IsReplay(h, n, Initial(K), steps) /\ h[n] = whole
  BY <1>1, <1>7, ReplayOf
<1>9. \A i \in 0 .. n : Reached(h[i], K, C, i)
  <2>1. \A i \in 0 .. n : Reached(h[i], K, C, 0 + i)
    BY <1>7, <1>8, ReachedReplay
  <2> QED
    BY <2>1
<1>10. PICK g : IsReplay(g, m, Initial(K), all)
  <2>1. \A i \in 1 .. m : all[i] \in Step(K)
    BY <1>6 DEF SessionsFrom, Shaped
  <2>2. DOMAIN all = 1 .. m
    OBVIOUS
  <2> HIDE DEF all, m
  <2> QED
    BY <1>6, <1>7, <2>1, <2>2, ReplayOf
<1>11. ReplayMonitorLevel(tail, Initial(K)) = g[m - 1]
  <2>1. \A i \in 1 .. m : all[i] \in Step(K)
    BY <1>6 DEF SessionsFrom, Shaped
  <2> DEFINE l == m - 1
  <2>2. /\ DOMAIN all = 1 .. m /\ m \in Nat /\ l \in Nat /\ l <= m
        /\ DOMAIN tail = 1 .. l /\ \A i \in 1 .. l : tail[i] = all[0 + i]
    BY <1>4
  <2> HIDE DEF all, m, tail, l
  <2>3. Stretch(tail, l, all, m, 0, K)
    BY <2>1, <2>2 DEF Stretch
  <2>4. ReplayMonitorLevel(tail, g[0]) = g[0 + l]
    BY <1>7, <1>10, <2>3, ReplayOfStretch
  <2>5. g[0] = Initial(K) /\ 0 + l = l
    BY <1>10, <2>2 DEF IsReplay
  <2> QED
    BY <2>4, <2>5 DEF l
<1>12. all[m] = live /\ all[1] = steps[from] /\ live.date = n /\ Shaped(live, K, C)
       /\ DOMAIN live.rules = K
  <2>1. from + m - 1 = n /\ from + 1 - 1 = from /\ m \in 1 .. m /\ 1 \in 1 .. m /\ n \in 1 .. n
    BY <1>4
  <2> HIDE DEF from, m
  <2>2. all[m] = steps[from + m - 1] /\ all[1] = steps[from + 1 - 1]
    BY <2>1
  <2>3. Shaped(live, K, C) /\ live.date = n /\ live \in Step(K)
    BY <1>1, <2>1
  <2>4. DOMAIN live.rules = K
    BY <2>3 DEF Step
  <2> QED
    BY <2>1, <2>2, <2>3, <2>4
<1>13. StepMonitorLevel(g[m - 1], live).next = g[m]
  <2>1. m \in 1 .. m
    BY <1>6
  <2> HIDE DEF all, m, live
  <2> QED
    BY <1>10, <1>12, <2>1 DEF IsReplay
<1>14. /\ r.exact <=> (anchor > 0 \/ cut = 1)
       /\ r.anchor = anchor
       /\ r.lifecycle = IF anchor = 0 THEN g[m] ELSE SettleMonitorLevelLifecycle(g[m], anchor)
  <2> DEFINE before == ReplayMonitorLevel(SubSeq(history, IF start = 0 THEN 1 ELSE start,
                                                 Len(history)), Initial(DOMAIN live.rules))
             result == StepMonitorLevel(before, live)
  <2>1. r = [exact |-> anchor > 0 \/ cut = 1,
             lifecycle |-> IF anchor = 0 THEN result.next
                           ELSE SettleMonitorLevelLifecycle(result.next, anchor),
             live |-> result, anchor |-> anchor]
    BY DEF ReconstructMonitorLevel, start
  <2>2. before = g[m - 1]
    BY <1>5, <1>11, <1>12
  <2>3. result.next = g[m]
    BY <1>13, <2>2
  <2> HIDE DEF before, result, anchor, m, r
  <2> QED
    BY <2>1, <2>3
<1>15. h[n] = StepMonitorLevel(h[n - 1], live).next
  <2>1. n \in 1 .. n
    OBVIOUS
  <2> QED
    BY <1>8, <2>1 DEF IsReplay
<1>16. Reached(g[m - 1], K, C, n - 1) /\ Reached(h[n - 1], K, C, n - 1)
  <2>1. \A i \in 0 .. m : Reached(g[i], K, C, (from - 1) + i)
    <3> HIDE DEF all, m, from
    <3> QED
      BY <1>6, <1>7, <1>10, ReachedReplay
  <2>2. (from - 1) + (m - 1) = n - 1 /\ m - 1 \in 0 .. m /\ n - 1 \in 0 .. n
    BY <1>4
  <2> HIDE DEF m, from
  <2> QED
    BY <1>9, <2>1, <2>2
\* A session of the history rests.
<1>17. CASE start > 0
  <2>1. /\ from = cut + start - 1 /\ from < n /\ history[start] = steps[from]
        /\ from \in 1 .. n
    BY <1>3, <1>17
  <2>2. anchor = from /\ IsRestingMonitorStep(all[1]) /\ from > 0
    BY <1>1, <1>3, <1>12, <1>17, <2>1
  <2> DEFINE f == [i \in 0 .. m |-> h[from - 1 + i]]
  <2>3. IsReplay(f, m, h[from - 1], all)
    <3>1. f[0] = h[from - 1]
      BY <1>6
    <3>2. ASSUME NEW i \in 1 .. m PROVE f[i] = StepMonitorLevel(f[i - 1], all[i]).next
      <4>1. /\ f[i] = h[from - 1 + i] /\ f[i - 1] = h[from - 1 + (i - 1)]
            /\ all[i] = steps[from + i - 1]
            /\ from + i - 1 \in 1 .. n /\ from - 1 + i = from + i - 1
            /\ from - 1 + (i - 1) = (from + i - 1) - 1
        BY <1>4
      <4> HIDE DEF f, all, m
      <4> QED
        BY <1>8, <4>1 DEF IsReplay
    <3> HIDE DEF f, all, m
    <3> QED
      BY <3>1, <3>2 DEF IsReplay
  <2>4. Reached(h[from - 1], K, C, from - 1)
    BY <1>9, <2>1
  <2>5. f[m] = h[n] /\ m \in 1 .. m /\ m > 0 /\ m \in Nat /\ (from - 1) + 1 = from
    <3>0. from \in 1 .. n /\ m = n - from + 1
      BY <1>4
    <3> HIDE DEF m, from
    <3>1. from - 1 + m = n /\ m \in 0 .. m /\ m \in 1 .. m /\ m > 0 /\ (from - 1) + 1 = from
      BY <3>0
    <3> QED
      BY <3>1
  <2> HIDE DEF f, all, m, from
  <2>6. Settled(g[m], from) = Settled(f[m], from)
    <3>1. \A i \in 1 .. m : Settled(g[i], (from - 1) + 1) = Settled(f[i], (from - 1) + 1)
      BY <1>6, <1>7, <1>10, <2>2, <2>3, <2>4, <2>5, RestingStart
    <3> QED
      BY <2>5, <3>1
  <2> HIDE DEF anchor, r
  <2> QED
    BY <1>8, <1>14, <2>2, <2>5, <2>6 DEF Settled
\* Only the live session does.
<1>18. CASE start = 0 /\ IsRestingMonitorStep(live)
  <2>1. anchor = n
    BY <1>12, <1>18
  <2>2. n - 1 \in Nat /\ n - 1 < live.date
    BY <1>12
  <2> HIDE DEF live, m, anchor, r
  <2>3. \A l : Reached(l, K, C, n - 1) =>
          l \in Level(K) /\ LevelMatchesRules(l) /\ Before(l, live)
    BY <1>12, <2>2, ReachedBefore
  <2>4. SettleMonitorLevelLifecycle(g[m], n) = SettleMonitorLevelLifecycle(h[n], n)
    <3>1. live \in Step(K)
      BY <1>12 DEF Shaped
    <3> QED
      BY <1>12, <1>13, <1>15, <1>16, <1>18, <2>3, <3>1, RestingSessionForgets
  <2> QED
    BY <1>8, <1>14, <2>1, <2>4
\* None does: the history is the whole of it.
<1>19. CASE start = 0 /\ ~IsRestingMonitorStep(live)
  <2>1. anchor = 0
    BY <1>19
  <2> SUFFICES ASSUME cut = 1 PROVE g[m] = h[n]
    BY <1>8, <1>14, <2>1
  <2> DEFINE l == n - 1
  <2>2. /\ from = 1 /\ l \in Nat /\ l <= n /\ DOMAIN tail = 1 .. l
        /\ \A i \in 1 .. l : tail[i] = steps[0 + i]
    BY <1>19
  <2> HIDE DEF tail, m, live, l
  <2>3. Stretch(tail, l, steps, n, 0, K)
    BY <1>1, <2>2 DEF Stretch
  <2>4. ReplayMonitorLevel(tail, h[0]) = h[0 + l]
    BY <1>7, <1>8, <2>3, ReplayOfStretch
  <2>5. h[0] = Initial(K) /\ 0 + l = l
    BY <1>8, <2>2 DEF IsReplay
  <2> QED
    BY <1>11, <1>13, <1>15, <2>2, <2>4, <2>5 DEF l
<1> QED
  BY <1>3, <1>17, <1>18, <1>19

-----------------------------------------------------------------------------
(* Levels that no later session tells apart.                                *)

\* What is current of two levels is the same.
SameCurrent(x, y) ==
  \/ x.state = y.state /\ x.since = y.since
  \/ AtRest(x.state) /\ AtRest(y.state)

\* The rules of two levels are the same once settled at a, where none fired.
SameFrom(x, y, K, a) ==
  /\ NotFiredOn(x, K, a) /\ NotFiredOn(y, K, a)
  /\ \A k \in K : SettledRule(x.rules[k], a) = SettledRule(y.rules[k], a)

\* Two levels as sessions up to d leave them that stand at the same, and whose
\* rules are the same or are so once settled at a session there was.
Alike(x, y, K, C, d) ==
  /\ Reached(x, K, C, d) /\ Reached(y, K, C, d) /\ SameCurrent(x, y)
  /\ x.rules = y.rules \/ \E a \in 0 .. d : SameFrom(x, y, K, a)

\* The rules of two such levels move alike on a later session.
LEMMA SameFromStep ==
  ASSUME NEW K, NEW C, NEW a \in Nat, NEW d \in Nat, a <= d,
         NEW x, Reached(x, K, C, d), NEW y, Reached(y, K, C, d), SameFrom(x, y, K, a),
         NEW step, Shaped(step, K, C), d < step.date, NEW k \in K
  PROVE  LET rx == StepRule(x.rules[k], step.rules[k], step.date, step.eligible)
             ry == StepRule(y.rules[k], step.rules[k], step.date, step.eligible)
         IN /\ SettledRule(rx.afterOpen, a) = SettledRule(ry.afterOpen, a)
            /\ rx.afterOpen.triggerDate # a /\ ry.afterOpen.triggerDate # a
            /\ MoveAlike(rx, ry)
<1>1. x \in Level(K) /\ y \in Level(K) /\ step \in Step(K)
  BY DEF Reached, Shaped
<1>2. /\ x.rules[k] \in Rule /\ y.rules[k] \in Rule /\ step.rules[k] \in Observed
      /\ step.date \in Nat /\ step.eligible \in BOOLEAN /\ a < step.date
  BY <1>1 DEF Level, Step
<1>3. /\ x.rules[k].triggerDate <= x.rules[k].since /\ x.rules[k].since < step.date
      /\ y.rules[k].triggerDate <= y.rules[k].since /\ y.rules[k].since < step.date
  <2>1. x.rules[k].since \in Nat /\ y.rules[k].since \in Nat
    BY <1>2 DEF Rule
  <2> QED
    BY <1>2, <2>1 DEF Reached
<1>4. /\ x.rules[k].triggerDate # a /\ y.rules[k].triggerDate # a
      /\ SettledRule(x.rules[k], a) = SettledRule(y.rules[k], a)
  BY DEF SameFrom, NotFiredOn
<1> QED
  BY <1>2, <1>3, <1>4, RulesAlike DEF MoveAlike

\* A later session leaves alike levels alike.
LEMMA AlikeStep ==
  ASSUME NEW K, NEW C, NEW d \in Nat, NEW x, NEW y, Alike(x, y, K, C, d),
         NEW step, Shaped(step, K, C), d < step.date
  PROVE  Alike(StepMonitorLevel(x, step).next, StepMonitorLevel(y, step).next, K, C, step.date)
<1> DEFINE rx == RuleSteps(x, step)
           ry == RuleSteps(y, step)
           nx == StepMonitorLevel(x, step).next
           ny == StepMonitorLevel(y, step).next
           e == step.date
<1>1. /\ x \in Level(K) /\ y \in Level(K) /\ step \in Step(K)
      /\ Reached(x, K, C, d) /\ Reached(y, K, C, d) /\ SameCurrent(x, y)
      /\ x.rules = y.rules \/ \E a \in 0 .. d : SameFrom(x, y, K, a)
  BY DEF Alike, Reached, Shaped
<1>2. /\ DOMAIN x.rules = K /\ DOMAIN y.rules = K
      /\ x.state \in LifecycleStates /\ y.state \in LifecycleStates /\ e \in Nat
  BY <1>1 DEF Level, Step
<1>3. x.state = y.state \/ (AtRest(x.state) /\ AtRest(y.state))
  BY <1>1 DEF SameCurrent
<1>4. Reached(nx, K, C, e) /\ Reached(ny, K, C, e)
  BY <1>1, ReachedStep
<1>5. DOMAIN rx = K /\ DOMAIN ry = K
  BY <1>2 DEF RuleSteps
<1>6. /\ nx = [state |-> IF Moves(x.state, rx) THEN OpenedTo(x.state, rx) ELSE x.state,
               since |-> IF Moves(x.state, rx) THEN e ELSE x.since,
               rules |-> [k \in K |-> rx[k].afterOpen]]
      /\ ny = [state |-> IF Moves(y.state, ry) THEN OpenedTo(y.state, ry) ELSE y.state,
               since |-> IF Moves(y.state, ry) THEN e ELSE y.since,
               rules |-> [k \in K |-> ry[k].afterOpen]]
  BY <1>2, StepTakenApart
<1>7. /\ x.rules = y.rules => rx = ry
      /\ \A k \in K :
           /\ rx[k] = StepRule(x.rules[k], step.rules[k], step.date, step.eligible)
           /\ ry[k] = StepRule(y.rules[k], step.rules[k], step.date, step.eligible)
  BY <1>2 DEF RuleSteps
<1> HIDE DEF rx, ry, nx, ny, e
<1>8. CASE x.rules = y.rules
  <2>1. rx = ry
    BY <1>7, <1>8
  <2>2. \A k \in K : MoveAlike(rx[k], ry[k])
    BY <2>1 DEF MoveAlike
  <2>3. /\ Moves(x.state, rx) <=> Moves(y.state, ry)
        /\ Moves(x.state, rx) => OpenedTo(x.state, rx) = OpenedTo(y.state, ry)
    BY <1>2, <1>3, <1>5, <2>2, MovesAlike
  <2>4. SameCurrent(nx, ny)
    BY <1>1, <1>6, <2>3 DEF SameCurrent
  <2>5. nx.rules = ny.rules
    BY <1>6, <2>1
  <2> QED
    BY <1>4, <2>4, <2>5 DEF Alike, nx, ny, e
<1>9. CASE x.rules # y.rules
  <2>1. PICK a \in 0 .. d : SameFrom(x, y, K, a)
    BY <1>1, <1>9
  <2>2. ASSUME NEW k \in K
        PROVE  /\ SettledRule(rx[k].afterOpen, a) = SettledRule(ry[k].afterOpen, a)
               /\ rx[k].afterOpen.triggerDate # a /\ ry[k].afterOpen.triggerDate # a
               /\ MoveAlike(rx[k], ry[k])
    <3>1. a \in Nat /\ a <= d
      BY <2>1
    <3> QED
      BY <1>1, <1>7, <2>1, <3>1, SameFromStep
  <2>3. \A k \in K : MoveAlike(rx[k], ry[k])
    BY <2>2
  <2>4. /\ Moves(x.state, rx) <=> Moves(y.state, ry)
        /\ Moves(x.state, rx) => OpenedTo(x.state, rx) = OpenedTo(y.state, ry)
    BY <1>2, <1>3, <1>5, <2>3, MovesAlike
  <2>5. SameCurrent(nx, ny)
    BY <1>1, <1>6, <2>4 DEF SameCurrent
  <2>6. SameFrom(nx, ny, K, a)
    BY <1>6, <2>2 DEF SameFrom, NotFiredOn
  <2>7. a \in 0 .. e
    BY <1>2, <2>1 DEF e
  <2> QED
    BY <1>4, <2>5, <2>6, <2>7 DEF Alike, nx, ny, e
<1> QED
  BY <1>8, <1>9

\* ... and so do all the sessions of a replay.
LEMMA AlikeReplay ==
  ASSUME NEW K, NEW C, NEW n \in Nat, NEW b \in Nat, NEW steps, SessionsFrom(steps, n, b, K, C),
         NEW x, NEW y, Alike(x, y, K, C, b)
  PROVE  Alike(ReplayMonitorLevel(steps, x), ReplayMonitorLevel(steps, y), K, C, b + n)
<1>1. /\ x \in Stable(K) /\ y \in Stable(K) /\ DOMAIN steps = 1 .. n
      /\ \A i \in 1 .. n : steps[i] \in Step(K)
  BY DEF Alike, Reached, Stable, SessionsFrom, Shaped
<1>2. PICK g : IsReplay(g, n, x, steps) /\ g[n] = ReplayMonitorLevel(steps, x)
  BY <1>1, ReplayOf
<1>3. PICK h : IsReplay(h, n, y, steps) /\ h[n] = ReplayMonitorLevel(steps, y)
  BY <1>1, ReplayOf
<1> DEFINE S == {i \in 0 .. n : Alike(g[i], h[i], K, C, b + i)}
<1>4. 0 \in S
  <2>1. g[0] = x /\ h[0] = y /\ b + 0 = b
    BY <1>2, <1>3 DEF IsReplay
  <2> QED
    BY <2>1
<1>5. ASSUME NEW i \in 1 .. n, i - 1 \in S PROVE i \in S
  <2>1. Alike(g[i - 1], h[i - 1], K, C, b + (i - 1)) /\ b + (i - 1) \in Nat
    BY <1>5
  <2>2. Shaped(steps[i], K, C) /\ steps[i].date = b + i /\ b + (i - 1) < steps[i].date
    BY DEF SessionsFrom
  <2>3. /\ g[i] = StepMonitorLevel(g[i - 1], steps[i]).next
        /\ h[i] = StepMonitorLevel(h[i - 1], steps[i]).next
    BY <1>2, <1>3 DEF IsReplay
  <2>4. Alike(g[i], h[i], K, C, b + i)
    BY <2>1, <2>2, <2>3, AlikeStep
  <2> QED
    BY <2>4
<1> HIDE DEF S
<1>6. \A i \in 0 .. n : i \in S
  BY <1>4, <1>5, Climb
<1>7. n \in S
  BY <1>6
<1> QED
  BY <1>2, <1>3, <1>7 DEF S

\* A rule never says that it last fired on a session that rests.
LEMMA RestingNeverFired ==
  ASSUME NEW K, NEW C, NEW n \in Nat, NEW steps, SessionsFrom(steps, n, 0, K, C),
         NEW a \in 1 .. n, IsRestingMonitorStep(steps[a])
  PROVE  NotFiredOn(ReplayMonitorLevel(steps, Initial(K)), K, a)
<1>1. /\ DOMAIN steps = 1 .. n
      /\ \A i \in 1 .. n : /\ steps[i] \in Step(K) /\ Shaped(steps[i], K, C)
                           /\ steps[i].date = i
  BY DEF SessionsFrom, Shaped
<1>2. Initial(K) \in Stable(K) /\ Reached(Initial(K), K, C, 0)
  BY StableSteps, InitialReached
<1>3. PICK h : IsReplay(h, n, Initial(K), steps) /\ h[n] = ReplayMonitorLevel(steps, Initial(K))
  BY <1>1, <1>2, ReplayOf
<1>4. \A i \in 0 .. n : Reached(h[i], K, C, i)
  <2>1. \A i \in 0 .. n : Reached(h[i], K, C, 0 + i)
    BY <1>2, <1>3, ReachedReplay
  <2> QED
    BY <2>1
<1> DEFINE S == {i \in 0 .. n : i >= a => NotFiredOn(h[i], K, a)}
<1>5. 0 \in S
  OBVIOUS
<1>6. ASSUME NEW i \in 1 .. n, i - 1 \in S PROVE i \in S
  <2>1. /\ Reached(h[i - 1], K, C, i - 1) /\ i - 1 \in Nat
        /\ Shaped(steps[i], K, C) /\ i - 1 < steps[i].date /\ steps[i] \in Step(K)
        /\ steps[i].date = i
    BY <1>1, <1>4
  <2>2. h[i] = StepMonitorLevel(h[i - 1], steps[i]).next
    BY <1>3 DEF IsReplay
  <2>3. CASE i < a
    BY <2>3
  <2>4. CASE i = a
    <3>1. h[i - 1] \in Level(K) /\ \A k \in K : h[i - 1].rules[k].triggerDate < steps[i].date
      BY <2>1, ReachedBefore
    <3>2. NotFiredOn(h[i], K, steps[i].date)
      BY <2>1, <2>2, <2>4, <3>1, RestingFiresNothing
    <3> QED
      BY <2>1, <2>4, <3>2
  <2>5. CASE i > a
    <3>1. NotFiredOn(h[i - 1], K, a) /\ a \in Nat /\ a <= i - 1
      BY <1>6, <2>5
    <3>2. NotFiredOn(h[i], K, a)
      BY <2>1, <2>2, <3>1, LevelsAlike
    <3> QED
      BY <3>2
  <2> QED
    BY <2>3, <2>4, <2>5
<1> HIDE DEF S
<1>7. \A i \in 0 .. n : i \in S
  BY <1>5, <1>6, Climb
<1>8. n \in S
  BY <1>7
<1> QED
  BY <1>3, <1>8 DEF S

\* A reconstruction settles at a session that rests, or nowhere.
LEMMA AnchorRests ==
  ASSUME NEW n \in Nat \ {0}, NEW steps, \A i \in 1 .. n : steps[i].date = i, NEW complete
  PROVE  LET r == ReconstructMonitorLevel([i \in 1 .. (n - 1) |-> steps[i]], steps[n], complete)
         IN \/ r.anchor = 0
            \/ r.anchor \in 1 .. n /\ IsRestingMonitorStep(steps[r.anchor])
<1> DEFINE history == [i \in 1 .. (n - 1) |-> steps[i]]
           live == steps[n]
           r == ReconstructMonitorLevel(history, live, complete)
           resting == {i \in 1 .. Len(history) : IsRestingMonitorStep(history[i])}
           start == IF resting = {} THEN 0
                    ELSE CHOOSE i \in resting : \A j \in resting : j <= i
           anchor == IF start > 0 THEN history[start].date
                     ELSE IF IsRestingMonitorStep(live) THEN live.date ELSE 0
<1>1. r.anchor = anchor
  BY DEF ReconstructMonitorLevel
<1>2. Len(history) = n - 1 /\ n - 1 \in Nat
  OBVIOUS
<1>3. start \in 0 .. (n - 1) /\ (start > 0 => IsRestingMonitorStep(history[start]))
  <2>1. CASE resting = {}
    <3>1. start = 0
      BY <2>1
    <3> HIDE DEF start
    <3> QED
      BY <1>2, <3>1
  <2>2. CASE resting # {}
    <3>1. \E i \in resting : \A j \in resting : j <= i
      <4>1. resting \in SUBSET (1 .. (n - 1))
        BY <1>2
      <4>2. Max(resting) \in resting /\ \A j \in resting : j <= Max(resting)
        BY <1>2, <2>2, <4>1, MaxInInterval
      <4> QED
        BY <4>2
    <3>2. start \in resting
      BY <2>2, <3>1
    <3> HIDE DEF start
    <3> QED
      BY <1>2, <3>2
  <2> QED
    BY <2>1, <2>2
<1> HIDE DEF start, r
<1>4. CASE start > 0
  <2>1. start \in 1 .. n /\ history[start] = steps[start]
    BY <1>3, <1>4
  <2>2. anchor = start
    BY <1>4, <2>1
  <2> QED
    BY <1>1, <1>3, <1>4, <2>1, <2>2 DEF r
<1>5. CASE start = 0
  <2>1. anchor = IF IsRestingMonitorStep(live) THEN n ELSE 0
    BY <1>5
  <2> QED
    BY <1>1, <2>1 DEF r
<1> QED
  BY <1>3, <1>4, <1>5

\* What is reconstructed of n sessions with the whole of the history before.
FromWhole(r, steps, n) ==
  r = ReconstructMonitorLevel([i \in 1 .. (n - 1) |-> steps[i]], steps[n], TRUE)

\* It is the level that a replay makes, settled at the anchor if there is one.
SettledAtAnchor(r, whole) ==
  r.lifecycle = IF r.anchor = 0 THEN whole ELSE SettleMonitorLevelLifecycle(whole, r.anchor)

LEMMA WholeReconstructed ==
  ASSUME NEW K, NEW C, NEW n \in Nat \ {0}, NEW steps, SessionsFrom(steps, n, 0, K, C),
         NEW r, FromWhole(r, steps, n)
  PROVE  SettledAtAnchor(r, ReplayMonitorLevel(steps, Initial(K)))
<1> DEFINE history == [i \in 1 .. (n - 1) |-> steps[i]]
           whole == ReplayMonitorLevel(steps, Initial(K))
<1>1. PICK cut \in 1 .. n : cut = 1
  OBVIOUS
<1> DEFINE tail == [i \in 1 .. (n - cut) |-> steps[cut + i - 1]]
           s == ReconstructMonitorLevel(tail, steps[n], cut = 1)
<1>2. s.exact => s.lifecycle = IF s.anchor = 0 THEN whole
                               ELSE SettleMonitorLevelLifecycle(whole, s.anchor)
  <2>1. ExactFrom(steps, n, K, cut)
    BY ReconstructionExact
  <2> QED
    BY <2>1 DEF ExactFrom
<1>3. tail = history /\ (cut = 1) = TRUE
  BY <1>1
<1> HIDE DEF tail
<1>4. s = r
  BY <1>3 DEF FromWhole
<1>5. s.exact
  BY <1>1 DEF ReconstructMonitorLevel
<1> HIDE DEF s
<1> QED
  BY <1>2, <1>4, <1>5 DEF SettledAtAnchor

\* A replay goes on where the replay of the sessions before ended.
LEMMA ReplayGoesOn ==
  ASSUME NEW K, NEW n, NEW m, NEW steps, NEW first, Stretch(first, m, steps, n, 0, K),
         NEW rest, Stretch(rest, n - m, steps, n, m, K), NEW initial \in Stable(K)
  PROVE  ReplayMonitorLevel(steps, initial) =
           ReplayMonitorLevel(rest, ReplayMonitorLevel(first, initial))
<1>1. /\ n \in Nat /\ DOMAIN steps = 1 .. n /\ \A i \in 1 .. n : steps[i] \in Step(K)
      /\ 0 + m = m /\ m + (n - m) = n
  BY DEF Stretch
<1>2. PICK h : IsReplay(h, n, initial, steps) /\ h[n] = ReplayMonitorLevel(steps, initial)
  BY <1>1, ReplayOf
<1>3. ReplayMonitorLevel(rest, h[m]) = h[m + (n - m)]
  BY <1>2, ReplayOfStretch
<1>4. ReplayMonitorLevel(first, h[0]) = h[0 + m]
  BY <1>2, ReplayOfStretch
<1>5. h[0] = initial
  BY <1>2 DEF IsReplay
<1> QED
  BY <1>1, <1>2, <1>3, <1>4, <1>5
=============================================================================
