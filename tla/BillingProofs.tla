---------------------------- MODULE BillingProofs ----------------------------
(***************************************************************************)
(* What TLAPS proves of one account's billing for any number of requests,  *)
(* webhooks, prices and faults.                                            *)
(***************************************************************************)
EXTENDS Billing, FiniteSetTheorems, WellFoundedInduction, TLAPS

\* A set of subscriptions that is not empty has an oldest and a newest member,
\* so that chooseCanonicalSubscription finds what it sorts for.
LEMMA OldestAndNewest ==
  ASSUME NEW S \in SUBSET Ids, S # {}
  PROVE  Oldest(S) \in S /\ Newest(S) \in S
<1> USE BillingAssumption DEF Ids
<1>1. \E s \in S : \A t \in S : s <= t
  <2>1. S \subseteq Nat
    OBVIOUS
  <2>2. PICK s \in S : \A t \in S : ~(<<t, s>> \in OpToRel(<, Nat))
    BY <2>1, NatLessThanWellFounded, WFMin
  <2>3. \A t \in S : ~(t < s)
    BY <2>1, <2>2 DEF OpToRel
  <2> QED
    BY <2>1, <2>3
<1>2. \E s \in S : \A t \in S : t <= s
  <2> DEFINE T == {MaxSubs - s : s \in S}
  <2>1. T \subseteq Nat /\ T # {}
    <3>1. \A s \in S : s \in 1 .. MaxSubs /\ MaxSubs - s \in Nat
      OBVIOUS
    <3> QED
      BY <3>1
  <2>2. PICK m \in T : \A n \in T : ~(<<n, m>> \in OpToRel(<, Nat))
    BY <2>1, NatLessThanWellFounded, WFMin
  <2>3. \A n \in T : ~(n < m)
    BY <2>1, <2>2 DEF OpToRel
  <2>4. PICK s \in S : m = MaxSubs - s
    BY <2>2
  <2>5. ASSUME NEW t \in S PROVE t <= s
    <3>1. MaxSubs - t \in T
      OBVIOUS
    <3>2. ~(MaxSubs - t < MaxSubs - s)
      BY <2>3, <2>4, <3>1
    <3>3. s \in Nat /\ t \in Nat
      OBVIOUS
    <3> HIDE DEF T
    <3> QED
      BY <3>2, <3>3
  <2> QED
    BY <2>5
<1> QED
  BY <1>1, <1>2 DEF Oldest, Newest

\* What a reconciliation writes is a row, or nothing.
LEMMA DesiredType ==
  ASSUME NEW all \in [Ids -> Subscription], mirror \in {None} \cup Row
  PROVE  Desired(all) \in {None} \cup Row
<1> DEFINE s == Canonical(all, Mirrored)
<1>1. s \in Ids \cup {0}
  BY OldestAndNewest DEF Canonical
<1>2. ASSUME s \in Ids PROVE Describe(all, s) \in Row
  <2>1. all[s] \in Subscription
    BY <1>2
  <2> QED
    BY <1>2, <2>1 DEF Describe, Row, Subscription
<1> QED
  BY <1>1, <1>2 DEF Desired

\* The subscription a plan change is about is one Stripe was asked for.
ChangeSteps == {"LOAD", "RELEASE_PENDING", "UPDATE", "ATTACH", "SET_PHASES", "COMMIT_CHANGE"}

SubjectOK == \A h \in Handlers : pc[h] \in ChangeSteps => subject[h] \in Ids

Typed == TypeOK /\ SubjectOK

\* The parts of a step that several actions share keep the types.
LEMMA LeaveType ==
  ASSUME Typed, NEW h \in Handlers, Leave(h)
  PROVE  RequestTypeOK' /\ SubjectOK'
<1>1. NoSubscription \in Subscription /\ AnyPrice \in Prices
  BY BillingAssumption DEF NoSubscription, Subscription, Statuses, AnyPrice
<1>2. pc' \in [Handlers -> Steps] /\ event' \in [Handlers -> Nat \cup {None}]
  BY DEF Typed, TypeOK, RequestTypeOK, Leave, Goto, Steps
<1>3. seen' \in [Handlers -> [Ids -> Subscription]] /\ seenRev' \in [Handlers -> Nat]
  BY <1>1 DEF Typed, TypeOK, RequestTypeOK, Leave
<1>4. /\ target' \in [Handlers -> Prices] /\ subject' \in [Handlers -> Ids \cup {0}]
      /\ sched' \in [Handlers -> Nat \cup {None}] /\ tickets' \in [Handlers -> SUBSET Tickets]
  BY <1>1 DEF Typed, TypeOK, RequestTypeOK, Leave
<1>5. SubjectOK'
  BY DEF Typed, TypeOK, RequestTypeOK, SubjectOK, ChangeSteps, Leave, Goto
<1> QED
  BY <1>2, <1>3, <1>4, <1>5 DEF RequestTypeOK

LEMMA ChangeSubType ==
  ASSUME StripeTypeOK, NEW s, NEW new \in Subscription, ChangeSub(s, new)
  PROVE  subs' \in [Ids -> Subscription] /\ rev' \in Nat /\ unacked' \in SUBSET Nat
<1>1. subs' \in [Ids -> Subscription]
  BY DEF StripeTypeOK, ChangeSub
<1>2. rev' \in Nat
  BY DEF StripeTypeOK, ChangeSub, Emit
<1>3. unacked' \in SUBSET Nat
  BY DEF StripeTypeOK, ChangeSub, Emit
<1> QED
  BY <1>1, <1>2, <1>3

LEMMA ReleaseScheduleType ==
  ASSUME StripeTypeOK, NEW id, ReleaseSchedule(id)
  PROVE  subs' \in [Ids -> Subscription] /\ rev' \in Nat /\ unacked' \in SUBSET Nat
<1>1. ASSUME NEW s \in Ids
      PROVE  [subs[s] EXCEPT !.schedule = None, !.pending = None] \in Subscription
  <2>1. subs[s] \in Subscription
    BY DEF StripeTypeOK
  <2> QED
    BY <2>1 DEF Subscription
<1> QED
  BY <1>1, ChangeSubType DEF ReleaseSchedule, StripeTypeOK

\* No step of a request, of a delivery or of Stripe breaks the types.
LEMMA TypeStep == Typed /\ [Next]_vars => Typed'
<1> SUFFICES ASSUME Typed, [Next]_vars PROVE Typed'
  OBVIOUS
<1> USE BillingAssumption
<1> USE DEF stripeVars, rowVars, readVars, argVars, boundVars, Goto, TakeLock, Unlock
<1>1. NoSubscription \in Subscription
  BY DEF NoSubscription, Subscription, Statuses, AnyPrice
<1>2. ASSUME NEW h \in Handlers, NEW e \in unacked, Deliver(h, e) PROVE Typed'
  <2>1. StripeTypeOK'
    BY <1>2 DEF Typed, TypeOK, StripeTypeOK, Deliver
  <2>2. RowTypeOK'
    BY <1>2 DEF Typed, TypeOK, RowTypeOK, Deliver
  <2>3. e \in Nat
    BY DEF Typed, TypeOK, StripeTypeOK
  <2>4. RequestTypeOK' /\ SubjectOK'
    BY <1>2, <2>3 DEF Typed, TypeOK, RequestTypeOK, SubjectOK, ChangeSteps, Steps, LockedSteps,
       Deliver
  <2> QED
    BY <1>2, <2>1, <2>2, <2>4 DEF Typed, TypeOK, Deliver
<1>3. ASSUME NEW e \in unacked, DeliverDuplicate(e) PROVE Typed'
  <2>1. StripeTypeOK'
    BY <1>3 DEF Typed, TypeOK, StripeTypeOK, DeliverDuplicate
  <2>2. RowTypeOK'
    BY <1>3 DEF Typed, TypeOK, RowTypeOK, DeliverDuplicate
  <2>3. RequestTypeOK' /\ SubjectOK'
    BY <1>3 DEF Typed, TypeOK, RequestTypeOK, SubjectOK, ChangeSteps, Steps, LockedSteps,
       DeliverDuplicate
  <2> QED
    BY <1>3, <2>1, <2>2, <2>3 DEF Typed, TypeOK, DeliverDuplicate
<1>4. ASSUME NEW h \in Handlers, Refresh(h) PROVE Typed'
  <2>1. StripeTypeOK'
    BY <1>4 DEF Typed, TypeOK, StripeTypeOK, Refresh
  <2>2. RowTypeOK'
    BY <1>4 DEF Typed, TypeOK, RowTypeOK, Refresh
  <2>3. RequestTypeOK' /\ SubjectOK'
    BY <1>4 DEF Typed, TypeOK, RequestTypeOK, SubjectOK, ChangeSteps, Steps, LockedSteps, Refresh
  <2> QED
    BY <1>4, <2>1, <2>2, <2>3 DEF Typed, TypeOK, Refresh
<1>5. ASSUME NEW h \in Handlers, FollowUp(h) PROVE Typed'
  <2>1. StripeTypeOK'
    BY <1>5 DEF Typed, TypeOK, StripeTypeOK, FollowUp
  <2>2. RowTypeOK'
    BY <1>5 DEF Typed, TypeOK, RowTypeOK, FollowUp
  <2>3. RequestTypeOK' /\ SubjectOK'
    BY <1>5 DEF Typed, TypeOK, RequestTypeOK, SubjectOK, ChangeSteps, Steps, LockedSteps, FollowUp
  <2> QED
    BY <1>5, <2>1, <2>2, <2>3 DEF Typed, TypeOK, FollowUp
<1>6. ASSUME NEW h \in Handlers, Read(h) PROVE Typed'
  <2>1. StripeTypeOK'
    BY <1>6 DEF Typed, TypeOK, StripeTypeOK, Read
  <2>2. RowTypeOK'
    BY <1>6 DEF Typed, TypeOK, RowTypeOK, Read
  <2>3. subs \in [Ids -> Subscription] /\ rev \in Nat
    BY DEF Typed, TypeOK, StripeTypeOK
  <2>4. RequestTypeOK' /\ SubjectOK'
    BY <1>6, <2>3 DEF Typed, TypeOK, RequestTypeOK, SubjectOK, ChangeSteps, Steps, LockedSteps, Read
  <2> QED
    BY <1>6, <2>1, <2>2, <2>4 DEF Typed, TypeOK, Read
<1>7. ASSUME NEW h \in Handlers, Commit(h) PROVE Typed'
  <2>1. StripeTypeOK'
    BY <1>7 DEF Typed, TypeOK, StripeTypeOK, Commit, WriteRows
  <2>2. seen[h] \in [Ids -> Subscription] /\ seenRev[h] \in Nat /\ event[h] \in Nat \cup {None}
    BY DEF Typed, TypeOK, RequestTypeOK
  <2>3. Desired(seen[h]) \in {None} \cup Row
    BY <2>2, DesiredType DEF Typed, TypeOK, RowTypeOK
  <2>4. mirror' = Desired(seen[h]) /\ mirrorRev' = seenRev[h]
    BY <1>7 DEF Commit, WriteRows
  <2>5. plan' \in {"FREE", "STARTER", "PRO", "PRO_PLUS"}
    BY <1>7 DEF Commit, WriteRows, EffectivePlan, PlanOf
  <2>6. processed' \in SUBSET Nat
    BY <1>7, <2>2 DEF Typed, TypeOK, RowTypeOK, Commit, WriteRows
  <2>7. RowTypeOK'
    BY <2>2, <2>3, <2>4, <2>5, <2>6 DEF RowTypeOK
  <2>8. /\ pc' = [pc EXCEPT ![h] = "LOOK"]
        /\ seen' = [seen EXCEPT ![h] = [s \in Ids |-> NoSubscription]]
        /\ seenRev' = [seenRev EXCEPT ![h] = 0]
        /\ UNCHANGED <<event, argVars>>
    BY <1>7 DEF Commit, WriteRows
  <2>9. seen' \in [Handlers -> [Ids -> Subscription]]
    BY <2>8, <1>1 DEF Typed, TypeOK, RequestTypeOK
  <2>10. RequestTypeOK' /\ SubjectOK'
    BY <2>8, <2>9 DEF Typed, TypeOK, RequestTypeOK, SubjectOK, ChangeSteps, Steps, LockedSteps
  <2> QED
    BY <1>7, <2>1, <2>7, <2>10 DEF Typed, TypeOK, Commit, WriteRows
<1>8. ASSUME NEW h \in Handlers, Look(h) PROVE Typed'
  <2>1. StripeTypeOK'
    BY <1>8 DEF Typed, TypeOK, StripeTypeOK, Look
  <2>2. RowTypeOK'
    BY <1>8 DEF Typed, TypeOK, RowTypeOK, Look
  <2>3. ASSUME mirror # None /\ mirror.schedule # None /\ mirror.pending = None
        PROVE  RequestTypeOK' /\ SubjectOK'
    <3>1. mirror.schedule \in Nat
      BY <2>3 DEF Typed, TypeOK, RowTypeOK, Row
    <3>2. /\ pc' = [pc EXCEPT ![h] = "RELEASE"] /\ sched' = [sched EXCEPT ![h] = mirror.schedule]
          /\ UNCHANGED <<event, readVars, target, subject, tickets>>
      BY <1>8, <2>3 DEF Look
    <3>3. RequestTypeOK'
      BY <3>1, <3>2 DEF Typed, TypeOK, RequestTypeOK, Steps
    <3>4. SubjectOK'
      BY <3>2 DEF Typed, TypeOK, RequestTypeOK, SubjectOK, ChangeSteps
    <3> QED
      BY <3>3, <3>4
  <2>4. ASSUME ~(mirror # None /\ mirror.schedule # None /\ mirror.pending = None)
        PROVE  RequestTypeOK' /\ SubjectOK'
    BY <1>8, <2>4 DEF Typed, TypeOK, RequestTypeOK, SubjectOK, ChangeSteps, Steps, LockedSteps, Look
  <2>5. RequestTypeOK' /\ SubjectOK'
    BY <2>3, <2>4
  <2> QED
    BY <1>8, <2>1, <2>2, <2>5 DEF Typed, TypeOK, Look
<1>9. ASSUME NEW h \in Handlers, ReleaseSpent(h) PROVE Typed'
  <2>1. StripeTypeOK'
    BY <1>9, ReleaseScheduleType DEF Typed, TypeOK, StripeTypeOK, ReleaseSpent
  <2>2. RowTypeOK'
    BY <1>9 DEF Typed, TypeOK, RowTypeOK, ReleaseSpent
  <2>3. RequestTypeOK' /\ SubjectOK'
    BY <1>9 DEF Typed, TypeOK, RequestTypeOK, SubjectOK, ChangeSteps, Steps, LockedSteps,
       ReleaseSpent
  <2> QED
    BY <1>9, <2>1, <2>2, <2>3 DEF Typed, TypeOK, ReleaseSpent
<1>10. ASSUME NEW h \in Handlers, ReleaseSpentFails(h) PROVE Typed'
  <2>1. StripeTypeOK'
    BY <1>10, ReleaseScheduleType DEF Typed, TypeOK, StripeTypeOK, ReleaseSpentFails
  <2>2. RowTypeOK'
    BY <1>10 DEF Typed, TypeOK, RowTypeOK, ReleaseSpentFails
  <2>3. RequestTypeOK' /\ SubjectOK'
    BY <1>10 DEF Typed, TypeOK, RequestTypeOK, SubjectOK, ChangeSteps, Steps, LockedSteps,
       ReleaseSpentFails
  <2> QED
    BY <1>10, <2>1, <2>2, <2>3 DEF Typed, TypeOK, ReleaseSpentFails
<1>11. ASSUME NEW h \in Handlers, Forget(h) PROVE Typed'
  <2>1. StripeTypeOK'
    BY <1>11 DEF Typed, TypeOK, StripeTypeOK, Forget
  <2>2. ASSUME mirror # None PROVE [mirror EXCEPT !.schedule = None] \in Row
    <3>1. mirror \in Row
      BY <2>2 DEF Typed, TypeOK, RowTypeOK
    <3> QED
      BY <3>1 DEF Row
  <2>3. RowTypeOK'
    BY <1>11, <2>2 DEF Typed, TypeOK, RowTypeOK, Forget
  <2>4. RequestTypeOK' /\ SubjectOK'
    BY <1>11 DEF Typed, TypeOK, RequestTypeOK, SubjectOK, ChangeSteps, Steps, LockedSteps, Forget
  <2> QED
    BY <1>11, <2>1, <2>3, <2>4 DEF Typed, TypeOK, Forget
<1>12. ASSUME NEW h \in Handlers, Answer(h) PROVE Typed'
  <2>1. StripeTypeOK'
    BY <1>12 DEF Typed, TypeOK, StripeTypeOK, Answer
  <2>2. RowTypeOK'
    BY <1>12 DEF Typed, TypeOK, RowTypeOK, Answer
  <2>3. RequestTypeOK' /\ SubjectOK'
    BY <1>12, LeaveType DEF Answer
  <2> QED
    BY <1>12, <2>1, <2>2, <2>3 DEF Typed, TypeOK, Answer
<1>13. ASSUME NEW h \in Handlers, NEW p \in Prices, ChangePlan(h, p) PROVE Typed'
  <2>1. StripeTypeOK'
    BY <1>13 DEF Typed, TypeOK, StripeTypeOK, ChangePlan
  <2>2. RowTypeOK'
    BY <1>13 DEF Typed, TypeOK, RowTypeOK, ChangePlan
  <2>3. mirror.sub \in Ids
    BY <1>13 DEF Typed, TypeOK, RowTypeOK, Row, ChangePlan, HoldsSlot
  <2>4. RequestTypeOK' /\ SubjectOK'
    BY <1>13, <2>3 DEF Typed, TypeOK, RequestTypeOK, SubjectOK, ChangeSteps, Steps, LockedSteps,
       ChangePlan
  <2> QED
    BY <1>13, <2>1, <2>2, <2>4 DEF Typed, TypeOK, ChangePlan
<1>14. ASSUME NEW h \in Handlers, LoadLiveSubscription(h) PROVE Typed'
  <2>1. StripeTypeOK'
    BY <1>14 DEF Typed, TypeOK, StripeTypeOK, LoadLiveSubscription
  <2>2. RowTypeOK'
    BY <1>14 DEF Typed, TypeOK, RowTypeOK, LoadLiveSubscription
  <2>3. subject[h] \in Ids
    BY <1>14 DEF Typed, TypeOK, RequestTypeOK, SubjectOK, ChangeSteps, Steps, LockedSteps,
       LoadLiveSubscription
  <2>4. subs[subject[h]].schedule \in Nat \cup {None}
    BY <2>3 DEF Typed, TypeOK, StripeTypeOK, Subscription
  <2>5. RequestTypeOK' /\ SubjectOK'
    BY <1>14, <2>3, <2>4 DEF Typed, TypeOK, RequestTypeOK, SubjectOK, ChangeSteps, Steps,
       LockedSteps, LoadLiveSubscription
  <2> QED
    BY <1>14, <2>1, <2>2, <2>5 DEF Typed, TypeOK, LoadLiveSubscription
<1>15. ASSUME NEW h \in Handlers, RefuseChange(h) PROVE Typed'
  <2>1. StripeTypeOK'
    BY <1>15 DEF Typed, TypeOK, StripeTypeOK, RefuseChange
  <2>2. RowTypeOK'
    BY <1>15 DEF Typed, TypeOK, RowTypeOK, RefuseChange
  <2>3. RequestTypeOK' /\ SubjectOK'
    BY <1>15, LeaveType DEF RefuseChange
  <2> QED
    BY <1>15, <2>1, <2>2, <2>3 DEF Typed, TypeOK, RefuseChange
<1>16. ASSUME NEW h \in Handlers, ReleasePending(h) PROVE Typed'
  <2>1. StripeTypeOK'
    BY <1>16, ReleaseScheduleType DEF Typed, TypeOK, StripeTypeOK, ReleasePending
  <2>2. RowTypeOK'
    BY <1>16 DEF Typed, TypeOK, RowTypeOK, ReleasePending
  <2>3. RequestTypeOK' /\ SubjectOK'
    BY <1>16 DEF Typed, TypeOK, RequestTypeOK, SubjectOK, ChangeSteps, Steps, LockedSteps,
       ReleasePending
  <2> QED
    BY <1>16, <2>1, <2>2, <2>3 DEF Typed, TypeOK, ReleasePending
<1>17. ASSUME NEW h \in Handlers, UpdatePrice(h) PROVE Typed'
  <2>1. subject[h] \in Ids /\ target[h] \in Prices
    BY <1>17 DEF Typed, TypeOK, RequestTypeOK, SubjectOK, ChangeSteps, UpdatePrice
  <2>2. [subs[subject[h]] EXCEPT !.price = target[h]] \in Subscription
    BY <2>1 DEF Typed, TypeOK, StripeTypeOK, Subscription
  <2>3. StripeTypeOK'
    BY <1>17, <2>2, ChangeSubType DEF Typed, TypeOK, StripeTypeOK, UpdatePrice
  <2>4. RowTypeOK'
    BY <1>17 DEF Typed, TypeOK, RowTypeOK, UpdatePrice
  <2>5. RequestTypeOK' /\ SubjectOK'
    BY <1>17 DEF Typed, TypeOK, RequestTypeOK, SubjectOK, ChangeSteps, Steps, LockedSteps,
       UpdatePrice
  <2> QED
    BY <1>17, <2>3, <2>4, <2>5 DEF Typed, TypeOK, UpdatePrice
<1>18. ASSUME NEW h \in Handlers, AttachSchedule(h) PROVE Typed'
  <2>1. subject[h] \in Ids
    BY <1>18 DEF Typed, TypeOK, RequestTypeOK, SubjectOK, ChangeSteps, Steps, LockedSteps,
       AttachSchedule
  <2>2. /\ subs[subject[h]].schedule \in Nat \cup {None}
        /\ schedules \in Nat /\ schedules + 1 \in Nat
        /\ [subs[subject[h]] EXCEPT !.schedule = schedules + 1] \in Subscription
    BY <2>1 DEF Typed, TypeOK, StripeTypeOK, Subscription
  <2>3. ASSUME subs[subject[h]].schedule # None PROVE StripeTypeOK'
    BY <1>18, <2>3 DEF Typed, TypeOK, StripeTypeOK, AttachSchedule
  <2>4. ASSUME subs[subject[h]].schedule = None PROVE StripeTypeOK'
    BY <1>18, <2>2, <2>4, ChangeSubType DEF Typed, TypeOK, StripeTypeOK, AttachSchedule
  <2>5. StripeTypeOK'
    BY <2>3, <2>4
  <2>6. RowTypeOK'
    BY <1>18 DEF Typed, TypeOK, RowTypeOK, AttachSchedule
  <2>7. \E id \in Nat : sched' = [sched EXCEPT ![h] = id]
    BY <1>18, <2>2 DEF AttachSchedule
  <2>8. pc' = [pc EXCEPT ![h] = "SET_PHASES"] /\ UNCHANGED <<event, readVars, target, subject, tickets>>
    BY <1>18 DEF AttachSchedule
  <2>9. RequestTypeOK' /\ SubjectOK'
    BY <2>1, <2>7, <2>8 DEF Typed, TypeOK, RequestTypeOK, SubjectOK, ChangeSteps, Steps, LockedSteps
  <2> QED
    BY <1>18, <2>5, <2>6, <2>9 DEF Typed, TypeOK, AttachSchedule
<1>19. ASSUME NEW h \in Handlers, SetPhases(h) PROVE Typed'
  <2>1. subject[h] \in Ids /\ target[h] \in Prices
    BY <1>19 DEF Typed, TypeOK, RequestTypeOK, SubjectOK, ChangeSteps, SetPhases
  <2>2. [subs[subject[h]] EXCEPT !.pending = target[h]] \in Subscription
    BY <2>1 DEF Typed, TypeOK, StripeTypeOK, Subscription
  <2>3. StripeTypeOK'
    BY <1>19, <2>2, ChangeSubType DEF Typed, TypeOK, StripeTypeOK, SetPhases
  <2>4. RowTypeOK'
    BY <1>19 DEF Typed, TypeOK, RowTypeOK, SetPhases
  <2>5. RequestTypeOK' /\ SubjectOK'
    BY <1>19 DEF Typed, TypeOK, RequestTypeOK, SubjectOK, ChangeSteps, Steps, LockedSteps, SetPhases
  <2> QED
    BY <1>19, <2>3, <2>4, <2>5 DEF Typed, TypeOK, SetPhases
<1>20. ASSUME NEW h \in Handlers, StripeRefuses(h) PROVE Typed'
  <2>1. StripeTypeOK'
    BY <1>20 DEF Typed, TypeOK, StripeTypeOK, StripeRefuses
  <2>2. RowTypeOK'
    BY <1>20 DEF Typed, TypeOK, RowTypeOK, StripeRefuses
  <2>3. RequestTypeOK' /\ SubjectOK'
    BY <1>20, LeaveType DEF StripeRefuses
  <2> QED
    BY <1>20, <2>1, <2>2, <2>3 DEF Typed, TypeOK, StripeRefuses
<1>21. ASSUME NEW h \in Handlers, CommitChange(h) PROVE Typed'
  <2>1. StripeTypeOK'
    BY <1>21 DEF Typed, TypeOK, StripeTypeOK, CommitChange
  <2>2. RowTypeOK'
    BY <1>21 DEF Typed, TypeOK, RowTypeOK, CommitChange
  <2>3. RequestTypeOK' /\ SubjectOK'
    BY <1>21 DEF Typed, TypeOK, RequestTypeOK, SubjectOK, ChangeSteps, Steps, LockedSteps,
       CommitChange
  <2> QED
    BY <1>21, <2>1, <2>2, <2>3 DEF Typed, TypeOK, CommitChange
<1>22. ASSUME NEW h \in Handlers, NEW p \in Prices, CreateCheckoutSession(h, p) PROVE Typed'
  <2>1. StripeTypeOK'
    BY <1>22 DEF Typed, TypeOK, StripeTypeOK, CreateCheckoutSession
  <2>2. RowTypeOK'
    BY <1>22 DEF Typed, TypeOK, RowTypeOK, CreateCheckoutSession
  <2>3. RequestTypeOK' /\ SubjectOK'
    BY <1>22 DEF Typed, TypeOK, RequestTypeOK, SubjectOK, ChangeSteps, Steps, LockedSteps,
       CreateCheckoutSession
  <2> QED
    BY <1>22, <2>1, <2>2, <2>3 DEF Typed, TypeOK, CreateCheckoutSession
<1>23. ASSUME NEW h \in Handlers, ListSessions(h) PROVE Typed'
  <2>1. StripeTypeOK'
    BY <1>23 DEF Typed, TypeOK, StripeTypeOK, ListSessions
  <2>2. RowTypeOK'
    BY <1>23 DEF Typed, TypeOK, RowTypeOK, ListSessions
  <2>3. RequestTypeOK' /\ SubjectOK'
    BY <1>23 DEF Typed, TypeOK, RequestTypeOK, SubjectOK, ChangeSteps, Steps, LockedSteps,
       ListSessions
  <2> QED
    BY <1>23, <2>1, <2>2, <2>3 DEF Typed, TypeOK, ListSessions
<1>24. ASSUME NEW h \in Handlers, ExpireSessions(h) PROVE Typed'
  <2>1. \A t \in Tickets : [sessions[t] EXCEPT !.status = "EXPIRED"] \in Session
    <3>1. \A t \in Tickets : sessions[t] \in Session
      BY DEF Typed, TypeOK, StripeTypeOK
    <3> QED
      BY <3>1 DEF Session
  <2>2. StripeTypeOK'
    BY <1>24, <2>1 DEF Typed, TypeOK, StripeTypeOK, ExpireSessions
  <2>3. RowTypeOK'
    BY <1>24 DEF Typed, TypeOK, RowTypeOK, ExpireSessions
  <2>4. RequestTypeOK' /\ SubjectOK'
    BY <1>24 DEF Typed, TypeOK, RequestTypeOK, SubjectOK, ChangeSteps, Steps, LockedSteps,
       ExpireSessions
  <2> QED
    BY <1>24, <2>2, <2>3, <2>4 DEF Typed, TypeOK, ExpireSessions
<1>25. ASSUME NEW h \in Handlers, CheckLive(h) PROVE Typed'
  <2>1. StripeTypeOK'
    BY <1>25 DEF Typed, TypeOK, StripeTypeOK, CheckLive
  <2>2. RowTypeOK'
    BY <1>25 DEF Typed, TypeOK, RowTypeOK, CheckLive
  <2>3. RequestTypeOK' /\ SubjectOK'
    BY <1>25 DEF Typed, TypeOK, RequestTypeOK, SubjectOK, ChangeSteps, Steps, LockedSteps, CheckLive
  <2> QED
    BY <1>25, <2>1, <2>2, <2>3 DEF Typed, TypeOK, CheckLive
<1>26. ASSUME NEW h \in Handlers, RefuseCheckout(h) PROVE Typed'
  <2>1. StripeTypeOK'
    BY <1>26 DEF Typed, TypeOK, StripeTypeOK, RefuseCheckout
  <2>2. RowTypeOK'
    BY <1>26 DEF Typed, TypeOK, RowTypeOK, RefuseCheckout
  <2>3. RequestTypeOK' /\ SubjectOK'
    BY <1>26 DEF Typed, TypeOK, RequestTypeOK, SubjectOK, ChangeSteps, Steps, LockedSteps,
       RefuseCheckout
  <2> QED
    BY <1>26, <2>1, <2>2, <2>3 DEF Typed, TypeOK, RefuseCheckout
<1>27. ASSUME NEW h \in Handlers, CreateSession(h) PROVE Typed'
  <2>1. [status |-> "OPEN", price |-> target[h]] \in Session
    BY DEF Typed, TypeOK, RequestTypeOK, Session
  <2>2. StripeTypeOK'
    BY <1>27, <2>1 DEF Typed, TypeOK, StripeTypeOK, CreateSession
  <2>3. RowTypeOK'
    BY <1>27 DEF Typed, TypeOK, RowTypeOK, CreateSession
  <2>4. RequestTypeOK' /\ SubjectOK'
    BY <1>27 DEF Typed, TypeOK, RequestTypeOK, SubjectOK, ChangeSteps, Steps, LockedSteps,
       CreateSession
  <2> QED
    BY <1>27, <2>2, <2>3, <2>4 DEF Typed, TypeOK, CreateSession
<1>28. ASSUME NEW h \in Handlers, CommitCheckout(h) PROVE Typed'
  <2>1. tickets[h] \in SUBSET Tickets
    BY DEF Typed, TypeOK, RequestTypeOK
  <2>2. StripeTypeOK'
    BY <1>28, <2>1 DEF Typed, TypeOK, StripeTypeOK, CommitCheckout
  <2>3. RowTypeOK'
    BY <1>28 DEF Typed, TypeOK, RowTypeOK, CommitCheckout
  <2>4. RequestTypeOK' /\ SubjectOK'
    BY <1>28, LeaveType DEF CommitCheckout
  <2> QED
    BY <1>28, <2>2, <2>3, <2>4 DEF Typed, TypeOK, CommitCheckout
<1>29. ASSUME NEW h \in Handlers, ExpireTransaction(h) PROVE Typed'
  <2>1. StripeTypeOK'
    BY <1>29 DEF Typed, TypeOK, StripeTypeOK, ExpireTransaction
  <2>2. RowTypeOK'
    BY <1>29 DEF Typed, TypeOK, RowTypeOK, ExpireTransaction
  <2>3. RequestTypeOK' /\ SubjectOK'
    BY <1>29 DEF Typed, TypeOK, RequestTypeOK, SubjectOK, ChangeSteps, Steps, LockedSteps,
       ExpireTransaction
  <2> QED
    BY <1>29, <2>1, <2>2, <2>3 DEF Typed, TypeOK, ExpireTransaction
<1>30. ASSUME NEW h \in Handlers, CommitFails(h) PROVE Typed'
  <2>1. StripeTypeOK'
    BY <1>30 DEF Typed, TypeOK, StripeTypeOK, CommitFails
  <2>2. RowTypeOK'
    BY <1>30 DEF Typed, TypeOK, RowTypeOK, CommitFails
  <2>3. RequestTypeOK' /\ SubjectOK'
    BY <1>30, LeaveType DEF CommitFails
  <2> QED
    BY <1>30, <2>1, <2>2, <2>3 DEF Typed, TypeOK, CommitFails
<1>31. ASSUME NEW h \in Handlers, Fail(h) PROVE Typed'
  <2>1. StripeTypeOK'
    BY <1>31 DEF Typed, TypeOK, StripeTypeOK, Fail
  <2>2. RowTypeOK'
    BY <1>31 DEF Typed, TypeOK, RowTypeOK, Fail
  <2>3. RequestTypeOK' /\ SubjectOK'
    BY <1>31, LeaveType DEF Fail
  <2> QED
    BY <1>31, <2>1, <2>2, <2>3 DEF Typed, TypeOK, Fail
<1>32. ASSUME NEW t \in Tickets, PaySession(t) PROVE Typed'
  <2>1. sessions[t] \in Session
    BY DEF Typed, TypeOK, StripeTypeOK
  <2>2. [sessions[t] EXCEPT !.status = "COMPLETE"] \in Session
    BY <2>1 DEF Session
  <2>3. PICK s \in Ids, status \in {"ACTIVE", "INCOMPLETE"} :
          ChangeSub(s, [NoSubscription EXCEPT !.status = status, !.price = sessions[t].price])
    BY <1>32 DEF PaySession
  <2>4. [NoSubscription EXCEPT !.status = status, !.price = sessions[t].price] \in Subscription
    BY <1>1, <2>1 DEF Session, Subscription, Statuses
  <2>5. subs' \in [Ids -> Subscription] /\ rev' \in Nat /\ unacked' \in SUBSET Nat
    BY <2>3, <2>4, ChangeSubType DEF Typed, TypeOK
  <2>6. sessions' \in [Tickets -> Session] /\ UNCHANGED <<schedules, handed>>
    BY <1>32, <2>2 DEF Typed, TypeOK, StripeTypeOK, PaySession
  <2>7. StripeTypeOK'
    BY <2>5, <2>6 DEF Typed, TypeOK, StripeTypeOK
  <2>8. RowTypeOK'
    BY <1>32 DEF Typed, TypeOK, RowTypeOK, PaySession
  <2>9. RequestTypeOK' /\ SubjectOK'
    BY <1>32 DEF Typed, TypeOK, RequestTypeOK, SubjectOK, ChangeSteps, Steps, LockedSteps,
       PaySession
  <2> QED
    BY <1>32, <2>7, <2>8, <2>9 DEF Typed, TypeOK, PaySession
<1>33. ASSUME NEW s \in Ids, PaymentFails(s) PROVE Typed'
  <2>1. PICK new \in Subscription : ChangeSub(s, new)
    BY <1>33, <1>1 DEF Typed, TypeOK, StripeTypeOK, Subscription, Statuses, Move, PaymentFails
  <2>2. StripeTypeOK'
    BY <1>33, <2>1, ChangeSubType DEF Typed, TypeOK, StripeTypeOK, Move, PaymentFails
  <2>3. RowTypeOK'
    BY <1>33 DEF Typed, TypeOK, RowTypeOK, PaymentFails, Move
  <2>4. RequestTypeOK' /\ SubjectOK'
    BY <1>33 DEF Typed, TypeOK, RequestTypeOK, SubjectOK, ChangeSteps, Steps, LockedSteps,
       PaymentFails, Move
  <2> QED
    BY <1>33, <2>2, <2>3, <2>4 DEF Typed, TypeOK, PaymentFails, Move
<1>34. ASSUME NEW s \in Ids, PaymentArrives(s) PROVE Typed'
  <2>1. PICK new \in Subscription : ChangeSub(s, new)
    BY <1>34, <1>1 DEF Typed, TypeOK, StripeTypeOK, Subscription, Statuses, Move, PaymentArrives
  <2>2. StripeTypeOK'
    BY <1>34, <2>1, ChangeSubType DEF Typed, TypeOK, StripeTypeOK, Move, PaymentArrives
  <2>3. RowTypeOK'
    BY <1>34 DEF Typed, TypeOK, RowTypeOK, PaymentArrives, Move
  <2>4. RequestTypeOK' /\ SubjectOK'
    BY <1>34 DEF Typed, TypeOK, RequestTypeOK, SubjectOK, ChangeSteps, Steps, LockedSteps,
       PaymentArrives, Move
  <2> QED
    BY <1>34, <2>2, <2>3, <2>4 DEF Typed, TypeOK, PaymentArrives, Move
<1>35. ASSUME NEW s \in Ids, SubscriptionEnds(s) PROVE Typed'
  <2>1. PICK new \in Subscription : ChangeSub(s, new)
    BY <1>35, <1>1 DEF Typed, TypeOK, StripeTypeOK, Subscription, Statuses, Move, SubscriptionEnds
  <2>2. StripeTypeOK'
    BY <1>35, <2>1, ChangeSubType DEF Typed, TypeOK, StripeTypeOK, Move, SubscriptionEnds
  <2>3. RowTypeOK'
    BY <1>35 DEF Typed, TypeOK, RowTypeOK, SubscriptionEnds, Move
  <2>4. RequestTypeOK' /\ SubjectOK'
    BY <1>35 DEF Typed, TypeOK, RequestTypeOK, SubjectOK, ChangeSteps, Steps, LockedSteps,
       SubscriptionEnds, Move
  <2> QED
    BY <1>35, <2>2, <2>3, <2>4 DEF Typed, TypeOK, SubscriptionEnds, Move
<1>36. ASSUME NEW s \in Ids, PeriodEnds(s) PROVE Typed'
  <2>1. PICK new \in Subscription : ChangeSub(s, new)
    BY <1>36, <1>1 DEF Typed, TypeOK, StripeTypeOK, Subscription, Statuses, Move, PeriodEnds
  <2>2. StripeTypeOK'
    BY <1>36, <2>1, ChangeSubType DEF Typed, TypeOK, StripeTypeOK, Move, PeriodEnds
  <2>3. RowTypeOK'
    BY <1>36 DEF Typed, TypeOK, RowTypeOK, PeriodEnds, Move
  <2>4. RequestTypeOK' /\ SubjectOK'
    BY <1>36 DEF Typed, TypeOK, RequestTypeOK, SubjectOK, ChangeSteps, Steps, LockedSteps,
       PeriodEnds, Move
  <2> QED
    BY <1>36, <2>2, <2>3, <2>4 DEF Typed, TypeOK, PeriodEnds, Move
<1>37. ASSUME NEW s \in Ids, PortalToggles(s) PROVE Typed'
  <2>1. PICK new \in Subscription : ChangeSub(s, new)
    BY <1>37, <1>1 DEF Typed, TypeOK, StripeTypeOK, Subscription, Statuses, Move, PortalToggles
  <2>2. StripeTypeOK'
    BY <1>37, <2>1, ChangeSubType DEF Typed, TypeOK, StripeTypeOK, Move, PortalToggles
  <2>3. RowTypeOK'
    BY <1>37 DEF Typed, TypeOK, RowTypeOK, PortalToggles, Move
  <2>4. RequestTypeOK' /\ SubjectOK'
    BY <1>37 DEF Typed, TypeOK, RequestTypeOK, SubjectOK, ChangeSteps, Steps, LockedSteps,
       PortalToggles, Move
  <2> QED
    BY <1>37, <2>2, <2>3, <2>4 DEF Typed, TypeOK, PortalToggles, Move
<1>38. CASE UNCHANGED vars
  BY <1>38 DEF Typed, TypeOK, StripeTypeOK, RowTypeOK, RequestTypeOK, SubjectOK, vars
<1> QED
  BY <1>2, <1>3, <1>4, <1>5, <1>6, <1>7, <1>8, <1>9, <1>10, <1>11, <1>12, <1>13, <1>14, <1>15,
     <1>16, <1>17, <1>18, <1>19, <1>20, <1>21, <1>22, <1>23, <1>24, <1>25, <1>26, <1>27, <1>28,
     <1>29, <1>30, <1>31, <1>32, <1>33, <1>34, <1>35, <1>36, <1>37,
     <1>38 DEF Next, Delivery, Stripe, Ask, Serve, Faults, Reconcile, Change, Checkout


\* Typed holds of every behaviour.
LEMMA TypedAlways == Spec => []Typed
<1>1. Init => Typed
  <2> SUFFICES ASSUME Init PROVE Typed
    OBVIOUS
  <2> USE BillingAssumption
  <2>1. NoSubscription \in Subscription /\ AnyPrice \in Prices
    BY DEF NoSubscription, Subscription, Statuses, AnyPrice
  <2>2. 1 \in Ids
    BY DEF Ids
  <2>3. ASSUME NEW p \in Prices PROVE [NoSubscription EXCEPT !.status = "ACTIVE", !.price = p] \in Subscription
    BY <2>1 DEF Subscription, Statuses
  <2>4. subs \in [Ids -> Subscription]
    BY <2>1, <2>3 DEF Init
  <2>5. Describe(subs, 1) \in Row
    <3>1. subs[1] \in Subscription
      BY <2>2, <2>4
    <3> QED
      BY <2>2, <3>1 DEF Describe, Row, Subscription
  <2>6. mirror \in {None} \cup Row /\ plan \in {"FREE", "STARTER", "PRO", "PRO_PLUS"}
    BY <2>5 DEF Init, PlanOf
  <2>7. StripeTypeOK
    BY <2>1, <2>4 DEF Init, StripeTypeOK, Session
  <2>8. RowTypeOK
    BY <2>6 DEF Init, RowTypeOK
  <2>9. RequestTypeOK /\ SubjectOK
    BY <2>1 DEF Init, RequestTypeOK, SubjectOK, ChangeSteps, Steps
  <2> QED
    BY <2>7, <2>8, <2>9 DEF Init, Typed, TypeOK
<1> QED
  BY <1>1, TypeStep, PTL DEF Spec

\* Every variable has its type in every state of billing: the plan is a plan,
\* the row is one subscription of the account, requests are at known steps.
THEOREM TypeCorrect == Spec => []TypeOK
BY TypedAlways, PTL DEF Typed

-----------------------------------------------------------------------------
(* The mirror follows Stripe *)

\* What makes NoChangeMissed inductive: a marker is only ever kept with a row
\* at least as new as its event, the read of a transaction that can still
\* commit is at least as new as the row, and an answer follows the commit.
Synced ==
  /\ mirrorRev <= rev
  /\ \A e \in unacked : e <= rev
  /\ \A e \in processed : e <= mirrorRev
  /\ \A h \in Handlers :
       /\ event[h] # None => event[h] <= rev
       /\ pc[h] = "COMMIT" => /\ seenRev[h] <= rev
                              /\ event[h] # None => event[h] <= seenRev[h]
                              /\ lock = h => mirrorRev <= seenRev[h]
       /\ pc[h] \in {"LOOK", "RELEASE", "FORGET", "ANSWER"} /\ event[h] # None => event[h] \in processed
  /\ NoChangeMissed

\* Every step keeps it, and only a commit replaces the row.
LEMMA SyncStep == Typed /\ Synced /\ [Next]_vars => Synced' /\ mirrorRev' >= mirrorRev
<1> SUFFICES ASSUME Typed, Synced, [Next]_vars PROVE Synced' /\ mirrorRev' >= mirrorRev
  OBVIOUS
<1> USE BillingAssumption
<1> USE DEF stripeVars, rowVars, readVars, argVars, boundVars, Goto, TakeLock, Unlock
<1>1. /\ pc \in [Handlers -> Steps] /\ event \in [Handlers -> Nat \cup {None}]
      /\ seenRev \in [Handlers -> Nat] /\ rev \in Nat /\ mirrorRev \in Nat
      /\ unacked \in SUBSET Nat /\ processed \in SUBSET Nat
  BY DEF Typed, TypeOK, StripeTypeOK, RowTypeOK, RequestTypeOK
<1>2. ASSUME NEW h \in Handlers, NEW e \in unacked, Deliver(h, e) PROVE Synced' /\ mirrorRev' >= mirrorRev
  BY <1>2, <1>1 DEF Synced, NoChangeMissed, Deliver
<1>3. ASSUME NEW e \in unacked, DeliverDuplicate(e) PROVE Synced' /\ mirrorRev' >= mirrorRev
  BY <1>3, <1>1 DEF Synced, NoChangeMissed, DeliverDuplicate
<1>4. ASSUME NEW h \in Handlers, Refresh(h) PROVE Synced' /\ mirrorRev' >= mirrorRev
  BY <1>4, <1>1 DEF Synced, NoChangeMissed, Refresh
<1>5. ASSUME NEW h \in Handlers, FollowUp(h) PROVE Synced' /\ mirrorRev' >= mirrorRev
  BY <1>5, <1>1 DEF Synced, NoChangeMissed, FollowUp
<1>6. ASSUME NEW h \in Handlers, Read(h) PROVE Synced' /\ mirrorRev' >= mirrorRev
  BY <1>6, <1>1 DEF Synced, NoChangeMissed, Read
<1>7. ASSUME NEW h \in Handlers, Commit(h) PROVE Synced' /\ mirrorRev' >= mirrorRev
  BY <1>7, <1>1 DEF Synced, NoChangeMissed, Commit, WriteRows
<1>8. ASSUME NEW h \in Handlers, Look(h) PROVE Synced' /\ mirrorRev' >= mirrorRev
  BY <1>8, <1>1 DEF Synced, NoChangeMissed, Look
<1>9. ASSUME NEW h \in Handlers, ReleaseSpent(h) PROVE Synced' /\ mirrorRev' >= mirrorRev
  <2>1. Emit \/ UNCHANGED <<rev, unacked>>
    BY <1>9 DEF ReleaseSchedule, ChangeSub, ReleaseSpent
  <2>2. /\ UNCHANGED <<event, seenRev, lock, mirrorRev, processed>>
        /\ pc[h] = "RELEASE" /\ pc' = [pc EXCEPT ![h] = "FORGET"]
    BY <1>9 DEF ReleaseSpent
  <2>3. CASE Emit
    BY <2>2, <2>3, <1>1 DEF Synced, NoChangeMissed, Emit
  <2>4. CASE UNCHANGED <<rev, unacked>>
    BY <2>2, <2>4, <1>1 DEF Synced, NoChangeMissed
  <2> QED
    BY <2>1, <2>3, <2>4
<1>10. ASSUME NEW h \in Handlers, ReleaseSpentFails(h) PROVE Synced' /\ mirrorRev' >= mirrorRev
  <2>1. Emit \/ UNCHANGED <<rev, unacked>>
    BY <1>10 DEF ReleaseSchedule, ChangeSub, ReleaseSpentFails
  <2>2. /\ UNCHANGED <<event, seenRev, lock, mirrorRev, processed>>
        /\ pc[h] = "RELEASE" /\ pc' = [pc EXCEPT ![h] = "ANSWER"]
    BY <1>10 DEF ReleaseSpentFails
  <2>3. CASE Emit
    BY <2>2, <2>3, <1>1 DEF Synced, NoChangeMissed, Emit
  <2>4. CASE UNCHANGED <<rev, unacked>>
    BY <2>2, <2>4, <1>1 DEF Synced, NoChangeMissed
  <2> QED
    BY <2>1, <2>3, <2>4
<1>11. ASSUME NEW h \in Handlers, Forget(h) PROVE Synced' /\ mirrorRev' >= mirrorRev
  BY <1>11, <1>1 DEF Synced, NoChangeMissed, Forget
<1>12. ASSUME NEW h \in Handlers, Answer(h) PROVE Synced' /\ mirrorRev' >= mirrorRev
  BY <1>12, <1>1 DEF Synced, NoChangeMissed, Answer, Leave
<1>13. ASSUME NEW h \in Handlers, NEW p \in Prices, ChangePlan(h, p) PROVE Synced' /\ mirrorRev' >= mirrorRev
  BY <1>13, <1>1 DEF Synced, NoChangeMissed, ChangePlan
<1>14. ASSUME NEW h \in Handlers, LoadLiveSubscription(h) PROVE Synced' /\ mirrorRev' >= mirrorRev
  BY <1>14, <1>1 DEF Synced, NoChangeMissed, LoadLiveSubscription
<1>15. ASSUME NEW h \in Handlers, RefuseChange(h) PROVE Synced' /\ mirrorRev' >= mirrorRev
  BY <1>15, <1>1 DEF Synced, NoChangeMissed, RefuseChange, Leave
<1>16. ASSUME NEW h \in Handlers, ReleasePending(h) PROVE Synced' /\ mirrorRev' >= mirrorRev
  <2>1. Emit \/ UNCHANGED <<rev, unacked>>
    BY <1>16 DEF ReleaseSchedule, ChangeSub, ReleasePending
  <2>2. /\ UNCHANGED <<event, seenRev, lock, mirrorRev, processed>>
        /\ pc[h] = "RELEASE_PENDING" /\ pc' = [pc EXCEPT ![h] = "UPDATE"]
    BY <1>16 DEF ReleasePending
  <2>3. CASE Emit
    BY <2>2, <2>3, <1>1 DEF Synced, NoChangeMissed, Emit
  <2>4. CASE UNCHANGED <<rev, unacked>>
    BY <2>2, <2>4, <1>1 DEF Synced, NoChangeMissed
  <2> QED
    BY <2>1, <2>3, <2>4
<1>17. ASSUME NEW h \in Handlers, UpdatePrice(h) PROVE Synced' /\ mirrorRev' >= mirrorRev
  BY <1>17, <1>1 DEF Synced, NoChangeMissed, UpdatePrice, ChangeSub, Emit
<1>18. ASSUME NEW h \in Handlers, AttachSchedule(h) PROVE Synced' /\ mirrorRev' >= mirrorRev
  BY <1>18, <1>1 DEF Synced, NoChangeMissed, AttachSchedule, ChangeSub, Emit
<1>19. ASSUME NEW h \in Handlers, SetPhases(h) PROVE Synced' /\ mirrorRev' >= mirrorRev
  BY <1>19, <1>1 DEF Synced, NoChangeMissed, SetPhases, ChangeSub, Emit
<1>20. ASSUME NEW h \in Handlers, StripeRefuses(h) PROVE Synced' /\ mirrorRev' >= mirrorRev
  BY <1>20, <1>1 DEF Synced, NoChangeMissed, StripeRefuses, Leave
<1>21. ASSUME NEW h \in Handlers, CommitChange(h) PROVE Synced' /\ mirrorRev' >= mirrorRev
  BY <1>21, <1>1 DEF Synced, NoChangeMissed, CommitChange
<1>22. ASSUME NEW h \in Handlers, NEW p \in Prices, CreateCheckoutSession(h, p) PROVE Synced' /\ mirrorRev' >= mirrorRev
  BY <1>22, <1>1 DEF Synced, NoChangeMissed, CreateCheckoutSession
<1>23. ASSUME NEW h \in Handlers, ListSessions(h) PROVE Synced' /\ mirrorRev' >= mirrorRev
  BY <1>23, <1>1 DEF Synced, NoChangeMissed, ListSessions
<1>24. ASSUME NEW h \in Handlers, ExpireSessions(h) PROVE Synced' /\ mirrorRev' >= mirrorRev
  BY <1>24, <1>1 DEF Synced, NoChangeMissed, ExpireSessions
<1>25. ASSUME NEW h \in Handlers, CheckLive(h) PROVE Synced' /\ mirrorRev' >= mirrorRev
  BY <1>25, <1>1 DEF Synced, NoChangeMissed, CheckLive
<1>26. ASSUME NEW h \in Handlers, RefuseCheckout(h) PROVE Synced' /\ mirrorRev' >= mirrorRev
  BY <1>26, <1>1 DEF Synced, NoChangeMissed, RefuseCheckout
<1>27. ASSUME NEW h \in Handlers, CreateSession(h) PROVE Synced' /\ mirrorRev' >= mirrorRev
  BY <1>27, <1>1 DEF Synced, NoChangeMissed, CreateSession
<1>28. ASSUME NEW h \in Handlers, CommitCheckout(h) PROVE Synced' /\ mirrorRev' >= mirrorRev
  BY <1>28, <1>1 DEF Synced, NoChangeMissed, CommitCheckout, Leave
<1>29. ASSUME NEW h \in Handlers, ExpireTransaction(h) PROVE Synced' /\ mirrorRev' >= mirrorRev
  BY <1>29, <1>1 DEF Synced, NoChangeMissed, ExpireTransaction
<1>30. ASSUME NEW h \in Handlers, CommitFails(h) PROVE Synced' /\ mirrorRev' >= mirrorRev
  BY <1>30, <1>1 DEF Synced, NoChangeMissed, CommitFails, Leave
<1>31. ASSUME NEW h \in Handlers, Fail(h) PROVE Synced' /\ mirrorRev' >= mirrorRev
  BY <1>31, <1>1 DEF Synced, NoChangeMissed, Fail, Leave
<1>32. ASSUME NEW t \in Tickets, PaySession(t) PROVE Synced' /\ mirrorRev' >= mirrorRev
  BY <1>32, <1>1 DEF Synced, NoChangeMissed, PaySession, ChangeSub, Emit
<1>33. ASSUME NEW s \in Ids, PaymentFails(s) PROVE Synced' /\ mirrorRev' >= mirrorRev
  BY <1>33, <1>1 DEF Synced, NoChangeMissed, PaymentFails, Move, ChangeSub, Emit
<1>34. ASSUME NEW s \in Ids, PaymentArrives(s) PROVE Synced' /\ mirrorRev' >= mirrorRev
  BY <1>34, <1>1 DEF Synced, NoChangeMissed, PaymentArrives, Move, ChangeSub, Emit
<1>35. ASSUME NEW s \in Ids, SubscriptionEnds(s) PROVE Synced' /\ mirrorRev' >= mirrorRev
  BY <1>35, <1>1 DEF Synced, NoChangeMissed, SubscriptionEnds, Move, ChangeSub, Emit
<1>36. ASSUME NEW s \in Ids, PeriodEnds(s) PROVE Synced' /\ mirrorRev' >= mirrorRev
  BY <1>36, <1>1 DEF Synced, NoChangeMissed, PeriodEnds, Move, ChangeSub, Emit
<1>37. ASSUME NEW s \in Ids, PortalToggles(s) PROVE Synced' /\ mirrorRev' >= mirrorRev
  BY <1>37, <1>1 DEF Synced, NoChangeMissed, PortalToggles, Move, ChangeSub, Emit
<1>38. CASE UNCHANGED vars
  BY <1>1, <1>38 DEF Synced, NoChangeMissed, vars
<1> QED
  BY <1>2, <1>3, <1>4, <1>5, <1>6, <1>7, <1>8, <1>9, <1>10, <1>11, <1>12, <1>13, <1>14, <1>15,
     <1>16, <1>17, <1>18, <1>19, <1>20, <1>21, <1>22, <1>23, <1>24, <1>25, <1>26, <1>27, <1>28,
     <1>29, <1>30, <1>31, <1>32, <1>33, <1>34, <1>35, <1>36, <1>37,
     <1>38 DEF Next, Delivery, Stripe, Ask, Serve, Faults, Reconcile, Change, Checkout

LEMMA SyncedAlways == Spec => [](Typed /\ Synced) /\ MirrorNeverGoesBack
<1>1. Init => Synced
  <2> SUFFICES ASSUME Init PROVE Synced
    OBVIOUS
  <2>1. /\ rev = 0 /\ mirrorRev = 0 /\ unacked = {} /\ processed = {}
        /\ \A h \in Handlers : pc[h] = "IDLE" /\ event[h] = None
    BY DEF Init
  <2> QED
    BY <2>1 DEF Synced, NoChangeMissed
<1> QED
  BY <1>1, TypedAlways, SyncStep, PTL DEF Spec, MirrorNeverGoesBack

\* No change at Stripe is lost, whatever is duplicated, fails or crashes.
THEOREM NothingMissed == Spec => []NoChangeMissed
BY SyncedAlways, PTL DEF Synced

\* The row never goes back to an older state of Stripe, although requests read
\* Stripe and write the row in two steps and the database may end a transaction
\* in between.
THEOREM MirrorMonotone == Spec => MirrorNeverGoesBack
BY SyncedAlways, PTL


-----------------------------------------------------------------------------
(* One paid slot *)

Payable(t) == t \in handed /\ sessions[t].status = "OPEN"

IsLive(s) == subs[s].status \in Live

CheckoutSteps == {"EXPIRE", "CHECK", "CREATE", "COMMIT_CHECKOUT"}

\* What makes OneLiveSubscription inductive: a session that can still be paid
\* takes the slot like a subscription does, and the request that holds the lock
\* has listed, then closed, every such session before it looks at Stripe.
OneSlot ==
  /\ \A s, t \in Ids : IsLive(s) /\ IsLive(t) => s = t
  /\ \A t, u \in Tickets : Payable(t) /\ Payable(u) => t = u
  /\ \A s \in Ids, t \in Tickets : ~(IsLive(s) /\ Payable(t))
  /\ \A t \in handed : sessions[t].status # "NONE"
  /\ \A h \in Handlers :
       pc[h] = "COMMIT_CHECKOUT" => \E t \in Tickets : tickets[h] = {t} /\ sessions[t].status # "NONE"
  /\ \A h \in Handlers : lock = h =>
       /\ pc[h] = "EXPIRE" => \A t \in Tickets : Payable(t) => t \in tickets[h]
       /\ pc[h] \in {"CHECK", "CREATE", "COMMIT_CHECKOUT"} => \A t \in Tickets : ~Payable(t)
       /\ pc[h] \in {"CREATE", "COMMIT_CHECKOUT"} => \A s \in Ids : ~IsLive(s)

\* A step outside Checkout that starts no subscription keeps it.
LEMMA SlotKept ==
  ASSUME OneSlot, UNCHANGED <<sessions, handed>>,
         \A s \in Ids : IsLive(s)' => IsLive(s),
         \A g \in Handlers : pc'[g] \in CheckoutSteps =>
           pc'[g] = pc[g] /\ tickets'[g] = tickets[g] /\ (lock' = g => lock = g)
  PROVE  OneSlot'
<1>1. \A t \in Tickets : Payable(t)' = Payable(t)
  BY DEF Payable
<1>2. (\A s, t \in Ids : IsLive(s) /\ IsLive(t) => s = t)'
  BY DEF OneSlot
<1>3. (\A t, u \in Tickets : Payable(t) /\ Payable(u) => t = u)'
  BY <1>1 DEF OneSlot
<1>4. (\A s \in Ids, t \in Tickets : ~(IsLive(s) /\ Payable(t)))'
  BY <1>1 DEF OneSlot
<1>5. (\A t \in handed : sessions[t].status # "NONE")'
  BY DEF OneSlot
<1>6. (\A h \in Handlers : pc[h] = "COMMIT_CHECKOUT" =>
         \E t \in Tickets : tickets[h] = {t} /\ sessions[t].status # "NONE")'
  BY DEF OneSlot, CheckoutSteps
<1>7. ASSUME NEW h \in Handlers, lock' = h
      PROVE  /\ pc'[h] = "EXPIRE" => \A t \in Tickets : Payable(t)' => t \in tickets'[h]
             /\ pc'[h] \in {"CHECK", "CREATE", "COMMIT_CHECKOUT"} => \A t \in Tickets : ~Payable(t)'
             /\ pc'[h] \in {"CREATE", "COMMIT_CHECKOUT"} => \A s \in Ids : ~IsLive(s)'
  BY <1>1, <1>7 DEF OneSlot, CheckoutSteps
<1> QED
  BY <1>2, <1>3, <1>4, <1>5, <1>6, <1>7 DEF OneSlot

\* Releasing a schedule touches no status.
LEMMA ReleaseKeepsStatus ==
  ASSUME subs \in [Ids -> Subscription], NEW id, ReleaseSchedule(id)
  PROVE  \A u \in Ids : subs'[u].status = subs[u].status
<1>1. ASSUME NEW s \in Ids,
             subs' = [subs EXCEPT ![s] = [subs[s] EXCEPT !.schedule = None, !.pending = None]],
             NEW u \in Ids
      PROVE  subs'[u].status = subs[u].status
  <2>1. subs[s] \in Subscription
    OBVIOUS
  <2> QED
    BY <1>1, <2>1 DEF Subscription
<1> QED
  BY <1>1 DEF ReleaseSchedule, ChangeSub

\* Every step keeps the one slot.
LEMMA SlotStep == Typed /\ OneSlot /\ [Next]_vars => OneSlot'
<1> SUFFICES ASSUME Typed, OneSlot, [Next]_vars PROVE OneSlot'
  OBVIOUS
<1> USE BillingAssumption
<1> USE DEF stripeVars, rowVars, readVars, argVars, boundVars, Goto, TakeLock, Unlock
<1>1. /\ pc \in [Handlers -> Steps] /\ tickets \in [Handlers -> SUBSET Tickets]
      /\ subs \in [Ids -> Subscription] /\ sessions \in [Tickets -> Session]
      /\ handed \in SUBSET Tickets /\ NoHandler \notin Handlers
  BY DEF Typed, TypeOK, StripeTypeOK, RequestTypeOK
<1>2. ASSUME NEW h \in Handlers, NEW e \in unacked, Deliver(h, e) PROVE OneSlot'
  <2>1. \A u \in Ids : IsLive(u)' => IsLive(u)
    BY <1>2 DEF IsLive, Deliver
  <2>2. UNCHANGED <<sessions, handed>>
    BY <1>2 DEF Deliver
  <2>3. \A g \in Handlers : pc'[g] \in CheckoutSteps =>
          pc'[g] = pc[g] /\ tickets'[g] = tickets[g] /\ (lock' = g => lock = g)
    BY <1>2, <1>1 DEF CheckoutSteps, Deliver
  <2> QED
    BY <2>1, <2>2, <2>3, SlotKept
<1>3. ASSUME NEW e \in unacked, DeliverDuplicate(e) PROVE OneSlot'
  <2>1. \A u \in Ids : IsLive(u)' => IsLive(u)
    BY <1>3 DEF IsLive, DeliverDuplicate
  <2>2. UNCHANGED <<sessions, handed>>
    BY <1>3 DEF DeliverDuplicate
  <2>3. \A g \in Handlers : pc'[g] \in CheckoutSteps =>
          pc'[g] = pc[g] /\ tickets'[g] = tickets[g] /\ (lock' = g => lock = g)
    BY <1>3, <1>1 DEF CheckoutSteps, DeliverDuplicate
  <2> QED
    BY <2>1, <2>2, <2>3, SlotKept
<1>4. ASSUME NEW h \in Handlers, Refresh(h) PROVE OneSlot'
  <2>1. \A u \in Ids : IsLive(u)' => IsLive(u)
    BY <1>4 DEF IsLive, Refresh
  <2>2. UNCHANGED <<sessions, handed>>
    BY <1>4 DEF Refresh
  <2>3. \A g \in Handlers : pc'[g] \in CheckoutSteps =>
          pc'[g] = pc[g] /\ tickets'[g] = tickets[g] /\ (lock' = g => lock = g)
    BY <1>4, <1>1 DEF CheckoutSteps, Refresh
  <2> QED
    BY <2>1, <2>2, <2>3, SlotKept
<1>5. ASSUME NEW h \in Handlers, FollowUp(h) PROVE OneSlot'
  <2>1. \A u \in Ids : IsLive(u)' => IsLive(u)
    BY <1>5 DEF IsLive, FollowUp
  <2>2. UNCHANGED <<sessions, handed>>
    BY <1>5 DEF FollowUp
  <2>3. \A g \in Handlers : pc'[g] \in CheckoutSteps =>
          pc'[g] = pc[g] /\ tickets'[g] = tickets[g] /\ (lock' = g => lock = g)
    BY <1>5, <1>1 DEF CheckoutSteps, FollowUp
  <2> QED
    BY <2>1, <2>2, <2>3, SlotKept
<1>6. ASSUME NEW h \in Handlers, Read(h) PROVE OneSlot'
  <2>1. \A u \in Ids : IsLive(u)' => IsLive(u)
    BY <1>6 DEF IsLive, Read
  <2>2. UNCHANGED <<sessions, handed>>
    BY <1>6 DEF Read
  <2>3. \A g \in Handlers : pc'[g] \in CheckoutSteps =>
          pc'[g] = pc[g] /\ tickets'[g] = tickets[g] /\ (lock' = g => lock = g)
    BY <1>6, <1>1 DEF CheckoutSteps, Read
  <2> QED
    BY <2>1, <2>2, <2>3, SlotKept
<1>7. ASSUME NEW h \in Handlers, Commit(h) PROVE OneSlot'
  <2>1. \A u \in Ids : IsLive(u)' => IsLive(u)
    BY <1>7 DEF IsLive, Commit, WriteRows
  <2>2. UNCHANGED <<sessions, handed>>
    BY <1>7 DEF Commit, WriteRows
  <2>3. \A g \in Handlers : pc'[g] \in CheckoutSteps =>
          pc'[g] = pc[g] /\ tickets'[g] = tickets[g] /\ (lock' = g => lock = g)
    BY <1>7, <1>1 DEF CheckoutSteps, Commit, WriteRows
  <2> QED
    BY <2>1, <2>2, <2>3, SlotKept
<1>8. ASSUME NEW h \in Handlers, Look(h) PROVE OneSlot'
  <2>1. \A u \in Ids : IsLive(u)' => IsLive(u)
    BY <1>8 DEF IsLive, Look
  <2>2. UNCHANGED <<sessions, handed>>
    BY <1>8 DEF Look
  <2>3. \A g \in Handlers : pc'[g] \in CheckoutSteps =>
          pc'[g] = pc[g] /\ tickets'[g] = tickets[g] /\ (lock' = g => lock = g)
    BY <1>8, <1>1 DEF CheckoutSteps, Look
  <2> QED
    BY <2>1, <2>2, <2>3, SlotKept
<1>9. ASSUME NEW h \in Handlers, ReleaseSpent(h) PROVE OneSlot'
  <2>1. \A u \in Ids : IsLive(u)' => IsLive(u)
    BY <1>9, <1>1, ReleaseKeepsStatus DEF IsLive, ReleaseSpent
  <2>2. UNCHANGED <<sessions, handed>>
    BY <1>9 DEF ReleaseSpent
  <2>3. \A g \in Handlers : pc'[g] \in CheckoutSteps =>
          pc'[g] = pc[g] /\ tickets'[g] = tickets[g] /\ (lock' = g => lock = g)
    BY <1>9, <1>1 DEF CheckoutSteps, ReleaseSpent
  <2> QED
    BY <2>1, <2>2, <2>3, SlotKept
<1>10. ASSUME NEW h \in Handlers, ReleaseSpentFails(h) PROVE OneSlot'
  <2>1. \A u \in Ids : IsLive(u)' => IsLive(u)
    BY <1>10, <1>1, ReleaseKeepsStatus DEF IsLive, ReleaseSpentFails
  <2>2. UNCHANGED <<sessions, handed>>
    BY <1>10 DEF ReleaseSpentFails
  <2>3. \A g \in Handlers : pc'[g] \in CheckoutSteps =>
          pc'[g] = pc[g] /\ tickets'[g] = tickets[g] /\ (lock' = g => lock = g)
    BY <1>10, <1>1 DEF CheckoutSteps, ReleaseSpentFails
  <2> QED
    BY <2>1, <2>2, <2>3, SlotKept
<1>11. ASSUME NEW h \in Handlers, Forget(h) PROVE OneSlot'
  <2>1. \A u \in Ids : IsLive(u)' => IsLive(u)
    BY <1>11 DEF IsLive, Forget
  <2>2. UNCHANGED <<sessions, handed>>
    BY <1>11 DEF Forget
  <2>3. \A g \in Handlers : pc'[g] \in CheckoutSteps =>
          pc'[g] = pc[g] /\ tickets'[g] = tickets[g] /\ (lock' = g => lock = g)
    BY <1>11, <1>1 DEF CheckoutSteps, Forget
  <2> QED
    BY <2>1, <2>2, <2>3, SlotKept
<1>12. ASSUME NEW h \in Handlers, Answer(h) PROVE OneSlot'
  <2>1. \A u \in Ids : IsLive(u)' => IsLive(u)
    BY <1>12 DEF IsLive, Answer, Leave
  <2>2. UNCHANGED <<sessions, handed>>
    BY <1>12 DEF Answer, Leave
  <2>3. \A g \in Handlers : pc'[g] \in CheckoutSteps =>
          pc'[g] = pc[g] /\ tickets'[g] = tickets[g] /\ (lock' = g => lock = g)
    BY <1>12, <1>1 DEF CheckoutSteps, Answer, Leave
  <2> QED
    BY <2>1, <2>2, <2>3, SlotKept
<1>13. ASSUME NEW h \in Handlers, NEW p \in Prices, ChangePlan(h, p) PROVE OneSlot'
  <2>1. \A u \in Ids : IsLive(u)' => IsLive(u)
    BY <1>13 DEF IsLive, ChangePlan
  <2>2. UNCHANGED <<sessions, handed>>
    BY <1>13 DEF ChangePlan
  <2>3. \A g \in Handlers : pc'[g] \in CheckoutSteps =>
          pc'[g] = pc[g] /\ tickets'[g] = tickets[g] /\ (lock' = g => lock = g)
    BY <1>13, <1>1 DEF CheckoutSteps, ChangePlan
  <2> QED
    BY <2>1, <2>2, <2>3, SlotKept
<1>14. ASSUME NEW h \in Handlers, LoadLiveSubscription(h) PROVE OneSlot'
  <2>1. \A u \in Ids : IsLive(u)' => IsLive(u)
    BY <1>14 DEF IsLive, LoadLiveSubscription
  <2>2. UNCHANGED <<sessions, handed>>
    BY <1>14 DEF LoadLiveSubscription
  <2>3. \A g \in Handlers : pc'[g] \in CheckoutSteps =>
          pc'[g] = pc[g] /\ tickets'[g] = tickets[g] /\ (lock' = g => lock = g)
    BY <1>14, <1>1 DEF CheckoutSteps, LoadLiveSubscription
  <2> QED
    BY <2>1, <2>2, <2>3, SlotKept
<1>15. ASSUME NEW h \in Handlers, RefuseChange(h) PROVE OneSlot'
  <2>1. \A u \in Ids : IsLive(u)' => IsLive(u)
    BY <1>15 DEF IsLive, RefuseChange, Leave
  <2>2. UNCHANGED <<sessions, handed>>
    BY <1>15 DEF RefuseChange, Leave
  <2>3. \A g \in Handlers : pc'[g] \in CheckoutSteps =>
          pc'[g] = pc[g] /\ tickets'[g] = tickets[g] /\ (lock' = g => lock = g)
    BY <1>15, <1>1 DEF CheckoutSteps, RefuseChange, Leave
  <2> QED
    BY <2>1, <2>2, <2>3, SlotKept
<1>16. ASSUME NEW h \in Handlers, ReleasePending(h) PROVE OneSlot'
  <2>1. \A u \in Ids : IsLive(u)' => IsLive(u)
    BY <1>16, <1>1, ReleaseKeepsStatus DEF IsLive, ReleasePending
  <2>2. UNCHANGED <<sessions, handed>>
    BY <1>16 DEF ReleasePending
  <2>3. \A g \in Handlers : pc'[g] \in CheckoutSteps =>
          pc'[g] = pc[g] /\ tickets'[g] = tickets[g] /\ (lock' = g => lock = g)
    BY <1>16, <1>1 DEF CheckoutSteps, ReleasePending
  <2> QED
    BY <2>1, <2>2, <2>3, SlotKept
<1>17. ASSUME NEW h \in Handlers, UpdatePrice(h) PROVE OneSlot'
  <2>1. \A u \in Ids : IsLive(u)' => IsLive(u)
    BY <1>17, <1>1 DEF IsLive, Live, Subscription, UpdatePrice, ChangeSub
  <2>2. UNCHANGED <<sessions, handed>>
    BY <1>17 DEF UpdatePrice
  <2>3. \A g \in Handlers : pc'[g] \in CheckoutSteps =>
          pc'[g] = pc[g] /\ tickets'[g] = tickets[g] /\ (lock' = g => lock = g)
    BY <1>17, <1>1 DEF CheckoutSteps, UpdatePrice
  <2> QED
    BY <2>1, <2>2, <2>3, SlotKept
<1>18. ASSUME NEW h \in Handlers, AttachSchedule(h) PROVE OneSlot'
  <2>1. \A u \in Ids : IsLive(u)' => IsLive(u)
    BY <1>18, <1>1 DEF IsLive, Live, Subscription, AttachSchedule, ChangeSub
  <2>2. UNCHANGED <<sessions, handed>>
    BY <1>18 DEF AttachSchedule
  <2>3. \A g \in Handlers : pc'[g] \in CheckoutSteps =>
          pc'[g] = pc[g] /\ tickets'[g] = tickets[g] /\ (lock' = g => lock = g)
    BY <1>18, <1>1 DEF CheckoutSteps, AttachSchedule
  <2> QED
    BY <2>1, <2>2, <2>3, SlotKept
<1>19. ASSUME NEW h \in Handlers, SetPhases(h) PROVE OneSlot'
  <2>1. \A u \in Ids : IsLive(u)' => IsLive(u)
    BY <1>19, <1>1 DEF IsLive, Live, Subscription, SetPhases, ChangeSub
  <2>2. UNCHANGED <<sessions, handed>>
    BY <1>19 DEF SetPhases
  <2>3. \A g \in Handlers : pc'[g] \in CheckoutSteps =>
          pc'[g] = pc[g] /\ tickets'[g] = tickets[g] /\ (lock' = g => lock = g)
    BY <1>19, <1>1 DEF CheckoutSteps, SetPhases
  <2> QED
    BY <2>1, <2>2, <2>3, SlotKept
<1>20. ASSUME NEW h \in Handlers, StripeRefuses(h) PROVE OneSlot'
  <2>1. \A u \in Ids : IsLive(u)' => IsLive(u)
    BY <1>20 DEF IsLive, StripeRefuses, Leave
  <2>2. UNCHANGED <<sessions, handed>>
    BY <1>20 DEF StripeRefuses, Leave
  <2>3. \A g \in Handlers : pc'[g] \in CheckoutSteps =>
          pc'[g] = pc[g] /\ tickets'[g] = tickets[g] /\ (lock' = g => lock = g)
    BY <1>20, <1>1 DEF CheckoutSteps, StripeRefuses, Leave
  <2> QED
    BY <2>1, <2>2, <2>3, SlotKept
<1>21. ASSUME NEW h \in Handlers, CommitChange(h) PROVE OneSlot'
  <2>1. \A u \in Ids : IsLive(u)' => IsLive(u)
    BY <1>21 DEF IsLive, CommitChange
  <2>2. UNCHANGED <<sessions, handed>>
    BY <1>21 DEF CommitChange
  <2>3. \A g \in Handlers : pc'[g] \in CheckoutSteps =>
          pc'[g] = pc[g] /\ tickets'[g] = tickets[g] /\ (lock' = g => lock = g)
    BY <1>21, <1>1 DEF CheckoutSteps, CommitChange
  <2> QED
    BY <2>1, <2>2, <2>3, SlotKept
<1>22. ASSUME NEW h \in Handlers, NEW p \in Prices, CreateCheckoutSession(h, p) PROVE OneSlot'
  <2>1. \A u \in Ids : IsLive(u)' => IsLive(u)
    BY <1>22 DEF IsLive, CreateCheckoutSession
  <2>2. UNCHANGED <<sessions, handed>>
    BY <1>22 DEF CreateCheckoutSession
  <2>3. \A g \in Handlers : pc'[g] \in CheckoutSteps =>
          pc'[g] = pc[g] /\ tickets'[g] = tickets[g] /\ (lock' = g => lock = g)
    BY <1>22, <1>1 DEF CheckoutSteps, CreateCheckoutSession
  <2> QED
    BY <2>1, <2>2, <2>3, SlotKept
<1>23. ASSUME NEW h \in Handlers, ListSessions(h) PROVE OneSlot'
  <2>1. /\ pc[h] = "LIST" /\ pc' = [pc EXCEPT ![h] = "EXPIRE"]
        /\ tickets' = [tickets EXCEPT ![h] = {t \in Tickets : sessions[t].status = "OPEN"}]
        /\ UNCHANGED <<subs, sessions, handed, lock>>
    BY <1>23 DEF ListSessions
  <2>2. \A t \in Tickets : Payable(t) => t \in tickets'[h]
    BY <1>1, <2>1 DEF Payable
  <2>3. \A t \in Tickets : Payable(t)' = Payable(t)
    BY <2>1 DEF Payable
  <2>4. \A s \in Ids : IsLive(s)' = IsLive(s)
    BY <2>1 DEF IsLive
  <2> QED
    BY <1>1, <2>1, <2>2, <2>3, <2>4 DEF OneSlot
<1>24. ASSUME NEW h \in Handlers, ExpireSessions(h) PROVE OneSlot'
  <2>1. /\ pc[h] = "EXPIRE" /\ pc' = [pc EXCEPT ![h] = "CHECK"]
        /\ UNCHANGED <<subs, handed, lock>>
        /\ \A g \in Handlers : g # h => tickets'[g] = tickets[g]
    BY <1>24, <1>1 DEF ExpireSessions
  <2>2. ASSUME NEW t \in Tickets
        PROVE  /\ Payable(t)' => Payable(t) /\ t \notin tickets[h]
               /\ sessions'[t].status = "NONE" => sessions[t].status = "NONE"
    <3>1. sessions'[t] = IF t \in tickets[h] /\ sessions[t].status = "OPEN"
                          THEN [sessions[t] EXCEPT !.status = "EXPIRED"] ELSE sessions[t]
      BY <1>24 DEF ExpireSessions
    <3>2. sessions[t] \in Session
      BY <1>1
    <3> QED
      BY <2>1, <3>1, <3>2 DEF Payable, Session
  <2>3. \A s \in Ids : IsLive(s)' = IsLive(s)
    BY <2>1 DEF IsLive
  <2> QED
    BY <1>1, <2>1, <2>2, <2>3 DEF OneSlot
<1>25. ASSUME NEW h \in Handlers, CheckLive(h) PROVE OneSlot'
  <2>1. /\ pc[h] = "CHECK" /\ pc' = [pc EXCEPT ![h] = "CREATE"]
        /\ UNCHANGED <<subs, sessions, handed, lock, tickets>>
        /\ \A s \in Ids : ~IsLive(s)
    BY <1>25 DEF CheckLive, LiveAtStripe, IsLive
  <2>2. \A t \in Tickets : Payable(t)' = Payable(t)
    BY <2>1 DEF Payable
  <2>3. \A s \in Ids : IsLive(s)' = IsLive(s)
    BY <2>1 DEF IsLive
  <2> QED
    BY <1>1, <2>1, <2>2, <2>3 DEF OneSlot
<1>26. ASSUME NEW h \in Handlers, RefuseCheckout(h) PROVE OneSlot'
  <2>1. \A u \in Ids : IsLive(u)' => IsLive(u)
    BY <1>26 DEF IsLive, RefuseCheckout
  <2>2. UNCHANGED <<sessions, handed>>
    BY <1>26 DEF RefuseCheckout
  <2>3. \A g \in Handlers : pc'[g] \in CheckoutSteps =>
          pc'[g] = pc[g] /\ tickets'[g] = tickets[g] /\ (lock' = g => lock = g)
    BY <1>26, <1>1 DEF CheckoutSteps, RefuseCheckout
  <2> QED
    BY <2>1, <2>2, <2>3, SlotKept
<1>27. ASSUME NEW h \in Handlers, CreateSession(h) PROVE OneSlot'
  <2>1. PICK t \in Tickets :
          /\ sessions[t].status = "NONE"
          /\ sessions' = [sessions EXCEPT ![t] = [status |-> "OPEN", price |-> target[h]]]
          /\ tickets' = [tickets EXCEPT ![h] = {t}]
    BY <1>27 DEF CreateSession
  <2>2. /\ pc[h] = "CREATE" /\ pc' = [pc EXCEPT ![h] = "COMMIT_CHECKOUT"]
        /\ UNCHANGED <<subs, handed, lock>>
    BY <1>27 DEF CreateSession
  <2>3. t \notin handed
    BY <2>1 DEF OneSlot
  <2>4. \A u \in Tickets : Payable(u)' = Payable(u)
    BY <1>1, <2>1, <2>2, <2>3 DEF Payable
  <2>5. \A u \in Tickets : sessions'[u].status = "NONE" => sessions[u].status = "NONE"
    BY <1>1, <2>1
  <2>6. sessions'[t].status # "NONE" /\ tickets'[h] = {t}
    BY <1>1, <2>1
  <2>7. \A s \in Ids : IsLive(s)' = IsLive(s)
    BY <2>2 DEF IsLive
  <2>8. \A g \in Handlers : g # h => tickets'[g] = tickets[g] /\ pc'[g] = pc[g]
    BY <1>1, <2>1, <2>2
  <2>9. (\A g \in Handlers : pc[g] = "COMMIT_CHECKOUT" =>
           \E u \in Tickets : tickets[g] = {u} /\ sessions[u].status # "NONE")'
    BY <2>1, <2>5, <2>6, <2>8 DEF OneSlot
  <2>10. (\A u \in handed : sessions[u].status # "NONE")'
    BY <1>1, <2>2, <2>5 DEF OneSlot
  <2> QED
    BY <1>1, <2>2, <2>4, <2>7, <2>8, <2>9, <2>10 DEF OneSlot
<1>28. ASSUME NEW h \in Handlers, CommitCheckout(h) PROVE OneSlot'
  <2>1. /\ pc[h] = "COMMIT_CHECKOUT" /\ pc' = [pc EXCEPT ![h] = "IDLE"]
        /\ lock = h /\ lock' = NoHandler
        /\ handed' = handed \cup tickets[h]
        /\ tickets' = [tickets EXCEPT ![h] = {}]
        /\ UNCHANGED <<subs, sessions>>
    BY <1>28 DEF CommitCheckout, Leave
  <2>2. PICK t \in Tickets : tickets[h] = {t} /\ sessions[t].status # "NONE"
    BY <2>1 DEF OneSlot
  <2>3. \A u \in Tickets : Payable(u)' => u = t
    BY <2>1, <2>2 DEF OneSlot, Payable
  <2>4. \A s \in Ids : ~IsLive(s)'
    BY <2>1 DEF OneSlot, IsLive
  <2> QED
    BY <1>1, <2>1, <2>2, <2>3, <2>4 DEF OneSlot
<1>29. ASSUME NEW h \in Handlers, ExpireTransaction(h) PROVE OneSlot'
  <2>1. \A u \in Ids : IsLive(u)' => IsLive(u)
    BY <1>29 DEF IsLive, ExpireTransaction
  <2>2. UNCHANGED <<sessions, handed>>
    BY <1>29 DEF ExpireTransaction
  <2>3. \A g \in Handlers : pc'[g] \in CheckoutSteps =>
          pc'[g] = pc[g] /\ tickets'[g] = tickets[g] /\ (lock' = g => lock = g)
    BY <1>29, <1>1 DEF CheckoutSteps, ExpireTransaction
  <2> QED
    BY <2>1, <2>2, <2>3, SlotKept
<1>30. ASSUME NEW h \in Handlers, CommitFails(h) PROVE OneSlot'
  <2>1. \A u \in Ids : IsLive(u)' => IsLive(u)
    BY <1>30 DEF IsLive, CommitFails, Leave
  <2>2. UNCHANGED <<sessions, handed>>
    BY <1>30 DEF CommitFails, Leave
  <2>3. \A g \in Handlers : pc'[g] \in CheckoutSteps =>
          pc'[g] = pc[g] /\ tickets'[g] = tickets[g] /\ (lock' = g => lock = g)
    BY <1>30, <1>1 DEF CheckoutSteps, CommitFails, Leave
  <2> QED
    BY <2>1, <2>2, <2>3, SlotKept
<1>31. ASSUME NEW h \in Handlers, Fail(h) PROVE OneSlot'
  <2>1. \A u \in Ids : IsLive(u)' => IsLive(u)
    BY <1>31 DEF IsLive, Fail, Leave
  <2>2. UNCHANGED <<sessions, handed>>
    BY <1>31 DEF Fail, Leave
  <2>3. \A g \in Handlers : pc'[g] \in CheckoutSteps =>
          pc'[g] = pc[g] /\ tickets'[g] = tickets[g] /\ (lock' = g => lock = g)
    BY <1>31, <1>1 DEF CheckoutSteps, Fail, Leave
  <2> QED
    BY <2>1, <2>2, <2>3, SlotKept
<1>32. ASSUME NEW t \in Tickets, PaySession(t) PROVE OneSlot'
  <2>1. Payable(t)
    BY <1>32 DEF PaySession, Payable
  <2>2. PICK s \in Ids, status \in {"ACTIVE", "INCOMPLETE"} :
          subs' = [subs EXCEPT ![s] = [NoSubscription EXCEPT !.status = status, !.price = sessions[t].price]]
    BY <1>32 DEF PaySession, ChangeSub
  <2>3. sessions' = [sessions EXCEPT ![t].status = "COMPLETE"] /\ UNCHANGED <<handed, lock, pc, tickets>>
    BY <1>32 DEF PaySession
  <2>4. \A u \in Ids : ~IsLive(u)
    BY <2>1 DEF OneSlot
  <2>5. \A u \in Ids : IsLive(u)' => u = s
    BY <1>1, <2>2, <2>4 DEF IsLive
  <2>6. ASSUME NEW u \in Tickets
        PROVE  ~Payable(u)' /\ (sessions'[u].status = "NONE" => sessions[u].status = "NONE")
    <3>1. sessions'[t].status = "COMPLETE"
      BY <1>1, <2>3 DEF Session
    <3>2. u # t => sessions'[u] = sessions[u]
      BY <1>1, <2>3
    <3> QED
      BY <2>1, <2>3, <3>1, <3>2 DEF OneSlot, Payable
  <2>7. ASSUME NEW g \in Handlers, lock = g
        PROVE  pc[g] \notin {"CHECK", "CREATE", "COMMIT_CHECKOUT"}
    BY <2>1, <2>7 DEF OneSlot
  <2>8. (\A g \in Handlers : pc[g] = "COMMIT_CHECKOUT" =>
           \E u \in Tickets : tickets[g] = {u} /\ sessions[u].status # "NONE")'
    BY <2>3, <2>6 DEF OneSlot
  <2>9. (\A u \in handed : sessions[u].status # "NONE")'
    BY <1>1, <2>3, <2>6 DEF OneSlot
  <2> QED
    BY <2>3, <2>5, <2>6, <2>7, <2>8, <2>9 DEF OneSlot
<1>33. ASSUME NEW s \in Ids, PaymentFails(s) PROVE OneSlot'
  <2>1. \A u \in Ids : IsLive(u)' => IsLive(u)
    BY <1>33, <1>1 DEF IsLive, Live, Subscription, PaymentFails, Move, ChangeSub
  <2>2. UNCHANGED <<sessions, handed>>
    BY <1>33 DEF PaymentFails, Move
  <2>3. \A g \in Handlers : pc'[g] \in CheckoutSteps =>
          pc'[g] = pc[g] /\ tickets'[g] = tickets[g] /\ (lock' = g => lock = g)
    BY <1>33, <1>1 DEF CheckoutSteps, PaymentFails, Move
  <2> QED
    BY <2>1, <2>2, <2>3, SlotKept
<1>34. ASSUME NEW s \in Ids, PaymentArrives(s) PROVE OneSlot'
  <2>1. \A u \in Ids : IsLive(u)' => IsLive(u)
    BY <1>34, <1>1 DEF IsLive, Live, Subscription, PaymentArrives, Move, ChangeSub
  <2>2. UNCHANGED <<sessions, handed>>
    BY <1>34 DEF PaymentArrives, Move
  <2>3. \A g \in Handlers : pc'[g] \in CheckoutSteps =>
          pc'[g] = pc[g] /\ tickets'[g] = tickets[g] /\ (lock' = g => lock = g)
    BY <1>34, <1>1 DEF CheckoutSteps, PaymentArrives, Move
  <2> QED
    BY <2>1, <2>2, <2>3, SlotKept
<1>35. ASSUME NEW s \in Ids, SubscriptionEnds(s) PROVE OneSlot'
  <2>1. \A u \in Ids : IsLive(u)' => IsLive(u)
    BY <1>35, <1>1 DEF IsLive, Live, Subscription, NoSubscription, SubscriptionEnds, Move, ChangeSub
  <2>2. UNCHANGED <<sessions, handed>>
    BY <1>35 DEF SubscriptionEnds, Move
  <2>3. \A g \in Handlers : pc'[g] \in CheckoutSteps =>
          pc'[g] = pc[g] /\ tickets'[g] = tickets[g] /\ (lock' = g => lock = g)
    BY <1>35, <1>1 DEF CheckoutSteps, SubscriptionEnds, Move
  <2> QED
    BY <2>1, <2>2, <2>3, SlotKept
<1>36. ASSUME NEW s \in Ids, PeriodEnds(s) PROVE OneSlot'
  <2>1. \A u \in Ids : IsLive(u)' => IsLive(u)
    BY <1>36, <1>1 DEF IsLive, Live, Subscription, PeriodEnds, Move, ChangeSub
  <2>2. UNCHANGED <<sessions, handed>>
    BY <1>36 DEF PeriodEnds, Move
  <2>3. \A g \in Handlers : pc'[g] \in CheckoutSteps =>
          pc'[g] = pc[g] /\ tickets'[g] = tickets[g] /\ (lock' = g => lock = g)
    BY <1>36, <1>1 DEF CheckoutSteps, PeriodEnds, Move
  <2> QED
    BY <2>1, <2>2, <2>3, SlotKept
<1>37. ASSUME NEW s \in Ids, PortalToggles(s) PROVE OneSlot'
  <2>1. \A u \in Ids : IsLive(u)' => IsLive(u)
    BY <1>37, <1>1 DEF IsLive, Live, Subscription, PortalToggles, Move, ChangeSub
  <2>2. UNCHANGED <<sessions, handed>>
    BY <1>37 DEF PortalToggles, Move
  <2>3. \A g \in Handlers : pc'[g] \in CheckoutSteps =>
          pc'[g] = pc[g] /\ tickets'[g] = tickets[g] /\ (lock' = g => lock = g)
    BY <1>37, <1>1 DEF CheckoutSteps, PortalToggles, Move
  <2> QED
    BY <2>1, <2>2, <2>3, SlotKept
<1>38. CASE UNCHANGED vars
  BY <1>38, SlotKept DEF vars, IsLive
<1> QED
  BY <1>2, <1>3, <1>4, <1>5, <1>6, <1>7, <1>8, <1>9, <1>10, <1>11, <1>12, <1>13, <1>14, <1>15,
     <1>16, <1>17, <1>18, <1>19, <1>20, <1>21, <1>22, <1>23, <1>24, <1>25, <1>26, <1>27, <1>28,
     <1>29, <1>30, <1>31, <1>32, <1>33, <1>34, <1>35, <1>36, <1>37,
     <1>38 DEF Next, Delivery, Stripe, Ask, Serve, Faults, Reconcile, Change, Checkout

\* OneSlot holds of every behaviour.
LEMMA SlotAlways == Spec => []OneSlot
<1>1. Init => OneSlot
  <2> SUFFICES ASSUME Init PROVE OneSlot
    OBVIOUS
  <2>1. \A s \in Ids : IsLive(s) => s = 1
    <3>1. \A s \in Ids : subs[s].status = "NONE" \/ s = 1
      <4>1. NoSubscription.status = "NONE"
        BY DEF NoSubscription
      <4>2. \A s \in Ids : s # 1 => subs[s] = NoSubscription
        BY DEF Init
      <4> QED
        BY <4>1, <4>2
    <3> QED
      BY <3>1 DEF IsLive, Live
  <2> QED
    BY <2>1, BillingAssumption DEF Init, OneSlot, Payable
<1> QED
  BY <1>1, TypedAlways, SlotStep, PTL DEF Spec

\* Stripe never holds two subscriptions of the account that are not over, for any
\* number of tabs, sessions and payments, and although the database may end the
\* transaction of a Checkout that goes on.
THEOREM OneSubscription == Spec => []OneLiveSubscription
<1>1. OneSlot => OneLiveSubscription
  <2> SUFFICES ASSUME OneSlot PROVE OneLiveSubscription
    OBVIOUS
  <2> DEFINE L == {s \in Ids : subs[s].status \in Live}
  <2>1. CASE L = {}
    BY <2>1, FS_EmptySet DEF OneLiveSubscription
  <2>2. ASSUME NEW s \in L PROVE OneLiveSubscription
    <3>1. L = {s}
      BY <2>2 DEF OneSlot, IsLive
    <3>2. Cardinality({s}) = 1
      BY FS_Singleton
    <3> QED
      BY <3>1, <3>2 DEF OneLiveSubscription
  <2> QED
    BY <2>1, <2>2
<1> QED
  BY <1>1, SlotAlways, PTL


-----------------------------------------------------------------------------
(* An upgrade supersedes what was scheduled *)

\* What makes UpgradeSupersedesInTime inductive: a price is only pending on a schedule,
\* a schedule belongs to one subscription, and while no transaction was given up
\* only the holder of the lock attaches one.
Superseding ==
  /\ \A s \in Ids : subs[s].schedule = None => subs[s].pending = None
  /\ \A s \in Ids : subs[s].schedule # None => subs[s].schedule <= schedules
  /\ \A s, t \in Ids : subs[s].schedule = subs[t].schedule /\ subs[s].schedule # None => s = t
  /\ \A h \in Handlers : pc[h] \in {"SET_PHASES", "RELEASE_PENDING"} => sched[h] # None
  /\ expiries = 0 => \A h \in Handlers :
       /\ pc[h] \in LockedSteps => lock = h
       /\ pc[h] = "RELEASE_PENDING" => subs[subject[h]].schedule \in {sched[h], None}
       /\ pc[h] = "UPDATE" => subs[subject[h]].pending = None

\* A step that schedules nothing and sends no request to an update keeps it.
LEMMA SupersedingKept ==
  ASSUME Typed, Superseding, schedules' = schedules, expiries' = 0 => expiries = 0,
         \A s \in Ids : /\ subs'[s].schedule \in {subs[s].schedule, None}
                        /\ subs'[s].pending \in {subs[s].pending, None}
                        /\ subs'[s].schedule = None => subs'[s].pending = None,
         \A g \in Handlers : pc'[g] \in {"SET_PHASES", "RELEASE_PENDING", "UPDATE"} =>
           pc'[g] = pc[g] /\ sched'[g] = sched[g] /\ subject'[g] = subject[g],
         \A g \in Handlers : expiries' = 0 /\ pc'[g] \in LockedSteps => lock' = g
  PROVE  Superseding'
<1>1. (\A s \in Ids : subs[s].schedule = None => subs[s].pending = None)'
  OBVIOUS
<1>2. (\A s \in Ids : subs[s].schedule # None => subs[s].schedule <= schedules)'
  BY DEF Superseding
<1>3. (\A s, t \in Ids : subs[s].schedule = subs[t].schedule /\ subs[s].schedule # None => s = t)'
  BY DEF Superseding
<1>4. (\A h \in Handlers : pc[h] \in {"SET_PHASES", "RELEASE_PENDING"} => sched[h] # None)'
  BY DEF Superseding
<1>5. ASSUME expiries' = 0, NEW h \in Handlers
      PROVE  /\ pc'[h] \in LockedSteps => lock' = h
             /\ pc'[h] = "RELEASE_PENDING" => subs'[subject'[h]].schedule \in {sched'[h], None}
             /\ pc'[h] = "UPDATE" => subs'[subject'[h]].pending = None
  <2>1. pc[h] \in {"RELEASE_PENDING", "UPDATE"} => subject[h] \in Ids
    BY DEF Typed, SubjectOK, ChangeSteps
  <2> QED
    BY <1>5, <2>1 DEF Superseding
<1> QED
  BY <1>1, <1>2, <1>3, <1>4, <1>5 DEF Superseding

\* Releasing a schedule leaves nothing pending on it and nothing new anywhere.
LEMMA ReleaseEffect ==
  ASSUME subs \in [Ids -> Subscription], NEW id, ReleaseSchedule(id),
         \A s \in Ids : subs[s].schedule = None => subs[s].pending = None,
         \A s, t \in Ids : subs[s].schedule = subs[t].schedule /\ subs[s].schedule # None => s = t
  PROVE  \A u \in Ids : /\ subs'[u].schedule \in {subs[u].schedule, None}
                        /\ subs'[u].pending \in {subs[u].pending, None}
                        /\ subs'[u].schedule = None => subs'[u].pending = None
                        /\ subs[u].schedule = id => subs'[u].pending = None
<1>1. ASSUME NEW s \in Ids, subs[s].schedule = id,
             subs' = [subs EXCEPT ![s] = [subs[s] EXCEPT !.schedule = None, !.pending = None]],
             NEW u \in Ids
      PROVE  /\ subs'[u].schedule \in {subs[u].schedule, None}
             /\ subs'[u].pending \in {subs[u].pending, None}
             /\ subs'[u].schedule = None => subs'[u].pending = None
             /\ subs[u].schedule = id => subs'[u].pending = None
  <2>1. CASE u = s
    <3>1. subs[s] \in Subscription
      OBVIOUS
    <3>2. subs'[u].schedule = None /\ subs'[u].pending = None
      BY <1>1, <2>1, <3>1 DEF Subscription
    <3> QED
      BY <3>2
  <2>2. CASE u # s
    BY <1>1, <2>2
  <2> QED
    BY <2>1, <2>2
<1> QED
  BY <1>1 DEF ReleaseSchedule, ChangeSub

\* Every step keeps it.
LEMMA SupersedingStep == Typed /\ Superseding /\ [Next]_vars => Superseding'
<1> SUFFICES ASSUME Typed, Superseding, [Next]_vars PROVE Superseding'
  OBVIOUS
<1> USE BillingAssumption
<1> USE DEF stripeVars, rowVars, readVars, argVars, boundVars, Goto, TakeLock, Unlock
<1>1. /\ pc \in [Handlers -> Steps] /\ sched \in [Handlers -> Nat \cup {None}]
      /\ subs \in [Ids -> Subscription] /\ subject \in [Handlers -> Ids \cup {0}]
      /\ schedules \in Nat /\ expiries \in Nat /\ NoHandler \notin Handlers
      /\ lock \in Handlers \cup {NoHandler}
  BY DEF Typed, TypeOK, StripeTypeOK, RequestTypeOK
<1>2. \A s \in Ids : subs[s].schedule = None => subs[s].pending = None
  BY DEF Superseding
<1>3. ASSUME NEW h \in Handlers, NEW e \in unacked, Deliver(h, e) PROVE Superseding'
  <2>1. \A u \in Ids : /\ subs'[u].schedule \in {subs[u].schedule, None}
                       /\ subs'[u].pending \in {subs[u].pending, None}
                       /\ subs'[u].schedule = None => subs'[u].pending = None
    BY <1>3, <1>2 DEF Deliver
  <2>2. schedules' = schedules /\ (expiries' = 0 => expiries = 0)
    BY <1>3, <1>1 DEF Deliver
  <2>3. \A g \in Handlers : pc'[g] \in {"SET_PHASES", "RELEASE_PENDING", "UPDATE"} =>
          pc'[g] = pc[g] /\ sched'[g] = sched[g] /\ subject'[g] = subject[g]
    BY <1>3, <1>1 DEF Deliver
  <2>4. \A g \in Handlers : expiries' = 0 /\ pc'[g] \in LockedSteps => lock' = g
    BY <1>3, <1>1, <2>2 DEF Superseding, LockedSteps, Deliver
  <2> QED
    BY <2>1, <2>2, <2>3, <2>4, SupersedingKept
<1>4. ASSUME NEW e \in unacked, DeliverDuplicate(e) PROVE Superseding'
  <2>1. \A u \in Ids : /\ subs'[u].schedule \in {subs[u].schedule, None}
                       /\ subs'[u].pending \in {subs[u].pending, None}
                       /\ subs'[u].schedule = None => subs'[u].pending = None
    BY <1>4, <1>2 DEF DeliverDuplicate
  <2>2. schedules' = schedules /\ (expiries' = 0 => expiries = 0)
    BY <1>4, <1>1 DEF DeliverDuplicate
  <2>3. \A g \in Handlers : pc'[g] \in {"SET_PHASES", "RELEASE_PENDING", "UPDATE"} =>
          pc'[g] = pc[g] /\ sched'[g] = sched[g] /\ subject'[g] = subject[g]
    BY <1>4, <1>1 DEF DeliverDuplicate
  <2>4. \A g \in Handlers : expiries' = 0 /\ pc'[g] \in LockedSteps => lock' = g
    BY <1>4, <1>1, <2>2 DEF Superseding, LockedSteps, DeliverDuplicate
  <2> QED
    BY <2>1, <2>2, <2>3, <2>4, SupersedingKept
<1>5. ASSUME NEW h \in Handlers, Refresh(h) PROVE Superseding'
  <2>1. \A u \in Ids : /\ subs'[u].schedule \in {subs[u].schedule, None}
                       /\ subs'[u].pending \in {subs[u].pending, None}
                       /\ subs'[u].schedule = None => subs'[u].pending = None
    BY <1>5, <1>2 DEF Refresh
  <2>2. schedules' = schedules /\ (expiries' = 0 => expiries = 0)
    BY <1>5, <1>1 DEF Refresh
  <2>3. \A g \in Handlers : pc'[g] \in {"SET_PHASES", "RELEASE_PENDING", "UPDATE"} =>
          pc'[g] = pc[g] /\ sched'[g] = sched[g] /\ subject'[g] = subject[g]
    BY <1>5, <1>1 DEF Refresh
  <2>4. \A g \in Handlers : expiries' = 0 /\ pc'[g] \in LockedSteps => lock' = g
    BY <1>5, <1>1, <2>2 DEF Superseding, LockedSteps, Refresh
  <2> QED
    BY <2>1, <2>2, <2>3, <2>4, SupersedingKept
<1>6. ASSUME NEW h \in Handlers, FollowUp(h) PROVE Superseding'
  <2>1. \A u \in Ids : /\ subs'[u].schedule \in {subs[u].schedule, None}
                       /\ subs'[u].pending \in {subs[u].pending, None}
                       /\ subs'[u].schedule = None => subs'[u].pending = None
    BY <1>6, <1>2 DEF FollowUp
  <2>2. schedules' = schedules /\ (expiries' = 0 => expiries = 0)
    BY <1>6, <1>1 DEF FollowUp
  <2>3. \A g \in Handlers : pc'[g] \in {"SET_PHASES", "RELEASE_PENDING", "UPDATE"} =>
          pc'[g] = pc[g] /\ sched'[g] = sched[g] /\ subject'[g] = subject[g]
    BY <1>6, <1>1 DEF FollowUp
  <2>4. \A g \in Handlers : expiries' = 0 /\ pc'[g] \in LockedSteps => lock' = g
    BY <1>6, <1>1, <2>2 DEF Superseding, LockedSteps, FollowUp
  <2> QED
    BY <2>1, <2>2, <2>3, <2>4, SupersedingKept
<1>7. ASSUME NEW h \in Handlers, Read(h) PROVE Superseding'
  <2>1. \A u \in Ids : /\ subs'[u].schedule \in {subs[u].schedule, None}
                       /\ subs'[u].pending \in {subs[u].pending, None}
                       /\ subs'[u].schedule = None => subs'[u].pending = None
    BY <1>7, <1>2 DEF Read
  <2>2. schedules' = schedules /\ (expiries' = 0 => expiries = 0)
    BY <1>7, <1>1 DEF Read
  <2>3. \A g \in Handlers : pc'[g] \in {"SET_PHASES", "RELEASE_PENDING", "UPDATE"} =>
          pc'[g] = pc[g] /\ sched'[g] = sched[g] /\ subject'[g] = subject[g]
    BY <1>7, <1>1 DEF Read
  <2>4. \A g \in Handlers : expiries' = 0 /\ pc'[g] \in LockedSteps => lock' = g
    BY <1>7, <1>1, <2>2 DEF Superseding, LockedSteps, Read
  <2> QED
    BY <2>1, <2>2, <2>3, <2>4, SupersedingKept
<1>8. ASSUME NEW h \in Handlers, Commit(h) PROVE Superseding'
  <2>1. \A u \in Ids : /\ subs'[u].schedule \in {subs[u].schedule, None}
                       /\ subs'[u].pending \in {subs[u].pending, None}
                       /\ subs'[u].schedule = None => subs'[u].pending = None
    BY <1>8, <1>2 DEF Commit, WriteRows
  <2>2. schedules' = schedules /\ (expiries' = 0 => expiries = 0)
    BY <1>8, <1>1 DEF Commit, WriteRows
  <2>3. \A g \in Handlers : pc'[g] \in {"SET_PHASES", "RELEASE_PENDING", "UPDATE"} =>
          pc'[g] = pc[g] /\ sched'[g] = sched[g] /\ subject'[g] = subject[g]
    BY <1>8, <1>1 DEF Commit, WriteRows
  <2>4. \A g \in Handlers : expiries' = 0 /\ pc'[g] \in LockedSteps => lock' = g
    BY <1>8, <1>1, <2>2 DEF Superseding, LockedSteps, Commit, WriteRows
  <2> QED
    BY <2>1, <2>2, <2>3, <2>4, SupersedingKept
<1>9. ASSUME NEW h \in Handlers, Look(h) PROVE Superseding'
  <2>1. \A u \in Ids : /\ subs'[u].schedule \in {subs[u].schedule, None}
                       /\ subs'[u].pending \in {subs[u].pending, None}
                       /\ subs'[u].schedule = None => subs'[u].pending = None
    BY <1>9, <1>2 DEF Look
  <2>2. schedules' = schedules /\ (expiries' = 0 => expiries = 0)
    BY <1>9, <1>1 DEF Look
  <2>3. \A g \in Handlers : pc'[g] \in {"SET_PHASES", "RELEASE_PENDING", "UPDATE"} =>
          pc'[g] = pc[g] /\ sched'[g] = sched[g] /\ subject'[g] = subject[g]
    BY <1>9, <1>1 DEF Look
  <2>4. \A g \in Handlers : expiries' = 0 /\ pc'[g] \in LockedSteps => lock' = g
    BY <1>9, <1>1, <2>2 DEF Superseding, LockedSteps, Look
  <2> QED
    BY <2>1, <2>2, <2>3, <2>4, SupersedingKept
<1>10. ASSUME NEW h \in Handlers, ReleaseSpent(h) PROVE Superseding'
  <2>1. \A u \in Ids : /\ subs'[u].schedule \in {subs[u].schedule, None}
                       /\ subs'[u].pending \in {subs[u].pending, None}
                       /\ subs'[u].schedule = None => subs'[u].pending = None
    BY <1>10, <1>1, <1>2, ReleaseEffect DEF Superseding, ReleaseSpent
  <2>2. schedules' = schedules /\ (expiries' = 0 => expiries = 0)
    BY <1>10, <1>1 DEF ReleaseSpent
  <2>3. \A g \in Handlers : pc'[g] \in {"SET_PHASES", "RELEASE_PENDING", "UPDATE"} =>
          pc'[g] = pc[g] /\ sched'[g] = sched[g] /\ subject'[g] = subject[g]
    BY <1>10, <1>1 DEF ReleaseSpent
  <2>4. \A g \in Handlers : expiries' = 0 /\ pc'[g] \in LockedSteps => lock' = g
    BY <1>10, <1>1, <2>2 DEF Superseding, LockedSteps, ReleaseSpent
  <2> QED
    BY <2>1, <2>2, <2>3, <2>4, SupersedingKept
<1>11. ASSUME NEW h \in Handlers, ReleaseSpentFails(h) PROVE Superseding'
  <2>1. \A u \in Ids : /\ subs'[u].schedule \in {subs[u].schedule, None}
                       /\ subs'[u].pending \in {subs[u].pending, None}
                       /\ subs'[u].schedule = None => subs'[u].pending = None
    BY <1>11, <1>1, <1>2, ReleaseEffect DEF Superseding, ReleaseSpentFails
  <2>2. schedules' = schedules /\ (expiries' = 0 => expiries = 0)
    BY <1>11, <1>1 DEF ReleaseSpentFails
  <2>3. \A g \in Handlers : pc'[g] \in {"SET_PHASES", "RELEASE_PENDING", "UPDATE"} =>
          pc'[g] = pc[g] /\ sched'[g] = sched[g] /\ subject'[g] = subject[g]
    BY <1>11, <1>1 DEF ReleaseSpentFails
  <2>4. \A g \in Handlers : expiries' = 0 /\ pc'[g] \in LockedSteps => lock' = g
    BY <1>11, <1>1, <2>2 DEF Superseding, LockedSteps, ReleaseSpentFails
  <2> QED
    BY <2>1, <2>2, <2>3, <2>4, SupersedingKept
<1>12. ASSUME NEW h \in Handlers, Forget(h) PROVE Superseding'
  <2>1. \A u \in Ids : /\ subs'[u].schedule \in {subs[u].schedule, None}
                       /\ subs'[u].pending \in {subs[u].pending, None}
                       /\ subs'[u].schedule = None => subs'[u].pending = None
    BY <1>12, <1>2 DEF Forget
  <2>2. schedules' = schedules /\ (expiries' = 0 => expiries = 0)
    BY <1>12, <1>1 DEF Forget
  <2>3. \A g \in Handlers : pc'[g] \in {"SET_PHASES", "RELEASE_PENDING", "UPDATE"} =>
          pc'[g] = pc[g] /\ sched'[g] = sched[g] /\ subject'[g] = subject[g]
    BY <1>12, <1>1 DEF Forget
  <2>4. \A g \in Handlers : expiries' = 0 /\ pc'[g] \in LockedSteps => lock' = g
    BY <1>12, <1>1, <2>2 DEF Superseding, LockedSteps, Forget
  <2> QED
    BY <2>1, <2>2, <2>3, <2>4, SupersedingKept
<1>13. ASSUME NEW h \in Handlers, Answer(h) PROVE Superseding'
  <2>1. \A u \in Ids : /\ subs'[u].schedule \in {subs[u].schedule, None}
                       /\ subs'[u].pending \in {subs[u].pending, None}
                       /\ subs'[u].schedule = None => subs'[u].pending = None
    BY <1>13, <1>2 DEF Answer, Leave
  <2>2. schedules' = schedules /\ (expiries' = 0 => expiries = 0)
    BY <1>13, <1>1 DEF Answer, Leave
  <2>3. \A g \in Handlers : pc'[g] \in {"SET_PHASES", "RELEASE_PENDING", "UPDATE"} =>
          pc'[g] = pc[g] /\ sched'[g] = sched[g] /\ subject'[g] = subject[g]
    BY <1>13, <1>1 DEF Answer, Leave
  <2>4. \A g \in Handlers : expiries' = 0 /\ pc'[g] \in LockedSteps => lock' = g
    BY <1>13, <1>1, <2>2 DEF Superseding, LockedSteps, Answer, Leave
  <2> QED
    BY <2>1, <2>2, <2>3, <2>4, SupersedingKept
<1>14. ASSUME NEW h \in Handlers, NEW p \in Prices, ChangePlan(h, p) PROVE Superseding'
  <2>1. \A u \in Ids : /\ subs'[u].schedule \in {subs[u].schedule, None}
                       /\ subs'[u].pending \in {subs[u].pending, None}
                       /\ subs'[u].schedule = None => subs'[u].pending = None
    BY <1>14, <1>2 DEF ChangePlan
  <2>2. schedules' = schedules /\ (expiries' = 0 => expiries = 0)
    BY <1>14, <1>1 DEF ChangePlan
  <2>3. \A g \in Handlers : pc'[g] \in {"SET_PHASES", "RELEASE_PENDING", "UPDATE"} =>
          pc'[g] = pc[g] /\ sched'[g] = sched[g] /\ subject'[g] = subject[g]
    BY <1>14, <1>1 DEF ChangePlan
  <2>4. \A g \in Handlers : expiries' = 0 /\ pc'[g] \in LockedSteps => lock' = g
    BY <1>14, <1>1, <2>2 DEF Superseding, LockedSteps, ChangePlan
  <2> QED
    BY <2>1, <2>2, <2>3, <2>4, SupersedingKept
<1>15. ASSUME NEW h \in Handlers, LoadLiveSubscription(h) PROVE Superseding'
  <2>1. /\ pc[h] = "LOAD" /\ UNCHANGED <<subs, schedules, expiries, lock, subject>>
        /\ \/ pc' = [pc EXCEPT ![h] = "ATTACH"] /\ UNCHANGED sched
           \/ /\ subs[subject[h]].schedule = None
              /\ pc' = [pc EXCEPT ![h] = "UPDATE"] /\ UNCHANGED sched
           \/ /\ subs[subject[h]].schedule # None
              /\ pc' = [pc EXCEPT ![h] = "RELEASE_PENDING"]
              /\ sched' = [sched EXCEPT ![h] = subs[subject[h]].schedule]
    BY <1>15 DEF LoadLiveSubscription
  <2>2. subject[h] \in Ids
    BY <2>1 DEF Typed, SubjectOK, ChangeSteps
  <2>3. subs[subject[h]].schedule = None => subs[subject[h]].pending = None
    BY <1>2, <2>2
  <2> QED
    BY <1>1, <2>1, <2>2, <2>3 DEF Superseding, LockedSteps
<1>16. ASSUME NEW h \in Handlers, RefuseChange(h) PROVE Superseding'
  <2>1. \A u \in Ids : /\ subs'[u].schedule \in {subs[u].schedule, None}
                       /\ subs'[u].pending \in {subs[u].pending, None}
                       /\ subs'[u].schedule = None => subs'[u].pending = None
    BY <1>16, <1>2 DEF RefuseChange, Leave
  <2>2. schedules' = schedules /\ (expiries' = 0 => expiries = 0)
    BY <1>16, <1>1 DEF RefuseChange, Leave
  <2>3. \A g \in Handlers : pc'[g] \in {"SET_PHASES", "RELEASE_PENDING", "UPDATE"} =>
          pc'[g] = pc[g] /\ sched'[g] = sched[g] /\ subject'[g] = subject[g]
    BY <1>16, <1>1 DEF RefuseChange, Leave
  <2>4. \A g \in Handlers : expiries' = 0 /\ pc'[g] \in LockedSteps => lock' = g
    BY <1>16, <1>1, <2>2 DEF Superseding, LockedSteps, RefuseChange, Leave
  <2> QED
    BY <2>1, <2>2, <2>3, <2>4, SupersedingKept
<1>17. ASSUME NEW h \in Handlers, ReleasePending(h) PROVE Superseding'
  <2>1. /\ pc[h] = "RELEASE_PENDING" /\ pc' = [pc EXCEPT ![h] = "UPDATE"]
        /\ UNCHANGED <<schedules, expiries, lock, sched, subject>>
        /\ ReleaseSchedule(sched[h])
    BY <1>17 DEF ReleasePending
  <2>2. subject[h] \in Ids /\ sched[h] # None
    BY <2>1 DEF Typed, SubjectOK, ChangeSteps, Superseding
  <2>3. \A u \in Ids : /\ subs'[u].schedule \in {subs[u].schedule, None}
                       /\ subs'[u].pending \in {subs[u].pending, None}
                       /\ subs'[u].schedule = None => subs'[u].pending = None
                       /\ subs[u].schedule = sched[h] => subs'[u].pending = None
    BY <1>2, <1>1, <2>1, <2>2, ReleaseEffect DEF Superseding
  <2>4. ASSUME expiries = 0 PROVE subs'[subject[h]].pending = None
    <3>1. subs[subject[h]].schedule \in {sched[h], None}
      BY <2>1, <2>4 DEF Superseding
    <3>2. subs[subject[h]].schedule = None => subs[subject[h]].pending = None
      BY <1>2, <2>2
    <3> QED
      BY <2>2, <2>3, <3>1, <3>2
  <2>5. (\A s, t \in Ids : subs[s].schedule = subs[t].schedule /\ subs[s].schedule # None => s = t)'
    BY <2>3 DEF Superseding
  <2>6. (\A s \in Ids : subs[s].schedule # None => subs[s].schedule <= schedules)'
    BY <2>1, <2>3 DEF Superseding
  <2>7. \A g \in Handlers : pc'[g] \in {"SET_PHASES", "RELEASE_PENDING"} => sched'[g] # None
    BY <1>1, <2>1 DEF Superseding
  <2>8. ASSUME expiries' = 0, NEW g \in Handlers
        PROVE  /\ pc'[g] \in LockedSteps => lock' = g
               /\ pc'[g] = "RELEASE_PENDING" => subs'[subject'[g]].schedule \in {sched'[g], None}
               /\ pc'[g] = "UPDATE" => subs'[subject'[g]].pending = None
    <3>1. lock = h /\ expiries = 0
      BY <2>1, <2>8 DEF Superseding, LockedSteps
    <3> QED
      BY <1>1, <2>1, <2>4, <2>8, <3>1 DEF Superseding, LockedSteps
  <2> QED
    BY <2>3, <2>5, <2>6, <2>7, <2>8 DEF Superseding
<1>18. ASSUME NEW h \in Handlers, UpdatePrice(h) PROVE Superseding'
  <2>1. \A u \in Ids : /\ subs'[u].schedule \in {subs[u].schedule, None}
                       /\ subs'[u].pending \in {subs[u].pending, None}
                       /\ subs'[u].schedule = None => subs'[u].pending = None
    BY <1>18, <1>1, <1>2 DEF Subscription, ChangeSub, UpdatePrice
  <2>2. schedules' = schedules /\ (expiries' = 0 => expiries = 0)
    BY <1>18, <1>1 DEF UpdatePrice
  <2>3. \A g \in Handlers : pc'[g] \in {"SET_PHASES", "RELEASE_PENDING", "UPDATE"} =>
          pc'[g] = pc[g] /\ sched'[g] = sched[g] /\ subject'[g] = subject[g]
    BY <1>18, <1>1 DEF UpdatePrice
  <2>4. \A g \in Handlers : expiries' = 0 /\ pc'[g] \in LockedSteps => lock' = g
    BY <1>18, <1>1, <2>2 DEF Superseding, LockedSteps, UpdatePrice
  <2> QED
    BY <2>1, <2>2, <2>3, <2>4, SupersedingKept
<1>19. ASSUME NEW h \in Handlers, AttachSchedule(h) PROVE Superseding'
  <2>1. /\ pc[h] = "ATTACH" /\ pc' = [pc EXCEPT ![h] = "SET_PHASES"]
        /\ UNCHANGED <<expiries, lock, subject>>
    BY <1>19 DEF AttachSchedule
  <2>2. subject[h] \in Ids
    BY <2>1 DEF Typed, SubjectOK, ChangeSteps
  <2>3. subs[subject[h]].schedule \in Nat \cup {None}
    BY <1>1, <2>2 DEF Subscription
  <2>4. CASE \E id \in Nat : UNCHANGED <<subs, schedules>> /\ sched' = [sched EXCEPT ![h] = id]
    <3>1. PICK id \in Nat : UNCHANGED <<subs, schedules>> /\ sched' = [sched EXCEPT ![h] = id]
      BY <2>4
    <3>2. id # None
      BY BillingAssumption
    <3> QED
      BY <1>1, <2>1, <3>1, <3>2 DEF Superseding, LockedSteps
  <2>5. CASE /\ schedules' = schedules + 1 /\ sched' = [sched EXCEPT ![h] = schedules + 1]
             /\ ChangeSub(subject[h], [subs[subject[h]] EXCEPT !.schedule = schedules + 1])
    <3>1. /\ schedules' = schedules + 1 /\ sched' = [sched EXCEPT ![h] = schedules + 1]
          /\ subs' = [subs EXCEPT ![subject[h]] = [subs[subject[h]] EXCEPT !.schedule = schedules + 1]]
      BY <2>5 DEF ChangeSub
    <3>2. /\ \A u \in Ids : subs'[u].pending = subs[u].pending
          /\ \A u \in Ids : u # subject[h] => subs'[u] = subs[u]
          /\ subs'[subject[h]].schedule = schedules + 1
      BY <1>1, <2>2, <3>1 DEF Subscription
    <3>3. schedules + 1 \in Nat /\ schedules + 1 # None
      BY <1>1
    <3>4. \A u \in Ids : subs[u].schedule \in Nat \cup {None}
      BY <1>1 DEF Subscription
    <3>5. (\A s \in Ids : subs[s].schedule # None => subs[s].schedule <= schedules)'
      BY <1>1, <3>1, <3>2, <3>4 DEF Superseding
    <3>6. (\A s, t \in Ids : subs[s].schedule = subs[t].schedule /\ subs[s].schedule # None => s = t)'
      <4>1. \A u \in Ids : subs[u].schedule # schedules + 1
        BY <1>1, <3>3, <3>4 DEF Superseding
      <4> QED
        BY <2>2, <3>2, <4>1 DEF Superseding
    <3>7. \A g \in Handlers : pc'[g] \in {"SET_PHASES", "RELEASE_PENDING"} => sched'[g] # None
      BY <1>1, <2>1, <3>1, <3>3 DEF Superseding
    <3>8. (\A s \in Ids : subs[s].schedule = None => subs[s].pending = None)'
      BY <1>2, <3>2, <3>3
    <3>9. ASSUME expiries' = 0, NEW g \in Handlers
          PROVE  /\ pc'[g] \in LockedSteps => lock' = g
                 /\ pc'[g] \notin {"RELEASE_PENDING", "UPDATE"}
      <4>1. lock = h /\ expiries = 0
        BY <2>1, <3>9 DEF Superseding, LockedSteps
      <4> QED
        BY <1>1, <2>1, <3>9, <4>1 DEF Superseding, LockedSteps
    <3> QED
      BY <3>5, <3>6, <3>7, <3>8, <3>9 DEF Superseding
  <2>6. CASE subs[subject[h]].schedule # None
    BY <1>19, <2>3, <2>4, <2>6 DEF AttachSchedule
  <2>7. CASE subs[subject[h]].schedule = None
    BY <1>19, <2>5, <2>7 DEF AttachSchedule
  <2> QED
    BY <2>6, <2>7
<1>20. ASSUME NEW h \in Handlers, SetPhases(h) PROVE Superseding'
  <2>1. /\ pc[h] = "SET_PHASES" /\ pc' = [pc EXCEPT ![h] = "COMMIT_CHANGE"]
        /\ UNCHANGED <<schedules, expiries, lock, sched, subject>>
        /\ subs[subject[h]].schedule = sched[h]
        /\ subs' = [subs EXCEPT ![subject[h]] = [subs[subject[h]] EXCEPT !.pending = target[h]]]
    BY <1>20 DEF SetPhases, ChangeSub
  <2>2. subject[h] \in Ids /\ sched[h] # None
    BY <2>1 DEF Typed, SubjectOK, ChangeSteps, Superseding
  <2>3. \A u \in Ids : subs'[u].schedule = subs[u].schedule /\ (u # subject[h] => subs'[u] = subs[u])
    BY <1>1, <2>1, <2>2 DEF Subscription
  <2>4. (\A s \in Ids : subs[s].schedule = None => subs[s].pending = None)'
    BY <1>2, <2>1, <2>2, <2>3
  <2>5. ASSUME expiries' = 0, NEW g \in Handlers
        PROVE  /\ pc'[g] \in LockedSteps => lock' = g
               /\ pc'[g] \notin {"RELEASE_PENDING", "UPDATE"}
    <3>1. lock = h /\ expiries = 0
      BY <2>1, <2>5 DEF Superseding, LockedSteps
    <3> QED
      BY <1>1, <2>1, <2>5, <3>1 DEF Superseding, LockedSteps
  <2>6. \A g \in Handlers : pc'[g] \in {"SET_PHASES", "RELEASE_PENDING"} => sched'[g] # None
    BY <1>1, <2>1 DEF Superseding
  <2> QED
    BY <2>1, <2>3, <2>4, <2>5, <2>6 DEF Superseding
<1>21. ASSUME NEW h \in Handlers, StripeRefuses(h) PROVE Superseding'
  <2>1. \A u \in Ids : /\ subs'[u].schedule \in {subs[u].schedule, None}
                       /\ subs'[u].pending \in {subs[u].pending, None}
                       /\ subs'[u].schedule = None => subs'[u].pending = None
    BY <1>21, <1>2 DEF StripeRefuses, Leave
  <2>2. schedules' = schedules /\ (expiries' = 0 => expiries = 0)
    BY <1>21, <1>1 DEF StripeRefuses, Leave
  <2>3. \A g \in Handlers : pc'[g] \in {"SET_PHASES", "RELEASE_PENDING", "UPDATE"} =>
          pc'[g] = pc[g] /\ sched'[g] = sched[g] /\ subject'[g] = subject[g]
    BY <1>21, <1>1 DEF StripeRefuses, Leave
  <2>4. \A g \in Handlers : expiries' = 0 /\ pc'[g] \in LockedSteps => lock' = g
    BY <1>21, <1>1, <2>2 DEF Superseding, LockedSteps, StripeRefuses, Leave
  <2> QED
    BY <2>1, <2>2, <2>3, <2>4, SupersedingKept
<1>22. ASSUME NEW h \in Handlers, CommitChange(h) PROVE Superseding'
  <2>1. \A u \in Ids : /\ subs'[u].schedule \in {subs[u].schedule, None}
                       /\ subs'[u].pending \in {subs[u].pending, None}
                       /\ subs'[u].schedule = None => subs'[u].pending = None
    BY <1>22, <1>2 DEF CommitChange
  <2>2. schedules' = schedules /\ (expiries' = 0 => expiries = 0)
    BY <1>22, <1>1 DEF CommitChange
  <2>3. \A g \in Handlers : pc'[g] \in {"SET_PHASES", "RELEASE_PENDING", "UPDATE"} =>
          pc'[g] = pc[g] /\ sched'[g] = sched[g] /\ subject'[g] = subject[g]
    BY <1>22, <1>1 DEF CommitChange
  <2>4. \A g \in Handlers : expiries' = 0 /\ pc'[g] \in LockedSteps => lock' = g
    BY <1>22, <1>1, <2>2 DEF Superseding, LockedSteps, CommitChange
  <2> QED
    BY <2>1, <2>2, <2>3, <2>4, SupersedingKept
<1>23. ASSUME NEW h \in Handlers, NEW p \in Prices, CreateCheckoutSession(h, p) PROVE Superseding'
  <2>1. \A u \in Ids : /\ subs'[u].schedule \in {subs[u].schedule, None}
                       /\ subs'[u].pending \in {subs[u].pending, None}
                       /\ subs'[u].schedule = None => subs'[u].pending = None
    BY <1>23, <1>2 DEF CreateCheckoutSession
  <2>2. schedules' = schedules /\ (expiries' = 0 => expiries = 0)
    BY <1>23, <1>1 DEF CreateCheckoutSession
  <2>3. \A g \in Handlers : pc'[g] \in {"SET_PHASES", "RELEASE_PENDING", "UPDATE"} =>
          pc'[g] = pc[g] /\ sched'[g] = sched[g] /\ subject'[g] = subject[g]
    BY <1>23, <1>1 DEF CreateCheckoutSession
  <2>4. \A g \in Handlers : expiries' = 0 /\ pc'[g] \in LockedSteps => lock' = g
    BY <1>23, <1>1, <2>2 DEF Superseding, LockedSteps, CreateCheckoutSession
  <2> QED
    BY <2>1, <2>2, <2>3, <2>4, SupersedingKept
<1>24. ASSUME NEW h \in Handlers, ListSessions(h) PROVE Superseding'
  <2>1. \A u \in Ids : /\ subs'[u].schedule \in {subs[u].schedule, None}
                       /\ subs'[u].pending \in {subs[u].pending, None}
                       /\ subs'[u].schedule = None => subs'[u].pending = None
    BY <1>24, <1>2 DEF ListSessions
  <2>2. schedules' = schedules /\ (expiries' = 0 => expiries = 0)
    BY <1>24, <1>1 DEF ListSessions
  <2>3. \A g \in Handlers : pc'[g] \in {"SET_PHASES", "RELEASE_PENDING", "UPDATE"} =>
          pc'[g] = pc[g] /\ sched'[g] = sched[g] /\ subject'[g] = subject[g]
    BY <1>24, <1>1 DEF ListSessions
  <2>4. \A g \in Handlers : expiries' = 0 /\ pc'[g] \in LockedSteps => lock' = g
    BY <1>24, <1>1, <2>2 DEF Superseding, LockedSteps, ListSessions
  <2> QED
    BY <2>1, <2>2, <2>3, <2>4, SupersedingKept
<1>25. ASSUME NEW h \in Handlers, ExpireSessions(h) PROVE Superseding'
  <2>1. \A u \in Ids : /\ subs'[u].schedule \in {subs[u].schedule, None}
                       /\ subs'[u].pending \in {subs[u].pending, None}
                       /\ subs'[u].schedule = None => subs'[u].pending = None
    BY <1>25, <1>2 DEF ExpireSessions
  <2>2. schedules' = schedules /\ (expiries' = 0 => expiries = 0)
    BY <1>25, <1>1 DEF ExpireSessions
  <2>3. \A g \in Handlers : pc'[g] \in {"SET_PHASES", "RELEASE_PENDING", "UPDATE"} =>
          pc'[g] = pc[g] /\ sched'[g] = sched[g] /\ subject'[g] = subject[g]
    BY <1>25, <1>1 DEF ExpireSessions
  <2>4. \A g \in Handlers : expiries' = 0 /\ pc'[g] \in LockedSteps => lock' = g
    BY <1>25, <1>1, <2>2 DEF Superseding, LockedSteps, ExpireSessions
  <2> QED
    BY <2>1, <2>2, <2>3, <2>4, SupersedingKept
<1>26. ASSUME NEW h \in Handlers, CheckLive(h) PROVE Superseding'
  <2>1. \A u \in Ids : /\ subs'[u].schedule \in {subs[u].schedule, None}
                       /\ subs'[u].pending \in {subs[u].pending, None}
                       /\ subs'[u].schedule = None => subs'[u].pending = None
    BY <1>26, <1>2 DEF CheckLive
  <2>2. schedules' = schedules /\ (expiries' = 0 => expiries = 0)
    BY <1>26, <1>1 DEF CheckLive
  <2>3. \A g \in Handlers : pc'[g] \in {"SET_PHASES", "RELEASE_PENDING", "UPDATE"} =>
          pc'[g] = pc[g] /\ sched'[g] = sched[g] /\ subject'[g] = subject[g]
    BY <1>26, <1>1 DEF CheckLive
  <2>4. \A g \in Handlers : expiries' = 0 /\ pc'[g] \in LockedSteps => lock' = g
    BY <1>26, <1>1, <2>2 DEF Superseding, LockedSteps, CheckLive
  <2> QED
    BY <2>1, <2>2, <2>3, <2>4, SupersedingKept
<1>27. ASSUME NEW h \in Handlers, RefuseCheckout(h) PROVE Superseding'
  <2>1. \A u \in Ids : /\ subs'[u].schedule \in {subs[u].schedule, None}
                       /\ subs'[u].pending \in {subs[u].pending, None}
                       /\ subs'[u].schedule = None => subs'[u].pending = None
    BY <1>27, <1>2 DEF RefuseCheckout
  <2>2. schedules' = schedules /\ (expiries' = 0 => expiries = 0)
    BY <1>27, <1>1 DEF RefuseCheckout
  <2>3. \A g \in Handlers : pc'[g] \in {"SET_PHASES", "RELEASE_PENDING", "UPDATE"} =>
          pc'[g] = pc[g] /\ sched'[g] = sched[g] /\ subject'[g] = subject[g]
    BY <1>27, <1>1 DEF RefuseCheckout
  <2>4. \A g \in Handlers : expiries' = 0 /\ pc'[g] \in LockedSteps => lock' = g
    BY <1>27, <1>1, <2>2 DEF Superseding, LockedSteps, RefuseCheckout
  <2> QED
    BY <2>1, <2>2, <2>3, <2>4, SupersedingKept
<1>28. ASSUME NEW h \in Handlers, CreateSession(h) PROVE Superseding'
  <2>1. \A u \in Ids : /\ subs'[u].schedule \in {subs[u].schedule, None}
                       /\ subs'[u].pending \in {subs[u].pending, None}
                       /\ subs'[u].schedule = None => subs'[u].pending = None
    BY <1>28, <1>2 DEF CreateSession
  <2>2. schedules' = schedules /\ (expiries' = 0 => expiries = 0)
    BY <1>28, <1>1 DEF CreateSession
  <2>3. \A g \in Handlers : pc'[g] \in {"SET_PHASES", "RELEASE_PENDING", "UPDATE"} =>
          pc'[g] = pc[g] /\ sched'[g] = sched[g] /\ subject'[g] = subject[g]
    BY <1>28, <1>1 DEF CreateSession
  <2>4. \A g \in Handlers : expiries' = 0 /\ pc'[g] \in LockedSteps => lock' = g
    BY <1>28, <1>1, <2>2 DEF Superseding, LockedSteps, CreateSession
  <2> QED
    BY <2>1, <2>2, <2>3, <2>4, SupersedingKept
<1>29. ASSUME NEW h \in Handlers, CommitCheckout(h) PROVE Superseding'
  <2>1. \A u \in Ids : /\ subs'[u].schedule \in {subs[u].schedule, None}
                       /\ subs'[u].pending \in {subs[u].pending, None}
                       /\ subs'[u].schedule = None => subs'[u].pending = None
    BY <1>29, <1>2 DEF CommitCheckout, Leave
  <2>2. schedules' = schedules /\ (expiries' = 0 => expiries = 0)
    BY <1>29, <1>1 DEF CommitCheckout, Leave
  <2>3. \A g \in Handlers : pc'[g] \in {"SET_PHASES", "RELEASE_PENDING", "UPDATE"} =>
          pc'[g] = pc[g] /\ sched'[g] = sched[g] /\ subject'[g] = subject[g]
    BY <1>29, <1>1 DEF CommitCheckout, Leave
  <2>4. \A g \in Handlers : expiries' = 0 /\ pc'[g] \in LockedSteps => lock' = g
    BY <1>29, <1>1, <2>2 DEF Superseding, LockedSteps, CommitCheckout, Leave
  <2> QED
    BY <2>1, <2>2, <2>3, <2>4, SupersedingKept
<1>30. ASSUME NEW h \in Handlers, ExpireTransaction(h) PROVE Superseding'
  <2>1. \A u \in Ids : /\ subs'[u].schedule \in {subs[u].schedule, None}
                       /\ subs'[u].pending \in {subs[u].pending, None}
                       /\ subs'[u].schedule = None => subs'[u].pending = None
    BY <1>30, <1>2 DEF ExpireTransaction
  <2>2. schedules' = schedules /\ (expiries' = 0 => expiries = 0)
    BY <1>30, <1>1 DEF ExpireTransaction
  <2>3. \A g \in Handlers : pc'[g] \in {"SET_PHASES", "RELEASE_PENDING", "UPDATE"} =>
          pc'[g] = pc[g] /\ sched'[g] = sched[g] /\ subject'[g] = subject[g]
    BY <1>30, <1>1 DEF ExpireTransaction
  <2>4. \A g \in Handlers : expiries' = 0 /\ pc'[g] \in LockedSteps => lock' = g
    BY <1>30, <1>1, <2>2 DEF Superseding, LockedSteps, ExpireTransaction
  <2> QED
    BY <2>1, <2>2, <2>3, <2>4, SupersedingKept
<1>31. ASSUME NEW h \in Handlers, CommitFails(h) PROVE Superseding'
  <2>1. \A u \in Ids : /\ subs'[u].schedule \in {subs[u].schedule, None}
                       /\ subs'[u].pending \in {subs[u].pending, None}
                       /\ subs'[u].schedule = None => subs'[u].pending = None
    BY <1>31, <1>2 DEF CommitFails, Leave
  <2>2. schedules' = schedules /\ (expiries' = 0 => expiries = 0)
    BY <1>31, <1>1 DEF CommitFails, Leave
  <2>3. \A g \in Handlers : pc'[g] \in {"SET_PHASES", "RELEASE_PENDING", "UPDATE"} =>
          pc'[g] = pc[g] /\ sched'[g] = sched[g] /\ subject'[g] = subject[g]
    BY <1>31, <1>1 DEF CommitFails, Leave
  <2>4. \A g \in Handlers : expiries' = 0 /\ pc'[g] \in LockedSteps => lock' = g
    BY <1>31, <1>1, <2>2 DEF Superseding, LockedSteps, CommitFails, Leave
  <2> QED
    BY <2>1, <2>2, <2>3, <2>4, SupersedingKept
<1>32. ASSUME NEW h \in Handlers, Fail(h) PROVE Superseding'
  <2>1. \A u \in Ids : /\ subs'[u].schedule \in {subs[u].schedule, None}
                       /\ subs'[u].pending \in {subs[u].pending, None}
                       /\ subs'[u].schedule = None => subs'[u].pending = None
    BY <1>32, <1>2 DEF Fail, Leave
  <2>2. schedules' = schedules /\ (expiries' = 0 => expiries = 0)
    BY <1>32, <1>1 DEF Fail, Leave
  <2>3. \A g \in Handlers : pc'[g] \in {"SET_PHASES", "RELEASE_PENDING", "UPDATE"} =>
          pc'[g] = pc[g] /\ sched'[g] = sched[g] /\ subject'[g] = subject[g]
    BY <1>32, <1>1 DEF Fail, Leave
  <2>4. \A g \in Handlers : expiries' = 0 /\ pc'[g] \in LockedSteps => lock' = g
    BY <1>32, <1>1, <2>2 DEF Superseding, LockedSteps, Fail, Leave
  <2> QED
    BY <2>1, <2>2, <2>3, <2>4, SupersedingKept
<1>33. ASSUME NEW t \in Tickets, PaySession(t) PROVE Superseding'
  <2>1. \A u \in Ids : /\ subs'[u].schedule \in {subs[u].schedule, None}
                       /\ subs'[u].pending \in {subs[u].pending, None}
                       /\ subs'[u].schedule = None => subs'[u].pending = None
    BY <1>33, <1>1, <1>2 DEF Subscription, ChangeSub, NoSubscription, PaySession
  <2>2. schedules' = schedules /\ (expiries' = 0 => expiries = 0)
    BY <1>33, <1>1 DEF PaySession
  <2>3. \A g \in Handlers : pc'[g] \in {"SET_PHASES", "RELEASE_PENDING", "UPDATE"} =>
          pc'[g] = pc[g] /\ sched'[g] = sched[g] /\ subject'[g] = subject[g]
    BY <1>33, <1>1 DEF PaySession
  <2>4. \A g \in Handlers : expiries' = 0 /\ pc'[g] \in LockedSteps => lock' = g
    BY <1>33, <1>1, <2>2 DEF Superseding, LockedSteps, PaySession
  <2> QED
    BY <2>1, <2>2, <2>3, <2>4, SupersedingKept
<1>34. ASSUME NEW s \in Ids, PaymentFails(s) PROVE Superseding'
  <2>1. \A u \in Ids : /\ subs'[u].schedule \in {subs[u].schedule, None}
                       /\ subs'[u].pending \in {subs[u].pending, None}
                       /\ subs'[u].schedule = None => subs'[u].pending = None
    BY <1>34, <1>1, <1>2 DEF Subscription, ChangeSub, PaymentFails, Move
  <2>2. schedules' = schedules /\ (expiries' = 0 => expiries = 0)
    BY <1>34, <1>1 DEF PaymentFails, Move
  <2>3. \A g \in Handlers : pc'[g] \in {"SET_PHASES", "RELEASE_PENDING", "UPDATE"} =>
          pc'[g] = pc[g] /\ sched'[g] = sched[g] /\ subject'[g] = subject[g]
    BY <1>34, <1>1 DEF PaymentFails, Move
  <2>4. \A g \in Handlers : expiries' = 0 /\ pc'[g] \in LockedSteps => lock' = g
    BY <1>34, <1>1, <2>2 DEF Superseding, LockedSteps, PaymentFails, Move
  <2> QED
    BY <2>1, <2>2, <2>3, <2>4, SupersedingKept
<1>35. ASSUME NEW s \in Ids, PaymentArrives(s) PROVE Superseding'
  <2>1. \A u \in Ids : /\ subs'[u].schedule \in {subs[u].schedule, None}
                       /\ subs'[u].pending \in {subs[u].pending, None}
                       /\ subs'[u].schedule = None => subs'[u].pending = None
    BY <1>35, <1>1, <1>2 DEF Subscription, ChangeSub, PaymentArrives, Move
  <2>2. schedules' = schedules /\ (expiries' = 0 => expiries = 0)
    BY <1>35, <1>1 DEF PaymentArrives, Move
  <2>3. \A g \in Handlers : pc'[g] \in {"SET_PHASES", "RELEASE_PENDING", "UPDATE"} =>
          pc'[g] = pc[g] /\ sched'[g] = sched[g] /\ subject'[g] = subject[g]
    BY <1>35, <1>1 DEF PaymentArrives, Move
  <2>4. \A g \in Handlers : expiries' = 0 /\ pc'[g] \in LockedSteps => lock' = g
    BY <1>35, <1>1, <2>2 DEF Superseding, LockedSteps, PaymentArrives, Move
  <2> QED
    BY <2>1, <2>2, <2>3, <2>4, SupersedingKept
<1>36. ASSUME NEW s \in Ids, SubscriptionEnds(s) PROVE Superseding'
  <2>1. \A u \in Ids : /\ subs'[u].schedule \in {subs[u].schedule, None}
                       /\ subs'[u].pending \in {subs[u].pending, None}
                       /\ subs'[u].schedule = None => subs'[u].pending = None
    BY <1>36, <1>1, <1>2 DEF Subscription, ChangeSub, NoSubscription, SubscriptionEnds, Move
  <2>2. schedules' = schedules /\ (expiries' = 0 => expiries = 0)
    BY <1>36, <1>1 DEF SubscriptionEnds, Move
  <2>3. \A g \in Handlers : pc'[g] \in {"SET_PHASES", "RELEASE_PENDING", "UPDATE"} =>
          pc'[g] = pc[g] /\ sched'[g] = sched[g] /\ subject'[g] = subject[g]
    BY <1>36, <1>1 DEF SubscriptionEnds, Move
  <2>4. \A g \in Handlers : expiries' = 0 /\ pc'[g] \in LockedSteps => lock' = g
    BY <1>36, <1>1, <2>2 DEF Superseding, LockedSteps, SubscriptionEnds, Move
  <2> QED
    BY <2>1, <2>2, <2>3, <2>4, SupersedingKept
<1>37. ASSUME NEW s \in Ids, PeriodEnds(s) PROVE Superseding'
  <2>1. \A u \in Ids : /\ subs'[u].schedule \in {subs[u].schedule, None}
                       /\ subs'[u].pending \in {subs[u].pending, None}
                       /\ subs'[u].schedule = None => subs'[u].pending = None
    BY <1>37, <1>1, <1>2 DEF Subscription, ChangeSub, PeriodEnds, Move
  <2>2. schedules' = schedules /\ (expiries' = 0 => expiries = 0)
    BY <1>37, <1>1 DEF PeriodEnds, Move
  <2>3. \A g \in Handlers : pc'[g] \in {"SET_PHASES", "RELEASE_PENDING", "UPDATE"} =>
          pc'[g] = pc[g] /\ sched'[g] = sched[g] /\ subject'[g] = subject[g]
    BY <1>37, <1>1 DEF PeriodEnds, Move
  <2>4. \A g \in Handlers : expiries' = 0 /\ pc'[g] \in LockedSteps => lock' = g
    BY <1>37, <1>1, <2>2 DEF Superseding, LockedSteps, PeriodEnds, Move
  <2> QED
    BY <2>1, <2>2, <2>3, <2>4, SupersedingKept
<1>38. ASSUME NEW s \in Ids, PortalToggles(s) PROVE Superseding'
  <2>1. \A u \in Ids : /\ subs'[u].schedule \in {subs[u].schedule, None}
                       /\ subs'[u].pending \in {subs[u].pending, None}
                       /\ subs'[u].schedule = None => subs'[u].pending = None
    BY <1>38, <1>1, <1>2 DEF Subscription, ChangeSub, PortalToggles, Move
  <2>2. schedules' = schedules /\ (expiries' = 0 => expiries = 0)
    BY <1>38, <1>1 DEF PortalToggles, Move
  <2>3. \A g \in Handlers : pc'[g] \in {"SET_PHASES", "RELEASE_PENDING", "UPDATE"} =>
          pc'[g] = pc[g] /\ sched'[g] = sched[g] /\ subject'[g] = subject[g]
    BY <1>38, <1>1 DEF PortalToggles, Move
  <2>4. \A g \in Handlers : expiries' = 0 /\ pc'[g] \in LockedSteps => lock' = g
    BY <1>38, <1>1, <2>2 DEF Superseding, LockedSteps, PortalToggles, Move
  <2> QED
    BY <2>1, <2>2, <2>3, <2>4, SupersedingKept
<1>39. CASE UNCHANGED vars
  BY <1>39 DEF Superseding, vars
<1> QED
  BY <1>3, <1>4, <1>5, <1>6, <1>7, <1>8, <1>9, <1>10, <1>11, <1>12, <1>13, <1>14, <1>15, <1>16,
     <1>17, <1>18, <1>19, <1>20, <1>21, <1>22, <1>23, <1>24, <1>25, <1>26, <1>27, <1>28, <1>29,
     <1>30, <1>31, <1>32, <1>33, <1>34, <1>35, <1>36, <1>37, <1>38,
     <1>39 DEF Next, Delivery, Stripe, Ask, Serve, Faults, Reconcile, Change, Checkout

\* An upgrade is made with nothing scheduled that would take the price back (the
\* release before the update in changePlan), as long as the database gave up on no
\* transaction: the lock is what keeps another request from scheduling a change
\* between the release and the update, and a request can outlive its lock.
THEOREM UpgradeIsFinal == Spec => []UpgradeSupersedesInTime
<1>1. Init => Superseding
  <2> SUFFICES ASSUME Init PROVE Superseding
    OBVIOUS
  <2>1. \A s \in Ids : subs[s].schedule = None /\ subs[s].pending = None
    <3>1. NoSubscription.schedule = None /\ NoSubscription.pending = None
      BY DEF NoSubscription
    <3>2. ASSUME NEW p PROVE /\ [NoSubscription EXCEPT !.status = "ACTIVE", !.price = p].schedule = None
                             /\ [NoSubscription EXCEPT !.status = "ACTIVE", !.price = p].pending = None
      BY DEF NoSubscription
    <3> QED
      BY <3>1, <3>2 DEF Init
  <2>2. \A h \in Handlers : pc[h] = "IDLE"
    BY DEF Init
  <2> QED
    BY <2>1, <2>2 DEF Superseding, LockedSteps
<1>2. Superseding => UpgradeSupersedesInTime
  BY DEF Superseding, UpgradeSupersedesInTime
<1> QED
  BY <1>1, <1>2, TypedAlways, SupersedingStep, PTL DEF Spec

==============================================================================
