------------------------- MODULE BillingMirrorProofs -------------------------
(***************************************************************************)
(* What TLAPS proves of the row and the schedules: a row as new as Stripe  *)
(* says what Stripe says, and no schedule is left attached for nothing.    *)
(***************************************************************************)
EXTENDS BillingProofs

Spent(s) == subs[s].schedule # None /\ subs[s].pending = None

\* Only a subscription that is not over has a schedule, ids are never given
\* twice, and the schedule a request is about to forget is attached nowhere.
Named ==
  /\ \A s \in Ids : subs[s].schedule # None => IsLive(s) /\ subs[s].schedule <= schedules
  /\ mirror # None /\ mirror.schedule # None => mirror.schedule <= schedules
  /\ \A h \in Handlers :
       /\ pc[h] = "COMMIT" =>
            \A s \in Ids : seen[h][s].schedule # None => seen[h][s].schedule <= schedules
       /\ pc[h] \in {"RELEASE", "FORGET"} => sched[h] # None /\ sched[h] <= schedules
       /\ pc[h] = "FORGET" => \A s \in Ids : subs[s].schedule # sched[h]

\* A row built from Stripe as it is now describes the subscription that is not
\* over, or one that is; and what a reconciliation read is Stripe as it is,
\* unless it changed.
Mirroring ==
  /\ \A h \in Handlers : pc[h] = "COMMIT" /\ seenRev[h] = rev => seen[h] = subs
  /\ mirrorRev = rev => \A s \in Ids : IsLive(s) => mirror = Describe(subs, s)
  /\ mirrorRev = rev /\ mirror # None => mirror.status = subs[mirror.sub].status

\* As long as no call failed, a spent schedule the row knows of is one that a
\* request will look for, or is about to release.
Releasing ==
  mirrorRev = rev /\ failures = 0 =>
    \A s \in Ids : Spent(s) =>
      \E h \in Handlers : pc[h] = "LOOK" \/ (pc[h] = "RELEASE" /\ sched[h] = subs[s].schedule)

SpentInv == Named /\ Mirroring /\ Releasing

\* The steps of a reconciliation that remember something of the row or of Stripe.
Remembering == {"COMMIT", "LOOK", "RELEASE", "FORGET"}

\* Nobody gets further in a reconciliation, or reads or looks for anything else.
Still ==
  \A g \in Handlers : pc'[g] \in Remembering =>
    pc'[g] = pc[g] /\ sched'[g] = sched[g] /\ seen'[g] = seen[g] /\ seenRev'[g] = seenRev[g]

\* Nobody gives up a release, unless something failed.
Steadfast ==
  \/ failures' # 0
  \/ /\ failures' = failures
     /\ \A g \in Handlers : pc[g] \in {"LOOK", "RELEASE"} => pc'[g] = pc[g] /\ sched'[g] = sched[g]

\* A step that changes neither Stripe's subscriptions nor the row keeps it.
LEMMA QuietKept ==
  ASSUME SpentInv, Still, Steadfast, UNCHANGED <<subs, schedules, rev, mirror, mirrorRev>>
  PROVE  SpentInv'
<1>1. Named'
  BY DEF SpentInv, Named, Still, Remembering, IsLive
<1>2. Mirroring'
  BY DEF SpentInv, Mirroring, Still, Remembering, IsLive, Describe
<1>3. Releasing'
  BY DEF SpentInv, Releasing, Steadfast, Spent
<1> QED
  BY <1>1, <1>2, <1>3 DEF SpentInv

\* A change at Stripe keeps it: the row is older than the change, and a
\* schedule is attached only when it is created, to a subscription not over.
LEMMA ChangeKept ==
  ASSUME Typed, Typed', Synced, SpentInv, rev' = rev + 1, UNCHANGED <<mirror, mirrorRev>>,
         schedules' >= schedules,
         \A s \in Ids : subs'[s].schedule # None =>
           /\ subs'[s].status \in Live
           /\ \/ subs'[s].schedule = subs[s].schedule
              \/ subs'[s].schedule = schedules' /\ schedules' = schedules + 1,
         \A g \in Handlers : pc'[g] \in Remembering =>
           /\ sched'[g] = sched[g] /\ seen'[g] = seen[g] /\ seenRev'[g] = seenRev[g]
           /\ \/ pc'[g] = pc[g]
              \/ /\ pc[g] = "RELEASE" /\ pc'[g] = "FORGET"
                 /\ \A s \in Ids : subs'[s].schedule # sched[g]
  PROVE  SpentInv'
<1>1. /\ rev \in Nat /\ mirrorRev \in Nat /\ schedules \in Nat /\ schedules' \in Nat
      /\ \A s \in Ids : subs[s].schedule \in Nat \cup {None} /\ subs'[s].schedule \in Nat \cup {None}
      /\ \A h \in Handlers : sched[h] \in Nat \cup {None} /\ seenRev[h] \in Nat
      /\ \A h \in Handlers : \A s \in Ids : seen[h][s].schedule \in Nat \cup {None}
      /\ mirror # None => mirror.schedule \in Nat \cup {None}
  BY DEF Typed, TypeOK, StripeTypeOK, RowTypeOK, RequestTypeOK, Subscription, Row
<1>2. mirrorRev' # rev'
  BY <1>1 DEF Synced
<1>3. Mirroring'
  <2>1. \A h \in Handlers : pc'[h] = "COMMIT" => pc[h] = "COMMIT" /\ seenRev'[h] = seenRev[h]
    BY DEF Remembering
  <2>2. \A h \in Handlers : pc'[h] = "COMMIT" => seenRev'[h] # rev'
    BY <2>1, <1>1 DEF Synced
  <2> QED
    BY <1>2, <2>2 DEF Mirroring
<1>4. Releasing'
  BY <1>2 DEF Releasing
<1>5. Named'
  <2>1. ASSUME NEW s \in Ids, subs'[s].schedule # None
        PROVE  IsLive(s)' /\ subs'[s].schedule <= schedules'
    BY <1>1, <2>1, BillingAssumption DEF IsLive, SpentInv, Named
  <2>2. mirror' # None /\ mirror'.schedule # None => mirror'.schedule <= schedules'
    BY <1>1 DEF SpentInv, Named
  <2>3. ASSUME NEW h \in Handlers, pc'[h] = "COMMIT", NEW s \in Ids, seen'[h][s].schedule # None
        PROVE  seen'[h][s].schedule <= schedules'
    BY <1>1, <2>3 DEF SpentInv, Named, Remembering
  <2>4. ASSUME NEW h \in Handlers, pc'[h] \in {"RELEASE", "FORGET"}
        PROVE  sched'[h] # None /\ sched'[h] <= schedules'
    BY <1>1, <2>4 DEF SpentInv, Named, Remembering
  <2>5. ASSUME NEW h \in Handlers, pc'[h] = "FORGET", NEW s \in Ids
        PROVE  subs'[s].schedule # sched'[h]
    <3>1. CASE pc[h] = "FORGET"
      <4>1. /\ sched'[h] = sched[h] /\ sched[h] # None /\ sched[h] <= schedules
            /\ subs[s].schedule # sched[h]
        BY <2>5, <3>1 DEF SpentInv, Named, Remembering
      <4> QED
        BY <4>1, <1>1
    <3>2. CASE pc[h] # "FORGET"
      BY <2>5, <3>2 DEF Remembering
    <3> QED
      BY <3>1, <3>2
  <2> QED
    BY <2>1, <2>2, <2>3, <2>4, <2>5 DEF Named
<1> QED
  BY <1>3, <1>4, <1>5 DEF SpentInv

\* Releasing a schedule detaches it, from the one subscription it is attached to.
LEMMA Released ==
  ASSUME Typed, OneSlot, Named, NEW id, ReleaseSchedule(id)
  PROVE  /\ id # None => \A u \in Ids : subs'[u].schedule # id
         /\ \A u \in Ids : subs'[u].schedule # None =>
              subs'[u].schedule = subs[u].schedule /\ subs'[u].status = subs[u].status
<1>1. subs \in [Ids -> Subscription]
  BY DEF Typed, TypeOK, StripeTypeOK
<1>2. id # None => \A s, t \in Ids : subs[s].schedule = id /\ subs[t].schedule = id => s = t
  BY DEF Named, OneSlot
<1>3. ASSUME NEW s \in Ids, subs[s].schedule = id,
             subs' = [subs EXCEPT ![s] = [subs[s] EXCEPT !.schedule = None, !.pending = None]],
             NEW u \in Ids
      PROVE  /\ id # None => subs'[u].schedule # id
             /\ subs'[u].schedule # None =>
                  subs'[u].schedule = subs[u].schedule /\ subs'[u].status = subs[u].status
  <2>1. CASE u = s
    <3>1. subs[s] \in Subscription
      BY <1>1
    <3>2. subs'[u].schedule = None
      BY <1>1, <1>3, <2>1, <3>1 DEF Subscription
    <3> QED
      BY <3>2
  <2>2. CASE u # s
    BY <1>1, <1>2, <1>3, <2>2
  <2> QED
    BY <2>1, <2>2
<1> QED
  BY <1>3 DEF ReleaseSchedule, ChangeSub

\* The steps that change neither Stripe's subscriptions nor the row.
LEMMA QuietSteps ==
  ASSUME Typed, SpentInv,
         \/ Delivery
         \/ \E h \in Handlers :
              \/ FollowUp(h) \/ Answer(h) \/ LoadLiveSubscription(h) \/ RefuseChange(h)
              \/ StripeRefuses(h) \/ CommitChange(h) \/ Checkout(h) \/ CommitFails(h)
              \/ Ask(h) \/ ExpireTransaction(h) \/ Fail(h)
  PROVE  SpentInv'
<1> USE BillingAssumption
<1> USE DEF stripeVars, rowVars, readVars, argVars, boundVars, Goto
<1>1. /\ pc \in [Handlers -> Steps] /\ sched \in [Handlers -> Nat \cup {None}]
      /\ seen \in [Handlers -> [Ids -> Subscription]] /\ seenRev \in [Handlers -> Nat]
      /\ failures \in Nat
  BY DEF Typed, TypeOK, RequestTypeOK
<1>2. ASSUME NEW h \in Handlers, NEW e \in unacked, Deliver(h, e) PROVE SpentInv'
  <2>1. UNCHANGED <<subs, schedules, rev, mirror, mirrorRev>>
    BY <1>2 DEF Deliver
  <2>2. Still
    BY <1>2, <1>1 DEF Still, Remembering, Deliver
  <2>3. Steadfast
    BY <1>2, <1>1 DEF Steadfast, Deliver
  <2> QED
    BY <2>1, <2>2, <2>3, QuietKept
<1>3. ASSUME NEW e \in unacked, DeliverDuplicate(e) PROVE SpentInv'
  <2>1. UNCHANGED <<subs, schedules, rev, mirror, mirrorRev>>
    BY <1>3 DEF DeliverDuplicate
  <2>2. Still
    BY <1>3, <1>1 DEF Still, Remembering, DeliverDuplicate
  <2>3. Steadfast
    BY <1>3, <1>1 DEF Steadfast, DeliverDuplicate
  <2> QED
    BY <2>1, <2>2, <2>3, QuietKept
<1>4. ASSUME NEW h \in Handlers, Refresh(h) PROVE SpentInv'
  <2>1. UNCHANGED <<subs, schedules, rev, mirror, mirrorRev>>
    BY <1>4 DEF Refresh
  <2>2. Still
    BY <1>4, <1>1 DEF Still, Remembering, Refresh
  <2>3. Steadfast
    BY <1>4, <1>1 DEF Steadfast, Refresh
  <2> QED
    BY <2>1, <2>2, <2>3, QuietKept
<1>5. ASSUME NEW h \in Handlers, FollowUp(h) PROVE SpentInv'
  <2>1. UNCHANGED <<subs, schedules, rev, mirror, mirrorRev>>
    BY <1>5 DEF FollowUp
  <2>2. Still
    BY <1>5, <1>1 DEF Still, Remembering, FollowUp
  <2>3. Steadfast
    BY <1>5, <1>1 DEF Steadfast, FollowUp
  <2> QED
    BY <2>1, <2>2, <2>3, QuietKept
<1>6. ASSUME NEW h \in Handlers, Answer(h) PROVE SpentInv'
  <2>1. UNCHANGED <<subs, schedules, rev, mirror, mirrorRev>>
    BY <1>6 DEF Answer, Leave
  <2>2. Still
    BY <1>6, <1>1 DEF Still, Remembering, Answer, Leave
  <2>3. Steadfast
    BY <1>6, <1>1 DEF Steadfast, Answer, Leave
  <2> QED
    BY <2>1, <2>2, <2>3, QuietKept
<1>7. ASSUME NEW h \in Handlers, NEW p \in Prices, ChangePlan(h, p) PROVE SpentInv'
  <2>1. UNCHANGED <<subs, schedules, rev, mirror, mirrorRev>>
    BY <1>7 DEF ChangePlan
  <2>2. Still
    BY <1>7, <1>1 DEF Still, Remembering, ChangePlan
  <2>3. Steadfast
    BY <1>7, <1>1 DEF Steadfast, ChangePlan
  <2> QED
    BY <2>1, <2>2, <2>3, QuietKept
<1>8. ASSUME NEW h \in Handlers, LoadLiveSubscription(h) PROVE SpentInv'
  <2>1. UNCHANGED <<subs, schedules, rev, mirror, mirrorRev>>
    BY <1>8 DEF LoadLiveSubscription
  <2>2. Still
    BY <1>8, <1>1 DEF Still, Remembering, LoadLiveSubscription
  <2>3. Steadfast
    BY <1>8, <1>1 DEF Steadfast, LoadLiveSubscription
  <2> QED
    BY <2>1, <2>2, <2>3, QuietKept
<1>9. ASSUME NEW h \in Handlers, RefuseChange(h) PROVE SpentInv'
  <2>1. UNCHANGED <<subs, schedules, rev, mirror, mirrorRev>>
    BY <1>9 DEF RefuseChange, Leave
  <2>2. Still
    BY <1>9, <1>1 DEF Still, Remembering, RefuseChange, Leave
  <2>3. Steadfast
    BY <1>9, <1>1 DEF Steadfast, RefuseChange, Leave
  <2> QED
    BY <2>1, <2>2, <2>3, QuietKept
<1>10. ASSUME NEW h \in Handlers, StripeRefuses(h) PROVE SpentInv'
  <2>1. UNCHANGED <<subs, schedules, rev, mirror, mirrorRev>>
    BY <1>10 DEF StripeRefuses, Leave
  <2>2. Still
    BY <1>10, <1>1 DEF Still, Remembering, StripeRefuses, Leave
  <2>3. Steadfast
    BY <1>10, <1>1 DEF Steadfast, StripeRefuses, Leave
  <2> QED
    BY <2>1, <2>2, <2>3, QuietKept
<1>11. ASSUME NEW h \in Handlers, CommitChange(h) PROVE SpentInv'
  <2>1. UNCHANGED <<subs, schedules, rev, mirror, mirrorRev>>
    BY <1>11 DEF CommitChange
  <2>2. Still
    BY <1>11, <1>1 DEF Still, Remembering, CommitChange
  <2>3. Steadfast
    BY <1>11, <1>1 DEF Steadfast, CommitChange
  <2> QED
    BY <2>1, <2>2, <2>3, QuietKept
<1>12. ASSUME NEW h \in Handlers, NEW p \in Prices, CreateCheckoutSession(h, p) PROVE SpentInv'
  <2>1. UNCHANGED <<subs, schedules, rev, mirror, mirrorRev>>
    BY <1>12 DEF CreateCheckoutSession
  <2>2. Still
    BY <1>12, <1>1 DEF Still, Remembering, CreateCheckoutSession
  <2>3. Steadfast
    BY <1>12, <1>1 DEF Steadfast, CreateCheckoutSession
  <2> QED
    BY <2>1, <2>2, <2>3, QuietKept
<1>13. ASSUME NEW h \in Handlers, ListSessions(h) PROVE SpentInv'
  <2>1. UNCHANGED <<subs, schedules, rev, mirror, mirrorRev>>
    BY <1>13 DEF ListSessions
  <2>2. Still
    BY <1>13, <1>1 DEF Still, Remembering, ListSessions
  <2>3. Steadfast
    BY <1>13, <1>1 DEF Steadfast, ListSessions
  <2> QED
    BY <2>1, <2>2, <2>3, QuietKept
<1>14. ASSUME NEW h \in Handlers, ExpireSessions(h) PROVE SpentInv'
  <2>1. UNCHANGED <<subs, schedules, rev, mirror, mirrorRev>>
    BY <1>14 DEF ExpireSessions
  <2>2. Still
    BY <1>14, <1>1 DEF Still, Remembering, ExpireSessions
  <2>3. Steadfast
    BY <1>14, <1>1 DEF Steadfast, ExpireSessions
  <2> QED
    BY <2>1, <2>2, <2>3, QuietKept
<1>15. ASSUME NEW h \in Handlers, CheckLive(h) PROVE SpentInv'
  <2>1. UNCHANGED <<subs, schedules, rev, mirror, mirrorRev>>
    BY <1>15 DEF CheckLive
  <2>2. Still
    BY <1>15, <1>1 DEF Still, Remembering, CheckLive
  <2>3. Steadfast
    BY <1>15, <1>1 DEF Steadfast, CheckLive
  <2> QED
    BY <2>1, <2>2, <2>3, QuietKept
<1>16. ASSUME NEW h \in Handlers, RefuseCheckout(h) PROVE SpentInv'
  <2>1. UNCHANGED <<subs, schedules, rev, mirror, mirrorRev>>
    BY <1>16 DEF RefuseCheckout
  <2>2. Still
    BY <1>16, <1>1 DEF Still, Remembering, RefuseCheckout
  <2>3. Steadfast
    BY <1>16, <1>1 DEF Steadfast, RefuseCheckout
  <2> QED
    BY <2>1, <2>2, <2>3, QuietKept
<1>17. ASSUME NEW h \in Handlers, CreateSession(h) PROVE SpentInv'
  <2>1. UNCHANGED <<subs, schedules, rev, mirror, mirrorRev>>
    BY <1>17 DEF CreateSession
  <2>2. Still
    BY <1>17, <1>1 DEF Still, Remembering, CreateSession
  <2>3. Steadfast
    BY <1>17, <1>1 DEF Steadfast, CreateSession
  <2> QED
    BY <2>1, <2>2, <2>3, QuietKept
<1>18. ASSUME NEW h \in Handlers, CommitCheckout(h) PROVE SpentInv'
  <2>1. UNCHANGED <<subs, schedules, rev, mirror, mirrorRev>>
    BY <1>18 DEF CommitCheckout, Leave
  <2>2. Still
    BY <1>18, <1>1 DEF Still, Remembering, CommitCheckout, Leave
  <2>3. Steadfast
    BY <1>18, <1>1 DEF Steadfast, CommitCheckout, Leave
  <2> QED
    BY <2>1, <2>2, <2>3, QuietKept
<1>19. ASSUME NEW h \in Handlers, ExpireTransaction(h) PROVE SpentInv'
  <2>1. UNCHANGED <<subs, schedules, rev, mirror, mirrorRev>>
    BY <1>19 DEF ExpireTransaction
  <2>2. Still
    BY <1>19, <1>1 DEF Still, Remembering, ExpireTransaction
  <2>3. Steadfast
    BY <1>19, <1>1 DEF Steadfast, ExpireTransaction
  <2> QED
    BY <2>1, <2>2, <2>3, QuietKept
<1>20. ASSUME NEW h \in Handlers, CommitFails(h) PROVE SpentInv'
  <2>1. UNCHANGED <<subs, schedules, rev, mirror, mirrorRev>>
    BY <1>20 DEF CommitFails, Leave
  <2>2. Still
    BY <1>20, <1>1 DEF Still, Remembering, CommitFails, Leave
  <2>3. Steadfast
    BY <1>20, <1>1 DEF Steadfast, CommitFails, Leave
  <2> QED
    BY <2>1, <2>2, <2>3, QuietKept
<1>21. ASSUME NEW h \in Handlers, Fail(h) PROVE SpentInv'
  <2>1. UNCHANGED <<subs, schedules, rev, mirror, mirrorRev>>
    BY <1>21 DEF Fail, Leave
  <2>2. Still
    BY <1>21, <1>1 DEF Still, Remembering, Fail, Leave
  <2>3. Steadfast
    BY <1>21, <1>1 DEF Steadfast, Fail, Leave
  <2> QED
    BY <2>1, <2>2, <2>3, QuietKept
<1> QED
  BY <1>2, <1>3, <1>4, <1>5, <1>6, <1>7, <1>8, <1>9, <1>10, <1>11, <1>12, <1>13, <1>14, <1>15,
     <1>16, <1>17, <1>18, <1>19, <1>20, <1>21 DEF Delivery, Ask, Checkout

\* A subscription changed at Stripe and given no schedule keeps it.
LEMMA MoveKept ==
  ASSUME Typed, Typed', Synced, SpentInv, NEW t \in Ids, NEW new, ChangeSub(t, new),
         new.schedule # None => new.status \in Live /\ new.schedule = subs[t].schedule,
         UNCHANGED <<schedules, mirror, mirrorRev, sched, seen, seenRev>>,
         \A g \in Handlers : pc'[g] \in Remembering => pc'[g] = pc[g]
  PROVE  SpentInv'
<1>1. subs \in [Ids -> Subscription] /\ schedules \in Nat
  BY DEF Typed, TypeOK, StripeTypeOK
<1>2. subs' = [subs EXCEPT ![t] = new] /\ rev' = rev + 1
  BY DEF ChangeSub, Emit
<1>3. ASSUME NEW s \in Ids, subs'[s].schedule # None
      PROVE  subs'[s].status \in Live /\ subs'[s].schedule = subs[s].schedule
  <2>1. CASE s = t
    BY <1>1, <1>2, <1>3, <2>1
  <2>2. CASE s # t
    BY <1>1, <1>2, <1>3, <2>2 DEF SpentInv, Named, IsLive
  <2> QED
    BY <2>1, <2>2
<1> QED
  BY <1>1, <1>2, <1>3, ChangeKept

\* The changes Stripe makes of itself, and the payment of a session.
LEMMA StripeSteps ==
  ASSUME Typed, Typed', Synced, SpentInv, Stripe
  PROVE  SpentInv'
<1> USE BillingAssumption
<1> USE DEF stripeVars, rowVars, readVars, argVars, boundVars
<1>1. /\ \A s \in Ids : subs[s] \in Subscription
      /\ \A s \in Ids : subs[s].schedule # None => subs[s].status \in Live
  BY DEF Typed, TypeOK, StripeTypeOK, SpentInv, Named, IsLive
<1>2. NoSubscription \in Subscription /\ NoSubscription.schedule = None
  BY DEF NoSubscription, Subscription, Statuses, AnyPrice
<1>3. ASSUME NEW t \in Tickets, PaySession(t) PROVE SpentInv'
  <2>1. PICK s \in Ids, status \in {"ACTIVE", "INCOMPLETE"} :
          ChangeSub(s, [NoSubscription EXCEPT !.status = status, !.price = sessions[t].price])
    BY <1>3 DEF PaySession
  <2>2. [NoSubscription EXCEPT !.status = status, !.price = sessions[t].price].schedule = None
    BY <1>2 DEF Subscription
  <2>3. UNCHANGED <<schedules, mirror, mirrorRev, sched, seen, seenRev, pc>>
    BY <1>3 DEF PaySession
  <2> QED
    BY <2>1, <2>2, <2>3, MoveKept
<1>4. ASSUME NEW s \in Ids, PaymentFails(s) PROVE SpentInv'
  <2> DEFINE new == [subs[s] EXCEPT !.status = "PAST_DUE"]
  <2>1. ChangeSub(s, new) /\ UNCHANGED <<schedules, mirror, mirrorRev, sched, seen, seenRev, pc>>
    BY <1>4 DEF PaymentFails, Move
  <2>2. new.schedule # None => new.status \in Live /\ new.schedule = subs[s].schedule
    BY <1>4, <1>1, <1>2 DEF PaymentFails, Subscription, Live
  <2> HIDE DEF new
  <2> QED
    BY <2>1, <2>2, MoveKept
<1>5. ASSUME NEW s \in Ids, PaymentArrives(s) PROVE SpentInv'
  <2> DEFINE new == [subs[s] EXCEPT !.status = "ACTIVE"]
  <2>1. ChangeSub(s, new) /\ UNCHANGED <<schedules, mirror, mirrorRev, sched, seen, seenRev, pc>>
    BY <1>5 DEF PaymentArrives, Move
  <2>2. new.schedule # None => new.status \in Live /\ new.schedule = subs[s].schedule
    BY <1>5, <1>1, <1>2 DEF PaymentArrives, Subscription, Live
  <2> HIDE DEF new
  <2> QED
    BY <2>1, <2>2, MoveKept
<1>6. ASSUME NEW s \in Ids, SubscriptionEnds(s) PROVE SpentInv'
  <2> DEFINE new == [NoSubscription EXCEPT !.status = "CANCELED", !.price = subs[s].price]
  <2>1. ChangeSub(s, new) /\ UNCHANGED <<schedules, mirror, mirrorRev, sched, seen, seenRev, pc>>
    BY <1>6 DEF SubscriptionEnds, Move
  <2>2. new.schedule # None => new.status \in Live /\ new.schedule = subs[s].schedule
    BY <1>6, <1>1, <1>2 DEF SubscriptionEnds, Subscription, Live
  <2> HIDE DEF new
  <2> QED
    BY <2>1, <2>2, MoveKept
<1>7. ASSUME NEW s \in Ids, PeriodEnds(s) PROVE SpentInv'
  <2> DEFINE new == [subs[s] EXCEPT !.price = subs[s].pending, !.pending = None]
  <2>1. ChangeSub(s, new) /\ UNCHANGED <<schedules, mirror, mirrorRev, sched, seen, seenRev, pc>>
    BY <1>7 DEF PeriodEnds, Move
  <2>2. new.schedule # None => new.status \in Live /\ new.schedule = subs[s].schedule
    BY <1>7, <1>1, <1>2 DEF PeriodEnds, Subscription, Live
  <2> HIDE DEF new
  <2> QED
    BY <2>1, <2>2, MoveKept
<1>8. ASSUME NEW s \in Ids, PortalToggles(s) PROVE SpentInv'
  <2> DEFINE new == [subs[s] EXCEPT !.cancelling = ~@]
  <2>1. ChangeSub(s, new) /\ UNCHANGED <<schedules, mirror, mirrorRev, sched, seen, seenRev, pc>>
    BY <1>8 DEF PortalToggles, Move
  <2>2. new.schedule # None => new.status \in Live /\ new.schedule = subs[s].schedule
    BY <1>8, <1>1, <1>2 DEF PortalToggles, Subscription, Live
  <2> HIDE DEF new
  <2> QED
    BY <2>1, <2>2, MoveKept
<1> QED
  BY <1>3, <1>4, <1>5, <1>6, <1>7, <1>8 DEF Stripe

\* A release that emits no event changed nothing.
LEMMA ReleasedOrNot ==
  ASSUME rev \in Nat, NEW id, ReleaseSchedule(id), rev' = rev
  PROVE  UNCHANGED subs
<1>1. ~Emit
  BY DEF Emit
<1> QED
  BY <1>1 DEF ReleaseSchedule, ChangeSub

\* The changes requests make at Stripe.
LEMMA RequestSteps ==
  ASSUME Typed, Typed', Synced, OneSlot, SpentInv, NEW h \in Handlers,
         \/ ReleaseSpentFails(h) \/ ReleasePending(h) \/ UpdatePrice(h)
         \/ AttachSchedule(h) \/ SetPhases(h)
  PROVE  SpentInv'
<1> USE BillingAssumption
<1> USE DEF stripeVars, rowVars, readVars, argVars, boundVars, Goto
<1>1. /\ pc \in [Handlers -> Steps] /\ sched \in [Handlers -> Nat \cup {None}]
      /\ subs \in [Ids -> Subscription] /\ schedules \in Nat /\ failures \in Nat
      /\ rev \in Nat
  BY DEF Typed, TypeOK, RequestTypeOK, StripeTypeOK
<1>2. \A s \in Ids : subs[s].schedule # None => subs[s].status \in Live
  BY DEF SpentInv, Named, IsLive
<1>3. pc[h] \in ChangeSteps => subject[h] \in Ids
  BY DEF Typed, SubjectOK
<1>4. ASSUME ReleaseSchedule(sched[h]), rev' # rev,
             UNCHANGED <<schedules, mirror, mirrorRev, sched, seen, seenRev>>,
             \A g \in Handlers : pc'[g] \in Remembering => pc'[g] = pc[g]
      PROVE  SpentInv'
  <2>1. rev' = rev + 1
    BY <1>4 DEF ReleaseSchedule, ChangeSub, Emit
  <2>2. \A s \in Ids : subs'[s].schedule # None =>
          subs'[s].schedule = subs[s].schedule /\ subs'[s].status \in Live
    BY <1>2, <1>4, Released DEF SpentInv
  <2> QED
    BY <1>1, <1>4, <2>1, <2>2, ChangeKept
<1>5. ASSUME ReleaseSpentFails(h) PROVE SpentInv'
  <2>1. CASE rev' # rev
    <3>1. /\ ReleaseSchedule(sched[h]) /\ pc' = [pc EXCEPT ![h] = "ANSWER"]
          /\ UNCHANGED <<schedules, mirror, mirrorRev, sched, seen, seenRev>>
      BY <1>5, <2>1 DEF ReleaseSpentFails
    <3> QED
      BY <1>1, <1>4, <2>1, <3>1 DEF Remembering
  <2>2. CASE rev' = rev
    <3>1. /\ UNCHANGED <<schedules, mirror, mirrorRev, sched, seen, seenRev>>
          /\ pc' = [pc EXCEPT ![h] = "ANSWER"] /\ failures' # 0
          /\ ReleaseSchedule(sched[h]) \/ UNCHANGED subs
      BY <1>1, <1>5 DEF ReleaseSpentFails
    <3>2. UNCHANGED subs
      BY <1>1, <2>2, <3>1, ReleasedOrNot
    <3> QED
      BY <1>1, <2>2, <3>1, <3>2, QuietKept DEF Still, Steadfast, Remembering
  <2> QED
    BY <2>1, <2>2
<1>6. ASSUME ReleasePending(h) PROVE SpentInv'
  <2>1. /\ ReleaseSchedule(sched[h]) /\ pc[h] = "RELEASE_PENDING" /\ pc' = [pc EXCEPT ![h] = "UPDATE"]
        /\ UNCHANGED <<schedules, mirror, mirrorRev, sched, seen, seenRev, failures>>
    BY <1>6 DEF ReleasePending
  <2>2. CASE rev' # rev
    BY <1>1, <1>4, <2>1, <2>2 DEF Remembering
  <2>3. CASE rev' = rev
    <3>1. UNCHANGED subs
      BY <1>1, <2>1, <2>3, ReleasedOrNot
    <3> QED
      BY <1>1, <2>1, <2>3, <3>1, QuietKept DEF Still, Steadfast, Remembering
  <2> QED
    BY <2>2, <2>3
<1>7. ASSUME UpdatePrice(h) PROVE SpentInv'
  <2> DEFINE new == [subs[subject[h]] EXCEPT !.price = target[h]]
  <2>1. /\ pc[h] = "UPDATE" /\ pc' = [pc EXCEPT ![h] = "COMMIT_CHANGE"]
        /\ UNCHANGED <<schedules, mirror, mirrorRev, sched, seen, seenRev, failures>>
        /\ ChangeSub(subject[h], new) \/ UNCHANGED <<subs, rev, unacked>>
    BY <1>7 DEF UpdatePrice
  <2>2. subject[h] \in Ids
    BY <1>3, <2>1 DEF ChangeSteps
  <2>3. new.schedule # None => new.status \in Live /\ new.schedule = subs[subject[h]].schedule
    BY <1>1, <1>2, <2>2 DEF Subscription
  <2>4. \A g \in Handlers : pc'[g] \in Remembering => pc'[g] = pc[g]
    BY <1>1, <2>1 DEF Remembering
  <2> HIDE DEF new
  <2>5. CASE ChangeSub(subject[h], new)
    BY <2>1, <2>2, <2>3, <2>4, <2>5, MoveKept
  <2>6. CASE UNCHANGED <<subs, rev, unacked>>
    BY <1>1, <2>1, <2>6, QuietKept DEF Still, Steadfast, Remembering
  <2> QED
    BY <2>1, <2>5, <2>6
<1>8. ASSUME AttachSchedule(h) PROVE SpentInv'
  <2> DEFINE new == [subs[subject[h]] EXCEPT !.schedule = schedules + 1]
  <2>1. /\ pc[h] = "ATTACH" /\ pc' = [pc EXCEPT ![h] = "SET_PHASES"]
        /\ subs[subject[h]].status \in Live
        /\ UNCHANGED <<mirror, mirrorRev, seen, seenRev, failures>>
        /\ \E id : sched' = [sched EXCEPT ![h] = id]
    BY <1>8 DEF AttachSchedule
  <2>2. /\ \A g \in Handlers : pc'[g] \in Remembering => pc'[g] = pc[g] /\ sched'[g] = sched[g]
        /\ \A g \in Handlers : pc[g] \in {"LOOK", "RELEASE"} => pc'[g] = pc[g] /\ sched'[g] = sched[g]
    BY <1>1, <2>1 DEF Remembering
  <2>3. CASE UNCHANGED <<subs, schedules, rev>>
    BY <2>1, <2>2, <2>3, QuietKept DEF Still, Steadfast
  <2>4. CASE schedules' = schedules + 1 /\ ChangeSub(subject[h], new)
    <3>1. subject[h] \in Ids
      BY <1>3, <2>1 DEF ChangeSteps
    <3>2. new.schedule = schedules + 1 /\ new.status = subs[subject[h]].status
      BY <1>1, <3>1 DEF Subscription
    <3>3. subs' = [subs EXCEPT ![subject[h]] = new] /\ rev' = rev + 1
      BY <2>4 DEF ChangeSub, Emit
    <3> HIDE DEF new
    <3>4. ASSUME NEW s \in Ids, subs'[s].schedule # None
          PROVE  /\ subs'[s].status \in Live
                 /\ subs'[s].schedule = subs[s].schedule \/ subs'[s].schedule = schedules + 1
      <4>1. CASE s = subject[h]
        BY <1>1, <2>1, <3>2, <3>3, <4>1
      <4>2. CASE s # subject[h]
        BY <1>1, <1>2, <3>3, <3>4, <4>2
      <4> QED
        BY <4>1, <4>2
    <3> QED
      BY <1>1, <2>1, <2>2, <2>4, <3>3, <3>4, ChangeKept
  <2>5. UNCHANGED <<subs, schedules, rev>> \/ (schedules' = schedules + 1 /\ ChangeSub(subject[h], new))
    BY <1>8 DEF AttachSchedule
  <2> QED
    BY <2>3, <2>4, <2>5
<1>9. ASSUME SetPhases(h) PROVE SpentInv'
  <2> DEFINE new == [subs[subject[h]] EXCEPT !.pending = target[h]]
  <2>1. /\ pc[h] = "SET_PHASES" /\ pc' = [pc EXCEPT ![h] = "COMMIT_CHANGE"]
        /\ UNCHANGED <<schedules, mirror, mirrorRev, sched, seen, seenRev>>
        /\ ChangeSub(subject[h], new)
    BY <1>9 DEF SetPhases
  <2>2. subject[h] \in Ids
    BY <1>3, <2>1 DEF ChangeSteps
  <2>3. new.schedule # None => new.status \in Live /\ new.schedule = subs[subject[h]].schedule
    BY <1>1, <1>2, <2>2 DEF Subscription
  <2>4. \A g \in Handlers : pc'[g] \in Remembering => pc'[g] = pc[g]
    BY <1>1, <2>1 DEF Remembering
  <2> HIDE DEF new
  <2> QED
    BY <2>1, <2>2, <2>3, <2>4, MoveKept
<1> QED
  BY <1>5, <1>6, <1>7, <1>8, <1>9

\* With one subscription that is not over, the row describes it.
LEMMA DescribesTheLive ==
  ASSUME OneSlot, NEW s \in Ids, IsLive(s)
  PROVE  Desired(subs) = Describe(subs, s)
<1> DEFINE live == {t \in Ids : subs[t].status \in Live}
<1>1. live = {s}
  BY DEF OneSlot, IsLive
<1>2. Oldest(live) = s
  BY <1>1, OldestAndNewest
<1>3. Canonical(subs, Mirrored) = s
  BY <1>1, <1>2 DEF Canonical
<1>4. s # 0
  BY BillingAssumption DEF Ids
<1> QED
  BY <1>3, <1>4 DEF Desired

\* A row names no schedule that the subscriptions it was built from do not.
LEMMA DesiredSchedule ==
  ASSUME NEW all \in [Ids -> Subscription], Desired(all) # None, Desired(all).schedule # None
  PROVE  \E s \in Ids : Desired(all).schedule = all[s].schedule
<1> DEFINE s == Canonical(all, Mirrored)
<1>1. s \in Ids \cup {0}
  BY OldestAndNewest DEF Canonical
<1>2. s # 0
  BY DEF Desired
<1> QED
  BY <1>1, <1>2 DEF Desired, Describe

\* The steps of a reconciliation.
LEMMA ReconcileSteps ==
  ASSUME Typed, Typed', Synced, OneSlot, SpentInv, NEW h \in Handlers,
         Read(h) \/ Commit(h) \/ Look(h) \/ ReleaseSpent(h) \/ Forget(h)
  PROVE  SpentInv'
<1> USE BillingAssumption
<1> USE DEF stripeVars, rowVars, readVars, argVars, boundVars, Goto
<1>1. /\ pc \in [Handlers -> Steps] /\ sched \in [Handlers -> Nat \cup {None}]
      /\ seen \in [Handlers -> [Ids -> Subscription]] /\ seenRev \in [Handlers -> Nat]
      /\ subs \in [Ids -> Subscription] /\ schedules \in Nat /\ failures \in Nat
      /\ rev \in Nat /\ mirrorRev \in Nat /\ mirror \in {None} \cup Row
  BY DEF Typed, TypeOK, RequestTypeOK, StripeTypeOK, RowTypeOK
<1>2. ASSUME Read(h) PROVE SpentInv'
  <2>1. /\ pc[h] = "READ" /\ pc' = [pc EXCEPT ![h] = "COMMIT"]
        /\ seen' = [seen EXCEPT ![h] = subs] /\ seenRev' = [seenRev EXCEPT ![h] = rev]
        /\ UNCHANGED <<subs, schedules, rev, mirror, mirrorRev, sched, failures>>
    BY <1>2 DEF Read
  <2>2. Named'
    BY <1>1, <2>1 DEF SpentInv, Named, IsLive
  <2>3. Mirroring'
    BY <1>1, <2>1 DEF SpentInv, Mirroring, IsLive, Describe
  <2>4. Releasing'
    BY <1>1, <2>1 DEF SpentInv, Releasing, Spent
  <2> QED
    BY <2>2, <2>3, <2>4 DEF SpentInv
<1>3. ASSUME Commit(h) PROVE SpentInv'
  <2>1. /\ pc[h] = "COMMIT" /\ pc' = [pc EXCEPT ![h] = "LOOK"]
        /\ mirror' = Desired(seen[h]) /\ mirrorRev' = seenRev[h]
        /\ seen' = [seen EXCEPT ![h] = [s \in Ids |-> NoSubscription]]
        /\ seenRev' = [seenRev EXCEPT ![h] = 0]
        /\ UNCHANGED <<subs, schedules, rev, sched, failures>>
    BY <1>3 DEF Commit, WriteRows
  <2>2. mirror' # None /\ mirror'.schedule # None => mirror'.schedule <= schedules
    BY <1>1, <2>1, DesiredSchedule DEF SpentInv, Named
  <2>3. Named'
    BY <1>1, <2>1, <2>2 DEF SpentInv, Named, IsLive
  <2>4. ASSUME mirrorRev' = rev, NEW s \in Ids, IsLive(s)
        PROVE  mirror' = Describe(subs, s)
    <3>1. seen[h] = subs
      BY <2>1, <2>4 DEF SpentInv, Mirroring
    <3> QED
      BY <2>1, <2>4, <3>1, DescribesTheLive
  <2>5. mirrorRev' = rev /\ mirror' # None => mirror'.status = subs[mirror'.sub].status
    <3>1. mirrorRev' = rev => mirror' = Desired(subs)
      BY <2>1 DEF SpentInv, Mirroring
    <3> QED
      BY <3>1 DEF Desired, Describe
  <2>6. Mirroring'
    BY <1>1, <2>1, <2>4, <2>5 DEF SpentInv, Mirroring, IsLive, Describe
  <2>7. Releasing'
    BY <1>1, <2>1 DEF Releasing
  <2> QED
    BY <2>3, <2>6, <2>7 DEF SpentInv
<1>4. ASSUME Look(h) PROVE SpentInv'
  <2> DEFINE spent == mirror # None /\ mirror.schedule # None /\ mirror.pending = None
  <2>1. /\ pc[h] = "LOOK" /\ pc' = [pc EXCEPT ![h] = IF spent THEN "RELEASE" ELSE "ANSWER"]
        /\ sched' = IF spent THEN [sched EXCEPT ![h] = mirror.schedule] ELSE sched
        /\ UNCHANGED <<subs, schedules, rev, mirror, mirrorRev, seen, seenRev, failures>>
    BY <1>4 DEF Look
  <2>2. Named'
    BY <1>1, <2>1 DEF SpentInv, Named, IsLive
  <2>3. Mirroring'
    BY <1>1, <2>1 DEF SpentInv, Mirroring, IsLive, Describe
  <2>4. ASSUME mirrorRev = rev, NEW s \in Ids, Spent(s)
        PROVE  spent /\ mirror.schedule = subs[s].schedule
    <3>1. mirror = Describe(subs, s)
      BY <2>4 DEF SpentInv, Named, Mirroring, Spent
    <3>2. Describe(subs, s) \in Row
      <4>1. subs[s] \in Subscription
        BY <1>1
      <4> QED
        BY <4>1 DEF Describe, Row, Subscription
    <3>3. mirror # None
      BY <3>1, <3>2, NullIsNoRow
    <3> QED
      BY <2>4, <3>1, <3>3 DEF Describe, Spent
  <2>5. Releasing'
    BY <1>1, <2>1, <2>4 DEF SpentInv, Releasing, Spent
  <2> QED
    BY <2>2, <2>3, <2>5 DEF SpentInv
<1>5. ASSUME ReleaseSpent(h) PROVE SpentInv'
  <2>1. /\ pc[h] = "RELEASE" /\ pc' = [pc EXCEPT ![h] = "FORGET"] /\ ReleaseSchedule(sched[h])
        /\ UNCHANGED <<schedules, mirror, mirrorRev, sched, seen, seenRev, failures>>
    BY <1>5 DEF ReleaseSpent
  <2>2. sched[h] # None
    BY <2>1 DEF SpentInv, Named
  <2>3. /\ \A s \in Ids : subs'[s].schedule # sched[h]
        /\ \A s \in Ids : subs'[s].schedule # None =>
             subs'[s].schedule = subs[s].schedule /\ subs'[s].status \in Live
    BY <2>1, <2>2, Released DEF SpentInv, Named, IsLive
  <2>4. CASE rev' # rev
    <3>1. rev' = rev + 1
      BY <2>1, <2>4 DEF ReleaseSchedule, ChangeSub, Emit
    <3> QED
      BY <1>1, <2>1, <2>3, <3>1, ChangeKept DEF Remembering
  <2>5. CASE rev' = rev
    <3>1. UNCHANGED <<subs, rev>>
      BY <1>1, <2>1, <2>5, ReleasedOrNot
    <3>2. Named'
      BY <1>1, <2>1, <2>2, <2>3, <3>1 DEF SpentInv, Named, IsLive
    <3>3. Mirroring'
      BY <1>1, <2>1, <3>1 DEF SpentInv, Mirroring, IsLive, Describe
    <3>4. \A s \in Ids : subs[s].schedule # sched[h]
      BY <2>3, <3>1
    <3>5. Releasing'
      BY <1>1, <2>1, <3>1, <3>4 DEF SpentInv, Releasing, Spent
    <3> QED
      BY <3>2, <3>3, <3>5 DEF SpentInv
  <2> QED
    BY <2>4, <2>5
<1>6. ASSUME Forget(h) PROVE SpentInv'
  <2>1. /\ pc[h] = "FORGET" /\ pc' = [pc EXCEPT ![h] = "ANSWER"]
        /\ mirror' = IF mirror # None /\ mirror.schedule = sched[h]
                       THEN [mirror EXCEPT !.schedule = None] ELSE mirror
        /\ UNCHANGED <<subs, schedules, rev, mirrorRev, sched, seen, seenRev, failures>>
    BY <1>6 DEF Forget
  <2>2. mirror' # None /\ mirror'.schedule # None => mirror' = mirror
    BY <1>1, <2>1 DEF Row
  <2>3. Named'
    BY <1>1, <2>1, <2>2 DEF SpentInv, Named, IsLive
  <2>4. ASSUME mirrorRev = rev, NEW s \in Ids, IsLive(s)
        PROVE  mirror' = Describe(subs, s)
    <3>1. mirror = Describe(subs, s)
      BY <2>4 DEF SpentInv, Mirroring
    <3>2. mirror.schedule = subs[s].schedule
      BY <3>1 DEF Describe
    <3>3. subs[s].schedule # sched[h]
      BY <2>1 DEF SpentInv, Named
    <3> QED
      BY <2>1, <3>1, <3>2, <3>3
  <2>5. mirror' # None => mirror # None /\ mirror'.status = mirror.status /\ mirror'.sub = mirror.sub
    BY <1>1, <2>1 DEF Row
  <2>6. Mirroring'
    BY <1>1, <2>1, <2>4, <2>5 DEF SpentInv, Mirroring, IsLive, Describe
  <2>7. Releasing'
    BY <1>1, <2>1 DEF SpentInv, Releasing, Spent
  <2> QED
    BY <2>3, <2>6, <2>7 DEF SpentInv
<1> QED
  BY <1>2, <1>3, <1>4, <1>5, <1>6

\* SpentInv holds of every behaviour.
LEMMA SpentAlways == Spec => []SpentInv
<1>1. Init => SpentInv
  <2> SUFFICES ASSUME Init PROVE SpentInv
    OBVIOUS
  <2>1. \A s \in Ids : subs[s].schedule = None /\ (IsLive(s) => s = 1 /\ mirror = Describe(subs, 1))
    <3>1. NoSubscription.schedule = None /\ NoSubscription.status = "NONE"
      BY DEF NoSubscription
    <3> DEFINE Paying(p) == [NoSubscription EXCEPT !.status = "ACTIVE", !.price = p]
               Fine(s) == subs[s].schedule = None
                          /\ (IsLive(s) => s = 1 /\ mirror = Describe(subs, 1))
    <3>2. ASSUME NEW p PROVE Paying(p).schedule = None
      BY DEF NoSubscription
    <3>3. ASSUME subs = [s \in Ids |-> NoSubscription], NEW s \in Ids PROVE Fine(s)
      <4>1. subs[s] = NoSubscription
        BY <3>3
      <4> QED
        BY <3>1, <4>1 DEF IsLive, Live
    <3>4. ASSUME NEW p \in Prices, mirror = Describe(subs, 1), NEW s \in Ids,
                 subs = [t \in Ids |-> IF t = 1 THEN Paying(p) ELSE NoSubscription]
          PROVE  Fine(s)
      <4> HIDE DEF Paying
      <4>1. subs[s] = IF s = 1 THEN Paying(p) ELSE NoSubscription
        BY <3>4
      <4> QED
        BY <3>1, <3>2, <3>4, <4>1 DEF IsLive, Live
    <3>5. \/ subs = [s \in Ids |-> NoSubscription]
          \/ \E p \in Prices :
               /\ subs = [t \in Ids |-> IF t = 1 THEN Paying(p) ELSE NoSubscription]
               /\ mirror = Describe(subs, 1)
      BY DEF Init
    <3> HIDE DEF Paying
    <3>6. \A s \in Ids : Fine(s)
      BY <3>3, <3>4, <3>5
    <3> QED
      BY <3>6
  <2>2. mirror # None => mirror.schedule = None /\ mirror.status = subs[mirror.sub].status
    <3>1. 1 \in Ids
      BY BillingAssumption DEF Ids
    <3>2. LET d == Describe(subs, 1) IN d.schedule = None /\ d.status = subs[d.sub].status
      BY <2>1, <3>1 DEF Describe
    <3>3. mirror # None => mirror = Describe(subs, 1)
      BY DEF Init
    <3> QED
      BY <3>2, <3>3
  <2>3. \A h \in Handlers : pc[h] = "IDLE"
    BY DEF Init
  <2> QED
    BY <2>1, <2>2, <2>3 DEF SpentInv, Named, Mirroring, Releasing, Spent
<1>2. Typed /\ Typed' /\ Synced /\ OneSlot /\ SpentInv /\ [Next]_vars => SpentInv'
  <2> SUFFICES ASSUME Typed, Typed', Synced, OneSlot, SpentInv, [Next]_vars PROVE SpentInv'
    OBVIOUS
  <2>1. CASE Delivery
    BY <2>1, QuietSteps
  <2>2. CASE Stripe
    BY <2>2, StripeSteps
  <2>3. ASSUME NEW h \in Handlers, Ask(h) \/ Serve(h) \/ Faults(h) PROVE SpentInv'
    BY <2>3, QuietSteps, RequestSteps, ReconcileSteps DEF Serve, Faults, Reconcile, Change
  <2>4. CASE UNCHANGED vars
    <3>1. UNCHANGED <<subs, schedules, rev, mirror, mirrorRev, pc, sched, seen, seenRev, failures>>
      BY <2>4 DEF vars, stripeVars, rowVars, readVars, argVars, boundVars
    <3> QED
      BY <3>1, QuietKept DEF Still, Steadfast
  <2> QED
    BY <2>1, <2>2, <2>3, <2>4 DEF Next
<1> QED
  BY <1>1, <1>2, TypedAlways, SyncedAlways, SlotAlways, PTL DEF Spec

\* A row built from Stripe as it is describes the subscription that is not over,
\* although releases and plan changes go on beside the reconciliation.
THEOREM MirrorFollows == Spec => []Mirroring
BY SpentAlways, PTL DEF SpentInv

\* Once every event is acknowledged and no call failed, no schedule without a
\* change to apply is left attached, for any number of requests and events.
THEOREM SpentReleased == Spec => []SpentSchedulesReleased
<1>1. Typed /\ Synced /\ SpentInv => SpentSchedulesReleased
  <2> SUFFICES ASSUME Typed, Synced, SpentInv, unacked = {}, \A h \in Handlers : pc[h] = "IDLE",
                      failures = 0, NEW s \in Ids, subs[s].schedule # None
               PROVE  subs[s].pending # None
    BY DEF SpentSchedulesReleased
  <2>1. rev \in Nat /\ mirrorRev \in Nat
    BY DEF Typed, TypeOK, StripeTypeOK, RowTypeOK
  <2>2. mirrorRev = rev
    <3>1. mirrorRev <= rev /\ \A e \in 1 .. rev : e <= mirrorRev
      BY DEF Synced, NoChangeMissed
    <3> QED
      BY <2>1, <3>1
  <2> QED
    BY <2>2 DEF SpentInv, Releasing, Spent
<1> QED
  BY <1>1, SyncedAlways, SpentAlways, PTL

\* User.plan is always what the row grants: the two are written together, and
\* forgetting a schedule changes neither the status nor the price.
Granted == plan = IF mirror = None THEN "FREE" ELSE EffectivePlan(mirror.status, mirror.price)

LEMMA GrantedStep == Typed /\ Granted /\ [Next]_vars => Granted'
<1> SUFFICES ASSUME Typed, Granted, [Next]_vars PROVE Granted'
  OBVIOUS
<1> USE DEF stripeVars, rowVars, readVars, argVars, boundVars
<1>1. ASSUME UNCHANGED <<mirror, plan>> PROVE Granted'
  BY <1>1 DEF Granted
<1>2. CASE Delivery
  <2>1. UNCHANGED <<mirror, plan>>
    BY <1>2 DEF Delivery, DeliverDuplicate, Deliver
  <2> QED
    BY <1>1, <2>1
<1>3. CASE Stripe
  <2>1. UNCHANGED <<mirror, plan>>
    BY <1>3 DEF Stripe, PaySession, PaymentFails, PaymentArrives, SubscriptionEnds, PeriodEnds,
       PortalToggles, Move
  <2> QED
    BY <1>1, <2>1
<1>4. ASSUME NEW h \in Handlers, Ask(h) \/ Change(h) PROVE Granted'
  <2>1. UNCHANGED <<mirror, plan>>
    BY <1>4 DEF Ask, Change, Refresh, ChangePlan, CreateCheckoutSession, LoadLiveSubscription,
       RefuseChange, ReleasePending, UpdatePrice, AttachSchedule, SetPhases, StripeRefuses,
       CommitChange
  <2> QED
    BY <1>1, <2>1
<1>5. ASSUME NEW h \in Handlers, Checkout(h) \/ CommitFails(h) \/ Faults(h) PROVE Granted'
  <2>1. UNCHANGED <<mirror, plan>>
    BY <1>5 DEF Checkout, CommitFails, Faults, ListSessions, ExpireSessions, CheckLive,
       RefuseCheckout, CreateSession, CommitCheckout, ReleaseSpentFails, ExpireTransaction, Fail
  <2> QED
    BY <1>1, <2>1
<1>6. ASSUME NEW h \in Handlers, FollowUp(h) \/ Read(h) \/ Look(h) \/ ReleaseSpent(h) \/ Answer(h)
      PROVE  Granted'
  <2>1. UNCHANGED <<mirror, plan>>
    BY <1>6 DEF FollowUp, Read, Look, ReleaseSpent, Answer
  <2> QED
    BY <1>1, <2>1
<1>7. ASSUME NEW h \in Handlers, Commit(h) PROVE Granted'
  BY <1>7 DEF Granted, Commit, WriteRows
<1>8. ASSUME NEW h \in Handlers, Forget(h) PROVE Granted'
  <2>1. mirror \in {None} \cup Row
    BY DEF Typed, TypeOK, RowTypeOK
  <2>2. /\ mirror = None => mirror' = None
        /\ mirror # None => /\ mirror' \in Row
                            /\ mirror'.status = mirror.status /\ mirror'.price = mirror.price
    BY <1>8, <2>1 DEF Forget, Row
  <2>3. plan' = plan
    BY <1>8 DEF Forget
  <2> QED
    BY <2>2, <2>3, NullIsNoRow DEF Granted
<1>9. CASE UNCHANGED vars
  BY <1>1, <1>9 DEF vars
<1> QED
  BY <1>2, <1>3, <1>4, <1>5, <1>6, <1>7, <1>8, <1>9 DEF Next, Serve, Reconcile

\* A row as new as Stripe grants what the customer pays for, for any number of
\* subscriptions, requests and faults.
THEOREM PlanFollowsStripe == Spec => []PlanIsPaid
<1>1. Init => Granted
  <2> SUFFICES ASSUME Init PROVE Granted
    OBVIOUS
  <2>1. CASE mirror = None /\ plan = "FREE"
    BY <2>1 DEF Granted
  <2>2. ASSUME NEW p \in Prices, mirror = Describe(subs, 1), plan = PlanOf(p),
               subs = [s \in Ids |-> IF s = 1 THEN [NoSubscription EXCEPT !.status = "ACTIVE", !.price = p]
                                              ELSE NoSubscription]
        PROVE  Granted
    <3>1. 1 \in Ids
      BY BillingAssumption DEF Ids
    <3>2. mirror.status = "ACTIVE" /\ mirror.price = p
      BY <2>2, <3>1 DEF Describe, NoSubscription
    <3>3. mirror \in Row
      BY <2>2, <3>1, BillingAssumption
         DEF Describe, Row, NoSubscription, Statuses, AnyPrice
    <3> QED
      BY <2>2, <3>2, <3>3, NullIsNoRow DEF Granted, EffectivePlan
  <2> QED
    BY <2>1, <2>2 DEF Init
<1>2. Typed /\ OneSlot /\ SpentInv /\ Granted => PlanIsPaid
  <2> SUFFICES ASSUME Typed, OneSlot, SpentInv, Granted, mirrorRev = rev PROVE plan = PaidPlan
    BY DEF PlanIsPaid
  <2> DEFINE paid == {s \in Ids : subs[s].status \in {"ACTIVE", "PAST_DUE"}}
  <2>1. ASSUME NEW s \in paid PROVE plan = PaidPlan
    <3>1. IsLive(s) /\ paid = {s}
      BY DEF OneSlot, IsLive, Live
    <3>2. mirror = Describe(subs, s)
      BY <3>1 DEF SpentInv, Mirroring
    <3>3. mirror \in Row
      <4>1. subs[s] \in Subscription
        BY DEF Typed, TypeOK, StripeTypeOK
      <4> QED
        BY <3>2, <4>1 DEF Describe, Row, Subscription
    <3>4. plan = PlanOf(subs[s].price)
      BY <3>2, <3>3, NullIsNoRow DEF Granted, EffectivePlan, Describe
    <3>5. (CHOOSE t \in paid : TRUE) = s
      BY <3>1
    <3> QED
      BY <3>1, <3>4, <3>5 DEF PaidPlan
  <2>2. CASE paid = {}
    <3>1. mirror \in Row => mirror.status \notin {"ACTIVE", "PAST_DUE"}
      <4>1. mirror \in Row => mirror.sub \in Ids
        BY DEF Row
      <4> QED
        BY <2>2, <4>1, NullIsNoRow DEF SpentInv, Mirroring
    <3>2. plan = "FREE"
      BY <3>1 DEF Granted, EffectivePlan, Typed, TypeOK, RowTypeOK
    <3> QED
      BY <2>2, <3>2 DEF PaidPlan
  <2> QED
    BY <2>1, <2>2
<1> QED
  BY <1>1, <1>2, GrantedStep, TypedAlways, SlotAlways, SpentAlways, PTL DEF Spec
==============================================================================
