------------------------------- MODULE Billing -------------------------------
(***************************************************************************)
(* One account's billing: the subscriptions Stripe holds for it, the       *)
(* mirror row and the plan kept in PostgreSQL, and the API requests that   *)
(* reconcile the two, change the plan and open a Checkout.                 *)
(*                                                                         *)
(* A request takes the account's entitlement lock in a transaction and     *)
(* calls Stripe while it holds it.  A Stripe call is one step, a commit is *)
(* one step; the lock goes with the transaction, also when the database    *)
(* gives up on it while the request goes on calling Stripe.                *)
(***************************************************************************)
EXTENDS Integers, FiniteSets

CONSTANTS
  Handlers,      \* API requests and webhook deliveries being served
  Prices,        \* the prices on sale, keys of BILLING_CATALOG
  MaxSubs,       \* bound: subscriptions Stripe ever holds for the account
  MaxRequests,   \* bound: requests of the customer
  MaxMoves,      \* bound: changes at Stripe that no request made
  MaxFaults,     \* bound: calls that fail, answers that are lost, crashes and
                 \* transactions the database gives up on
  NoHandler,     \* nobody holds the lock
  None           \* null

BILLING_CATALOG == {"STARTER_MONTHLY", "STARTER_YEARLY", "PRO_MONTHLY", "PRO_YEARLY",
                    "PRO_PLUS_MONTHLY", "PRO_PLUS_YEARLY"}

ASSUME BillingAssumption ==
  /\ Prices \subseteq BILLING_CATALOG /\ Prices # {}
  /\ MaxSubs \in Nat \ {0} /\ MaxRequests \in Nat /\ MaxMoves \in Nat /\ MaxFaults \in Nat
  /\ NoHandler \notin Handlers
  /\ None \notin Nat \cup BILLING_CATALOG

VARIABLES
  (* Stripe *)
  subs,       \* [Ids -> Subscription], by age
  schedules,  \* number of schedules created so far: the next id is one more
  sessions,   \* [Tickets -> Session]: Checkout sessions, by age
  handed,     \* sessions whose URL the customer was given
  rev,        \* number of changes so far; every change emits the event of its number
  unacked,    \* events Stripe delivers until they are acknowledged
  (* PostgreSQL *)
  mirror,     \* BillingSubscription row, or None
  mirrorRev,  \* the rev of the Stripe state the mirror was built from
  plan,       \* User.plan
  processed,  \* StripeWebhookEvent rows
  lock,       \* holder of the account's entitlement lock
  (* requests *)
  pc,         \* [Handlers -> Steps]
  event,      \* [Handlers -> Nat \cup {None}]: the webhook being served
  seen,       \* [Handlers -> Stripe's subscriptions as a reconciliation read them]
  seenRev,    \* [Handlers -> rev of that read]
  target,     \* [Handlers -> the price asked for]
  subject,    \* [Handlers -> the subscription a plan change is about]
  sched,      \* [Handlers -> the schedule about to be released or written]
  tickets,    \* [Handlers -> Checkout sessions listed, completed or created]
  (* bounds *)
  requests, moves, failures, expiries

stripeVars == <<subs, schedules, sessions, handed, rev, unacked>>
rowVars    == <<mirror, mirrorRev, plan, processed>>
readVars   == <<seen, seenRev>>
argVars    == <<target, subject, sched, tickets>>
boundVars  == <<requests, moves, failures, expiries>>
vars       == <<stripeVars, rowVars, lock, pc, event, readVars, argVars, boundVars>>

-----------------------------------------------------------------------------
(* Data *)

Ids      == 1 .. MaxSubs
Tickets  == 1 .. MaxRequests
Statuses == {"NONE", "INCOMPLETE", "ACTIVE", "PAST_DUE", "CANCELED"}

\* The statuses of a subscription that exists and is not over: occupiesPaidSlot.
Live == {"INCOMPLETE", "ACTIVE", "PAST_DUE"}

\* "NONE": not created yet.  pending is the price of the phase still to come.
Subscription == [status : Statuses, price : Prices, schedule : Nat \cup {None},
                 pending : Prices \cup {None}, cancelling : BOOLEAN]

Session == [status : {"NONE", "OPEN", "COMPLETE", "EXPIRED"}, price : Prices]

PlanOf(price) ==
  IF price \in {"STARTER_MONTHLY", "STARTER_YEARLY"} THEN "STARTER"
  ELSE IF price \in {"PRO_MONTHLY", "PRO_YEARLY"} THEN "PRO" ELSE "PRO_PLUS"

\* The order of classifyBillingTransition: the tier first, then the interval.
Rank == [STARTER_MONTHLY |-> 1, STARTER_YEARLY |-> 2, PRO_MONTHLY |-> 3, PRO_YEARLY |-> 4,
         PRO_PLUS_MONTHLY |-> 5, PRO_PLUS_YEARLY |-> 6]

Immediate(from, to) == Rank[to] > Rank[from]

\* (wrong) Access ends with the first failed payment.
EffectivePlanStrict(status, price) == IF status = "ACTIVE" THEN PlanOf(price) ELSE "FREE"

\* (wrong) The key of the price is taken for the plan.
EffectivePlanByKey(status, price) == IF status \in {"ACTIVE", "PAST_DUE"} THEN price ELSE "FREE"

\* resolveEffectivePlan: a renewal Stripe is still recovering keeps the plan,
\* a first payment that has not arrived grants none.
EffectivePlan(status, price) ==
  IF status \in {"ACTIVE", "PAST_DUE"} THEN PlanOf(price) ELSE "FREE"

Oldest(S) == CHOOSE s \in S : \A t \in S : s <= t
Newest(S) == CHOOSE s \in S : \A t \in S : t <= s

\* chooseCanonicalSubscription: the mirrored one if live, else the oldest live
\* one, else the mirrored one, else the newest; 0 when there is none.
Canonical(all, mirrored) ==
  LET live  == {s \in Ids : all[s].status \in Live}
      known == {s \in Ids : all[s].status # "NONE"}
  IN  IF mirrored \in live THEN mirrored
      ELSE IF live # {} THEN Oldest(live)
      ELSE IF mirrored \in known THEN mirrored
      ELSE IF known # {} THEN Newest(known) ELSE 0

\* describeMirror: a phase at the price already paid is no pending change.
Describe(all, s) ==
  [sub |-> s, status |-> all[s].status, price |-> all[s].price,
   schedule |-> all[s].schedule,
   pending |-> IF all[s].pending = all[s].price THEN None ELSE all[s].pending]

Mirrored == IF mirror = None THEN 0 ELSE mirror.sub

\* The row a reconciliation that read Stripe as all writes.
Desired(all) ==
  LET s == Canonical(all, Mirrored) IN IF s = 0 THEN None ELSE Describe(all, s)

HoldsSlot == mirror # None /\ mirror.status \in Live

\* The steps taken inside the transaction, and the others.
LockedSteps == {"READ", "COMMIT", "LOAD", "RELEASE_PENDING", "UPDATE", "ATTACH", "SET_PHASES",
                "COMMIT_CHANGE", "LIST", "EXPIRE", "CHECK", "CREATE", "COMMIT_CHECKOUT"}
Steps       == LockedSteps \cup {"IDLE", "QUEUED", "LOOK", "RELEASE", "FORGET", "ANSWER"}

StripeTypeOK ==
  /\ subs \in [Ids -> Subscription]
  /\ schedules \in Nat
  /\ sessions \in [Tickets -> Session]
  /\ handed \in SUBSET Tickets
  /\ rev \in Nat /\ unacked \in SUBSET Nat

Row == [sub : Ids, status : Statuses, price : Prices, schedule : Nat \cup {None},
        pending : Prices \cup {None}]

ASSUME NullIsNoRow == None \notin Row

RowTypeOK ==
  /\ mirror \in {None} \cup Row
  /\ mirrorRev \in Nat
  /\ plan \in {"FREE", "STARTER", "PRO", "PRO_PLUS"}
  /\ processed \in SUBSET Nat

RequestTypeOK ==
  /\ pc \in [Handlers -> Steps]
  /\ event \in [Handlers -> Nat \cup {None}]
  /\ seen \in [Handlers -> [Ids -> Subscription]]
  /\ seenRev \in [Handlers -> Nat]
  /\ target \in [Handlers -> Prices]
  /\ subject \in [Handlers -> Ids \cup {0}]
  /\ sched \in [Handlers -> Nat \cup {None}]
  /\ tickets \in [Handlers -> SUBSET Tickets]

\* The values every variable may take.
TypeOK ==
  /\ StripeTypeOK /\ RowTypeOK /\ RequestTypeOK
  /\ lock \in Handlers \cup {NoHandler}
  /\ requests \in Nat /\ moves \in Nat /\ failures \in Nat /\ expiries \in Nat

AnyPrice == CHOOSE p \in Prices : TRUE

NoSubscription == [status |-> "NONE", price |-> AnyPrice, schedule |-> None,
                   pending |-> None, cancelling |-> FALSE]

\* The account has bought nothing yet, or pays for a price the mirror knows of.
Init ==
  /\ \/ /\ subs = [s \in Ids |-> NoSubscription]
        /\ mirror = None /\ plan = "FREE"
     \/ \E p \in Prices :
          /\ subs = [s \in Ids |-> IF s = 1 THEN [NoSubscription EXCEPT !.status = "ACTIVE", !.price = p]
                                            ELSE NoSubscription]
          /\ mirror = Describe(subs, 1) /\ plan = PlanOf(p)
  /\ schedules = 0
  /\ sessions = [t \in Tickets |-> [status |-> "NONE", price |-> AnyPrice]]
  /\ handed = {} /\ rev = 0 /\ unacked = {}
  /\ mirrorRev = 0 /\ processed = {} /\ lock = NoHandler
  /\ pc = [h \in Handlers |-> "IDLE"] /\ event = [h \in Handlers |-> None]
  /\ seen = [h \in Handlers |-> [s \in Ids |-> NoSubscription]]
  /\ seenRev = [h \in Handlers |-> 0]
  /\ target = [h \in Handlers |-> AnyPrice] /\ subject = [h \in Handlers |-> 0]
  /\ sched = [h \in Handlers |-> None] /\ tickets = [h \in Handlers |-> {}]
  /\ requests = 0 /\ moves = 0 /\ failures = 0 /\ expiries = 0

-----------------------------------------------------------------------------
(* Steps of a request *)

Goto(h, step) == pc' = [pc EXCEPT ![h] = step]

\* lockUserEntitlementScope at the start of a transaction; it waits for the holder.
TakeLock(h) == lock = NoHandler /\ lock' = h

\* The transaction ends, unless the database ended it before.
Unlock(h) == lock' = IF lock = h THEN NoHandler ELSE lock

\* The request is over; what it held in memory is gone.
Leave(h) ==
  /\ Goto(h, "IDLE")
  /\ event' = [event EXCEPT ![h] = None]
  /\ seen' = [seen EXCEPT ![h] = [s \in Ids |-> NoSubscription]]
  /\ seenRev' = [seenRev EXCEPT ![h] = 0]
  /\ target' = [target EXCEPT ![h] = AnyPrice]
  /\ subject' = [subject EXCEPT ![h] = 0]
  /\ sched' = [sched EXCEPT ![h] = None]
  /\ tickets' = [tickets EXCEPT ![h] = {}]

\* A Stripe object changed: Stripe emits an event about it.
Emit == rev' = rev + 1 /\ unacked' = unacked \cup {rev + 1}

ChangeSub(s, new) == subs' = [subs EXCEPT ![s] = new] /\ Emit

\* releaseSubscriptionSchedule: a schedule that is already released is no error.
ReleaseSchedule(id) ==
  \/ \E s \in Ids :
       /\ subs[s].schedule = id
       /\ ChangeSub(s, [subs[s] EXCEPT !.schedule = None, !.pending = None])
  \/ /\ \A s \in Ids : subs[s].schedule # id
     /\ UNCHANGED <<subs, rev, unacked>>

(* reconcileUser *)

\* (wrong) The marker of the event is committed before the reconciliation.
DeliverMarkFirst(h, e) ==
  /\ pc[h] = "IDLE" /\ e \in unacked \ processed
  /\ TakeLock(h) /\ Goto(h, "READ")
  /\ event' = [event EXCEPT ![h] = e]
  /\ processed' = processed \cup {e}
  /\ UNCHANGED <<stripeVars, mirror, mirrorRev, plan, readVars, argVars, boundVars>>

\* A webhook is delivered: its marker is inserted in the transaction and found
\* to be new.
Deliver(h, e) ==
  /\ pc[h] = "IDLE" /\ e \in unacked \ processed
  /\ TakeLock(h) /\ Goto(h, "READ")
  /\ event' = [event EXCEPT ![h] = e]
  /\ UNCHANGED <<stripeVars, rowVars, readVars, argVars, boundVars>>

\* The marker exists: the delivery is acknowledged and nothing else is done.
DeliverDuplicate(e) ==
  /\ lock = NoHandler /\ e \in unacked \cap processed
  /\ unacked' = unacked \ {e}
  /\ UNCHANGED <<subs, schedules, sessions, handed, rev, rowVars, lock, pc, event, readVars,
                 argVars, boundVars>>

\* The customer comes back from Stripe, or an operator reconciles the account.
Refresh(h) ==
  /\ pc[h] = "IDLE" /\ requests < MaxRequests
  /\ TakeLock(h) /\ Goto(h, "READ")
  /\ requests' = requests + 1
  /\ UNCHANGED <<stripeVars, rowVars, event, readVars, argVars, moves, failures, expiries>>

\* The reconciliation that follows a plan change or a refused Checkout.
FollowUp(h) ==
  /\ pc[h] = "QUEUED" /\ TakeLock(h) /\ Goto(h, "READ")
  /\ UNCHANGED <<stripeVars, rowVars, event, readVars, argVars, boundVars>>

\* loadCustomerBillingState
Read(h) ==
  /\ pc[h] = "READ" /\ Goto(h, "COMMIT")
  /\ seen' = [seen EXCEPT ![h] = subs]
  /\ seenRev' = [seenRev EXCEPT ![h] = rev]
  /\ UNCHANGED <<stripeVars, rowVars, lock, event, argVars, boundVars>>

\* The row, the plan and the marker are committed together.
WriteRows(h) ==
  LET row == Desired(seen[h])
  IN  /\ mirror' = row
      /\ mirrorRev' = seenRev[h]
      /\ plan' = IF row = None THEN "FREE" ELSE EffectivePlan(row.status, row.price)
      /\ processed' = IF event[h] = None THEN processed ELSE processed \cup {event[h]}
      /\ Goto(h, "LOOK")
      /\ seen' = [seen EXCEPT ![h] = [s \in Ids |-> NoSubscription]]
      /\ seenRev' = [seenRev EXCEPT ![h] = 0]
      /\ UNCHANGED <<stripeVars, event, argVars, boundVars>>

\* (wrong) The writes land although the transaction, and the lock, are gone.
CommitLate(h) == pc[h] = "COMMIT" /\ WriteRows(h) /\ Unlock(h)

Commit(h) == pc[h] = "COMMIT" /\ lock = h /\ WriteRows(h) /\ Unlock(h)

\* (wrong) Only a schedule that still has a change to apply is released.
LookForPending(h) ==
  /\ pc[h] = "LOOK"
  /\ IF mirror # None /\ mirror.schedule # None /\ mirror.pending # None
       THEN Goto(h, "RELEASE") /\ sched' = [sched EXCEPT ![h] = mirror.schedule]
       ELSE Goto(h, "ANSWER") /\ UNCHANGED sched
  /\ UNCHANGED <<stripeVars, rowVars, lock, event, readVars, target, subject, tickets, boundVars>>

\* releaseSpentSchedule, after the transaction and without the lock: the row is
\* read, the schedule is released at Stripe, the row forgets it.
Look(h) ==
  /\ pc[h] = "LOOK"
  /\ IF mirror # None /\ mirror.schedule # None /\ mirror.pending = None
       THEN Goto(h, "RELEASE") /\ sched' = [sched EXCEPT ![h] = mirror.schedule]
       ELSE Goto(h, "ANSWER") /\ UNCHANGED sched
  /\ UNCHANGED <<stripeVars, rowVars, lock, event, readVars, target, subject, tickets, boundVars>>

ReleaseSpent(h) ==
  /\ pc[h] = "RELEASE" /\ Goto(h, "FORGET")
  /\ ReleaseSchedule(sched[h])
  /\ UNCHANGED <<schedules, sessions, handed, rowVars, lock, event, readVars, argVars, boundVars>>

\* The call fails, or only its answer is lost: logged and swallowed.
ReleaseSpentFails(h) ==
  /\ pc[h] = "RELEASE" /\ failures + expiries < MaxFaults /\ Goto(h, "ANSWER")
  /\ ReleaseSchedule(sched[h]) \/ UNCHANGED <<subs, rev, unacked>>
  /\ failures' = failures + 1
  /\ UNCHANGED <<schedules, sessions, handed, rowVars, lock, event, readVars, argVars, requests,
                 moves, expiries>>

Forget(h) ==
  /\ pc[h] = "FORGET" /\ Goto(h, "ANSWER")
  /\ mirror' = IF mirror # None /\ mirror.schedule = sched[h]
                 THEN [mirror EXCEPT !.schedule = None] ELSE mirror
  /\ UNCHANGED <<stripeVars, mirrorRev, plan, processed, lock, event, readVars, argVars, boundVars>>

\* The request is answered; Stripe takes the answer to a webhook for the
\* acknowledgement of its event.
Answer(h) ==
  /\ pc[h] = "ANSWER" /\ Leave(h)
  /\ unacked' = unacked \ {event[h]}
  /\ UNCHANGED <<subs, schedules, sessions, handed, rev, rowVars, lock, boundVars>>

(* changePlan *)

\* A request of an account whose row holds a paid slot; the others are refused.
ChangePlan(h, price) ==
  /\ pc[h] = "IDLE" /\ requests < MaxRequests /\ HoldsSlot
  /\ TakeLock(h) /\ Goto(h, "LOAD")
  /\ target' = [target EXCEPT ![h] = price]
  /\ subject' = [subject EXCEPT ![h] = mirror.sub]
  /\ requests' = requests + 1
  /\ UNCHANGED <<stripeVars, rowVars, event, readVars, sched, tickets, moves, failures, expiries>>

\* (wrong) An immediate change leaves the schedule attached.
LoadLiveSubscriptionOnly(h) ==
  LET live == subs[subject[h]]
  IN  /\ pc[h] = "LOAD" /\ live.price # target[h] /\ ~live.cancelling
      /\ Goto(h, IF Immediate(live.price, target[h]) THEN "UPDATE" ELSE "ATTACH")
      /\ UNCHANGED <<stripeVars, rowVars, lock, event, readVars, argVars, boundVars>>

\* loadLiveSubscription, and the way the transition is carried out.
LoadLiveSubscription(h) ==
  LET live == subs[subject[h]]
  IN  /\ pc[h] = "LOAD" /\ live.price # target[h] /\ ~live.cancelling
      /\ IF ~Immediate(live.price, target[h]) THEN Goto(h, "ATTACH") /\ UNCHANGED sched
         ELSE IF live.schedule = None THEN Goto(h, "UPDATE") /\ UNCHANGED sched
         ELSE /\ Goto(h, "RELEASE_PENDING")
              /\ sched' = [sched EXCEPT ![h] = live.schedule]
      /\ UNCHANGED <<stripeVars, rowVars, lock, event, readVars, target, subject, tickets, boundVars>>

\* Already on that price, or about to be cancelled.
RefuseChange(h) ==
  /\ pc[h] = "LOAD"
  /\ subs[subject[h]].price = target[h] \/ subs[subject[h]].cancelling
  /\ Unlock(h) /\ Leave(h)
  /\ UNCHANGED <<stripeVars, rowVars, boundVars>>

ReleasePending(h) ==
  /\ pc[h] = "RELEASE_PENDING" /\ Goto(h, "UPDATE")
  /\ ReleaseSchedule(sched[h])
  /\ UNCHANGED <<schedules, sessions, handed, rowVars, lock, event, readVars, argVars, boundVars>>

\* updateSubscriptionPriceImmediately: paid, or held (pending_if_incomplete), or
\* the answer to an earlier call with the same key.
UpdatePrice(h) ==
  LET sub == subs[subject[h]]
  IN  /\ pc[h] = "UPDATE" /\ sub.status \in Live /\ Goto(h, "COMMIT_CHANGE")
      /\ ChangeSub(subject[h], [sub EXCEPT !.price = target[h]]) \/ UNCHANGED <<subs, rev, unacked>>
      /\ UNCHANGED <<schedules, sessions, handed, rowVars, lock, event, readVars, argVars, boundVars>>

\* scheduleSubscriptionPriceChange: the schedule attached to the subscription is
\* used again, or one is created (its idempotency key is this request's own),
AttachSchedule(h) ==
  LET sub == subs[subject[h]]
  IN  /\ pc[h] = "ATTACH" /\ sub.status \in Live /\ Goto(h, "SET_PHASES")
      /\ IF sub.schedule # None
           THEN /\ sched' = [sched EXCEPT ![h] = sub.schedule]
                /\ UNCHANGED <<subs, schedules, rev, unacked>>
           ELSE /\ schedules' = schedules + 1
                /\ sched' = [sched EXCEPT ![h] = schedules']
                /\ ChangeSub(subject[h], [sub EXCEPT !.schedule = schedules'])
      /\ UNCHANGED <<sessions, handed, rowVars, lock, event, readVars, target, subject, tickets, boundVars>>

\* and its phases are replaced: what follows the current one is the new price.
SetPhases(h) ==
  LET sub == subs[subject[h]]
  IN  /\ pc[h] = "SET_PHASES" /\ sub.schedule = sched[h] /\ Goto(h, "COMMIT_CHANGE")
      /\ ChangeSub(subject[h], [sub EXCEPT !.pending = target[h]])
      /\ UNCHANGED <<schedules, sessions, handed, rowVars, lock, event, readVars, argVars, boundVars>>

\* Stripe refuses the call: the subscription is over, or the schedule released.
StripeRefuses(h) ==
  /\ \/ pc[h] \in {"UPDATE", "ATTACH"} /\ subs[subject[h]].status \notin Live
     \/ pc[h] = "SET_PHASES" /\ subs[subject[h]].schedule # sched[h]
  /\ Unlock(h) /\ Leave(h)
  /\ UNCHANGED <<stripeVars, rowVars, boundVars>>

CommitChange(h) ==
  /\ pc[h] = "COMMIT_CHANGE" /\ lock = h
  /\ Unlock(h) /\ Goto(h, "QUEUED")
  /\ UNCHANGED <<stripeVars, rowVars, event, readVars, argVars, boundVars>>

(* createCheckoutSession *)

CreateCheckoutSession(h, price) ==
  /\ pc[h] = "IDLE" /\ requests < MaxRequests /\ ~HoldsSlot
  /\ TakeLock(h) /\ Goto(h, "LIST")
  /\ target' = [target EXCEPT ![h] = price]
  /\ requests' = requests + 1
  /\ UNCHANGED <<stripeVars, rowVars, event, readVars, subject, sched, tickets, moves, failures, expiries>>

\* expireOpenCheckoutSessions: the open sessions are listed,
ListSessions(h) ==
  /\ pc[h] = "LIST" /\ Goto(h, "EXPIRE")
  /\ tickets' = [tickets EXCEPT ![h] = {t \in Tickets : sessions[t].status = "OPEN"}]
  /\ UNCHANGED <<stripeVars, rowVars, lock, event, readVars, target, subject, sched, boundVars>>

\* and expired, except for those that were paid meanwhile.
ExpireSessions(h) ==
  /\ pc[h] = "EXPIRE" /\ Goto(h, "CHECK")
  /\ sessions' = [t \in Tickets |-> IF t \in tickets[h] /\ sessions[t].status = "OPEN"
                                     THEN [sessions[t] EXCEPT !.status = "EXPIRED"] ELSE sessions[t]]
  /\ tickets' = [tickets EXCEPT ![h] = {t \in @ : sessions[t].status = "COMPLETE"}]
  /\ UNCHANGED <<subs, schedules, handed, rev, unacked, rowVars, lock, event, readVars, target,
                 subject, sched, boundVars>>

\* (wrong) The row is trusted to know of every subscription.
LiveAtStripeByMirror(h) == HoldsSlot

LiveAtStripe(h) == tickets[h] # {} \/ \E s \in Ids : subs[s].status \in Live

CheckLive(h) ==
  /\ pc[h] = "CHECK" /\ ~LiveAtStripe(h) /\ Goto(h, "CREATE")
  /\ UNCHANGED <<stripeVars, rowVars, lock, event, readVars, argVars, boundVars>>

\* The Checkout is refused, and the row is reconciled.
RefuseCheckout(h) ==
  /\ pc[h] = "CHECK" /\ LiveAtStripe(h) /\ lock = h
  /\ Unlock(h) /\ Goto(h, "QUEUED")
  /\ UNCHANGED <<stripeVars, rowVars, event, readVars, argVars, boundVars>>

CreateSession(h) ==
  /\ pc[h] = "CREATE" /\ Goto(h, "COMMIT_CHECKOUT")
  /\ \E t \in Tickets :
       /\ sessions[t].status = "NONE" /\ \A u \in 1 .. t - 1 : sessions[u].status # "NONE"
       /\ sessions' = [sessions EXCEPT ![t] = [status |-> "OPEN", price |-> target[h]]]
       /\ tickets' = [tickets EXCEPT ![h] = {t}]
  /\ UNCHANGED <<subs, schedules, handed, rev, unacked, rowVars, lock, event, readVars, target,
                 subject, sched, boundVars>>

CommitCheckout(h) ==
  /\ pc[h] = "COMMIT_CHECKOUT" /\ lock = h
  /\ handed' = handed \cup tickets[h]
  /\ Unlock(h) /\ Leave(h)
  /\ UNCHANGED <<subs, schedules, sessions, rev, unacked, rowVars, boundVars>>

(* Failures *)

\* The database gives up on a transaction that took too long; the request does
\* not notice before it needs the transaction again.
ExpireTransaction(h) ==
  /\ pc[h] \in LockedSteps /\ lock = h /\ failures + expiries < MaxFaults
  /\ Unlock(h)
  /\ expiries' = expiries + 1
  /\ UNCHANGED <<stripeVars, rowVars, pc, event, readVars, argVars, requests, moves, failures>>

\* The commit, or the write before it, finds the transaction closed.
CommitFails(h) ==
  /\ \/ pc[h] \in {"COMMIT", "COMMIT_CHANGE", "COMMIT_CHECKOUT"}
     \/ pc[h] = "CHECK" /\ LiveAtStripe(h)
  /\ lock # h
  /\ Leave(h)
  /\ UNCHANGED <<stripeVars, rowVars, lock, boundVars>>

\* A call throws, the answer is lost, or the process dies: the transaction is
\* rolled back and the event stays unacknowledged.
Fail(h) ==
  /\ pc[h] # "IDLE" /\ failures + expiries < MaxFaults
  /\ Unlock(h) /\ Leave(h)
  /\ failures' = failures + 1
  /\ UNCHANGED <<stripeVars, rowVars, requests, moves, expiries>>

(* Stripe *)

\* The customer pays an open session whose URL they were given.
PaySession(t) ==
  /\ t \in handed /\ sessions[t].status = "OPEN"
  /\ sessions' = [sessions EXCEPT ![t].status = "COMPLETE"]
  /\ \E s \in Ids, status \in {"ACTIVE", "INCOMPLETE"} :
       /\ subs[s].status = "NONE" /\ \A u \in 1 .. s - 1 : subs[u].status # "NONE"
       /\ ChangeSub(s, [NoSubscription EXCEPT !.status = status, !.price = sessions[t].price])
  /\ UNCHANGED <<schedules, handed, rowVars, lock, pc, event, readVars, argVars, boundVars>>

Move(s, new) ==
  /\ moves < MaxMoves /\ moves' = moves + 1
  /\ ChangeSub(s, new)
  /\ UNCHANGED <<schedules, sessions, handed, rowVars, lock, pc, event, readVars, argVars,
                 requests, failures, expiries>>

PaymentFails(s) == subs[s].status = "ACTIVE" /\ Move(s, [subs[s] EXCEPT !.status = "PAST_DUE"])

PaymentArrives(s) ==
  /\ subs[s].status \in {"PAST_DUE", "INCOMPLETE"}
  /\ Move(s, [subs[s] EXCEPT !.status = "ACTIVE"])

\* Recovery is given up, a first payment never came, or the cancellation is due.
SubscriptionEnds(s) ==
  /\ subs[s].status \in {"PAST_DUE", "INCOMPLETE"} \/ (subs[s].status = "ACTIVE" /\ subs[s].cancelling)
  /\ Move(s, [NoSubscription EXCEPT !.status = "CANCELED", !.price = subs[s].price])

\* The next phase begins; the schedule stays attached, its last phase is open-ended.
PeriodEnds(s) ==
  /\ subs[s].status = "ACTIVE" /\ subs[s].pending # None
  /\ Move(s, [subs[s] EXCEPT !.price = subs[s].pending, !.pending = None])

\* The Customer Portal cancels and resumes, not while a schedule is attached.
PortalToggles(s) ==
  /\ subs[s].status \in Live /\ subs[s].schedule = None
  /\ Move(s, [subs[s] EXCEPT !.cancelling = ~@])

-----------------------------------------------------------------------------
Reconcile(h) ==
  \/ FollowUp(h) \/ Read(h) \/ Commit(h) \/ Look(h) \/ ReleaseSpent(h) \/ Forget(h) \/ Answer(h)

Change(h) ==
  \/ LoadLiveSubscription(h) \/ RefuseChange(h) \/ ReleasePending(h) \/ UpdatePrice(h)
  \/ AttachSchedule(h) \/ SetPhases(h) \/ StripeRefuses(h) \/ CommitChange(h)

Checkout(h) ==
  \/ ListSessions(h) \/ ExpireSessions(h) \/ CheckLive(h) \/ RefuseCheckout(h)
  \/ CreateSession(h) \/ CommitCheckout(h)

Serve(h) == Reconcile(h) \/ Change(h) \/ Checkout(h) \/ CommitFails(h)

Ask(h) ==
  \/ Refresh(h) \/ \E p \in Prices : ChangePlan(h, p) \/ CreateCheckoutSession(h, p)

Faults(h) == ReleaseSpentFails(h) \/ ExpireTransaction(h) \/ Fail(h)

Delivery == \E e \in unacked : DeliverDuplicate(e) \/ \E h \in Handlers : Deliver(h, e)

Stripe ==
  \/ \E t \in Tickets : PaySession(t)
  \/ \E s \in Ids : \/ PaymentFails(s) \/ PaymentArrives(s) \/ SubscriptionEnds(s)
                    \/ PeriodEnds(s) \/ PortalToggles(s)

Next == Delivery \/ Stripe \/ \E h \in Handlers : Ask(h) \/ Serve(h) \/ Faults(h)

Spec == Init /\ [][Next]_vars

\* A request that is being served goes on, and Stripe delivers an event again
\* until it is acknowledged.  Nothing is asked of the customer or of failures.
FairSpec == Spec /\ WF_vars(Delivery) /\ \A h \in Handlers : WF_vars(Serve(h))

-----------------------------------------------------------------------------
(* Properties *)

\* Stripe never holds two subscriptions of one account that are not over,
\* whatever tabs opened Checkouts and whichever of them were paid
\* (createCheckoutSession expires the open sessions, then looks at Stripe).
OneLiveSubscription == Cardinality({s \in Ids : subs[s].status \in Live}) <= 1

\* Every change at Stripe is in the mirror or in an event that is still being
\* delivered: no failure, crash or duplicate loses one (reconcileUser inserts
\* the marker in the transaction that writes the row).
NoChangeMissed == \A e \in 1 .. rev : e \in unacked \/ e <= mirrorRev

\* As long as the database has given up on no transaction: a request that stands
\* at its immediate update, in its transaction, updates a subscription with nothing
\* scheduled that would take the price back (changePlan releases the schedule
\* first: BILL-01).  Without the condition it is false: a downgrade that lost its
\* transaction, and the lock, goes on and attaches its schedule behind the release.
UpgradeSupersedesInTime ==
  expiries = 0 =>
    \A h \in Handlers : pc[h] = "UPDATE" /\ lock = h => subs[subject[h]].pending = None

\* Once every event is acknowledged and nothing failed, no schedule without a
\* change to apply is left attached, so that the Portal can cancel
\* (releaseSpentSchedule).
SpentSchedulesReleased ==
  unacked = {} /\ (\A h \in Handlers : pc[h] = "IDLE") /\ failures = 0 /\ expiries = 0
    => \A s \in Ids : subs[s].schedule # None => subs[s].pending # None

\* No reconciliation replaces the row by an older state of Stripe
\* (reconcileUser reads Stripe while it holds the account's lock).
MirrorNeverGoesBack == [][mirrorRev' >= mirrorRev]_vars

\* A scheduled change goes when it is applied, when the subscription ends or
\* when an upgrade supersedes it, and for no other reason
\* (releaseSpentSchedule is for schedules with none).
ScheduledChangeKept ==
  [][\A s \in Ids :
       subs[s].pending # None /\ subs'[s].pending = None =>
         \/ subs'[s].price = subs[s].pending
         \/ subs'[s].status = "CANCELED"
         \/ \E h \in Handlers : pc[h] = "RELEASE_PENDING" /\ pc'[h] = "UPDATE"]_vars

\* What the customer pays for, by Stripe: a failed renewal is still being paid.
PaidPlan ==
  LET paid == {s \in Ids : subs[s].status \in {"ACTIVE", "PAST_DUE"}}
  IN  IF paid = {} THEN "FREE" ELSE PlanOf(subs[CHOOSE s \in paid : TRUE].price)

\* A row as new as Stripe grants what the customer pays for, no more and no less,
\* whichever subscriptions are over and whatever else is being served
\* (reconcileUser writes the row and User.plan in one transaction).
PlanIsPaid == mirrorRev = rev => plan = PaidPlan

\* The plan ends up as what Stripe says the customer pays for, whatever order
\* the events arrive in, however often, and whichever of them fail on the way.
PlanConverges == <>[](plan = PaidPlan)
=============================================================================
