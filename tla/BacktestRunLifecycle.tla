------------------------ MODULE BacktestRunLifecycle ------------------------
(***************************************************************************)
(* What a submitted backtest run promises its owner, whoever executes it:  *)
(* it is tried a bounded number of times, a request to stop it is never    *)
(* followed by another try, a waiting run shows nothing of a dead try, and *)
(* it ends once, with the result of its last try or with none.             *)
(* BacktestQueue implements it.                                            *)
(***************************************************************************)
EXTENDS Naturals

CONSTANTS Runs, MaxAttempts

VARIABLES
  status,    \* [Runs -> Statuses]
  tries,     \* [Runs -> 0 .. MaxAttempts]
  stopAsked, \* runs whose owner asked to stop them
  shown,     \* [Runs -> sets of tries with published output]
  outcome    \* [Runs -> the try whose result stands, 0 for none]

vars == <<status, tries, stopAsked, shown, outcome>>

Init ==
  /\ status = [r \in Runs |-> "NONE"]
  /\ tries = [r \in Runs |-> 0]
  /\ stopAsked = {}
  /\ shown = [r \in Runs |-> {}]
  /\ outcome = [r \in Runs |-> 0]

\* The parts of r's state, the next values of which a step gives by name.
Becomes(r, s, n, stop, out, res) ==
  /\ status'[r] = s
  /\ tries'[r] = n
  /\ (r \in stopAsked') <=> stop
  /\ shown'[r] = out
  /\ outcome'[r] = res

Same(r) == Becomes(r, status[r], tries[r], r \in stopAsked, shown[r], outcome[r])

Submit(r) ==
  /\ status[r] = "NONE"
  /\ Becomes(r, "QUEUED", 0, FALSE, {}, 0)

Start(r) ==
  /\ status[r] = "QUEUED" /\ r \notin stopAsked
  /\ tries[r] < MaxAttempts
  /\ Becomes(r, "EXECUTING", tries[r] + 1, FALSE, {}, 0)

Publish(r) ==
  /\ status[r] = "EXECUTING"
  /\ Becomes(r, "EXECUTING", tries[r], r \in stopAsked, {tries[r]}, 0)

Retry(r) ==
  /\ status[r] = "EXECUTING" /\ r \notin stopAsked
  /\ Becomes(r, "QUEUED", tries[r], FALSE, {}, 0)

AskToStop(r) ==
  /\ status[r] = "EXECUTING"
  /\ Becomes(r, "EXECUTING", tries[r], TRUE, shown[r], 0)

Complete(r) ==
  /\ status[r] = "EXECUTING"
  /\ Becomes(r, "COMPLETED", tries[r], r \in stopAsked, shown[r], tries[r])

Fail(r) ==
  /\ \/ status[r] = "EXECUTING"
     \/ status[r] = "QUEUED" /\ tries[r] = MaxAttempts
  /\ Becomes(r, "FAILED", tries[r], r \in stopAsked, shown[r], 0)

\* Milestones of the stopped try may stay; nothing else of it does.
Stop(r) ==
  /\ \/ status[r] = "QUEUED"
     \/ status[r] = "EXECUTING" /\ r \in stopAsked
  /\ \E kept \in SUBSET shown[r] : Becomes(r, "CANCELLED", tries[r], TRUE, kept, 0)

Step(r) == \/ Submit(r) \/ Start(r) \/ Publish(r) \/ Retry(r) \/ AskToStop(r)
           \/ Complete(r) \/ Fail(r) \/ Stop(r)

\* One statement of the recovery sweep moves several runs at once.
Next == \A r \in Runs : Step(r) \/ Same(r)

Spec == Init /\ [][Next]_vars
=============================================================================
