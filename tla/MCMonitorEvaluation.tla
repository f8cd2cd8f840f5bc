------------------------- MODULE MCMonitorEvaluation -------------------------
(* Small instances of MonitorEvaluation for TLC. *)
EXTENDS MonitorEvaluation, TLC

Seen(c, t) == [conditions |-> c, trigger |-> t]

\* Two contents of the level: one rule with Conditions alone, or two rules, a
\* Trigger alone and a setup of Conditions with a Trigger.
Day(conditions, trigger, setup) ==
  [g \in {"plain", "either"} |->
     IF g = "plain" THEN [k \in {"conditions"} |-> Seen(conditions, NoPart)]
     ELSE [k \in {"trigger", "setup"} |->
             IF k = "trigger" THEN Seen(NoPart, trigger) ELSE setup]]

\* A Trigger fires beside a setup that begins; the setup fires; the data of the
\* rest says nothing while the setup waits; all is over.
FourDays == {Day("TRUE", "TRUE", Seen("TRUE", "FALSE")),
             Day("TRUE", "FALSE", Seen("TRUE", "TRUE")),
             Day("NOT_EVALUABLE", "NOT_EVALUABLE", Seen("TRUE", "FALSE")),
             Day("FALSE", "FALSE", Seen("FALSE", "FALSE"))}

PassSymmetry == Permutations(Passes)
=============================================================================
