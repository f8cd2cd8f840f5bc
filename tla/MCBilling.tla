----------------------------- MODULE MCBilling ------------------------------
(* Instance of Billing for model checking. *)
EXTENDS Billing, TLC

HandlerSymmetry == Permutations(Handlers)
=============================================================================
