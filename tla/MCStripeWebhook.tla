-------------------------- MODULE MCStripeWebhook --------------------------
(***************************************************************************)
(* StripeWebhook with two events about one PaymentIntent and one of a type *)
(* the controller ignores.                                                 *)
(***************************************************************************)
EXTENDS StripeWebhook, TLC

CONSTANTS e1, e2, e3, p1

MCObjectOf == [e \in Events |-> IF e = e3 THEN NotPayment ELSE p1]

Symmetry == Permutations(Handlers)

=============================================================================
