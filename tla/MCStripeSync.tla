---------------------------- MODULE MCStripeSync ----------------------------
(***************************************************************************)
(* StripeSync with a cursor that is no number.  PaymentIntents are         *)
(* interchangeable.                                                        *)
(***************************************************************************)
EXTENDS StripeSync, TLC

Symmetry == Permutations(Keys)

=============================================================================
