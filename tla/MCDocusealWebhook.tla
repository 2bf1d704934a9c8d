------------------------- MODULE MCDocusealWebhook -------------------------
(***************************************************************************)
(* DocusealWebhook for TLC: deliveries are symmetric.                      *)
(***************************************************************************)
EXTENDS DocusealWebhook, TLC

Symmetry == Permutations(Delivery)

=============================================================================
