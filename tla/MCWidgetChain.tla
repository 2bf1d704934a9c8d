--------------------------- MODULE MCWidgetChain ---------------------------
(***************************************************************************)
(* WidgetChain for TLC: requests, sessions and addresses are symmetric.    *)
(***************************************************************************)
EXTENDS WidgetChain, TLC

Symmetry ==
  Permutations(Request) \cup Permutations(Session) \cup Permutations(Ip)

=============================================================================
