---------------------------- MODULE MCWidgetRate ----------------------------
(***************************************************************************)
(* WidgetRate for TLC: requests and addresses are symmetric.               *)
(***************************************************************************)
EXTENDS WidgetRate, TLC

Symmetry == Permutations(Request) \cup Permutations(Ip)

=============================================================================
