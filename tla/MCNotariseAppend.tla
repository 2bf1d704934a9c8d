-------------------------- MODULE MCNotariseAppend --------------------------
(***************************************************************************)
(* NotariseAppend for TLC: calls of append_to_chain are symmetric.         *)
(***************************************************************************)
EXTENDS NotariseAppend, TLC

Symmetry == Permutations(Appender)

=============================================================================
