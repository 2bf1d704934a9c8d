----------------------------- MODULE ChainFile -----------------------------
(***************************************************************************)
(* What append_to_chain promises of the chain file: in one step a call     *)
(* puts one linked record at the end of a chain that verifies and goes on  *)
(* verifying, or it changes nothing.                                       *)
(***************************************************************************)
EXTENDS ProbatRules

VARIABLE file

Init == file \in File

Grow(a) ==
  LET rec == [id |-> a, prev |-> TailHash(file), good |-> TRUE] IN
    /\ Acceptable(file)
    /\ \A k \in 1 .. Len(file) : file[k].id # a
    /\ file' = Append(file, rec)

Next == \E a \in Appender : Grow(a)

Spec == Init /\ [][Next]_file

=============================================================================
