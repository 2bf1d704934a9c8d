----------------------------- MODULE SessionLog -----------------------------
(***************************************************************************)
(* What pushEntry promises its callers: each session has one log, and an   *)
(* accepted entry is put on it in a single step, linked to the tip it      *)
(* extends, with nothing lost but what the two caps evict.  There are no   *)
(* locks and no requests in progress here; WidgetChain implements it.      *)
(***************************************************************************)
EXTENDS ChainRules

CONSTANT Session

VARIABLES
  stored,   \* stored[s]: the value last written under the session's chain key
  live,     \* live[s]: the key's TTL has not run out since then
  written   \* written[s]: every entry ever stored for the session

vars == <<stored, live, written>>

Init ==
  /\ stored = [s \in Session |-> << >>]
  /\ live = [s \in Session |-> FALSE]
  /\ written = [s \in Session |-> {}]

\* An append extends the whole log.  When the log's 24 hours have run out it
\* may start afresh, or, if the TTL ran out under an append already on its way,
\* still extend the old one.
Extends(s) == IF live[s] THEN {stored[s]} ELSE {stored[s], << >>}

AppendEntry(s, r, i) ==
  \E base \in Extends(s) :
    LET e == SignedOn(base, r, i) IN
      /\ \A t \in Session : \A f \in written[t] : f.hash # r
      /\ stored' = [stored EXCEPT ![s] = PushOnto(base, e)]
      /\ live' = [live EXCEPT ![s] = TRUE]
      /\ written' = [written EXCEPT ![s] = @ \cup {e}]

Expire(s) ==
  /\ live[s]
  /\ live' = [live EXCEPT ![s] = FALSE]
  /\ UNCHANGED <<stored, written>>

Next ==
  \E s \in Session :
    \/ \E r \in Request, i \in Address : AppendEntry(s, r, i)
    \/ Expire(s)

Spec == Init /\ [][Next]_vars

-----------------------------------------------------------------------------

\* No session's entries fork: an entry links to the tip the lock let its request
\* read, and nothing else ever links to that tip.
NoFork == \A s \in Session : Unforked(written[s])

=============================================================================
