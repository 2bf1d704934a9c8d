----------------------------- MODULE PiiSession -----------------------------
(***************************************************************************)
(* The PII shield of client/donna/pii_shield.py.  A session is a function  *)
(* from entities to placeholders; a text is the set of entities it names,  *)
(* and a text for the cloud has names in clear and placeholders.  Entities *)
(* are strings that do not overlap, and none of them reads like a          *)
(* placeholder.                                                            *)
(***************************************************************************)
EXTENDS Integers, FiniteSets

CONSTANTS
  Entity,   \* names, organisations, matters, amounts
  Regex,    \* Regex[e]: the group of _ENTITY_PATTERN that matches e, "" for none
  Radix     \* the base placeholders are numbered in: 10 in the code

Kind == {"CASE", "ORG", "PERSON", "PII"}

ASSUME EntityIsFinite == IsFiniteSet(Entity)
ASSUME RegexIsGroups == Regex \in [Entity -> (Kind \ {"PII"}) \cup {""}]
ASSUME RadixIsBase == Radix \in Nat \ {0, 1}

Placeholder == [kind : Kind, index : Nat \ {0}]
Unknown == [kind |-> "", index |-> 0]
Session == [Entity -> Placeholder \cup {Unknown}]
NewSession == [e \in Entity |-> Unknown]

KindOf(e) == IF Regex[e] = "" THEN "PII" ELSE Regex[e]

\* The two layers; spans of the detector that do not occur in the text are dropped.
Hits(text) == {e \in text : Regex[e] # ""}
Spans(text, reply) == reply \cap text

Counter(session, k) == Cardinality({e \in Entity : session[e].kind = k})

Orders(S) == {r \in [S -> 1 .. Cardinality(S)] : \A e, f \in S : r[e] = r[f] => e = f}

\* A bug: the counter is read without being raised.
Register_NoIncrement(session, S, order) ==
  [e \in Entity |->
     IF e \in S THEN [kind |-> KindOf(e), index |-> Counter(session, KindOf(e))] ELSE session[e]]

\* A bug: the counters begin again with every text.
Register_PerText(session, S, order) ==
  [e \in Entity |->
     IF e \in S
     THEN [kind |-> KindOf(e), index |-> Cardinality({f \in S : KindOf(f) = KindOf(e) /\ order[f] <= order[e]})]
     ELSE session[e]]

\* The entities of S get the next numbers of their kinds, in any order.
Register(session, S, order) ==
  LET Before(e) == {f \in S : KindOf(f) = KindOf(e) /\ order[f] <= order[e]}
  IN [e \in Entity |->
        IF e \in S
        THEN [kind |-> KindOf(e), index |-> Counter(session, KindOf(e)) + Cardinality(Before(e))]
        ELSE session[e]]

\* What anonymize makes of the session: any order of the new ones.
Registered(session, found) ==
  LET new == {e \in found : session[e] = Unknown}
  IN {Register(session, new, order) : order \in Orders(new)}

\* A bug: only what the first layer has hit is replaced.
Anonymised_FirstLayer(session, text, found) ==
  [clear |-> {e \in text : Regex[e] = ""},
   hidden |-> {session[e] : e \in {f \in text : Regex[f] # ""}}]

\* What anonymize returns, under the session it has left.
Anonymised(session, text, found) ==
  IF found = {}
  THEN [clear |-> text, hidden |-> {}]
  ELSE [clear |-> {e \in text : session[e] = Unknown},
        hidden |-> {session[e] : e \in {f \in text : session[f] # Unknown}}]

\* PII_1 is the first alternative that matches at PII_12: the leading digit wins.
Leading[i \in Nat] == IF i < Radix THEN i ELSE Leading[i \div Radix]

Deanonymised(session, names, hidden) ==
  names \cup {e \in Entity : \E p \in hidden : session[e] = [p EXCEPT !.index = Leading[@]]}

\* No kind has reached a number with two digits.
Uncrowded(session) == \A k \in Kind : Counter(session, k) < Radix

=============================================================================
