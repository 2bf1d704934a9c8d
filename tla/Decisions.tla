----------------------------- MODULE Decisions -----------------------------
(***************************************************************************)
(* The two pure decisions of the governance server: evaluate of            *)
(* client/donna/policy.py and AccessControl of client/donna/access.py.     *)
(***************************************************************************)
EXTENDS Integers, Sequences, SequencesExt

CONSTANTS
  Content,  \* contents of a decision record
  Actor, Tenant, Action

Verdict == {"allow", "deny", "escalate"}

\* A rule is the contents its field, operator and value fit, and those at which the
\* comparison raises what _match does not catch: neither if the field is missing, the
\* operator unknown or a TypeError or ValueError raised.
Rule == [fits : SUBSET Content, raises : SUBSET Content, verdict : Verdict, priority : Int]

\* _first_match goes no further than the first record that fits or raises.
Stops(rule, records) == {i \in DOMAIN records : records[i] \in rule.fits \cup rule.raises}
Matches(rule, records) == Stops(rule, records) # {}
Raises(rule, records) == records[Min(Stops(rule, records))] \in rule.raises

\* Does rule i go before rule j: is its priority higher, or was it listed earlier?
Before(rules, i, j) ==
  \/ rules[i].priority > rules[j].priority
  \/ rules[i].priority = rules[j].priority /\ i < j

\* s lists the numbers of all the rules in their order.
InOrder(rules, s) ==
  /\ \A i \in DOMAIN rules : \E k \in DOMAIN rules : s[k] = i
  /\ \A k, l \in DOMAIN rules : k < l => Before(rules, s[k], s[l])

\* A bug: equal priorities change places, as in a sort that is reversed afterwards.
Sorted_Unstable(rules) ==
  CHOOSE s \in [DOMAIN rules -> DOMAIN rules] :
    /\ \A i \in DOMAIN rules : \E k \in DOMAIN rules : s[k] = i
    /\ \A k, l \in DOMAIN rules : k < l =>
         \/ rules[s[k]].priority > rules[s[l]].priority
         \/ rules[s[k]].priority = rules[s[l]].priority /\ s[k] > s[l]

\* sorted(..., reverse=True): by descending priority; equal ones stay in place.
Sorted(rules) == CHOOSE s \in [DOMAIN rules -> DOMAIN rules] : InOrder(rules, s)

\* evaluate: the number of the rule that decides, 0 for the default; or the exception
\* the rule it has come to raises.
Raised == -2
Deciding(rules, records) ==
  LET matching == {k \in DOMAIN rules : Matches(rules[Sorted(rules)[k]], records)}
  IN IF matching = {} THEN 0 ELSE Sorted(rules)[Min(matching)]
Evaluate(rules, records) ==
  LET i == Deciding(rules, records)
  IN IF i # 0 /\ Raises(rules[i], records) THEN Raised ELSE i

\* AccessControl: grants in turn, each replacing what its actor had in its tenant.
Grants(actors) ==
  LET held[n \in 0 .. Len(actors)] ==
        IF n = 0 THEN [at \in Actor \X Tenant |-> {}]
        ELSE [held[n - 1] EXCEPT ![<<actors[n].actor, actors[n].tenant>>] = actors[n].roles]
  IN held[Len(actors)]

\* The dictionary of permissions: the last entry of an action counts.
Permissions(entries) ==
  LET perms[n \in 0 .. Len(entries)] ==
        IF n = 0 THEN [a \in Action |-> {}]
        ELSE [perms[n - 1] EXCEPT ![entries[n].action] = entries[n].roles]
  IN perms[Len(entries)]

Check(q) == Grants(q.actors)[q.actor, q.tenant] \cap Permissions(q.entries)[q.action] # {}

=============================================================================
