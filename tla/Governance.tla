----------------------------- MODULE Governance -----------------------------
(***************************************************************************)
(* The governance servers of client/donna/mcp_gov.py and the hand-off      *)
(* chains of workflow.py: one workflow per process, in memory; dictionaries*)
(* their callers keep hold of; and the GRASP ledger all processes of the   *)
(* client append to through grasp_provenance.py.                           *)
(***************************************************************************)
EXTENDS Decisions

CONSTANTS
  Process,      \* processes of the client
  Server,       \* those that are governance servers
  Dict,         \* the idr dictionaries callers pass
  Parties,      \* from_actor, to_actor and timestamp of a hand-off
  Query,        \* what a server may be asked to decide
  MaxHandoffs,  \* bound: hand-offs of a workflow
  MaxTampered,  \* bound: records of a workflow that are not what was handed off
  MaxLedger     \* bound: records of the ledger

ASSUME ServersAreProcesses == Server \subseteq Process
\* The tools' arguments once parsed: rules with records, or grants with permissions.
ASSUME QueriesAreTyped ==
  \A q \in Query :
    \/ q.tool = "policy" /\ q.rules \in Seq(Rule) /\ q.records \in Seq(Content)
    \/ /\ q.tool = "access" /\ q.actor \in Actor /\ q.tenant \in Tenant /\ q.action \in Action
       /\ q.actors \in Seq([actor : Actor, tenant : Tenant, roles : SUBSET STRING])
       /\ q.entries \in Seq([action : Action, roles : SUBSET STRING])
ASSUME BoundsAreNumbers == MaxHandoffs \in Nat /\ MaxTampered \in Nat /\ MaxLedger \in Nat

VARIABLES
  heap,        \* heap[d]: what dictionary d holds
  chain,       \* chain[p]: the records of p's workflow
  given,       \* given[p]: what was handed off, as it was then, up to the chain's last record
               \* and whatever has been cut off after it since the last hand-off
  ledger,      \* the GRASP ledger
  pc, link,    \* pc[p], link[p]: where p's recorder is and what it has read
  overlapped,  \* have two recorders been at it at a time?
  answer       \* the last decision

vars == <<heap, chain, given, ledger, pc, link, overlapped, answer>>

\* What verify can tell of a record; a hash is the contents it covers, one by one.
Covered == [seq : Nat, by : Parties, content : Content]
Given == [seq : Nat, by : Parties, content : Content, prev : Seq(Covered), hash : Seq(Covered)]
Record == [seq : Nat, by : Parties, idr : Dict, prev : Seq(Covered), hash : Seq(Covered)]
Genesis == << >>
Anchor == [pred |-> 0, depth |-> 0]
NoAnswer == [query |-> << >>, value |-> -1]

Contents(p) ==
  [i \in DOMAIN chain[p] |->
     LET r == chain[p][i]
     IN [seq |-> r.seq, by |-> r.by, content |-> heap[r.idr], prev |-> r.prev, hash |-> r.hash]]

\* The types of the variables.
TypeOK ==
  /\ heap \in [Dict -> Content]
  /\ chain \in [Server -> Seq(Record)] /\ given \in [Server -> Seq(Given)]
  /\ ledger \in Seq([pred : Nat, depth : Nat])
  /\ pc \in [Process -> {"idle", "reading", "linking"}] /\ link \in [Process -> [pred : Nat, depth : Nat]]
  /\ overlapped \in BOOLEAN

Init ==
  /\ heap \in [Dict -> Content]
  /\ chain = [p \in Server |-> << >>] /\ given = [p \in Server |-> << >>]
  /\ ledger = << >>
  /\ pc = [p \in Process |-> "idle"] /\ link = [p \in Process |-> Anchor]
  /\ overlapped = FALSE /\ answer = NoAnswer

\* A bug: the hash leaves the dictionary out.
Canonical_NoIdr(r, content) == Append(r.prev, [seq |-> r.seq, by |-> r.by, content |-> CHOOSE c \in Content : TRUE])

\* _canonical and _sha256: the hash of a record whose dictionary holds content.
Canonical(r, content) == Append(r.prev, [seq |-> r.seq, by |-> r.by, content |-> content])

\* verify: links from genesis, and every hash over what the record holds now.
Verify(p) ==
  \A i \in DOMAIN chain[p] :
    LET r == chain[p][i]
    IN /\ r.prev = IF i = 1 THEN Genesis ELSE chain[p][i - 1].hash
       /\ r.hash = Canonical(r, heap[r.idr])

Busy(p) == pc[p] # "idle"
Recording(p) ==
  /\ pc' = [pc EXCEPT ![p] = "reading"]
  /\ overlapped' = (overlapped \/ \E q \in Process \ {p} : Busy(q))

\* handoff, up to its provenance record; the server's registry makes the workflow.
\* It goes on from what is left of the chain.
Handoff(p) ==
  /\ ~Busy(p) /\ Len(chain[p]) < MaxHandoffs
  /\ \E b \in Parties, d \in Dict :
       LET n == Len(chain[p])
           r == [seq |-> n, by |-> b, prev |-> IF n = 0 THEN Genesis ELSE Last(chain[p]).hash]
           h == Canonical(r, heap[d])
       IN /\ chain' = [chain EXCEPT ![p] = Append(@, [seq |-> n, by |-> b, idr |-> d, prev |-> r.prev, hash |-> h])]
          /\ given' = [given EXCEPT ![p] =
               Append(SubSeq(@, 1, n), [seq |-> n, by |-> b, content |-> heap[d], prev |-> r.prev, hash |-> h])]
  /\ Recording(p)
  /\ answer' = NoAnswer /\ UNCHANGED <<heap, ledger, link>>

\* record_export_provenance and record_doc_analysis_provenance.
Other(p) ==
  /\ ~Busy(p) /\ Recording(p)
  /\ answer' = NoAnswer /\ UNCHANGED <<heap, chain, given, ledger, link>>

\* _record reads the ledger and links to its last record.
Read(p) ==
  /\ pc[p] = "reading"
  /\ pc' = [pc EXCEPT ![p] = "linking"]
  /\ link' = [link EXCEPT ![p] =
       IF ledger = << >> THEN Anchor ELSE [pred |-> Len(ledger), depth |-> Last(ledger).depth + 1]]
  /\ UNCHANGED <<heap, chain, given, ledger, overlapped, answer>>

\* A bug: the record's depth is that of its predecessor.
Write_Level(p) ==
  /\ pc[p] = "linking" /\ Len(ledger) < MaxLedger
  /\ ledger' = Append(ledger, [link[p] EXCEPT !.depth = IF @ = 0 THEN 0 ELSE @ - 1])
  /\ pc' = [pc EXCEPT ![p] = "idle"] /\ link' = [link EXCEPT ![p] = Anchor]
  /\ UNCHANGED <<heap, chain, given, overlapped, answer>>

\* append_idr; whether the checkpoint follows changes nothing here.
Write(p) ==
  /\ pc[p] = "linking" /\ Len(ledger) < MaxLedger
  /\ ledger' = Append(ledger, link[p])
  /\ pc' = [pc EXCEPT ![p] = "idle"] /\ link' = [link EXCEPT ![p] = Anchor]
  /\ UNCHANGED <<heap, chain, given, overlapped, answer>>

\* No grasp, or an exception of it: the caller does not notice.
FailOpen(p) ==
  /\ Busy(p)
  /\ pc' = [pc EXCEPT ![p] = "idle"] /\ link' = [link EXCEPT ![p] = Anchor]
  /\ UNCHANGED <<heap, chain, given, ledger, overlapped, answer>>

\* The workflows of a process go with it.
Restart(p) ==
  /\ chain' = [chain EXCEPT ![p] = << >>] /\ given' = [given EXCEPT ![p] = << >>]
  /\ pc' = [pc EXCEPT ![p] = "idle"] /\ link' = [link EXCEPT ![p] = Anchor]
  /\ answer' = NoAnswer /\ UNCHANGED <<heap, ledger, overlapped>>

\* chain() and handoff() share the dictionaries: whoever holds one may change it.
Mutate ==
  /\ \E d \in Dict, c \in Content : heap' = [heap EXCEPT ![d] = c]
  /\ answer' = NoAnswer /\ UNCHANGED <<chain, given, ledger, pc, link, overlapped>>

\* Every record where it was put, as far as the hashes tell.
InPlace(p) == \A i \in DOMAIN chain[p] : chain[p][i].hash = given[p][i].hash

\* The list itself changed behind the workflow's back: fields replaced, the hash by one
\* that is not worked out anew; the end cut off; or, while all are in place, a record
\* taken out or two exchanged.
Tamper(p) ==
  /\ Cardinality({i \in DOMAIN chain[p] : Contents(p)[i] # given[p][i]}) < MaxTampered
  /\ \E i \in DOMAIN chain[p] :
       LET n == Len(chain[p]) IN
       \/ \E b \in Parties : chain' = [chain EXCEPT ![p][i].by = b]
       \/ \E d \in Dict : chain' = [chain EXCEPT ![p][i].idr = d]
       \/ chain' = [chain EXCEPT ![p][i].seq = n]
       \/ chain' = [chain EXCEPT ![p][i].prev = Genesis]
       \/ chain' = [chain EXCEPT ![p][i].hash = Genesis]
       \/ InPlace(p) /\ i < n /\ chain' = [chain EXCEPT ![p] = RemoveAt(@, i)]
       \/ InPlace(p) /\ i < n /\ chain' = [chain EXCEPT ![p][i] = chain[p][i + 1], ![p][i + 1] = chain[p][i]]
       \/ i = n /\ chain' = [chain EXCEPT ![p] = Front(@)]
  /\ answer' = NoAnswer /\ UNCHANGED <<heap, given, ledger, pc, link, overlapped>>

\* donna_policy_evaluate and donna_access_check: their answers do not depend on the
\* state, so the model asks a server that has done nothing yet.
Decide(q) == IF q.tool = "policy" THEN Evaluate(q.rules, q.records) ELSE IF Check(q) THEN 1 ELSE 0
Ask ==
  /\ answer = NoAnswer /\ ledger = << >> /\ (\A p \in Process : ~Busy(p)) /\ \A p \in Server : given[p] = << >>
  /\ \E q \in Query : answer' = [query |-> q, value |-> Decide(q)]
  /\ UNCHANGED <<heap, chain, given, ledger, pc, link, overlapped>>

Next ==
  \/ \E p \in Server : Handoff(p) \/ Restart(p) \/ Tamper(p)
  \/ \E p \in Process : Other(p) \/ Read(p) \/ Write(p) \/ FailOpen(p)
  \/ Mutate \/ Ask

Spec == Init /\ [][Next]_vars

----------------------------------------------------------------------------

\* "any mutation is detected": a workflow verifies just when its records, with what
\* their dictionaries hold now, are what was handed off, in that order and from the
\* first on; that the end has been cut off is all it cannot tell.
VerifyTells == \A p \in Server : Verify(p) <=> IsPrefix(Contents(p), given[p])

\* Every record of the ledger hangs by the one it names, one deeper than that; and
\* the ledger is a line as long as no two processes have recorded at a time.
LedgerRooted ==
  \A k \in DOMAIN ledger :
    LET r == ledger[k] IN
    /\ r.pred < k
    /\ r.depth = IF r.pred = 0 THEN 0 ELSE ledger[r.pred].depth + 1
    /\ ~overlapped => r.pred = k - 1

\* The rule that decides fits a record, none that fits or raises is of higher priority,
\* and none of equal priority was listed before it; a query ends by an exception just
\* when that first rule raises at a record before any it fits; access is allowed just
\* when the last grant of the actor in that very tenant shares a role with the last
\* entry for the action.
AnswersRight ==
  answer.value # -1 =>
    LET q == answer.query IN
    IF q.tool = "policy"
    THEN LET Fits(i, k) == q.records[k] \in q.rules[i].fits
             Throws(i, k) == q.records[k] \in q.rules[i].raises
             Stopped(i) == \E k \in DOMAIN q.records : Fits(i, k) \/ Throws(i, k)
             FirstOf(i) == /\ i \in DOMAIN q.rules /\ Stopped(i)
                           /\ \A j \in DOMAIN q.rules : Stopped(j) /\ j # i =>
                                \/ q.rules[j].priority < q.rules[i].priority
                                \/ (q.rules[j].priority = q.rules[i].priority /\ i < j)
             FitsFirst(i) == \E k \in DOMAIN q.records : Fits(i, k) /\ \A l \in 1 .. k : ~Throws(i, l)
         IN \/ answer.value = 0 /\ \A j \in DOMAIN q.rules : ~Stopped(j)
            \/ FirstOf(answer.value) /\ FitsFirst(answer.value)
            \/ answer.value = Raised /\ \E i \in DOMAIN q.rules : FirstOf(i) /\ ~FitsFirst(i)
    ELSE answer.value = 1 <=>
           \E i \in DOMAIN q.actors, e \in DOMAIN q.entries :
             /\ q.actors[i].actor = q.actor /\ q.actors[i].tenant = q.tenant
             /\ \A j \in i + 1 .. Len(q.actors) : q.actors[j].actor # q.actor \/ q.actors[j].tenant # q.tenant
             /\ q.entries[e].action = q.action
             /\ \A j \in e + 1 .. Len(q.entries) : q.entries[j].action # q.action
             /\ q.actors[i].roles \cap q.entries[e].roles # {}

=============================================================================
