----------------------------- MODULE WidgetRate -----------------------------
(***************************************************************************)
(* The gate in front of the widget's pushEntry: the checks of the          *)
(* POST /api/widget-notarise handler in their order, with checkRateLimit's *)
(* per-address counter kept in Vercel KV.                                  *)
(*                                                                         *)
(* INCR and EXPIRE are two commands: other handlers may run, and this one  *)
(* may fail or die, between them.                                          *)
(***************************************************************************)
EXTENDS Naturals, FiniteSets

CONSTANTS
  Request,       \* notarise requests
  Ip,            \* non-empty client addresses
  NoIp,          \* clientIp found no address
  MaxPerHour     \* MAX_PER_IP_PER_HOUR, 10 in the code

ASSUME QuotaIsPositive == MaxPerHour \in Nat \ {0}
ASSUME NoIpIsNoAddress == NoIp \notin Ip

VARIABLES
  pc,        \* pc[r]: where request r is in its handler
  sort,      \* sort[r]: which checks r passes
  addr,      \* addr[r]: clientIp(req)
  answer,    \* answer[r]: the status r was answered with
  count,     \* count[i]: the value of widget:rate:<i>, 0 when there is no key
  expires,   \* expires[i]: the key has a time to live
  admitted   \* history: requests let past the limit in the life of i's key

vars == <<pc, sort, addr, answer, count, expires, admitted>>

Sort == {"bad_origin", "bad_body", "good"}
Ended == {"done", "crashed"}
PcValue == {"idle", "counting", "expiring", "admitted", "pushing"} \cup Ended
Answer == {"none", "403", "429", "400", "503", "200", "500"}

originAllowed(r) == sort[r] # "bad_origin"

\* Without a client address a request is not limited.
Limited(r) == addr[r] # NoIp

\* The body has its shape, a well-formed session and an intent that neither the
\* blocklist nor the PII rules deny, and there is a signing key.
BodyAccepted(r) == sort[r] = "good"

Init ==
  /\ pc = [r \in Request |-> "idle"]
  /\ sort \in [Request -> Sort]
  /\ addr \in [Request -> Ip \cup {NoIp}]
  /\ answer = [r \in Request |-> "none"]
  /\ count = [i \in Ip |-> 0]
  /\ expires = [i \in Ip |-> FALSE]
  /\ admitted = [i \in Ip |-> 0]

Finish(r, status) ==
  /\ pc' = [pc EXCEPT ![r] = "done"]
  /\ answer' = [answer EXCEPT ![r] = status]

\* Variant: the empty address is counted like any other.
Receive_CountsEveryone(r) ==
  /\ pc[r] = "idle"
  /\ originAllowed(r)
  /\ pc' = [pc EXCEPT ![r] = "counting"]
  /\ UNCHANGED <<sort, addr, answer, count, expires, admitted>>

\* The method and origin checks.
Receive(r) ==
  /\ pc[r] = "idle"
  /\ \/ /\ ~originAllowed(r)
        /\ Finish(r, "403")
     \/ /\ originAllowed(r)
        /\ pc' = [pc EXCEPT ![r] = IF Limited(r) THEN "counting" ELSE "admitted"]
        /\ UNCHANGED answer
  /\ UNCHANGED <<sort, addr, count, expires, admitted>>

\* count <= max, or 429 with Retry-After one hour.
Decide(r, n) ==
  IF n <= MaxPerHour
  THEN /\ pc' = [pc EXCEPT ![r] = "admitted"]
       /\ admitted' = [admitted EXCEPT ![addr[r]] = @ + 1]
       /\ UNCHANGED answer
  ELSE Finish(r, "429") /\ UNCHANGED admitted

\* Variant: EXPIRE is sent if INCR found no key, read as a result of 0.
Incr_ExpiryMissed(r) ==
  /\ pc[r] = "counting"
  /\ count' = [count EXCEPT ![addr[r]] = @ + 1]
  /\ Decide(r, count[addr[r]] + 1)
  /\ UNCHANGED <<sort, addr, expires>>

\* INCR; whoever creates the key goes on to give it its hour.
Incr(r) ==
  LET n == count[addr[r]] + 1 IN
    /\ pc[r] = "counting"
    /\ count' = [count EXCEPT ![addr[r]] = n]
    /\ IF n = 1
       THEN pc' = [pc EXCEPT ![r] = "expiring"] /\ UNCHANGED <<answer, admitted>>
       ELSE Decide(r, n)
    /\ UNCHANGED <<sort, addr, expires>>

\* Variant: SET key 1 EX 3600 in place of EXPIRE.
SetExpiry_Resets(r) ==
  /\ pc[r] = "expiring"
  /\ count' = [count EXCEPT ![addr[r]] = 1]
  /\ expires' = [expires EXCEPT ![addr[r]] = TRUE]
  /\ Decide(r, 1)
  /\ UNCHANGED <<sort, addr>>

\* EXPIRE key 3600, for the request that counted 1.
SetExpiry(r) ==
  /\ pc[r] = "expiring"
  /\ expires' = [expires EXCEPT ![addr[r]] = TRUE]
  /\ Decide(r, 1)
  /\ UNCHANGED <<sort, addr, count>>

\* The body is only looked at now: shape, session, intent, blocklist and PII;
\* last, 503 without a signing key.
CheckBody(r) ==
  /\ pc[r] = "admitted"
  /\ IF BodyAccepted(r)
     THEN pc' = [pc EXCEPT ![r] = "pushing"] /\ UNCHANGED answer
     ELSE Finish(r, "400") \/ Finish(r, "503")
  /\ UNCHANGED <<sort, addr, count, expires, admitted>>

\* pushEntry (module WidgetChain) stores the entry, or throws.
Push(r) ==
  /\ pc[r] = "pushing"
  /\ Finish(r, "200") \/ Finish(r, "500")
  /\ UNCHANGED <<sort, addr, count, expires, admitted>>

\* INCR or EXPIRE fails, applied or not; checkRateLimit is outside any try, so
\* the platform answers 500.
IncrErrors(r) ==
  /\ pc[r] = "counting"
  /\ count' = count \/ count' = [count EXCEPT ![addr[r]] = @ + 1]
  /\ Finish(r, "500")
  /\ UNCHANGED <<sort, addr, expires, admitted>>

ExpiryErrors(r) ==
  /\ pc[r] = "expiring"
  /\ expires' = expires \/ expires' = [expires EXCEPT ![addr[r]] = TRUE]
  /\ Finish(r, "500")
  /\ UNCHANGED <<sort, addr, count, admitted>>

\* The function instance dies.
Crash(r) ==
  /\ pc[r] \notin {"idle"} \cup Ended
  /\ pc' = [pc EXCEPT ![r] = "crashed"]
  /\ UNCHANGED <<sort, addr, answer, count, expires, admitted>>

\* A key with a time to live goes away; its count and its window with it.
WindowEnds(i) ==
  /\ expires[i]
  /\ count' = [count EXCEPT ![i] = 0]
  /\ expires' = [expires EXCEPT ![i] = FALSE]
  /\ admitted' = [admitted EXCEPT ![i] = 0]
  /\ UNCHANGED <<pc, sort, addr, answer>>

Handle(r) == Incr(r) \/ SetExpiry(r) \/ CheckBody(r) \/ Push(r)

Fault(r) == IncrErrors(r) \/ ExpiryErrors(r) \/ Crash(r)

Next ==
  \/ \E r \in Request : Receive(r) \/ Handle(r) \/ Fault(r)
  \/ \E i \in Ip : WindowEnds(i)

Spec == Init /\ [][Next]_vars

\* Handlers run on unless a fault strikes, and the store expires keys.
FairSpec ==
  /\ Spec
  /\ \A r \in Request : WF_vars(Handle(r))
  /\ \A i \in Ip : WF_vars(WindowEnds(i))

-----------------------------------------------------------------------------
(***************************************************************************)
(* Properties.                                                             *)
(***************************************************************************)

\* Every variable has its type; only requests with an address are counted, and
\* only keys that exist have a time to live.
TypeOK ==
  /\ pc \in [Request -> PcValue]
  /\ sort \in [Request -> Sort]
  /\ addr \in [Request -> Ip \cup {NoIp}]
  /\ answer \in [Request -> Answer]
  /\ count \in [Ip -> Nat]
  /\ expires \in [Ip -> BOOLEAN]
  /\ admitted \in [Ip -> Nat]
  /\ \A r \in Request :
       pc[r] \in {"counting", "expiring"} => addr[r] # NoIp
  /\ \A i \in Ip : expires[i] => count[i] > 0

\* "Rate before body parse": in the life of an address's counter no more than
\* MAX_PER_IP_PER_HOUR of its requests get as far as having their bodies read,
\* well-formed or not, however their INCR and EXPIRE commands interleave.
WindowQuota == \A i \in Ip : admitted[i] <= MaxPerHour

\* A request for i failed, and nobody is left to give i's counter its hour.
Orphaned(i) ==
  /\ count[i] > 0 /\ ~expires[i]
  /\ \A r \in Request : ~(pc[r] = "expiring" /\ addr[r] = i)
  /\ \E r \in Request : addr[r] = i /\ (pc[r] = "crashed" \/ answer[r] = "500")

\* An address that was answered 429 gets a fresh quota in time, unless its
\* counter was orphaned.
RetryAfterHolds ==
  \A r \in Request, i \in Ip :
    answer[r] = "429" /\ addr[r] = i ~> count[i] = 0 \/ Orphaned(i)

=============================================================================
