-------------------------- MODULE WidgetRate_proofs --------------------------
(***************************************************************************)
(* Theorems about WidgetRate, for any number of requests and addresses and *)
(* any quota, faults included.                                             *)
(***************************************************************************)
EXTENDS WidgetRate, TLAPS

\* At most one request at a time is about to give a counter its hour.
OneCreator ==
  \A q, r \in Request :
    pc[q] = "expiring" /\ pc[r] = "expiring" /\ addr[q] = addr[r] => q = r

\* Until it does, the counter has no hour and so cannot go away, and one unit of
\* it, and of the quota, is still its own.
CreatorCounted ==
  \A r \in Request :
    pc[r] = "expiring" => /\ ~expires[addr[r]]
                          /\ admitted[addr[r]] < count[addr[r]]
                          /\ admitted[addr[r]] < MaxPerHour

\* Whoever was let past the limit was counted.
AdmittedCounted == \A i \in Ip : admitted[i] <= count[i]

QuotaInv == TypeOK /\ OneCreator /\ CreatorCounted /\ AdmittedCounted /\ WindowQuota

LEMMA InitQuota == Init => QuotaInv
BY QuotaIsPositive DEF Init, QuotaInv, TypeOK, PcValue, Ended, Answer, OneCreator,
   CreatorCounted, AdmittedCounted, WindowQuota

LEMMA StepQuota == QuotaInv /\ [Next]_vars => QuotaInv'
<1> SUFFICES ASSUME QuotaInv, [Next]_vars PROVE QuotaInv'
  OBVIOUS
<1> USE QuotaIsPositive DEF PcValue, Ended, Answer
<1> DEFINE Inv == OneCreator /\ CreatorCounted /\ AdmittedCounted /\ WindowQuota
<1>a. TypeOK /\ OneCreator /\ CreatorCounted /\ AdmittedCounted /\ WindowQuota
  BY DEF QuotaInv
\* The steps that neither count nor admit anybody, nor create a counter.
<1>b. ASSUME UNCHANGED <<addr, count, expires, admitted>>,
             \A q \in Request : pc'[q] = "expiring" => pc[q] = "expiring"
      PROVE  Inv'
  BY <1>a, <1>b DEF OneCreator, CreatorCounted, AdmittedCounted, WindowQuota
<1>1. ASSUME NEW r \in Request, Receive(r) PROVE QuotaInv'
  <2>1. TypeOK'
    BY <1>a, <1>1 DEF Receive, Finish, Limited, TypeOK
  <2>2. Inv'
    BY <1>a, <1>b, <1>1 DEF Receive, Finish, TypeOK
  <2>. QED  BY <2>1, <2>2 DEF QuotaInv
<1>2. ASSUME NEW r \in Request, Incr(r) PROVE QuotaInv'
  <2> DEFINE i == addr[r]
             n == count[i] + 1
  <2>1. /\ i \in Ip /\ count[i] \in Nat /\ admitted[i] \in Nat /\ pc[r] = "counting"
        /\ count' = [count EXCEPT ![i] = n] /\ UNCHANGED <<sort, addr, expires>>
    BY <1>a, <1>2 DEF Incr, TypeOK
  <2>2. CASE n = 1
    <3>1. pc' = [pc EXCEPT ![r] = "expiring"] /\ UNCHANGED <<answer, admitted>>
      BY <1>2, <2>2 DEF Incr
    <3>2. count[i] = 0 /\ admitted[i] = 0 /\ ~expires[i]
      BY <1>a, <2>1, <2>2 DEF AdmittedCounted, TypeOK
    <3>3. \A q \in Request : pc[q] = "expiring" => addr[q] # i
      BY <1>a, <2>1, <3>2 DEF CreatorCounted
    <3>4. TypeOK'
      BY <1>a, <2>1, <3>1 DEF TypeOK
    <3>5. OneCreator'
      BY <1>a, <2>1, <3>1, <3>3 DEF OneCreator, TypeOK
    <3>6. CreatorCounted'
      BY <1>a, <2>1, <2>2, <3>1, <3>2, <3>3 DEF CreatorCounted, TypeOK
    <3>7. AdmittedCounted' /\ WindowQuota'
      BY <1>a, <2>1, <3>1 DEF AdmittedCounted, WindowQuota, TypeOK
    <3>. QED  BY <3>4, <3>5, <3>6, <3>7 DEF QuotaInv
  <2>3. CASE n # 1 /\ n <= MaxPerHour
    <3>1. /\ pc' = [pc EXCEPT ![r] = "admitted"] /\ UNCHANGED answer
          /\ admitted' = [admitted EXCEPT ![i] = @ + 1]
      BY <1>2, <2>3 DEF Incr, Decide
    <3>2. \A q \in Request : pc'[q] = "expiring" => pc[q] = "expiring"
      BY <1>a, <3>1 DEF TypeOK
    <3>3. TypeOK'
      BY <1>a, <2>1, <3>1 DEF TypeOK
    <3>4. OneCreator'
      BY <1>a, <2>1, <3>2 DEF OneCreator
    <3>5. admitted[i] < n
      BY <1>a, <2>1 DEF AdmittedCounted
    <3>6. \A q \in Request : pc[q] = "expiring" /\ addr[q] = i =>
            admitted[i] + 1 < n /\ admitted[i] + 1 < MaxPerHour
      BY <1>a, <2>1, <2>3 DEF CreatorCounted
    <3>7. CreatorCounted'
      BY <1>a, <2>1, <3>1, <3>2, <3>6 DEF CreatorCounted, TypeOK
    <3>8. AdmittedCounted' /\ WindowQuota'
      BY <1>a, <2>1, <2>3, <3>1, <3>5 DEF AdmittedCounted, WindowQuota, TypeOK
    <3>. QED  BY <3>3, <3>4, <3>7, <3>8 DEF QuotaInv
  <2>4. CASE n # 1 /\ ~(n <= MaxPerHour)
    <3>1. pc' = [pc EXCEPT ![r] = "done"] /\ answer' = [answer EXCEPT ![r] = "429"]
          /\ UNCHANGED admitted
      BY <1>2, <2>4 DEF Incr, Decide, Finish
    <3>2. \A q \in Request : pc'[q] = "expiring" => pc[q] = "expiring"
      BY <1>a, <3>1 DEF TypeOK
    <3>3. TypeOK'
      BY <1>a, <2>1, <3>1 DEF TypeOK
    <3>4. Inv'
      BY <1>a, <2>1, <3>1, <3>2 DEF OneCreator, CreatorCounted, AdmittedCounted,
                                    WindowQuota, TypeOK
    <3>. QED  BY <3>3, <3>4 DEF QuotaInv
  <2>. QED  BY <2>2, <2>3, <2>4
<1>3. ASSUME NEW r \in Request, SetExpiry(r) PROVE QuotaInv'
  <2> DEFINE i == addr[r]
  <2>1. /\ pc[r] = "expiring" /\ i \in Ip /\ admitted[i] \in Nat /\ count[i] \in Nat
        /\ expires' = [expires EXCEPT ![i] = TRUE]
        /\ pc' = [pc EXCEPT ![r] = "admitted"]
        /\ admitted' = [admitted EXCEPT ![i] = @ + 1]
        /\ UNCHANGED <<sort, addr, count, answer>>
    BY <1>a, <1>3 DEF SetExpiry, Decide, TypeOK
  <2>2. admitted[i] < count[i] /\ admitted[i] < MaxPerHour
    BY <1>a, <2>1 DEF CreatorCounted
  <2>3. \A q \in Request : pc'[q] = "expiring" => pc[q] = "expiring" /\ addr[q] # i
    BY <1>a, <2>1 DEF OneCreator, TypeOK
  <2>4. TypeOK'
    BY <1>a, <2>1, <2>2 DEF TypeOK
  <2>5. OneCreator' /\ CreatorCounted'
    BY <1>a, <2>1, <2>3 DEF OneCreator, CreatorCounted, TypeOK
  <2>6. AdmittedCounted' /\ WindowQuota'
    BY <1>a, <2>1, <2>2 DEF AdmittedCounted, WindowQuota, TypeOK
  <2>. QED  BY <2>4, <2>5, <2>6 DEF QuotaInv
<1>4. ASSUME NEW r \in Request, CheckBody(r) \/ Push(r) \/ Crash(r) PROVE QuotaInv'
  <2>1. TypeOK'
    BY <1>a, <1>4 DEF CheckBody, Push, Crash, Finish, TypeOK
  <2>2. Inv'
    BY <1>a, <1>b, <1>4 DEF CheckBody, Push, Crash, Finish, TypeOK
  <2>. QED  BY <2>1, <2>2 DEF QuotaInv
<1>5. ASSUME NEW r \in Request, IncrErrors(r) PROVE QuotaInv'
  <2> DEFINE i == addr[r]
  <2>1. /\ i \in Ip /\ count[i] \in Nat /\ pc' = [pc EXCEPT ![r] = "done"]
        /\ answer' = [answer EXCEPT ![r] = "500"]
        /\ UNCHANGED <<sort, addr, expires, admitted>>
        /\ count' = count \/ count' = [count EXCEPT ![i] = @ + 1]
    BY <1>a, <1>5 DEF IncrErrors, Finish, TypeOK
  <2>2. count' \in [Ip -> Nat] /\ \A j \in Ip : count[j] <= count'[j]
    BY <1>a, <2>1 DEF TypeOK
  <2>3. TypeOK'
    BY <1>a, <2>1, <2>2 DEF TypeOK
  <2>4. \A q \in Request : pc'[q] = "expiring" => pc[q] = "expiring" /\ addr[q] \in Ip
    BY <1>a, <2>1 DEF TypeOK
  <2>5. OneCreator' /\ WindowQuota'
    BY <1>a, <2>1, <2>4 DEF OneCreator, WindowQuota
  <2>6. CreatorCounted'
    <3> SUFFICES ASSUME NEW q \in Request, pc'[q] = "expiring"
                 PROVE  /\ ~expires[addr[q]]
                        /\ admitted[addr[q]] < count'[addr[q]]
                        /\ admitted[addr[q]] < MaxPerHour
      BY <2>1 DEF CreatorCounted
    <3>1. pc[q] = "expiring" /\ addr[q] \in Ip
      BY <2>4
    <3>2. /\ admitted[addr[q]] \in Nat /\ count[addr[q]] \in Nat
          /\ count'[addr[q]] \in Nat /\ count[addr[q]] <= count'[addr[q]]
      BY <1>a, <2>2, <3>1 DEF TypeOK
    <3>. QED  BY <1>a, <3>1, <3>2 DEF CreatorCounted
  <2>7. AdmittedCounted'
    <3>1. \A j \in Ip : admitted[j] \in Nat /\ count[j] \in Nat /\ count'[j] \in Nat
      BY <1>a, <2>2 DEF TypeOK
    <3>. QED  BY <1>a, <2>1, <2>2, <3>1 DEF AdmittedCounted
  <2>. QED  BY <2>3, <2>5, <2>6, <2>7 DEF QuotaInv
<1>6. ASSUME NEW r \in Request, ExpiryErrors(r) PROVE QuotaInv'
  <2> DEFINE i == addr[r]
  <2>1. /\ pc[r] = "expiring" /\ i \in Ip /\ pc' = [pc EXCEPT ![r] = "done"]
        /\ answer' = [answer EXCEPT ![r] = "500"]
        /\ UNCHANGED <<sort, addr, count, admitted>>
        /\ expires' = expires \/ expires' = [expires EXCEPT ![i] = TRUE]
    BY <1>a, <1>6 DEF ExpiryErrors, Finish, TypeOK
  <2>2. admitted[i] < count[i]
    BY <1>a, <2>1 DEF CreatorCounted
  <2>3. \A q \in Request : pc'[q] = "expiring" => pc[q] = "expiring" /\ addr[q] # i
    BY <1>a, <2>1 DEF OneCreator, TypeOK
  <2>4. TypeOK'
    <3>1. expires' \in [Ip -> BOOLEAN] /\ \A k \in Ip : expires'[k] => expires[k] \/ k = i
      BY <1>a, <2>1 DEF TypeOK
    <3>2. count[i] > 0
      BY <1>a, <2>1, <2>2 DEF TypeOK
    <3>3. \A k \in Ip : expires'[k] => count'[k] > 0
      BY <1>a, <2>1, <3>1, <3>2 DEF TypeOK
    <3>. QED  BY <1>a, <2>1, <3>1, <3>3 DEF TypeOK
  <2>5. OneCreator' /\ AdmittedCounted' /\ WindowQuota'
    BY <1>a, <2>1, <2>3 DEF OneCreator, AdmittedCounted, WindowQuota
  <2>6. CreatorCounted'
    <3> SUFFICES ASSUME NEW q \in Request, pc'[q] = "expiring"
                 PROVE  /\ ~expires'[addr[q]]
                        /\ admitted[addr[q]] < count[addr[q]]
                        /\ admitted[addr[q]] < MaxPerHour
      BY <2>1 DEF CreatorCounted
    <3>1. pc[q] = "expiring" /\ addr[q] # i /\ addr[q] \in Ip
      BY <1>a, <2>3 DEF TypeOK
    <3>2. expires'[addr[q]] = expires[addr[q]]
      BY <1>a, <2>1, <3>1 DEF TypeOK
    <3>. QED  BY <1>a, <3>1, <3>2 DEF CreatorCounted
  <2>. QED  BY <2>4, <2>5, <2>6 DEF QuotaInv
<1>7. ASSUME NEW i \in Ip, WindowEnds(i) PROVE QuotaInv'
  <2>1. \A q \in Request : pc[q] = "expiring" => addr[q] # i
    BY <1>a, <1>7 DEF CreatorCounted, WindowEnds
  <2>2. TypeOK'
    BY <1>a, <1>7 DEF WindowEnds, TypeOK
  <2>3. Inv'
    BY <1>a, <1>7, <2>1 DEF WindowEnds, OneCreator, CreatorCounted, AdmittedCounted,
                            WindowQuota, TypeOK
  <2>. QED  BY <2>2, <2>3 DEF QuotaInv
<1>8. CASE UNCHANGED vars
  BY <1>a, <1>8 DEF vars, QuotaInv, TypeOK, OneCreator, CreatorCounted,
                    AdmittedCounted, WindowQuota
<1>. QED
  BY <1>1, <1>2, <1>3, <1>4, <1>5, <1>6, <1>7, <1>8 DEF Next, Handle, Fault

\* Only requests with an address are ever counted, and a counter that is to expire
\* exists: it takes the invariant to know that EXPIRE meets its key.
THEOREM TypeCorrect == Spec => []TypeOK
BY InitQuota, StepQuota, PTL DEF Spec, QuotaInv

\* However the commands of however many requests interleave, fail or are cut off,
\* no more than MAX_PER_IP_PER_HOUR requests pass in the life of a counter.
THEOREM QuotaHolds == Spec => []WindowQuota
BY InitQuota, StepQuota, PTL DEF Spec, QuotaInv

=============================================================================
