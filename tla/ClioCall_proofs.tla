-------------------------- MODULE ClioCall_proofs --------------------------
(***************************************************************************)
(* Theorems about ClioCall, for any number of calls and tenants: types,    *)
(* what a call's records say about what it did, that no secret is lost     *)
(* from the store, and that the tokens in it are the latest granted.       *)
(***************************************************************************)
EXTENDS ClioCall, SequenceTheorems, TLAPS

-----------------------------------------------------------------------------
(* The store's images and what is read of them. *)

LEMMA EmptyIsImage == Empty \in Image
  BY DEF Empty, Image, Service

LEMMA PutIsImage ==
  ASSUME NEW image \in Image, NEW t \in Tenant, NEW s \in Service, NEW v \in Nat
  PROVE  Put(image, t, s, v) \in Image
  BY DEF Put, Image

LEMMA SeenIsImage ==
  ASSUME vault \in Image, NEW image \in Seen
  PROVE  image \in Image
  BY EmptyIsImage DEF Seen, Visible

LEMMA SelectStoreType ==
  ASSUME NEW e \in Env
  PROVE  SelectStore(e) \in Named \cup {"raises"}
  BY EnvIsSettings DEF SelectStore, Named

LEMMA AskedType ==
  ASSUME TypeOK, NEW c \in Call
  PROVE  /\ asked[c].kind \in Kind /\ asked[c].tenant \in Tenant /\ asked[c].logged \in BOOLEAN
         /\ asked \in [Call -> [kind : Kind, tenant : Tenant, logged : BOOLEAN]]
  BY AskedIsCalls DEF TypeOK

LEMMA RecordOfType ==
  ASSUME TypeOK, NEW c \in Call
  PROVE  RecordOf(c) \in Record
<1>1. ASSUME NEW s \in Status PROVE ClassifyOutcome(s) \in Record
  BY DEF Status, ClassifyOutcome, Record
<1>. QED  BY <1>1 DEF RecordOf, Record, TypeOK

\* The tokens a call holds are numbers, and Put writes one.
LEMMA WriteType ==
  ASSUME TypeOK, NEW c \in Call, NEW image \in Image
  PROVE  Put(image, asked[c].tenant, saving[c], ValueOf(c)) \in Image
<1>1. asked[c].tenant \in Tenant  BY AskedType
<1>2. saving[c] \in Service  BY DEF TypeOK
<1>3. ValueOf(c) \in Nat  BY DEF ValueOf, TypeOK, Token
<1>. QED  BY <1>1, <1>2, <1>3, PutIsImage

LEMMA ForgetType ==
  ASSUME TypeOK, NEW c \in Call, Forget(c)
  PROVE  /\ refresh' \in [Call -> Nat] /\ again' \in [Call -> BOOLEAN]
         /\ fresh' \in [Call -> Token] /\ saving' \in [Call -> Service]
         /\ held' \in [Call -> Image]
  BY EmptyIsImage DEF Forget, TypeOK, NoToken, Token, Service

LEMMA GrantByType ==
  ASSUME TypeOK, NEW t \in Tenant, NEW rotate \in BOOLEAN, GrantBy(t, rotate)
  PROVE  server' \in [Tenant -> Granted]
<1>1. server[t] \in Granted  BY DEF TypeOK
<1>2. [access |-> server[t].access + 1,
       refresh |-> IF rotate THEN server[t].access + 1 ELSE server[t].refresh,
       previous |-> IF rotate THEN server[t].refresh ELSE server[t].previous] \in Granted
  BY <1>1 DEF Granted
<1>. QED  BY <1>2 DEF GrantBy, TypeOK

LEMMA SavedType ==
  ASSUME TypeOK, NEW c \in Call, Saved(c)
  PROVE  pc' \in [Call -> PcValue] /\ saving' \in [Call -> Service]
  BY DEF Saved, TypeOK, Goto, PcValue, Over, Service

-----------------------------------------------------------------------------
(* Types. *)

LEMMA InitType == Init => TypeOK
<1>. SUFFICES ASSUME Init PROVE TypeOK  OBVIOUS
<1>1. backend \in Named \cup {"raises"} /\ alone \in BOOLEAN /\ steady \in BOOLEAN
  BY SelectStoreType, EnvIsSettings DEF Init
<1>2. vault \in Image
  <2>1. ASSUME NEW app \in BOOLEAN, NEW token \in {0, 1} PROVE Provisioned(app, token) \in Image
    BY DEF Provisioned, Image, Service
  <2>. QED  BY <2>1, EmptyIsImage DEF Init
<1>3. /\ server \in [Tenant -> Granted]
      /\ fresh \in [Call -> Token]
      /\ held \in [Call -> Image]
  BY EmptyIsImage DEF Init, Granted, Token, NoToken
<1>4. /\ adrift \subseteq Tenant /\ unread \in BOOLEAN
      /\ pc \in [Call -> PcValue] /\ asked \in Asked
      /\ saving \in [Call -> Service] /\ status \in [Call -> Status]
  BY DEF Init, PcValue, Service, Status
<1>5. records \in [Call -> Seq(Record)]
  <2>1. << >> \in Seq(Record)  OBVIOUS
  <2>. QED  BY <2>1 DEF Init
<1>. QED  BY <1>1, <1>2, <1>3, <1>4, <1>5 DEF Init, TypeOK

LEMMA NextType == TypeOK /\ [Next]_vars => TypeOK'
<1>. SUFFICES ASSUME TypeOK, [Next]_vars PROVE TypeOK'  OBVIOUS
<1>. USE DEF setting, tokens, effects
<1>1. ASSUME NEW c \in Call, Start(c) PROVE TypeOK'
  BY <1>1 DEF Start, Goto, TypeOK, PcValue, Over
<1>2. ASSUME NEW c \in Call, ReadAccess(c) PROVE TypeOK'
  BY <1>2 DEF ReadAccess, Goto, TypeOK, PcValue
<1>3. ASSUME NEW c \in Call, ReadRefresh(c) PROVE TypeOK'
  <2>1. PICK image \in Seen : /\ refresh' = [refresh EXCEPT ![c] = Of(image, c, "refresh")]
                              /\ Goto(c, IF ~again[c] THEN "http"
                                         ELSE IF refresh'[c] = 0 THEN "emit" ELSE "creds")
    BY <1>3 DEF ReadRefresh
  <2>2. image \in Image /\ asked[c].tenant \in Tenant
    BY SeenIsImage, AskedType DEF TypeOK
  <2>3. Of(image, c, "refresh") \in Nat
    BY <2>2 DEF Of, Image, Service
  <2>. QED  BY <1>3, <2>1, <2>3 DEF ReadRefresh, Goto, TypeOK, PcValue
<1>4. ASSUME NEW c \in Call, ReadCreds(c) PROVE TypeOK'
  BY <1>4 DEF ReadCreds, Goto, TypeOK, PcValue
<1>5. ASSUME NEW c \in Call, Grant(c) PROVE TypeOK'
  <2>1. CASE Goto(c, "emit") /\ UNCHANGED <<server, adrift, fresh, saving>>
    BY <1>5, <2>1 DEF Grant, Goto, TypeOK, PcValue
  <2>2. CASE \E rotate \in BOOLEAN, arrives \in {"whole", "lost", "cut"} :
          /\ GrantBy(asked[c].tenant, rotate)
          /\ fresh' = [fresh EXCEPT ![c] =
               [access |-> server'[asked[c].tenant].access,
                refresh |-> IF rotate THEN server'[asked[c].tenant].refresh ELSE 0]]
          /\ saving' = [saving EXCEPT ![c] = "access"]
          /\ adrift' = IF arrives = "whole" THEN adrift ELSE adrift \cup {asked[c].tenant}
          /\ Goto(c, CASE arrives = "whole" -> "saving" [] arrives = "lost" -> "emit"
                       [] arrives = "cut" -> "raised")
    <3>1. PICK rotate \in BOOLEAN, arrives \in {"whole", "lost", "cut"} :
          /\ GrantBy(asked[c].tenant, rotate)
          /\ fresh' = [fresh EXCEPT ![c] =
               [access |-> server'[asked[c].tenant].access,
                refresh |-> IF rotate THEN server'[asked[c].tenant].refresh ELSE 0]]
          /\ saving' = [saving EXCEPT ![c] = "access"]
          /\ adrift' = IF arrives = "whole" THEN adrift ELSE adrift \cup {asked[c].tenant}
          /\ Goto(c, CASE arrives = "whole" -> "saving" [] arrives = "lost" -> "emit"
                       [] arrives = "cut" -> "raised")
      BY <2>2
    <3>2. asked[c].tenant \in Tenant  BY AskedType
    <3>3. server' \in [Tenant -> Granted]  BY <3>1, <3>2, GrantByType
    <3>4. fresh' \in [Call -> Token]
      BY <3>1, <3>2, <3>3 DEF TypeOK, Token, Granted
    <3>5. pc' \in [Call -> PcValue] /\ saving' \in [Call -> Service] /\ adrift' \subseteq Tenant
      BY <3>1, <3>2 DEF Goto, TypeOK, PcValue, Over, Service
    <3>. QED  BY <1>5, <3>3, <3>4, <3>5 DEF Grant, TypeOK
  <2>. QED  BY <1>5, <2>1, <2>2 DEF Grant
<1>6. ASSUME NEW c \in Call, Load(c) PROVE TypeOK'
  <2>1. held' \in [Call -> Image]  BY <1>6, SeenIsImage DEF Load, TypeOK
  <2>. QED  BY <1>6, <2>1 DEF Load, Goto, TypeOK, PcValue
<1>7. ASSUME NEW c \in Call, Replace(c) PROVE TypeOK'
  <2>1. held[c] \in Image  BY DEF TypeOK
  <2>2. vault' \in Image  BY <1>7, <2>1, WriteType DEF Replace
  <2>3. held' \in [Call -> Image]  BY <1>7, EmptyIsImage DEF Replace, TypeOK
  <2>. QED  BY <1>7, <2>2, <2>3, SavedType DEF Replace, TypeOK
<1>8. ASSUME NEW c \in Call, Update(c) PROVE TypeOK'
  <2>1. vault' \in Image  BY <1>8, WriteType DEF Update, TypeOK
  <2>. QED  BY <1>8, <2>1, SavedType DEF Update, TypeOK
<1>9. ASSUME NEW c \in Call, SaveFails(c) PROVE TypeOK'
  <2>1. vault' \in Image  BY <1>9, WriteType DEF SaveFails, TypeOK
  <2>2. CASE saving[c] = "expires"
    BY <1>9, <2>1, <2>2 DEF SaveFails, Goto, TypeOK, PcValue
  <2>3. CASE saving[c] # "expires"
    <3>1. asked[c].tenant \in Tenant  BY AskedType
    <3>2. pc' = [pc EXCEPT ![c] = "emit"] /\ adrift' = adrift \cup {asked[c].tenant}
      BY <1>9, <2>3 DEF SaveFails, Goto
    <3>3. pc' \in [Call -> PcValue] /\ adrift' \subseteq Tenant
      BY <3>1, <3>2 DEF TypeOK, PcValue
    <3>. QED  BY <1>9, <2>1, <3>3 DEF SaveFails, TypeOK
  <2>. QED  BY <2>2, <2>3
<1>10. ASSUME NEW c \in Call, Http(c) PROVE TypeOK'
  <2>1. PICK s \in Status, done \in BOOLEAN :
       /\ status' = [status EXCEPT ![c] = s]
       /\ applied' = [applied EXCEPT ![c] = IF done /\ IsMutation(c) THEN @ + 1 ELSE @]
       /\ faults' = [faults EXCEPT ![c] = IF s = 500 THEN @ + 1 ELSE @]
       /\ Answered(c, s)
    BY <1>10 DEF Http
  <2>2. /\ status' \in [Call -> Status]
        /\ applied' \in [Call -> Nat] /\ faults' \in [Call -> Nat]
    BY <2>1 DEF TypeOK
  <2>3. pc' \in [Call -> PcValue] /\ again' \in [Call -> BOOLEAN]
    <3>1. CASE UNCHANGED <<pc, again>>  BY <3>1 DEF TypeOK
    <3>2. CASE again' = [again EXCEPT ![c] = TRUE] /\ Goto(c, "access")
      BY <3>2 DEF Goto, TypeOK, PcValue
    <3>3. CASE Goto(c, "emit") /\ UNCHANGED again
      BY <3>3 DEF Goto, TypeOK, PcValue
    <3>. QED  BY <2>1, <3>1, <3>2, <3>3 DEF Answered
  <2>. QED  BY <1>10, <2>2, <2>3 DEF Http, TypeOK
<1>11. ASSUME NEW c \in Call, HttpCut(c) PROVE TypeOK'
  <2>1. applied' \in [Call -> Nat] /\ pc' \in [Call -> PcValue]
    BY <1>11 DEF HttpCut, Goto, TypeOK, PcValue, Over
  <2>. QED  BY <1>11, <2>1, ForgetType DEF HttpCut, TypeOK
<1>12. ASSUME NEW c \in Call, Emit(c) PROVE TypeOK'
  <2>1. records' \in [Call -> Seq(Record)]  BY <1>12, RecordOfType DEF Emit, TypeOK
  <2>2. pc' \in [Call -> PcValue]  BY <1>12 DEF Emit, Goto, TypeOK, PcValue, Over
  <2>. QED  BY <1>12, <2>1, <2>2, ForgetType DEF Emit, TypeOK
<1>13. ASSUME NEW c \in Call, GrantIntent(c) PROVE TypeOK'
  <2>1. pc' \in [Call -> PcValue]  BY <1>13 DEF GrantIntent, Goto, TypeOK, PcValue
  <2>2. records' \in [Call -> Seq(Record)]
    <3>1. Append(records[c], "intent") \in Seq(Record)  BY DEF TypeOK, Record
    <3>. QED  BY <1>13, <3>1 DEF GrantIntent, TypeOK
  <2>. QED  BY <1>13, <2>1, <2>2 DEF GrantIntent, TypeOK
<1>14. ASSUME NEW c \in Call, Exchange(c) PROVE TypeOK'
  <2>1. server' \in [Tenant -> Granted] /\ adrift' \subseteq Tenant
    BY <1>14, AskedType, GrantByType DEF Exchange, TypeOK
  <2>2. pc' \in [Call -> PcValue] /\ status' \in [Call -> Status]
    <3>1. \/ pc' = [pc EXCEPT ![c] = "raised"]
          \/ pc' = [pc EXCEPT ![c] = "done"]
      BY <1>14 DEF Exchange, Goto
    <3>2. \/ status' = [status EXCEPT ![c] = 200]
          \/ status' = [status EXCEPT ![c] = 0]
          \/ status' = status
      BY <1>14 DEF Exchange
    <3>3. pc' \in [Call -> PcValue]  BY <3>1 DEF TypeOK, PcValue, Over
    <3>4. status \in [Call -> Status] /\ {0, 200} \subseteq Status  BY DEF TypeOK, Status
    <3>5. status' \in [Call -> Status]  BY <3>2, <3>4
    <3>. QED  BY <3>3, <3>5
  <2>3. records' \in [Call -> Seq(Record)]
    <3>1. ASSUME NEW ok \in BOOLEAN PROVE GrantOutcome(c, ok) \in [Call -> Seq(Record)]
      <4>1. Append(records[c], IF ok THEN "success" ELSE "failure") \in Seq(Record)
        BY DEF TypeOK, Record
      <4>. QED  BY <4>1 DEF GrantOutcome, TypeOK
    <3>2. \/ records' = records
          \/ \E ok \in BOOLEAN : records' = GrantOutcome(c, ok)
      BY <1>14 DEF Exchange
    <3>. QED  BY <3>1, <3>2 DEF TypeOK
  <2>. QED  BY <1>14, <2>1, <2>2, <2>3 DEF Exchange, TypeOK
<1>15. ASSUME NEW c \in Call, Kill(c) PROVE TypeOK'
  <2>1. pc' \in [Call -> PcValue] /\ adrift' \subseteq Tenant
    BY <1>15, AskedType DEF Kill, Goto, TypeOK, PcValue, Over
  <2>. QED  BY <1>15, <2>1, ForgetType DEF Kill, TypeOK
<1>16. CASE UNCHANGED vars  BY <1>16 DEF vars, TypeOK
<1>. QED
  BY <1>1, <1>2, <1>3, <1>4, <1>5, <1>6, <1>7, <1>8, <1>9, <1>10, <1>11, <1>12, <1>13, <1>14,
     <1>15, <1>16 DEF Next, Step

\* Every variable has its type, in any environment.
THEOREM TypeCorrect == Spec => []TypeOK
  BY InitType, NextType, PTL DEF Spec

-----------------------------------------------------------------------------
(* What a call has done and what it has recorded. *)

Live == {"access", "refresh", "creds", "grant", "saving", "replacing", "http"}

\* Until its last request a call has had no success, and what Clio has carried
\* out was answered 5xx; nothing is recorded but a grant's intent.
CallInv(c) ==
  /\ pc[c] \in Live \cup {"emit"} => asked[c].kind # "grant"
  /\ pc[c] = "exchange" => asked[c].kind = "grant"
  /\ pc[c] \in Live \cup {"idle", "emit"} => records[c] = << >>
  /\ pc[c] = "exchange" => records[c] = IF asked[c].logged THEN <<"intent">> ELSE << >>
  /\ pc[c] \in Live \cup {"idle", "exchange"} => status[c] # 200 /\ applied[c] <= faults[c]
  /\ pc[c] = "emit" =>
       /\ status[c] = 200 /\ IsMutation(c) => applied[c] > 0
       /\ applied[c] > 0 => status[c] \in {0, 200} \/ faults[c] > 0
  /\ pc[c] \in Live \ {"access"} => configured[c]
  /\ asked[c].kind # "grant" /\ ~configured[c] => status[c] # 200
  /\ applied[c] <= 1 + faults[c]
  /\ pc[c] = "done" => TellsTruth(c)

RecordInv == TypeOK /\ \A c \in Call : CallInv(c)

\* A step of c in which neither Clio does anything nor a record is made.
Quiet(c, from, to) ==
  /\ pc[c] \in from /\ \E w \in to : pc' = [pc EXCEPT ![c] = w]
  /\ UNCHANGED <<asked, records, status, applied, faults>>
  /\ \A b \in Call \ {c} : configured'[b] = configured[b]
  /\ configured'[c] = configured[c] \/ (configured'[c] = TRUE /\ pc[c] = "access")

\* Calls keep to themselves.
LEMMA Others ==
  ASSUME NEW b \in Call, CallInv(b), asked' = asked,
         pc'[b] = pc[b], records'[b] = records[b], status'[b] = status[b],
         applied'[b] = applied[b], faults'[b] = faults[b], configured'[b] = configured[b]
  PROVE  CallInv(b)'
  BY DEF CallInv, TellsTruth, IsMutation

LEMMA QuietStep ==
  ASSUME RecordInv, TypeOK', NEW c \in Call, NEW from, NEW to,
         to \subseteq Live \cup {"emit", "raised", "dead"},
         Quiet(c, from, to),
         to \subseteq {"raised", "dead"} \/
           /\ from \subseteq Live \cup {"idle"}
           /\ asked[c].kind # "grant"
           /\ configured'[c] \/ to \subseteq {"access", "emit", "raised", "dead"}
  PROVE  \A b \in Call : CallInv(b)'
<1>1. ASSUME NEW b \in Call, b # c PROVE CallInv(b)'
  BY <1>1, Others DEF Quiet, RecordInv, TypeOK
<1>2. PICK w \in to : pc' = [pc EXCEPT ![c] = w]  BY DEF Quiet
<1>3. pc'[c] = w  BY <1>2 DEF RecordInv, TypeOK
<1>4. /\ asked' = asked /\ records'[c] = records[c] /\ status'[c] = status[c]
      /\ applied'[c] = applied[c] /\ faults'[c] = faults[c]
      /\ applied[c] \in Nat /\ faults[c] \in Nat
      /\ configured[c] => configured'[c]
      /\ CallInv(c)
  BY DEF Quiet, RecordInv, TypeOK
<1>5. ASSUME w \in {"raised", "dead"} PROVE CallInv(c)'
  BY <1>3, <1>4, <1>5 DEF CallInv, Live
<1>6. ASSUME w \notin {"raised", "dead"} PROVE CallInv(c)'
  <2>1. /\ w \in Live \cup {"emit"} /\ pc[c] \in Live \cup {"idle"} /\ asked[c].kind # "grant"
        /\ configured'[c] \/ w \in {"access", "emit"}
    BY <1>2, <1>6 DEF Quiet
  <2>. QED  BY <1>3, <1>4, <2>1 DEF CallInv, Live, IsMutation
<1>. QED  BY <1>1, <1>5, <1>6

LEMMA RecordInit == Init => RecordInv
<1>. SUFFICES ASSUME Init PROVE RecordInv  OBVIOUS
<1>1. ASSUME NEW c \in Call PROVE CallInv(c)
  <2>1. /\ pc[c] = "idle" /\ records[c] = << >> /\ status[c] = 0
        /\ applied[c] = 0 /\ faults[c] = 0
    BY DEF Init
  <2>. QED  BY <2>1 DEF CallInv, Live
<1>. QED  BY <1>1, InitType DEF RecordInv

\* The steps that ask nothing of Clio but tokens.
LEMMA QuietSteps ==
  ASSUME RecordInv, TypeOK', NEW c \in Call,
         \/ Start(c) \/ ReadAccess(c) \/ ReadRefresh(c) \/ ReadCreds(c) \/ Grant(c)
         \/ Load(c) \/ Replace(c) \/ Update(c) \/ SaveFails(c) \/ Kill(c)
  PROVE  \A b \in Call : CallInv(b)'
<1>. USE DEF setting, tokens, effects
<1>. DEFINE Ready == Live \ {"access"}
<1>0. /\ CallInv(c) /\ pc \in [Call -> PcValue] /\ configured \in [Call -> BOOLEAN]
      /\ Ready \subseteq Live
  BY DEF RecordInv, TypeOK
<1>1. CASE Start(c)
  <2>1. Quiet(c, {"idle"}, {"access", "raised"}) /\ asked[c].kind # "grant"
    BY <1>1 DEF Start, MayStart, Goto, Quiet
  <2>. QED  BY <2>1, QuietStep DEF Live
<1>2. CASE ReadAccess(c)
  <2>1. CASE UNCHANGED configured /\ Goto(c, "emit")
    <3>1. Quiet(c, {"access"}, {"emit"})  BY <1>2, <2>1 DEF ReadAccess, Goto, Quiet
    <3>2. asked[c].kind # "grant"  BY <1>0, <1>2 DEF ReadAccess, CallInv, Live
    <3>. QED  BY <3>1, <3>2, QuietStep DEF Live
  <2>2. CASE configured' = [configured EXCEPT ![c] = TRUE] /\ Goto(c, "refresh")
    <3>1. Quiet(c, {"access"}, {"refresh"})  BY <1>0, <1>2, <2>2 DEF ReadAccess, Goto, Quiet
    <3>2. asked[c].kind # "grant" /\ configured'[c]
      BY <1>0, <1>2, <2>2 DEF ReadAccess, CallInv, Live
    <3>. QED  BY <3>1, <3>2, QuietStep DEF Live
  <2>. QED  BY <1>2, <2>1, <2>2 DEF ReadAccess
<1>3. ASSUME pc[c] \in Ready, configured' = configured,
             Quiet(c, Ready, Ready \cup {"emit", "raised", "dead"})
      PROVE  \A b \in Call : CallInv(b)'
  <2>1. asked[c].kind # "grant" /\ configured'[c]  BY <1>0, <1>3 DEF CallInv
  <2>2. Ready \cup {"emit", "raised", "dead"} \subseteq Live \cup {"emit", "raised", "dead"}
    OBVIOUS
  <2>. HIDE DEF Ready
  <2>. QED  BY <1>0, <1>3, <2>1, <2>2, QuietStep
<1>4. CASE ReadRefresh(c)
  <2>1. \E w \in {"http", "emit", "creds"} : pc' = [pc EXCEPT ![c] = w]
    BY <1>4 DEF ReadRefresh, Goto
  <2>. QED  BY <1>3, <1>4, <2>1 DEF ReadRefresh, Quiet, Live
<1>5. CASE ReadCreds(c)
  <2>1. \E w \in {"grant", "emit"} : pc' = [pc EXCEPT ![c] = w]
    BY <1>5 DEF ReadCreds, Goto
  <2>. QED  BY <1>3, <1>5, <2>1 DEF ReadCreds, Quiet, Live
<1>6. CASE Grant(c)
  <2>1. \E w \in {"saving", "emit", "raised"} : pc' = [pc EXCEPT ![c] = w]
    BY <1>6 DEF Grant, Goto
  <2>. QED  BY <1>3, <1>6, <2>1 DEF Grant, Quiet, Live
<1>7. CASE Load(c)
  BY <1>3, <1>7 DEF Load, Goto, Quiet, Live
<1>8. ASSUME Saved(c) PROVE \E w \in {"http", "saving"} : pc' = [pc EXCEPT ![c] = w]
  BY <1>8 DEF Saved, Goto
<1>9. CASE Replace(c)
  BY <1>3, <1>8, <1>9 DEF Replace, Quiet, Live
<1>10. CASE Update(c)
  BY <1>3, <1>8, <1>10 DEF Update, Quiet, Live
<1>11. CASE SaveFails(c)
  <2>1. \E w \in {"http", "emit"} : pc' = [pc EXCEPT ![c] = w]
    BY <1>11 DEF SaveFails, Goto
  <2>2. pc[c] \in {"saving", "replacing"}  BY <1>11 DEF SaveFails
  <2>. QED  BY <1>3, <1>11, <2>1, <2>2 DEF SaveFails, Quiet, Live
<1>12. CASE Kill(c)
  <2>1. Quiet(c, PcValue, {"dead"})  BY <1>0, <1>12 DEF Kill, Goto, Quiet
  <2>. QED  BY <2>1, QuietStep
<1>. QED  BY <1>1, <1>2, <1>4, <1>5, <1>6, <1>7, <1>9, <1>10, <1>11, <1>12

LEMMA RecordStep == RecordInv /\ [Next]_vars => RecordInv'
<1>. SUFFICES ASSUME RecordInv, [Next]_vars PROVE RecordInv'  OBVIOUS
<1>. USE DEF setting, tokens, effects
<1>0. TypeOK'  BY NextType DEF RecordInv
<1>1. ASSUME NEW c \in Call, NEW w, w # "idle", pc' = [pc EXCEPT ![c] = w],
             asked' = asked, configured' = configured,
             \A b \in Call \ {c} : /\ records'[b] = records[b] /\ status'[b] = status[b]
                                   /\ applied'[b] = applied[b] /\ faults'[b] = faults[b],
             CallInv(c)'
      PROVE  \A b \in Call : CallInv(b)'
  <2>1. ASSUME NEW b \in Call, b # c PROVE CallInv(b)'
    BY <1>1, <2>1, Others DEF RecordInv, TypeOK
  <2>. QED  BY <1>1, <2>1
<1>2. ASSUME NEW c \in Call, Http(c) PROVE \A b \in Call : CallInv(b)'
  <2>0. /\ CallInv(c) /\ pc[c] = "http" /\ asked' = asked /\ configured' = configured
        /\ pc \in [Call -> PcValue] /\ records' = records
        /\ applied \in [Call -> Nat] /\ faults \in [Call -> Nat] /\ status \in [Call -> Status]
    BY <1>2 DEF Http, RecordInv, TypeOK
  <2>1. PICK s \in Status, done \in BOOLEAN :
       /\ s = 200 => done
       /\ s \in {400, 401} => ~done
       /\ status' = [status EXCEPT ![c] = s]
       /\ applied' = [applied EXCEPT ![c] = IF done /\ IsMutation(c) THEN @ + 1 ELSE @]
       /\ faults' = [faults EXCEPT ![c] = IF s = 500 THEN @ + 1 ELSE @]
       /\ Answered(c, s)
    BY <1>2 DEF Http
  <2>2. PICK w \in {"http", "access", "emit"} :
          /\ pc' = [pc EXCEPT ![c] = w]
          /\ w = "http" => s >= 500
          /\ w = "access" => s = 401
    <3>1. CASE s >= 500 /\ UNCHANGED <<pc, again>>
      <4>1. pc' = [pc EXCEPT ![c] = "http"]  BY <2>0, <3>1
      <4>. QED  BY <3>1, <4>1
    <3>2. CASE s = 401 /\ Goto(c, "access")  BY <3>2 DEF Goto
    <3>3. CASE Goto(c, "emit")  BY <3>3 DEF Goto
    <3>. QED  BY <2>1, <3>1, <3>2, <3>3 DEF Answered
  <2>3. /\ pc'[c] = w /\ status'[c] = s
        /\ applied'[c] = IF done /\ IsMutation(c) THEN applied[c] + 1 ELSE applied[c]
        /\ faults'[c] = IF s = 500 THEN faults[c] + 1 ELSE faults[c]
        /\ records'[c] = << >> /\ configured[c] /\ asked[c].kind # "grant"
        /\ applied[c] <= faults[c] /\ applied[c] \in Nat /\ faults[c] \in Nat
    <3>1. pc'[c] = w /\ status'[c] = s  BY <2>0, <2>1, <2>2
    <3>2. applied'[c] = IF done /\ IsMutation(c) THEN applied[c] + 1 ELSE applied[c]
      BY <2>0, <2>1
    <3>3. faults'[c] = IF s = 500 THEN faults[c] + 1 ELSE faults[c]  BY <2>0, <2>1
    <3>4. records[c] = << >> /\ configured[c] /\ asked[c].kind # "grant" /\ applied[c] <= faults[c]
      BY <2>0 DEF CallInv, Live
    <3>. QED  BY <2>0, <3>1, <3>2, <3>3, <3>4
  <2>4. CallInv(c)'
    <3>1. CASE w = "http"
      <4>1. s = 500  BY <2>1, <2>2, <3>1 DEF Status
      <4>. QED  BY <2>0, <2>3, <3>1, <4>1 DEF CallInv, Live
    <3>2. CASE w = "access"
      BY <2>0, <2>1, <2>2, <2>3, <3>2 DEF CallInv, Live
    <3>3. CASE w = "emit"
      BY <2>0, <2>1, <2>3, <3>3 DEF CallInv, Live, IsMutation, Status
    <3>. QED  BY <3>1, <3>2, <3>3
  <2>5. \A b \in Call \ {c} : /\ records'[b] = records[b] /\ status'[b] = status[b]
                              /\ applied'[b] = applied[b] /\ faults'[b] = faults[b]
    BY <2>0, <2>1
  <2>6. w # "idle" /\ pc' = [pc EXCEPT ![c] = w]  BY <2>2
  <2>. QED  BY <1>1, <2>0, <2>4, <2>5, <2>6
<1>3. ASSUME NEW c \in Call, HttpCut(c) PROVE \A b \in Call : CallInv(b)'
  <2>1. /\ CallInv(c) /\ pc[c] = "http" /\ asked' = asked /\ configured' = configured
        /\ pc' = [pc EXCEPT ![c] = "raised"] /\ pc'[c] = "raised"
        /\ UNCHANGED <<records, status, faults>>
        /\ applied'[c] \in {applied[c], applied[c] + 1}
        /\ applied[c] \in Nat /\ faults[c] \in Nat
        /\ \A b \in Call \ {c} : applied'[b] = applied[b]
    BY <1>3 DEF HttpCut, Goto, RecordInv, TypeOK
  <2>2. CallInv(c)'  BY <2>1 DEF CallInv, Live
  <2>. QED  BY <1>1, <2>1, <2>2
<1>4. ASSUME NEW c \in Call, Emit(c) PROVE \A b \in Call : CallInv(b)'
  <2>1. /\ CallInv(c) /\ pc[c] = "emit" /\ asked' = asked /\ configured' = configured
        /\ pc' = [pc EXCEPT ![c] = "done"] /\ pc'[c] = "done"
        /\ UNCHANGED <<status, applied, faults>>
        /\ records \in [Call -> Seq(Record)] /\ status[c] \in Status
        /\ records[c] = << >> /\ asked[c].kind # "grant"
    BY <1>4 DEF Emit, Goto, RecordInv, TypeOK, CallInv
  <2>2. /\ \A b \in Call \ {c} : records'[b] = records[b]
        /\ records'[c] = IF asked[c].logged /\ IsMutation(c) THEN <<RecordOf(c)>> ELSE << >>
    BY <1>4, <2>1 DEF Emit
  <2>3. (RecordOf(c) = "success") <=> (status[c] = 200)
    <3>1. \A s \in Status : (ClassifyOutcome(s) = "success") <=> (s = 200)
      BY DEF Status, ClassifyOutcome
    <3>2. ~configured[c] => status[c] # 200  BY <2>1 DEF CallInv
    <3>. QED  BY <2>1, <3>1, <3>2 DEF RecordOf
  <2>4. TellsTruth(c)'
    BY <2>1, <2>2, <2>3 DEF TellsTruth, CallInv, IsMutation
  <2>5. CallInv(c)'  BY <2>1, <2>4 DEF CallInv, Live
  <2>. QED  BY <1>1, <2>1, <2>2, <2>5
<1>5. ASSUME NEW c \in Call, GrantIntent(c) PROVE \A b \in Call : CallInv(b)'
  <2>1. /\ CallInv(c) /\ pc[c] = "idle" /\ asked' = asked /\ configured' = configured
        /\ pc' = [pc EXCEPT ![c] = "exchange"] /\ pc'[c] = "exchange"
        /\ UNCHANGED <<status, applied, faults>>
        /\ records \in [Call -> Seq(Record)]
        /\ records[c] = << >> /\ asked[c].kind = "grant"
    BY <1>5 DEF GrantIntent, MayStart, Goto, RecordInv, TypeOK, CallInv
  <2>2. /\ \A b \in Call \ {c} : records'[b] = records[b]
        /\ records'[c] = IF asked[c].logged THEN <<"intent">> ELSE << >>
    BY <1>5, <2>1 DEF GrantIntent
  <2>3. CallInv(c)'  BY <2>1, <2>2 DEF CallInv, Live
  <2>. QED  BY <1>1, <2>1, <2>2, <2>3
<1>6. ASSUME NEW c \in Call, Exchange(c) PROVE \A b \in Call : CallInv(b)'
  <2>1. /\ CallInv(c) /\ pc[c] = "exchange" /\ asked' = asked /\ configured' = configured
        /\ UNCHANGED <<applied, faults>>
        /\ pc \in [Call -> PcValue] /\ status \in [Call -> Status]
        /\ records \in [Call -> Seq(Record)] /\ asked[c].kind = "grant"
        /\ applied[c] \in Nat /\ faults[c] \in Nat
    BY <1>6 DEF Exchange, RecordInv, TypeOK, CallInv
  <2>2. \/ /\ pc' = [pc EXCEPT ![c] = "raised"]
           /\ status' = [status EXCEPT ![c] = 0] /\ records' = records
        \/ \E ok \in BOOLEAN :
             /\ pc' = [pc EXCEPT ![c] = "done"] /\ records' = GrantOutcome(c, ok)
             /\ \/ status' = [status EXCEPT ![c] = IF ok THEN 200 ELSE 0]
                \/ ~ok /\ status' = status
    BY <1>6 DEF Exchange, Goto
  <2>3. CASE /\ pc' = [pc EXCEPT ![c] = "raised"]
             /\ status' = [status EXCEPT ![c] = 0] /\ records' = records
    <3>1. CallInv(c)'  BY <2>1, <2>3 DEF CallInv, Live
    <3>. QED  BY <1>1, <2>1, <2>3, <3>1
  <2>4. CASE \E ok \in BOOLEAN :
             /\ pc' = [pc EXCEPT ![c] = "done"] /\ records' = GrantOutcome(c, ok)
             /\ \/ status' = [status EXCEPT ![c] = IF ok THEN 200 ELSE 0]
                \/ ~ok /\ status' = status
    <3>1. PICK ok \in BOOLEAN :
             /\ pc' = [pc EXCEPT ![c] = "done"] /\ records' = GrantOutcome(c, ok)
             /\ \/ status' = [status EXCEPT ![c] = IF ok THEN 200 ELSE 0]
                \/ ~ok /\ status' = status
      BY <2>4
    <3>2. /\ pc'[c] = "done" /\ ((status'[c] = 200) <=> ok)
          /\ \A b \in Call \ {c} : records'[b] = records[b] /\ status'[b] = status[b]
          /\ records'[c] = IF asked[c].logged
                           THEN <<"intent", IF ok THEN "success" ELSE "failure">> ELSE << >>
      <4>1. status[c] # 200 /\ records[c] = IF asked[c].logged THEN <<"intent">> ELSE << >>
        BY <2>1 DEF CallInv, Live
      <4>2. pc'[c] = "done" /\ ((status'[c] = 200) <=> ok)  BY <2>1, <3>1, <4>1
      <4>3. \A b \in Call \ {c} : status'[b] = status[b]  BY <2>1, <3>1
      <4>4. \A b \in Call \ {c} : records'[b] = records[b]  BY <2>1, <3>1 DEF GrantOutcome
      <4>5. records'[c] = IF asked[c].logged
                          THEN Append(<<"intent">>, IF ok THEN "success" ELSE "failure") ELSE << >>
        BY <2>1, <3>1, <4>1 DEF GrantOutcome
      <4>6. ASSUME NEW x \in Record PROVE Append(<<"intent">>, x) = <<"intent", x>>
        <5>1. "intent" \in Record  BY DEF Record
        <5>2. <<"intent">> \in Seq(Record) /\ <<"intent", x>> \in Seq(Record)  BY <5>1
        <5>3. /\ Append(<<"intent">>, x) \in Seq(Record) /\ Len(Append(<<"intent">>, x)) = 2
              /\ Append(<<"intent">>, x)[1] = "intent" /\ Append(<<"intent">>, x)[2] = x
          BY <5>2, AppendProperties
        <5>4. /\ Len(<<"intent", x>>) = 2
              /\ <<"intent", x>>[1] = "intent" /\ <<"intent", x>>[2] = x
          OBVIOUS
        <5>5. \A i \in 1 .. 2 : Append(<<"intent">>, x)[i] = <<"intent", x>>[i]
          BY <5>3, <5>4
        <5>. QED  BY <5>2, <5>3, <5>4, <5>5, SeqEqual
      <4>7. (IF ok THEN "success" ELSE "failure") \in Record  BY DEF Record
      <4>. QED  BY <4>2, <4>3, <4>4, <4>5, <4>6, <4>7
    <3>3. TellsTruth(c)'  BY <2>1, <3>2 DEF TellsTruth, IsMutation
    <3>4. CallInv(c)'  BY <2>1, <3>2, <3>3 DEF CallInv, Live
    <3>. QED  BY <1>1, <2>1, <3>1, <3>2, <3>4
  <2>. QED  BY <2>2, <2>3, <2>4
<1>7. CASE UNCHANGED vars
  <2>1. ASSUME NEW b \in Call PROVE CallInv(b)'
    BY <1>7, Others DEF vars, RecordInv
  <2>. QED  BY <1>0, <2>1 DEF RecordInv
<1>8. CASE Next
  <2>1. \A b \in Call : CallInv(b)'
    BY <1>0, <1>2, <1>3, <1>4, <1>5, <1>6, <1>8, QuietSteps DEF Next, Step
  <2>. QED  BY <1>0, <2>1 DEF RecordInv
<1>. QED  BY <1>7, <1>8

\* A call that returns has recorded what happened, once; a grant, twice.
THEOREM RecordsAreTrue == Spec => []RecordsTellTruth
<1>1. RecordInv => RecordsTellTruth  BY DEF RecordInv, CallInv, RecordsTellTruth
<1>. QED  BY <1>1, RecordInit, RecordStep, PTL DEF Spec

\* Clio carries a mutation out once more than it has answered 5xx, at most.
THEOREM MutationsApplyOnce == Spec => []AppliedOnce
<1>1. RecordInv => AppliedOnce  BY DEF RecordInv, CallInv, AppliedOnce
<1>. QED  BY <1>1, RecordInit, RecordStep, PTL DEF Spec

-----------------------------------------------------------------------------
(* What stays in a store whose loads do not fail, whoever writes to it. *)

Lasting == Service \ {"expires"}

\* Two images hold the same secrets, if not the same tokens.
SameSecrets(a, b) ==
  /\ a.app = b.app
  /\ \A t \in Tenant, s \in Lasting : (a.token[t][s] = 0) <=> (b.token[t][s] = 0)

\* Who refreshes has found both tokens in the store and writes new ones in their
\* place; the image it writes them into has the secrets of the store.
KeepInv(c) ==
  /\ pc[c] \in {"refresh", "creds", "grant", "saving", "replacing"} => Of(vault, c, "access") # 0
  /\ refresh[c] # 0 => Of(vault, c, "refresh") # 0
  /\ pc[c] \in {"creds", "grant", "saving", "replacing"} => refresh[c] # 0
  /\ pc[c] \in {"saving", "replacing"} =>
       fresh[c].access # 0 /\ (saving[c] = "refresh" => fresh[c].refresh # 0)
  /\ pc[c] = "replacing" => SameSecrets(held[c], vault)

Kept == TypeOK /\ \A c \in Call : KeepInv(c)

LEMMA PutTokens ==
  ASSUME NEW image \in Image, NEW t \in Tenant, NEW s \in Service, NEW v \in Nat
  PROVE  /\ Put(image, t, s, v).app = image.app
         /\ \A u \in Tenant, r \in Service :
              Put(image, t, s, v).token[u][r] = IF u = t /\ r = s THEN v ELSE image.token[u][r]
  BY DEF Put, Image

\* What a store shows: what it holds, or nothing.
LEMMA SeenIsVault ==
  ASSUME NEW image \in Seen
  PROVE  image = vault \/ image = Empty
  BY DEF Seen, Visible

LEMMA EmptyHasNone ==
  ASSUME NEW t \in Tenant, NEW s \in Service
  PROVE  Empty.token[t][s] = 0 /\ ~Empty.app
  BY DEF Empty

LEMMA KeepInit == Init => Kept
<1>. SUFFICES ASSUME Init PROVE Kept  OBVIOUS
<1>1. ASSUME NEW c \in Call PROVE KeepInv(c)
  <2>1. pc[c] = "idle" /\ refresh[c] = 0  BY DEF Init
  <2>. QED  BY <2>1 DEF KeepInv
<1>. QED  BY <1>1, InitType DEF Kept

\* A call that does nothing depends on the store's secrets alone.
LEMMA KeepOthers ==
  ASSUME TypeOK, TypeOK', NEW b \in Call, KeepInv(b), SameSecrets(vault', vault), asked' = asked,
         pc'[b] = pc[b], refresh'[b] = refresh[b], fresh'[b] = fresh[b],
         saving'[b] = saving[b], held'[b] = held[b]
  PROVE  KeepInv(b)'
<1>1. asked[b].tenant \in Tenant /\ {"access", "refresh"} \subseteq Lasting
  BY AskedType DEF Lasting, Service
<1>2. \A s \in {"access", "refresh"} : (Of(vault, b, s)' = 0) <=> (Of(vault, b, s) = 0)
  BY <1>1 DEF Of, SameSecrets
<1>3. SameSecrets(held[b], vault) => SameSecrets(held'[b], vault')
  BY DEF SameSecrets
<1>. QED  BY <1>2, <1>3 DEF KeepInv

\* What is written is a token where a token was.
LEMMA WriteKeeps ==
  ASSUME Kept, NEW c \in Call, pc[c] \in {"saving", "replacing"},
         NEW image \in Image, SameSecrets(image, vault)
  PROVE  SameSecrets(Put(image, asked[c].tenant, saving[c], ValueOf(c)), vault)
<1>1. /\ asked[c].tenant \in Tenant /\ saving[c] \in Service /\ ValueOf(c) \in Nat
      /\ KeepInv(c)
  BY AskedType DEF ValueOf, Kept, TypeOK, Token
<1>2. saving[c] # "expires" => ValueOf(c) # 0 /\ vault.token[asked[c].tenant][saving[c]] # 0
  BY <1>1 DEF KeepInv, ValueOf, Of, Service
<1>. DEFINE new == Put(image, asked[c].tenant, saving[c], ValueOf(c))
<1>3. /\ new.app = image.app
      /\ \A u \in Tenant, r \in Service :
           new.token[u][r] = IF u = asked[c].tenant /\ r = saving[c] THEN ValueOf(c)
                             ELSE image.token[u][r]
  BY <1>1, PutTokens
<1>. HIDE DEF new
<1>4. SameSecrets(new, vault)
  BY <1>1, <1>2, <1>3 DEF SameSecrets, Lasting
<1>. QED  BY <1>4 DEF new

LEMMA SavedGoes ==
  ASSUME TypeOK, NEW c \in Call, Saved(c)
  PROVE  \/ pc'[c] = "http" /\ saving'[c] = saving[c]
         \/ /\ pc'[c] = "saving" /\ saving'[c] \in Service
            /\ saving'[c] = "refresh" => fresh[c].refresh # 0
  BY DEF Saved, Goto, TypeOK, Service

\* A load that has failed is not forgotten, and none fails in a steady store.
LEMMA UnreadStays ==
  ASSUME [Next]_vars
  PROVE  /\ unread => unread'
         /\ steady /\ ~unread => ~unread'
<1>. USE DEF setting, tokens, effects
<1>1. ASSUME NEW c \in Call, Load(c) PROVE (unread => unread') /\ (steady /\ ~unread => ~unread')
  BY <1>1 DEF Load, Seen, Visible
<1>2. ASSUME NEW c \in Call, Start(c) \/ GrantIntent(c) \/ ReadAccess(c) \/ ReadRefresh(c)
                            \/ ReadCreds(c) \/ Grant(c) \/ Replace(c) \/ Update(c)
      PROVE  unread' = unread
  BY <1>2 DEF Start, GrantIntent, ReadAccess, ReadRefresh, ReadCreds, Grant, Replace, Update
<1>3. ASSUME NEW c \in Call, SaveFails(c) \/ Http(c) \/ HttpCut(c) \/ Emit(c) \/ Exchange(c)
                            \/ Kill(c)
      PROVE  unread' = unread
  BY <1>3 DEF SaveFails, Http, HttpCut, Emit, Exchange, Kill
<1>4. CASE UNCHANGED vars  BY <1>4 DEF vars
<1>. QED  BY <1>1, <1>2, <1>3, <1>4 DEF Next, Step

\* While none has, no step takes a secret away.
LEMMA SecretsStep ==
  ASSUME Kept, ~unread', [Next]_vars
  PROVE  SameSecrets(vault', vault)
<1>. USE DEF setting, tokens, effects
<1>1. SameSecrets(vault, vault)  BY DEF SameSecrets
<1>2. ASSUME NEW c \in Call, Replace(c) PROVE SameSecrets(vault', vault)
  <2>1. KeepInv(c) /\ held[c] \in Image  BY DEF Kept, TypeOK
  <2>. QED  BY <1>2, <2>1, WriteKeeps DEF Replace, KeepInv
<1>3. ASSUME NEW c \in Call, Update(c) PROVE SameSecrets(vault', vault)
  BY <1>1, <1>3, WriteKeeps DEF Update, Kept, TypeOK
<1>4. ASSUME NEW c \in Call, SaveFails(c) PROVE SameSecrets(vault', vault)
  BY <1>1, <1>4, WriteKeeps DEF SaveFails, Kept, TypeOK
<1>5. ASSUME NEW c \in Call, Start(c) \/ GrantIntent(c) \/ ReadAccess(c) \/ ReadRefresh(c)
                            \/ ReadCreds(c) \/ Grant(c) \/ Load(c)
      PROVE  vault' = vault
  BY <1>5 DEF Start, GrantIntent, ReadAccess, ReadRefresh, ReadCreds, Grant, Load
<1>6. ASSUME NEW c \in Call, Http(c) \/ HttpCut(c) \/ Emit(c) \/ Exchange(c) \/ Kill(c)
      PROVE  vault' = vault
  BY <1>6 DEF Http, HttpCut, Emit, Exchange, Kill
<1>7. CASE UNCHANGED vars  BY <1>1, <1>7 DEF vars
<1>. QED  BY <1>1, <1>2, <1>3, <1>4, <1>5, <1>6, <1>7 DEF Next, Step

\* Whoever ends forgets what it held.
LEMMA EndKeeps ==
  ASSUME Kept, TypeOK', NEW c \in Call, pc'[c] \in Over, Forget(c)
  PROVE  KeepInv(c)'
<1>1. refresh'[c] = 0  BY DEF Forget, Kept, TypeOK
<1>. QED  BY <1>1 DEF KeepInv, Over

LEMMA KeepStep ==
  ASSUME Kept, ~unread', [Next]_vars
  PROVE  Kept'
<1>. USE DEF setting, tokens, effects
<1>0. TypeOK /\ TypeOK' /\ SameSecrets(vault', vault)  BY NextType, SecretsStep DEF Kept
<1>. DEFINE Own(c) == KeepInv(c)' /\ asked' = asked
                      /\ \A b \in Call \ {c} :
                           /\ pc'[b] = pc[b] /\ refresh'[b] = refresh[b] /\ fresh'[b] = fresh[b]
                           /\ saving'[b] = saving[b] /\ held'[b] = held[b]
<1>1. ASSUME NEW c \in Call, Own(c) PROVE Kept'
  <2>1. ASSUME NEW b \in Call, b # c PROVE KeepInv(b)'
    BY <1>0, <1>1, <2>1, KeepOthers DEF Kept
  <2>. QED  BY <1>0, <1>1, <2>1 DEF Kept
\* What c itself knows of the store stays so.
<1>2. ASSUME NEW c \in Call, asked' = asked
      PROVE  /\ KeepInv(c)
             /\ (Of(vault, c, "access")' = 0) <=> (Of(vault, c, "access") = 0)
             /\ (Of(vault, c, "refresh")' = 0) <=> (Of(vault, c, "refresh") = 0)
  <2>1. asked[c].tenant \in Tenant /\ {"access", "refresh"} \subseteq Lasting
    BY <1>0, AskedType DEF Lasting, Service
  <2>. QED  BY <1>0, <1>2, <2>1 DEF Of, SameSecrets, Kept
<1>3. ASSUME NEW c \in Call, Start(c) \/ GrantIntent(c) PROVE Kept'
  <2>1. /\ asked' = asked /\ UNCHANGED tokens /\ pc'[c] \in {"raised", "access", "exchange"}
        /\ \A b \in Call \ {c} : pc'[b] = pc[b]
    BY <1>0, <1>3 DEF Start, GrantIntent, Goto, TypeOK
  <2>2. KeepInv(c)'  BY <1>2, <2>1 DEF KeepInv
  <2>. QED  BY <1>1, <2>1, <2>2
<1>4. ASSUME NEW c \in Call, ReadAccess(c) PROVE Kept'
  <2>1. PICK image \in Seen :
          IF Of(image, c, "access") = 0 THEN Goto(c, "emit") /\ UNCHANGED configured
          ELSE Goto(c, "refresh")
    BY <1>4 DEF ReadAccess
  <2>2. /\ asked' = asked /\ UNCHANGED <<refresh, fresh, saving, held>>
        /\ \A b \in Call \ {c} : pc'[b] = pc[b]
        /\ pc'[c] = IF Of(image, c, "access") = 0 THEN "emit" ELSE "refresh"
    BY <1>0, <1>4, <2>1 DEF ReadAccess, Goto, TypeOK
  <2>3. Of(image, c, "access") # 0 => Of(vault, c, "access") # 0
    BY <1>0, AskedType, SeenIsVault, EmptyHasNone DEF Of, Service
  <2>4. KeepInv(c)'  BY <1>2, <2>2, <2>3 DEF KeepInv
  <2>. QED  BY <1>1, <2>2, <2>4
<1>5. ASSUME NEW c \in Call, ReadRefresh(c) PROVE Kept'
  <2>1. PICK image \in Seen :
          /\ refresh' = [refresh EXCEPT ![c] = Of(image, c, "refresh")]
          /\ Goto(c, IF ~again[c] THEN "http"
                     ELSE IF refresh'[c] = 0 THEN "emit" ELSE "creds")
    BY <1>5 DEF ReadRefresh
  <2>2. /\ asked' = asked /\ UNCHANGED <<fresh, saving, held>> /\ pc[c] = "refresh"
        /\ \A b \in Call \ {c} : pc'[b] = pc[b] /\ refresh'[b] = refresh[b]
        /\ refresh'[c] = Of(image, c, "refresh")
        /\ pc'[c] \in {"http", "emit", "creds"} /\ (pc'[c] = "creds" => refresh'[c] # 0)
    BY <1>0, <1>5, <2>1 DEF ReadRefresh, Goto, TypeOK
  <2>3. Of(image, c, "refresh") # 0 => Of(vault, c, "refresh") # 0
    BY <1>0, AskedType, SeenIsVault, EmptyHasNone DEF Of, Service
  <2>4. KeepInv(c)'  BY <1>2, <2>2, <2>3 DEF KeepInv
  <2>. QED  BY <1>1, <2>2, <2>4
<1>6. ASSUME NEW c \in Call, ReadCreds(c) PROVE Kept'
  <2>1. /\ asked' = asked /\ UNCHANGED tokens /\ pc[c] = "creds" /\ pc'[c] \in {"grant", "emit"}
        /\ \A b \in Call \ {c} : pc'[b] = pc[b]
    BY <1>0, <1>6 DEF ReadCreds, Goto, TypeOK
  <2>2. KeepInv(c)'  BY <1>2, <2>1 DEF KeepInv
  <2>. QED  BY <1>1, <2>1, <2>2
<1>7. ASSUME NEW c \in Call, Grant(c) PROVE Kept'
  <2>1. /\ asked' = asked /\ UNCHANGED <<refresh, held>> /\ pc[c] = "grant"
        /\ pc'[c] \in {"emit", "raised", "saving"}
        /\ \A b \in Call \ {c} : pc'[b] = pc[b] /\ fresh'[b] = fresh[b] /\ saving'[b] = saving[b]
    BY <1>0, <1>7 DEF Grant, Goto, TypeOK
  <2>2. pc'[c] = "saving" => fresh'[c].access # 0 /\ saving'[c] = "access"
    <3>1. ASSUME NEW rotate \in BOOLEAN, GrantBy(asked[c].tenant, rotate),
                 fresh' = [fresh EXCEPT ![c] =
                   [access |-> server'[asked[c].tenant].access,
                    refresh |-> IF rotate THEN server'[asked[c].tenant].refresh ELSE 0]]
          PROVE  fresh'[c].access # 0
      <4>1. asked[c].tenant \in Tenant /\ server[asked[c].tenant].access \in Nat
        BY <1>0, AskedType DEF TypeOK, Granted
      <4>2. server'[asked[c].tenant].access = server[asked[c].tenant].access + 1
        BY <1>0, <3>1, <4>1 DEF GrantBy, TypeOK
      <4>3. fresh'[c].access = server'[asked[c].tenant].access  BY <1>0, <3>1 DEF TypeOK
      <4>. QED  BY <4>1, <4>2, <4>3
    <3>2. CASE Goto(c, "emit")  BY <1>0, <3>2 DEF Goto, TypeOK
    <3>3. CASE \E rotate \in BOOLEAN :
            /\ GrantBy(asked[c].tenant, rotate)
            /\ fresh' = [fresh EXCEPT ![c] =
                 [access |-> server'[asked[c].tenant].access,
                  refresh |-> IF rotate THEN server'[asked[c].tenant].refresh ELSE 0]]
            /\ saving' = [saving EXCEPT ![c] = "access"]
      BY <1>0, <3>1, <3>3 DEF TypeOK
    <3>. QED  BY <1>7, <3>2, <3>3 DEF Grant
  <2>3. KeepInv(c)'  BY <1>2, <2>1, <2>2 DEF KeepInv
  <2>. QED  BY <1>1, <2>1, <2>3
<1>8. ASSUME NEW c \in Call, Load(c) PROVE Kept'
  <2>1. PICK image \in Seen : /\ held' = [held EXCEPT ![c] = image]
                              /\ unread' = (unread \/ image # vault)
    BY <1>8 DEF Load
  <2>2. image = vault  BY <2>1
  <2>3. /\ asked' = asked /\ UNCHANGED <<refresh, fresh, saving, vault>> /\ pc[c] = "saving"
        /\ pc'[c] = "replacing" /\ held'[c] = vault
        /\ \A b \in Call \ {c} : pc'[b] = pc[b] /\ held'[b] = held[b]
    BY <1>0, <1>8, <2>1, <2>2 DEF Load, Goto, TypeOK
  <2>4. KeepInv(c)'  BY <1>0, <1>2, <2>3 DEF KeepInv
  <2>. QED  BY <1>1, <2>3, <2>4
<1>9. ASSUME NEW c \in Call, Replace(c) \/ Update(c) PROVE Kept'
  <2>1. /\ asked' = asked /\ UNCHANGED <<refresh, fresh>> /\ pc[c] \in {"saving", "replacing"}
        /\ Saved(c)
        /\ \A b \in Call \ {c} : held'[b] = held[b]
    BY <1>0, <1>9 DEF Replace, Update, TypeOK
  <2>2. \A b \in Call \ {c} : pc'[b] = pc[b] /\ saving'[b] = saving[b]
    BY <1>0, <2>1 DEF Saved, Goto, TypeOK
  <2>3. KeepInv(c)'  BY <1>0, <1>2, <2>1, SavedGoes DEF KeepInv
  <2>. QED  BY <1>1, <2>1, <2>2, <2>3
<1>10. ASSUME NEW c \in Call, SaveFails(c) PROVE Kept'
  <2>1. /\ asked' = asked /\ UNCHANGED tokens /\ pc'[c] \in {"http", "emit"}
        /\ \A b \in Call \ {c} : pc'[b] = pc[b]
    BY <1>0, <1>10 DEF SaveFails, Goto, TypeOK
  <2>2. KeepInv(c)'  BY <1>2, <2>1 DEF KeepInv
  <2>. QED  BY <1>1, <2>1, <2>2
<1>11. ASSUME NEW c \in Call, Http(c) PROVE Kept'
  <2>1. /\ asked' = asked /\ UNCHANGED <<refresh, fresh, saving, held>>
        /\ pc'[c] \in {"http", "access", "emit"}
        /\ \A b \in Call \ {c} : pc'[b] = pc[b]
    BY <1>0, <1>11 DEF Http, Answered, Goto, TypeOK
  <2>2. KeepInv(c)'  BY <1>2, <2>1 DEF KeepInv
  <2>. QED  BY <1>1, <2>1, <2>2
<1>12. ASSUME NEW c \in Call, HttpCut(c) \/ Emit(c) \/ Kill(c) PROVE Kept'
  <2>1. asked' = asked /\ Forget(c) /\ pc'[c] \in Over /\ \A b \in Call \ {c} : pc'[b] = pc[b]
    BY <1>0, <1>12 DEF HttpCut, Emit, Kill, Goto, TypeOK, Over
  <2>2. \A b \in Call \ {c} : /\ refresh'[b] = refresh[b] /\ fresh'[b] = fresh[b]
                              /\ saving'[b] = saving[b] /\ held'[b] = held[b]
    BY <1>0, <2>1 DEF Forget, TypeOK
  <2>. QED  BY <1>0, <1>1, <2>1, <2>2, EndKeeps
<1>13. ASSUME NEW c \in Call, Exchange(c) PROVE Kept'
  <2>1. /\ asked' = asked /\ UNCHANGED tokens /\ pc'[c] \in Over
        /\ \A b \in Call \ {c} : pc'[b] = pc[b]
    BY <1>0, <1>13 DEF Exchange, Goto, TypeOK, Over
  <2>2. KeepInv(c)'  BY <1>2, <2>1 DEF KeepInv, Over
  <2>. QED  BY <1>1, <2>1, <2>2
<1>14. CASE UNCHANGED vars
  <2>1. ASSUME NEW b \in Call PROVE KeepInv(b)'
    BY <1>0, <1>14, KeepOthers DEF vars, Kept
  <2>. QED  BY <1>0, <2>1 DEF Kept
<1>. QED
  BY <1>3, <1>4, <1>5, <1>6, <1>7, <1>8, <1>9, <1>10, <1>11, <1>12, <1>13, <1>14 DEF Next, Step

\* As long as no load of a write has failed, no step of any call, whoever else is
\* at it, fails or dies, takes the app's credentials or a tenant's tokens away.
THEOREM SecretsStay == Spec => SecretsKept
<1>. DEFINE Inv == ~unread => Kept
            Keeps == ~unread' => /\ vault.app => vault'.app
                                 /\ \A t \in Tenant, s \in Service \ {"expires"} :
                                      vault.token[t][s] # 0 => vault'.token[t][s] # 0
<1>1. Init => Inv  BY KeepInit
<1>2. [Next]_vars => (unread => unread')  BY UnreadStays
<1>3. Inv /\ [Next]_vars => Inv'  BY <1>2, KeepStep
<1>4. Inv /\ [Next]_vars => [Keeps]_vars
  <2>. SUFFICES ASSUME ~unread', Kept, [Next]_vars PROVE Keeps  BY <1>2
  <2>. QED  BY SecretsStep DEF SameSecrets, Lasting
<1>. QED  BY <1>1, <1>3, <1>4, PTL DEF Spec, SecretsKept

-----------------------------------------------------------------------------
(* The tokens in the store and the latest grant, when calls follow one another. *)

Active(c) == pc[c] \notin Over \cup {"idle"}
OneAtATime == \A b, c \in Call : Active(b) /\ Active(c) => b = c

Latest(t) ==
  /\ vault.token[t]["access"] \in {0, server[t].access}
  /\ vault.token[t]["refresh"] \in {0, server[t].refresh}

\* Between a grant and its last write the store catches up, one secret at a time.
CatchingUp(c) ==
  /\ fresh[c].access = server[asked[c].tenant].access
  /\ fresh[c].refresh \in {0, server[asked[c].tenant].refresh}
  /\ saving[c] # "access" => Of(vault, c, "access") = server[asked[c].tenant].access
  /\ fresh[c].refresh = 0 \/ saving[c] = "expires" =>
       Of(vault, c, "refresh") \in {0, server[asked[c].tenant].refresh}

AtStore(c) == pc[c] \in {"saving", "replacing"}

ConnInv ==
  /\ OneAtATime
  /\ \A t \in Tenant \ adrift : ~Saving(t) => Latest(t)
  /\ \A c \in Call : AtStore(c) /\ asked[c].tenant \notin adrift => CatchingUp(c)
  /\ \A c \in Call : pc[c] = "replacing" => held[c] = vault

LEMMA ConnInit == Init => ConnInv
<1>. SUFFICES ASSUME Init PROVE ConnInv  OBVIOUS
<1>1. \A c \in Call : pc[c] = "idle"  BY DEF Init
<1>2. ASSUME NEW t \in Tenant PROVE Latest(t)
  <2>1. server[t].access = 1 /\ server[t].refresh = 1  BY DEF Init
  <2>2. vault.token[t]["access"] \in {0, 1} /\ vault.token[t]["refresh"] \in {0, 1}
    BY DEF Init, Provisioned, Empty, Service
  <2>. QED  BY <2>1, <2>2 DEF Latest
<1>. QED  BY <1>1, <1>2 DEF ConnInv, OneAtATime, Active, AtStore

\* Only a call that is under way, or starts while none is, does anything.
LEMMA OneStep ==
  ASSUME alone, TypeOK, OneAtATime, NEW c \in Call, Active(c) \/ MayStart(c),
         \A b \in Call \ {c} : pc'[b] = pc[b]
  PROVE  OneAtATime' /\ \A b \in Call \ {c} : ~Active(b)
<1>1. \A b \in Call \ {c} : ~Active(b)  BY DEF OneAtATime, Active, MayStart
<1>. QED  BY <1>1 DEF OneAtATime, Active

\* A step that touches neither the store nor Clio's grants, nor begins to write.
LEMMA ConnQuiet ==
  ASSUME alone, TypeOK, ConnInv, NEW c \in Call, Active(c) \/ MayStart(c),
         \A b \in Call \ {c} : pc'[b] = pc[b],
         UNCHANGED <<asked, vault, server>>, adrift \subseteq adrift',
         ~AtStore(c)',
         AtStore(c) => asked[c].tenant \in adrift' \/ saving[c] = "expires"
  PROVE  ConnInv'
<1>1. OneAtATime' /\ \A b \in Call \ {c} : ~Active(b)  BY OneStep DEF ConnInv
<1>2. \A b \in Call : ~AtStore(b)' /\ pc'[b] # "replacing"
  BY <1>1 DEF AtStore, Active, Over
<1>3. ASSUME NEW t \in Tenant \ adrift' PROVE Latest(t)'
  <2>1. CASE ~Saving(t)  BY <1>3, <2>1 DEF ConnInv, Latest
  <2>2. CASE Saving(t)
    <3>1. AtStore(c) /\ asked[c].tenant = t  BY <1>1, <2>2 DEF Saving, AtStore, Active, Over
    <3>2. CatchingUp(c) /\ saving[c] = "expires"  BY <1>3, <3>1 DEF ConnInv
    <3>. QED  BY <3>1, <3>2 DEF CatchingUp, Latest, Of
  <2>. QED  BY <2>1, <2>2
<1>. QED  BY <1>1, <1>2, <1>3 DEF ConnInv

LEMMA ConnStep ==
  ASSUME alone, steady, Kept, ConnInv, [Next]_vars
  PROVE  ConnInv'
<1>. USE DEF setting, tokens, effects
<1>0. TypeOK /\ TypeOK'  BY NextType DEF Kept
<1>1. ASSUME NEW c \in Call, Start(c) \/ GrantIntent(c) PROVE ConnInv'
  <2>1. /\ MayStart(c) /\ UNCHANGED <<asked, vault, server, adrift>>
        /\ ~AtStore(c) /\ ~AtStore(c)' /\ \A b \in Call \ {c} : pc'[b] = pc[b]
    BY <1>0, <1>1 DEF Start, GrantIntent, MayStart, Goto, AtStore, TypeOK
  <2>. QED  BY <1>0, <2>1, ConnQuiet
<1>2. ASSUME NEW c \in Call, ReadAccess(c) \/ ReadRefresh(c) \/ ReadCreds(c) PROVE ConnInv'
  <2>1. /\ Active(c) /\ UNCHANGED <<asked, vault, server, adrift>>
        /\ ~AtStore(c) /\ ~AtStore(c)' /\ \A b \in Call \ {c} : pc'[b] = pc[b]
    <3>1. CASE ReadAccess(c)
      BY <1>0, <3>1 DEF ReadAccess, Active, Over, Goto, AtStore, TypeOK
    <3>2. CASE ReadRefresh(c)
      BY <1>0, <3>2 DEF ReadRefresh, Active, Over, Goto, AtStore, TypeOK
    <3>3. CASE ReadCreds(c)
      BY <1>0, <3>3 DEF ReadCreds, Active, Over, Goto, AtStore, TypeOK
    <3>. QED  BY <1>2, <3>1, <3>2, <3>3
  <2>. QED  BY <1>0, <2>1, ConnQuiet
<1>3. ASSUME NEW c \in Call, Http(c) \/ HttpCut(c) \/ Emit(c) PROVE ConnInv'
  <2>1. /\ Active(c) /\ UNCHANGED <<asked, vault, server, adrift>>
        /\ ~AtStore(c) /\ ~AtStore(c)' /\ \A b \in Call \ {c} : pc'[b] = pc[b]
    <3>1. CASE Http(c)
      BY <1>0, <3>1 DEF Http, Answered, Active, Over, Goto, AtStore, TypeOK
    <3>2. CASE HttpCut(c) \/ Emit(c)
      BY <1>0, <3>2 DEF HttpCut, Emit, Active, Over, Goto, AtStore, TypeOK
    <3>. QED  BY <1>3, <3>1, <3>2
  <2>. QED  BY <1>0, <2>1, ConnQuiet
<1>4. ASSUME NEW c \in Call, SaveFails(c) PROVE ConnInv'
  <2>1. /\ Active(c) /\ UNCHANGED <<asked, vault, server>> /\ adrift \subseteq adrift'
        /\ ~AtStore(c)' /\ \A b \in Call \ {c} : pc'[b] = pc[b]
        /\ asked[c].tenant \in adrift' \/ saving[c] = "expires"
    BY <1>0, <1>4 DEF SaveFails, Active, Over, Goto, AtStore, TypeOK
  <2>. QED  BY <1>0, <2>1, ConnQuiet
\* A grant changes what its own tenant has, and no other call is under way.
<1>5. ASSUME NEW c \in Call, NEW rotate \in BOOLEAN, Active(c), ~AtStore(c),
             GrantBy(asked[c].tenant, rotate), UNCHANGED <<asked, vault>>,
             \A b \in Call \ {c} : pc'[b] = pc[b], adrift \subseteq adrift'
      PROVE  /\ OneAtATime' /\ \A b \in Call \ {c} : ~AtStore(b)'
             /\ \A b \in Call \ {c} : pc'[b] # "replacing"
             /\ \A t \in Tenant \ (adrift' \cup {asked[c].tenant}) : Latest(t)'
             /\ asked[c].tenant \notin adrift => Latest(asked[c].tenant)
  <2>1. OneAtATime' /\ \A b \in Call \ {c} : ~Active(b)  BY <1>0, <1>5, OneStep DEF ConnInv
  <2>2. \A b \in Call : ~AtStore(b)  BY <1>5, <2>1 DEF AtStore, Active, Over
  <2>3. \A t \in Tenant : ~Saving(t)  BY <2>2 DEF Saving, AtStore
  <2>4. \A t \in Tenant \ {asked[c].tenant} : server'[t] = server[t]
    BY <1>0, <1>5 DEF GrantBy, TypeOK
  <2>5. \A b \in Call \ {c} : ~AtStore(b)' /\ pc'[b] # "replacing"
    BY <1>5, <2>2 DEF AtStore
  <2>6. asked[c].tenant \in Tenant  BY <1>0, AskedType
  <2>. QED  BY <1>5, <2>1, <2>3, <2>4, <2>5, <2>6 DEF ConnInv, Latest
<1>6. ASSUME NEW c \in Call, Exchange(c) PROVE ConnInv'
  <2>1. /\ Active(c) /\ ~AtStore(c) /\ ~AtStore(c)' /\ pc'[c] # "replacing"
        /\ UNCHANGED <<asked, vault>> /\ \A b \in Call \ {c} : pc'[b] = pc[b]
    BY <1>0, <1>6 DEF Exchange, Active, Over, Goto, AtStore, TypeOK
  <2>2. CASE UNCHANGED <<server, adrift>>  BY <1>0, <2>1, <2>2, ConnQuiet
  <2>3. CASE \E rotate \in BOOLEAN : /\ GrantBy(asked[c].tenant, rotate)
                                     /\ adrift' = adrift \cup {asked[c].tenant}
    BY <1>5, <2>1, <2>3 DEF ConnInv
  <2>. QED  BY <1>6, <2>2, <2>3 DEF Exchange
<1>7. ASSUME NEW c \in Call, Grant(c) PROVE ConnInv'
  <2>. DEFINE t == asked[c].tenant
  <2>1. /\ Active(c) /\ ~AtStore(c) /\ UNCHANGED <<asked, vault, held>> /\ t \in Tenant
        /\ \A b \in Call \ {c} : pc'[b] = pc[b]
    BY <1>0, <1>7, AskedType DEF Grant, Active, Over, Goto, AtStore, TypeOK
  <2>2. CASE Goto(c, "emit") /\ UNCHANGED <<server, adrift, fresh, saving>>
    <3>1. ~AtStore(c)'  BY <1>0, <2>2 DEF Goto, AtStore, TypeOK
    <3>. QED  BY <1>0, <2>1, <2>2, <3>1, ConnQuiet
  <2>3. ASSUME NEW rotate \in BOOLEAN, NEW arrives \in {"whole", "lost", "cut"},
               GrantBy(t, rotate),
               fresh' = [fresh EXCEPT ![c] =
                 [access |-> server'[t].access,
                  refresh |-> IF rotate THEN server'[t].refresh ELSE 0]],
               saving' = [saving EXCEPT ![c] = "access"],
               adrift' = IF arrives = "whole" THEN adrift ELSE adrift \cup {t},
               Goto(c, CASE arrives = "whole" -> "saving" [] arrives = "lost" -> "emit"
                         [] arrives = "cut" -> "raised")
        PROVE  ConnInv'
    <3>1. /\ OneAtATime' /\ \A b \in Call \ {c} : ~AtStore(b)' /\ pc'[b] # "replacing"
          /\ \A u \in Tenant \ (adrift' \cup {t}) : Latest(u)'
          /\ t \notin adrift => Latest(t)
      BY <1>5, <2>1, <2>3
    <3>2. pc'[c] # "replacing" /\ (AtStore(c)' <=> arrives = "whole")
      BY <1>0, <2>3 DEF Goto, AtStore, TypeOK
    <3>3. t \in adrift' \/ (AtStore(c)' /\ t \notin adrift)  BY <2>3, <3>2
    <3>4. AtStore(c)' => Saving(t)'  BY <2>1 DEF Saving, AtStore
    <3>5. ASSUME AtStore(c)', t \notin adrift' PROVE CatchingUp(c)'
      <4>1. /\ fresh'[c].access = server'[t].access
            /\ fresh'[c].refresh = IF rotate THEN server'[t].refresh ELSE 0
            /\ saving'[c] = "access"
        BY <1>0, <2>3 DEF TypeOK
      <4>2. /\ server'[t].refresh = IF rotate THEN server[t].access + 1 ELSE server[t].refresh
            /\ server[t].access \in Nat
        BY <1>0, <2>1, <2>3 DEF GrantBy, TypeOK, Granted
      <4>3. Of(vault, c, "refresh") \in {0, server[t].refresh}
        BY <3>1, <3>3, <3>5 DEF Latest, Of
      <4>4. ~rotate \/ fresh'[c].refresh # 0  BY <4>1, <4>2
      <4>5. Of(vault, c, "refresh")' = Of(vault, c, "refresh") /\ asked'[c].tenant = t
        BY <2>1 DEF Of
      <4>. QED  BY <4>1, <4>2, <4>3, <4>4, <4>5 DEF CatchingUp
    <3>. QED  BY <2>1, <3>1, <3>2, <3>3, <3>4, <3>5 DEF ConnInv
  <2>. QED  BY <1>7, <2>2, <2>3 DEF Grant
<1>8. ASSUME NEW c \in Call, Load(c) PROVE ConnInv'
  <2>1. PICK image \in Seen : held' = [held EXCEPT ![c] = image]  BY <1>8 DEF Load
  <2>2. image = vault  BY <1>8, <2>1 DEF Load, Seen, Visible
  <2>3. /\ Active(c) /\ AtStore(c) /\ AtStore(c)' /\ held'[c] = vault'
        /\ UNCHANGED <<asked, vault, server, adrift, fresh, saving>>
        /\ \A b \in Call \ {c} : pc'[b] = pc[b] /\ held'[b] = held[b]
    BY <1>0, <1>8, <2>1, <2>2 DEF Load, Goto, Active, Over, AtStore, TypeOK
  <2>4. OneAtATime'  BY <1>0, <2>3, OneStep DEF ConnInv
  <2>5. \A t \in Tenant : Saving(t)' <=> Saving(t)  BY <2>3 DEF Saving, AtStore
  <2>6. \A b \in Call : AtStore(b)' <=> AtStore(b)  BY <2>3 DEF AtStore
  <2>7. \A b \in Call : CatchingUp(b) => CatchingUp(b)'  BY <2>3 DEF CatchingUp, Of
  <2>8. \A t \in Tenant : Latest(t) => Latest(t)'  BY <2>3 DEF Latest
  <2>9. \A b \in Call : pc'[b] = "replacing" => held'[b] = vault'  BY <2>3 DEF ConnInv
  <2>. QED  BY <2>3, <2>4, <2>5, <2>6, <2>7, <2>8, <2>9 DEF ConnInv
<1>9. ASSUME NEW c \in Call, Replace(c) \/ Update(c) PROVE ConnInv'
  <2>. DEFINE t == asked[c].tenant
  <2>1. /\ Active(c) /\ AtStore(c) /\ Saved(c) /\ t \in Tenant /\ saving[c] \in Service
        /\ UNCHANGED <<asked, server, adrift, fresh>>
        /\ \A b \in Call \ {c} : pc'[b] = pc[b] /\ saving'[b] = saving[b] /\ held'[b] = held[b]
    <3>1. /\ AtStore(c) /\ Saved(c) /\ UNCHANGED <<asked, server, adrift, fresh>>
          /\ \A b \in Call \ {c} : held'[b] = held[b]
      BY <1>0, <1>9 DEF Replace, Update, AtStore, TypeOK
    <3>2. Active(c) /\ t \in Tenant /\ saving[c] \in Service
      BY <1>0, <3>1, AskedType DEF Active, Over, AtStore, TypeOK
    <3>3. \A b \in Call \ {c} : pc'[b] = pc[b] /\ saving'[b] = saving[b]
      BY <1>0, <3>1 DEF Saved, Goto, TypeOK
    <3>. QED  BY <3>1, <3>2, <3>3
  <2>2. vault' = Put(vault, t, saving[c], ValueOf(c))
    BY <1>9 DEF Replace, Update, ConnInv
  <2>3. \A u \in Tenant, s \in Service :
          vault'.token[u][s] = IF u = t /\ s = saving[c] THEN ValueOf(c) ELSE vault.token[u][s]
    <3>1. ValueOf(c) \in Nat /\ vault \in Image  BY <1>0 DEF ValueOf, TypeOK, Token
    <3>. QED  BY <2>1, <2>2, <3>1, PutTokens
  <2>4. /\ OneAtATime' /\ \A b \in Call \ {c} : ~Active(b)
    BY <1>0, <2>1, OneStep DEF ConnInv
  <2>5. \A b \in Call \ {c} : ~AtStore(b) /\ ~AtStore(b)' /\ pc'[b] # "replacing"
    BY <2>1, <2>4 DEF AtStore, Active, Over
  <2>6. pc'[c] # "replacing" /\ pc'[c] \in {"http", "saving"}
    BY <1>0, <2>1 DEF Saved, Goto, TypeOK
  <2>7. ASSUME NEW u \in Tenant \ adrift, u # t PROVE Latest(u)'
    <3>1. ~Saving(u)  BY <2>5, <2>7 DEF Saving, AtStore
    <3>2. Latest(u)  BY <2>7, <3>1 DEF ConnInv
    <3>. QED  BY <2>1, <2>3, <2>7, <3>2 DEF Latest, Service
  <2>8. ASSUME t \notin adrift
        PROVE  (AtStore(c)' => CatchingUp(c)') /\ (~AtStore(c)' => Latest(t)')
    <3>1. CatchingUp(c) /\ KeepInv(c)  BY <2>1, <2>8 DEF ConnInv, Kept
    <3>2. /\ vault'.token[t]["access"] = server[t].access
          /\ saving[c] = "refresh" \/ fresh[c].refresh = 0 \/ saving[c] = "expires"
               => vault'.token[t]["refresh"] \in {0, server[t].refresh}
      <4>1. CASE saving[c] = "access"
        BY <2>1, <2>3, <3>1, <4>1 DEF CatchingUp, Of, ValueOf, Service
      <4>2. CASE saving[c] = "refresh"
        BY <2>1, <2>3, <3>1, <4>2 DEF CatchingUp, Of, ValueOf, Service
      <4>3. CASE saving[c] = "expires"
        BY <2>1, <2>3, <3>1, <4>3 DEF CatchingUp, Of, ValueOf, Service
      <4>. QED  BY <2>1, <4>1, <4>2, <4>3 DEF Service
    <3>3. \/ saving[c] = "access" /\ fresh[c].refresh # 0 /\ pc'[c] = "saving"
             /\ saving'[c] = "refresh"
          \/ saving[c] = "refresh" \/ fresh[c].refresh = 0 \/ saving[c] = "expires"
      BY <1>0, <2>1 DEF Saved, Goto, TypeOK, Service
    <3>4. /\ asked'[c].tenant = t /\ fresh'[c] = fresh[c] /\ server'[t] = server[t]
      BY <2>1
    <3>5. CASE saving[c] = "access" /\ fresh[c].refresh # 0 /\ pc'[c] = "saving"
               /\ saving'[c] = "refresh"
      BY <3>1, <3>2, <3>4, <3>5 DEF CatchingUp, AtStore, Of
    <3>6. CASE saving[c] = "refresh" \/ fresh[c].refresh = 0 \/ saving[c] = "expires"
      BY <3>1, <3>2, <3>4, <3>6 DEF CatchingUp, Latest, Of
    <3>. QED  BY <3>3, <3>5, <3>6
  <2>9. AtStore(c)' => Saving(t)'  BY <2>1 DEF Saving, AtStore
  <2>. QED  BY <2>1, <2>4, <2>5, <2>6, <2>7, <2>8, <2>9 DEF ConnInv
<1>10. ASSUME NEW c \in Call, Kill(c) PROVE FALSE  BY <1>10 DEF Kill
<1>11. CASE UNCHANGED vars
  BY <1>11 DEF vars, ConnInv, OneAtATime, Active, Saving, Latest, AtStore, CatchingUp, Of
<1>. QED
  BY <1>1, <1>2, <1>3, <1>4, <1>6, <1>7, <1>8, <1>9, <1>10, <1>11 DEF Next, Step

\* When calls follow one another and the store works, it holds of each tenant what
\* Clio has granted last, unless the code never had it in its hands to store.
THEOREM StaysConnected == Spec => []TenantStaysConnected
<1>. DEFINE Inv == alone /\ steady => Kept /\ ConnInv /\ ~unread
<1>1. Init => Inv  BY KeepInit, ConnInit DEF Init
<1>2. [Next]_vars => alone' = alone /\ steady' = steady
  BY DEF Next, Step, vars, setting, Start, GrantIntent, ReadAccess, ReadRefresh, ReadCreds, Grant,
     Load, Replace, Update, SaveFails, Http, HttpCut, Emit, Exchange, Kill
<1>3. Inv /\ [Next]_vars => Inv'  BY <1>2, UnreadStays, KeepStep, ConnStep
<1>4. Inv => TenantStaysConnected  BY DEF ConnInv, Latest, TenantStaysConnected
<1>. QED  BY <1>1, <1>3, <1>4, PTL DEF Spec

=============================================================================
