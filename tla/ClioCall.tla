------------------------------ MODULE ClioCall ------------------------------
(***************************************************************************)
(* Calls of Clio: call and grant_oauth_tokens of client/donna/integrations *)
(* /clio.py, the verbs of clio_domain.py and vincent_call, over one secret *)
(* store and Clio itself.  Each is a run of blocking steps; several run at *)
(* a time, in threads or processes.                                        *)
(***************************************************************************)
EXTENDS SecretStore, Sequences

CONSTANTS
  Call,       \* calls
  Env,        \* the environments calls may find themselves in
  Asked,      \* what the calls may be asked to do: functions of Call
  MaxFaults   \* how many 5xx answers are met with another request within a window of
              \* retrying; the request after a refresh has a window of its own

\* GET, the other methods, vincent_call and grant_oauth_tokens.
Kind == {"read", "mutate", "vincent", "grant"}

ASSUME MaxFaultsIsPositive == MaxFaults \in Nat \ {0}
ASSUME AskedIsCalls == Asked \subseteq [Call -> [kind : Kind, tenant : Tenant, logged : BOOLEAN]]
ASSUME EnvIsSettings ==
  Env \subseteq [explicit : STRING, security : BOOLEAN, material : BOOLEAN,
                 alone : BOOLEAN, steady : BOOLEAN]

VARIABLES
  backend,    \* the store select_store gives
  alone,      \* do calls follow one another?
  steady,     \* does the store never fail and no process die?
  vault,      \* what the store holds
  server,     \* server[t]: what Clio has granted tenant t
  adrift,     \* the tenants of whom a grant has not reached the store
  unread,     \* history: has the load of a write failed, and shown an empty store?
  pc,         \* pc[c]: where call c is
  asked,      \* asked[c]: what c is to do, for whom, and with a logger or not
  configured, \* configured[c]: has c found an access token?
  refresh,    \* refresh[c]: the refresh token c has loaded
  again,      \* again[c]: has c been at refreshing?
  fresh,      \* fresh[c]: the tokens c was granted
  saving,     \* saving[c]: the secret c is at
  held,       \* held[c]: the image c is about to write
  status,     \* status[c]: the last status
  records,    \* records[c]: what c has logged
  applied,    \* applied[c]: how often Clio has carried out c's mutation
  faults      \* faults[c]: 5xx answers c has got

setting == <<backend, alone, steady, asked>>
tokens == <<configured, refresh, again, fresh, saving, held>>
effects == <<status, applied, faults>>
vars == <<setting, vault, server, adrift, unread, pc, tokens, effects, records>>

Status == {0, 200, 400, 401, 500}     \* 400: any 3xx or 4xx but 401; 500: any 5xx
Record == {"intent", "success", "failure", "transport_failure", "not_configured"}
Token == [access : Nat, refresh : Nat]
NoToken == [access |-> 0, refresh |-> 0]
Granted == [access : Nat, refresh : Nat, previous : Nat]

Over == {"done", "raised", "dead"}
PcValue == Over \cup {"idle", "access", "refresh", "creds", "grant", "saving",
                      "replacing", "http", "emit", "exchange"}

MayStart(c) == pc[c] = "idle" /\ (alone => \A b \in Call : pc[b] \in Over \cup {"idle"})
Goto(c, where) == pc' = [pc EXCEPT ![c] = where]

\* The locals of a call that has ended are gone.
Forget(c) ==
  /\ refresh' = [refresh EXCEPT ![c] = 0]
  /\ again' = [again EXCEPT ![c] = FALSE]
  /\ fresh' = [fresh EXCEPT ![c] = NoToken]
  /\ saving' = [saving EXCEPT ![c] = "access"]
  /\ held' = [held EXCEPT ![c] = Empty]

Of(image, c, s) == image.token[asked[c].tenant][s]

\* What reading the store can give: a failed read is no secret.
Seen == {Visible(backend, vault)} \cup (IF steady \/ backend = "env" THEN {} ELSE {Empty})

ClassifyOutcome(s) ==
  CASE s \in 200 .. 299 -> "success" [] s = 0 -> "transport_failure" [] OTHER -> "failure"

\* GETs are not recorded, vincent_call is.
IsMutation(c) == asked[c].kind \in {"mutate", "vincent"}

-----------------------------------------------------------------------------

\* How an operator may have set the store up.
Provisioned(app, token) ==
  [app |-> app,
   token |-> [t \in Tenant |-> [access |-> 1, refresh |-> token, expires |-> 0]]]

Init ==
  /\ \E e \in Env : backend = SelectStore(e) /\ alone = e.alone /\ steady = e.steady
  /\ vault \in {Provisioned(TRUE, 1), Provisioned(FALSE, 1), Provisioned(TRUE, 0), Empty}
  /\ server = [t \in Tenant |-> [access |-> 1, refresh |-> 1, previous |-> 1]]
  /\ adrift = {}
  /\ unread = FALSE
  /\ pc = [c \in Call |-> "idle"]
  /\ asked \in Asked
  /\ configured = [c \in Call |-> FALSE]
  /\ refresh = [c \in Call |-> 0]
  /\ again = [c \in Call |-> FALSE]
  /\ fresh = [c \in Call |-> NoToken]
  /\ saving = [c \in Call |-> "access"]
  /\ held = [c \in Call |-> Empty]
  /\ status = [c \in Call |-> 0]
  /\ records = [c \in Call |-> << >>]
  /\ applied = [c \in Call |-> 0]
  /\ faults = [c \in Call |-> 0]

Start(c) ==
  /\ MayStart(c) /\ asked[c].kind # "grant"
  /\ Goto(c, IF backend = "raises" THEN "raised" ELSE "access")
  /\ UNCHANGED <<setting, vault, server, adrift, unread, tokens, effects, records>>

\* load_config, of call and again of refresh_access_token: the access token...
ReadAccess(c) ==
  /\ pc[c] = "access"
  /\ \E image \in Seen :
       IF Of(image, c, "access") = 0 THEN Goto(c, "emit") /\ UNCHANGED configured
       ELSE /\ Goto(c, "refresh")
            /\ configured' = [configured EXCEPT ![c] = TRUE]
  /\ UNCHANGED <<setting, vault, server, adrift, unread, refresh, again, fresh, saving,
                 held, effects, records>>

\* ... and the refresh token, which may belong to another grant by now.
ReadRefresh(c) ==
  /\ pc[c] = "refresh"
  /\ \E image \in Seen :
       /\ refresh' = [refresh EXCEPT ![c] = Of(image, c, "refresh")]
       /\ Goto(c, IF ~again[c] THEN "http"
                  ELSE IF refresh'[c] = 0 THEN "emit" ELSE "creds")
  /\ UNCHANGED <<setting, vault, server, adrift, unread, configured, again, fresh, saving,
                 held, effects, records>>

ReadCreds(c) ==
  /\ pc[c] = "creds"
  /\ \E image \in Seen : Goto(c, IF image.app THEN "grant" ELSE "emit")
  /\ UNCHANGED <<setting, vault, server, adrift, unread, tokens, effects, records>>

\* Clio grants an access token, and a refresh token in place of the one presented
\* if it rotates them.
GrantBy(t, rotate) ==
  server' = [server EXCEPT ![t] =
    [access |-> @.access + 1,
     refresh |-> IF rotate THEN @.access + 1 ELSE @.refresh,
     previous |-> IF rotate THEN @.refresh ELSE @.previous]]

\* The refresh grant.  Clio takes the latest refresh token and, for a while, the
\* one before.  An answer that breaks off raises http.client.IncompleteRead.
Grant(c) ==
  /\ pc[c] = "grant"
  /\ \/ Goto(c, "emit") /\ UNCHANGED <<server, adrift, fresh, saving>>
     \/ \E rotate \in BOOLEAN, arrives \in {"whole", "lost", "cut"} :
          /\ refresh[c] \in {server[asked[c].tenant].refresh, server[asked[c].tenant].previous}
          /\ GrantBy(asked[c].tenant, rotate)
          /\ fresh' = [fresh EXCEPT ![c] =
               [access |-> server'[asked[c].tenant].access,
                refresh |-> IF rotate THEN server'[asked[c].tenant].refresh ELSE 0]]
          /\ saving' = [saving EXCEPT ![c] = "access"]
          /\ adrift' = IF arrives = "whole" THEN adrift ELSE adrift \cup {asked[c].tenant}
          /\ Goto(c, CASE arrives = "whole" -> "saving" [] arrives = "lost" -> "emit"
                       [] arrives = "cut" -> "raised")
  /\ UNCHANGED <<setting, vault, unread, configured, refresh, again, held, effects,
                 records>>

ValueOf(c) == IF saving[c] = "refresh" THEN fresh[c].refresh ELSE fresh[c].access

\* Variant: a rotated refresh token is not kept.
Saved_AccessOnly(c) ==
  \/ saving[c] = "access" /\ Goto(c, "saving") /\ saving' = [saving EXCEPT ![c] = "expires"]
  \/ Goto(c, "http") /\ UNCHANGED saving

\* _stash_refreshed_tokens: the access token, the refresh token if there is a new
\* one, the expiry if there is one.  The request is sent once more after that.
Saved(c) ==
  LET rest == CASE saving[c] = "access" -> IF fresh[c].refresh # 0 THEN {"refresh"}
                                           ELSE {"expires", "none"}
                [] saving[c] = "refresh" -> {"expires", "none"}
                [] saving[c] = "expires" -> {"none"}
  IN \E s \in rest :
       IF s = "none" THEN Goto(c, "http") /\ UNCHANGED saving
       ELSE Goto(c, "saving") /\ saving' = [saving EXCEPT ![c] = s]

\* Variant: a write starts from an empty map.
Load_Empty(c) ==
  /\ pc[c] = "saving" /\ backend = "encrypted_file"
  /\ held' = [held EXCEPT ![c] = Empty]
  /\ Goto(c, "replacing")
  /\ UNCHANGED <<setting, vault, server, adrift, unread, configured, refresh, again,
                 fresh, saving, effects, records>>

\* write of the file store, whose lock no other store has: load the whole map...
Load(c) ==
  /\ pc[c] = "saving" /\ backend = "encrypted_file"
  /\ \E image \in Seen :
       /\ held' = [held EXCEPT ![c] = image]
       /\ unread' = (unread \/ image # vault)
  /\ Goto(c, "replacing")
  /\ UNCHANGED <<setting, vault, server, adrift, configured, refresh, again, fresh,
                 saving, effects, records>>

\* ... and replace the file.
Replace(c) ==
  /\ pc[c] = "replacing"
  /\ vault' = Put(held[c], asked[c].tenant, saving[c], ValueOf(c))
  /\ held' = [held EXCEPT ![c] = Empty]
  /\ Saved(c)
  /\ UNCHANGED <<setting, server, adrift, unread, configured, refresh, again, fresh,
                 effects, records>>

\* write of the keychain, security add-generic-password -U.
Update(c) ==
  /\ pc[c] = "saving" /\ backend = "keychain"
  /\ vault' = Put(vault, asked[c].tenant, saving[c], ValueOf(c))
  /\ Saved(c)
  /\ UNCHANGED <<setting, server, adrift, unread, configured, refresh, again, fresh, held,
                 effects, records>>

\* Variant: a save that fails is tried until it does not.
SaveFails_Retried(c) ==
  /\ \/ pc[c] = "saving" /\ backend = "env"
     \/ ~steady /\ pc[c] \in {"saving", "replacing"}
  /\ Goto(c, "saving")
  /\ UNCHANGED <<setting, vault, server, adrift, unread, tokens, effects, records>>

\* The environment cannot be written.  A keychain that is too slow may have done it.
\* The tokens are given up unless only the expiry is missing.
SaveFails(c) ==
  /\ \/ pc[c] = "saving" /\ backend = "env"
     \/ ~steady /\ pc[c] \in {"saving", "replacing"}
  /\ vault' \in {vault} \cup (IF backend = "keychain"
                              THEN {Put(vault, asked[c].tenant, saving[c], ValueOf(c))} ELSE {})
  /\ IF saving[c] = "expires" THEN Goto(c, "http") /\ UNCHANGED adrift
     ELSE Goto(c, "emit") /\ adrift' = adrift \cup {asked[c].tenant}
  /\ UNCHANGED <<setting, server, unread, tokens, effects, records>>

\* How many 5xx answers c may have had when it sends the request again.
Window(c) == IF again[c] THEN 2 * MaxFaults ELSE MaxFaults

\* Variant: a request without an answer is sent once more, too.
Answered_RetryAll(c, s) ==
  IF s \in {0, 500} /\ faults'[c] <= Window(c) THEN UNCHANGED <<pc, again, tokens>>
  ELSE Goto(c, "emit") /\ UNCHANGED tokens

\* _http_with_retry and call: again on a 5xx while the window lasts, and with new
\* tokens after a 401, once.
Answered(c, s) ==
  \/ s >= 500 /\ faults'[c] <= Window(c) /\ UNCHANGED <<pc, again>>
  \/ /\ s = 401 /\ refresh[c] # 0 /\ ~again[c] /\ asked[c].kind # "vincent"
     /\ again' = [again EXCEPT ![c] = TRUE]
     /\ Goto(c, "access")
  \/ /\ s = 401 => (refresh[c] = 0 \/ again[c] \/ asked[c].kind = "vincent")
     /\ Goto(c, "emit") /\ UNCHANGED again

\* One request, and its answer: 0 if there is none.
Http(c) ==
  /\ pc[c] = "http"
  /\ \E s \in Status, done \in BOOLEAN :
       /\ s = 200 => done
       /\ s \in {400, 401} => ~done
       /\ status' = [status EXCEPT ![c] = s]
       /\ applied' = [applied EXCEPT ![c] = IF done /\ IsMutation(c) THEN @ + 1 ELSE @]
       /\ faults' = [faults EXCEPT ![c] = IF s = 500 THEN @ + 1 ELSE @]
       /\ Answered(c, s)
  /\ UNCHANGED <<setting, vault, server, adrift, unread, configured, refresh, fresh,
                 saving, held, records>>

\* The answer breaks off: IncompleteRead is not an OSError and nobody catches it.
HttpCut(c) ==
  /\ pc[c] = "http"
  /\ \E done \in BOOLEAN :
       applied' = [applied EXCEPT ![c] = IF done /\ IsMutation(c) THEN @ + 1 ELSE @]
  /\ Goto(c, "raised") /\ Forget(c)
  /\ UNCHANGED <<setting, vault, server, adrift, unread, configured, status, faults,
                 records>>

\* A tenant without an access token is "not_configured"; vincent_call records the
\* status 0 as a transport failure.
RecordOf(c) ==
  IF ~configured[c] /\ asked[c].kind = "mutate" THEN "not_configured"
  ELSE ClassifyOutcome(status[c])

\* Variant: what has failed is not recorded.
Emit_SuccessOnly(c) ==
  /\ pc[c] = "emit"
  /\ records' = IF asked[c].logged /\ IsMutation(c) /\ status[c] = 200
                THEN [records EXCEPT ![c] = Append(@, RecordOf(c))] ELSE records
  /\ Goto(c, "done") /\ Forget(c)
  /\ UNCHANGED <<setting, vault, server, adrift, unread, configured, effects>>

Emit(c) ==
  /\ pc[c] = "emit"
  /\ records' = IF asked[c].logged /\ IsMutation(c)
                THEN [records EXCEPT ![c] = Append(@, RecordOf(c))] ELSE records
  /\ Goto(c, "done") /\ Forget(c)
  /\ UNCHANGED <<setting, vault, server, adrift, unread, configured, effects>>

\* grant_oauth_tokens up to the request: the intent is recorded, and the outcome
\* as well if a parameter is missing.
GrantOutcome(c, ok) ==
  IF asked[c].logged THEN [records EXCEPT ![c] = Append(@, IF ok THEN "success" ELSE "failure")]
  ELSE records
GrantIntent(c) ==
  /\ MayStart(c) /\ asked[c].kind = "grant"
  /\ records' = IF asked[c].logged THEN [records EXCEPT ![c] = Append(@, "intent")] ELSE records
  /\ Goto(c, "exchange")
  /\ UNCHANGED <<setting, vault, server, adrift, unread, tokens, effects>>

\* The request.  The tokens go to the caller, not to the store.
Exchange(c) ==
  /\ pc[c] = "exchange"
  /\ \/ \E arrives \in {"whole", "lost", "cut"}, rotate \in BOOLEAN :
          /\ GrantBy(asked[c].tenant, rotate)
          /\ adrift' = adrift \cup {asked[c].tenant}
          /\ status' = [status EXCEPT ![c] = IF arrives = "whole" THEN 200 ELSE 0]
          /\ records' = IF arrives = "cut" THEN records ELSE GrantOutcome(c, arrives = "whole")
          /\ Goto(c, IF arrives = "cut" THEN "raised" ELSE "done")
     \/ /\ records' = GrantOutcome(c, FALSE)
        /\ Goto(c, "done")
        /\ UNCHANGED <<server, adrift, status>>
  /\ UNCHANGED <<setting, vault, unread, tokens, applied, faults>>

Kill(c) ==
  /\ ~steady /\ pc[c] \notin Over \cup {"idle"}
  /\ Goto(c, "dead") /\ Forget(c)
  /\ adrift' = IF pc[c] \in {"saving", "replacing"} THEN adrift \cup {asked[c].tenant} ELSE adrift
  /\ UNCHANGED <<setting, vault, server, unread, configured, effects, records>>

Step(c) ==
  \/ ReadAccess(c) \/ ReadRefresh(c) \/ ReadCreds(c) \/ Grant(c)
  \/ Load(c) \/ Replace(c) \/ Update(c) \/ SaveFails(c)
  \/ Http(c) \/ HttpCut(c) \/ Emit(c) \/ Exchange(c)

Next == \E c \in Call : Start(c) \/ GrantIntent(c) \/ Step(c) \/ Kill(c)

Spec == Init /\ [][Next]_vars

\* Each step of a call is a request or an access with a timeout of its own.
FairSpec == Spec /\ \A c \in Call : WF_vars(Step(c))

-----------------------------------------------------------------------------
(***************************************************************************)
(* Properties.                                                             *)
(***************************************************************************)

\* Every variable has its type.
TypeOK ==
  /\ backend \in Named \cup {"raises"} /\ alone \in BOOLEAN /\ steady \in BOOLEAN
  /\ vault \in Image
  /\ server \in [Tenant -> Granted]
  /\ adrift \subseteq Tenant /\ unread \in BOOLEAN
  /\ pc \in [Call -> PcValue]
  /\ asked \in Asked
  /\ configured \in [Call -> BOOLEAN] /\ refresh \in [Call -> Nat]
  /\ again \in [Call -> BOOLEAN]
  /\ fresh \in [Call -> Token]
  /\ saving \in [Call -> Service]
  /\ held \in [Call -> Image]
  /\ status \in [Call -> Status]
  /\ records \in [Call -> Seq(Record)]
  /\ applied \in [Call -> Nat] /\ faults \in [Call -> Nat]

\* "Mutations emit one outcome IDR; reads emit none": of a call that returns, the
\* one record says success just if that was the answer, and then Clio has carried
\* the mutation out; if Clio has and the record does not say so, there was a 5xx
\* or no answer.  A grant leaves an intent and its outcome.
TellsTruth(c) ==
  /\ asked[c].logged /\ IsMutation(c) =>
       /\ Len(records[c]) = 1
       /\ (records[c][1] = "success") <=> (status[c] = 200)
       /\ status[c] = 200 => applied[c] > 0
       /\ applied[c] > 0 => status[c] \in {0, 200} \/ faults[c] > 0
  /\ asked[c].logged /\ asked[c].kind = "grant" =>
       records[c] = <<"intent", IF status[c] = 200 THEN "success" ELSE "failure">>
  /\ ~asked[c].logged \/ asked[c].kind = "read" => records[c] = << >>
RecordsTellTruth == \A c \in Call : pc[c] = "done" => TellsTruth(c)

\* A mutation that is sent again after a 5xx may be carried out again, and for no
\* other reason: neither a missing answer nor a refresh repeats it.
AppliedOnce == \A c \in Call : applied[c] <= 1 + faults[c]

\* When calls follow one another and the store works, a tenant's tokens in it are
\* the latest Clio has granted, so that the next refresh is not refused; but for a
\* grant whose tokens the code never had, could not store or passed to its caller.
Saving(t) == \E c \in Call : asked[c].tenant = t /\ pc[c] \in {"saving", "replacing"}
TenantStaysConnected ==
  alone /\ steady =>
    \A t \in Tenant \ adrift : ~Saving(t) =>
      /\ vault.token[t]["access"] \in {0, server[t].access}
      /\ vault.token[t]["refresh"] \in {0, server[t].refresh}

\* Whoever writes, fails or dies while others write, neither the app's credentials
\* nor a tenant's tokens disappear from the store, unless the load of a write has
\* failed.  An older token may come back, and the expiry, which nothing depends
\* on, may go.
SecretsKept ==
  [][~unread' => /\ vault.app => vault'.app
                 /\ \A t \in Tenant, s \in Service \ {"expires"} :
                      vault.token[t][s] # 0 => vault'.token[t][s] # 0]_vars

\* A call that has begun ends: 5xx answers are met with new requests and a 401 with
\* a refresh that may go wrong in many ways, but not for ever.
CallsEnd == []<>(\A c \in Call : pc[c] \in Over \cup {"idle"})

=============================================================================
