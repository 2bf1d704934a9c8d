---------------------------- MODULE WidgetChain ----------------------------
(***************************************************************************)
(* Concurrent POST /api/widget-notarise handlers appending to per-session  *)
(* chains kept in Vercel KV: pushEntry, acquireChainLock, releaseChainLock,*)
(* readChain and writeChain of web/lib/widget-storage.js.                  *)
(*                                                                         *)
(* Each KV command is one atomic step; a handler may be interleaved with   *)
(* the others, fail or die between any two of its commands.  The lock key  *)
(* holds the same value for everybody ("1"): the model records who set it, *)
(* but no action may look at that, and the DEL of releaseChainLock removes *)
(* whichever lock it finds.                                                *)
(***************************************************************************)
EXTENDS ChainRules

CONSTANTS
  Session,      \* well-formed session ids
  NoRequest,    \* the lock key does not exist
  SlowHolder,   \* may a transaction outlive its lock's 5 seconds?
  KvMayFail     \* may a KV command return an error, applied or not?

ASSUME NoRequestIsNoRequest == NoRequest \notin Request
ASSUME FlagsAreBoolean == SlowHolder \in BOOLEAN /\ KvMayFail \in BOOLEAN

VARIABLES
  pc,       \* pc[r]: where request r is in its handler
  sess,     \* sess[r]: the body's sessionId
  addr,     \* addr[r]: clientIp(req)
  buf,      \* buf[r]: the chain as r read it; << >> when r has no use for one
  outcome,  \* outcome[r]: how the handler ended, or is about to
  lock,     \* lock[s]: who set widget:chain-lock:<s>, or NoRequest
  stored,   \* stored[s]: the value last SET under widget:chain:<s>
  live,     \* live[s]: that key has not expired
  written   \* history: the entries ever stored for s

chainVars == <<stored, live, written>>
vars == <<pc, sess, addr, buf, outcome, lock, stored, live, written>>

Critical == {"reading", "building", "releasing"}
Ended == {"done", "crashed"}
PcValue == {"idle", "locking", "spinning"} \cup Critical \cup Ended
Outcome == {"none", "ok", "lock_timeout", "sign_failed"}

InCritical(r) == pc[r] \in Critical

\* What GET returns: an expired key reads as an empty chain.
Visible(s) == IF live[s] THEN stored[s] ELSE << >>

-----------------------------------------------------------------------------

Init ==
  /\ pc = [r \in Request |-> "idle"]
  /\ sess \in [Request -> Session]
  /\ addr \in [Request -> Address]
  /\ buf = [r \in Request |-> << >>]
  /\ outcome = [r \in Request |-> "none"]
  /\ lock = [s \in Session |-> NoRequest]
  /\ stored = [s \in Session |-> << >>]
  /\ live = [s \in Session |-> FALSE]
  /\ written = [s \in Session |-> {}]

\* The request passed the handler's checks and calls pushEntry.
Begin(r) ==
  /\ pc[r] = "idle"
  /\ pc' = [pc EXCEPT ![r] = "locking"]
  /\ UNCHANGED <<sess, addr, buf, outcome, lock, stored, live, written>>

\* SET key 1 NX EX 5 answers OK.
AcquireLock(r) ==
  /\ pc[r] \in {"locking", "spinning"}
  /\ lock[sess[r]] = NoRequest
  /\ pc' = [pc EXCEPT ![r] = "reading"]
  /\ lock' = [lock EXCEPT ![sess[r]] = r]
  /\ UNCHANGED <<sess, addr, buf, outcome, stored, live, written>>

\* SET NX answers nil; the handler sleeps 30 ms and will try again.
SpinOnLock(r) ==
  /\ pc[r] = "locking"
  /\ lock[sess[r]] # NoRequest
  /\ pc' = [pc EXCEPT ![r] = "spinning"]
  /\ UNCHANGED <<sess, addr, buf, outcome, lock, stored, live, written>>

\* Variant: pushEntry ignores the FALSE that acquireChainLock returns.
LockTimeout_Proceeds(r) ==
  /\ pc[r] = "spinning"
  /\ pc' = [pc EXCEPT ![r] = "reading"]
  /\ UNCHANGED <<sess, addr, buf, outcome, lock, stored, live, written>>

\* The 5 second deadline passed between two attempts: chain_lock_timeout.
LockTimeout(r) ==
  /\ pc[r] = "spinning"
  /\ pc' = [pc EXCEPT ![r] = "done"]
  /\ outcome' = [outcome EXCEPT ![r] = "lock_timeout"]
  /\ UNCHANGED <<sess, addr, buf, lock, stored, live, written>>

ReadChain(r) ==
  /\ pc[r] = "reading"
  /\ pc' = [pc EXCEPT ![r] = "building"]
  /\ buf' = [buf EXCEPT ![r] = Visible(sess[r])]
  /\ UNCHANGED <<sess, addr, outcome, lock, stored, live, written>>

\* The handler's copy of the chain has been used, or is lost with its process.
Forget(r) == buf' = [buf EXCEPT ![r] = << >>]

\* buildEntry throws, or returns an entry whose hash is malformed.
BuildFails(r) ==
  /\ pc[r] = "building"
  /\ pc' = [pc EXCEPT ![r] = "releasing"]
  /\ outcome' = [outcome EXCEPT ![r] = "sign_failed"]
  /\ Forget(r)
  /\ UNCHANGED <<sess, addr, lock, stored, live, written>>

NewEntry(r) == SignedOn(buf[r], r, addr[r])

\* Variant: the copy that the address's oldest entry was filtered out of is not
\* the one that is written.
StoreChain_Unfiltered(r) ==
  /\ stored' = [stored EXCEPT ![sess[r]] = Append(ShiftToFit(buf[r]), NewEntry(r))]
  /\ live' = [live EXCEPT ![sess[r]] = TRUE]
  /\ written' = [written EXCEPT ![sess[r]] = @ \cup {NewEntry(r)}]

\* SET chain EX 24h takes effect: the whole chain is replaced by the one r
\* computed from its own reading of it, and the TTL starts over.
StoreChain(r) ==
  /\ stored' = [stored EXCEPT ![sess[r]] = PushOnto(buf[r], NewEntry(r))]
  /\ live' = [live EXCEPT ![sess[r]] = TRUE]
  /\ written' = [written EXCEPT ![sess[r]] = @ \cup {NewEntry(r)}]

WriteChain(r) ==
  /\ pc[r] = "building"
  /\ pc' = [pc EXCEPT ![r] = "releasing"]
  /\ outcome' = [outcome EXCEPT ![r] = "ok"]
  /\ StoreChain(r)
  /\ Forget(r)
  /\ UNCHANGED <<sess, addr, lock>>

\* Variant: a handler waits until the lock is its own before it deletes it.
ReleaseLock_OwnerOnly(r) ==
  /\ pc[r] = "releasing"
  /\ lock[sess[r]] = r
  /\ pc' = [pc EXCEPT ![r] = "done"]
  /\ lock' = [lock EXCEPT ![sess[r]] = NoRequest]
  /\ UNCHANGED <<sess, addr, buf, outcome, stored, live, written>>

\* finally: DEL, whoever holds the lock by now.
ReleaseLock(r) ==
  /\ pc[r] = "releasing"
  /\ pc' = [pc EXCEPT ![r] = "done"]
  /\ lock' = [lock EXCEPT ![sess[r]] = NoRequest]
  /\ UNCHANGED <<sess, addr, buf, outcome, stored, live, written>>

-----------------------------------------------------------------------------
(***************************************************************************)
(* KV errors.  kvCall throws when the reply is an error or does not arrive;*)
(* the command may have been applied all the same.                         *)
(***************************************************************************)

\* SET NX throws: acquireChainLock is outside the try, so nothing releases the
\* lock if the command was applied.
AcquireErrors(r) ==
  /\ KvMayFail
  /\ pc[r] \in {"locking", "spinning"}
  /\ pc' = [pc EXCEPT ![r] = "done"]
  /\ outcome' = [outcome EXCEPT ![r] = "sign_failed"]
  /\ \/ lock' = lock
     \/ /\ lock[sess[r]] = NoRequest
        /\ lock' = [lock EXCEPT ![sess[r]] = r]
  /\ UNCHANGED <<sess, addr, buf, stored, live, written>>

ReadErrors(r) ==
  /\ KvMayFail
  /\ pc[r] = "reading"
  /\ pc' = [pc EXCEPT ![r] = "releasing"]
  /\ outcome' = [outcome EXCEPT ![r] = "sign_failed"]
  /\ UNCHANGED <<sess, addr, buf, lock, stored, live, written>>

WriteErrors(r) ==
  /\ KvMayFail
  /\ pc[r] = "building"
  /\ pc' = [pc EXCEPT ![r] = "releasing"]
  /\ outcome' = [outcome EXCEPT ![r] = "sign_failed"]
  /\ StoreChain(r) \/ UNCHANGED chainVars
  /\ Forget(r)
  /\ UNCHANGED <<sess, addr, lock>>

\* The DEL in finally throws: its error replaces whatever the try returned.
ReleaseErrors(r) ==
  /\ KvMayFail
  /\ pc[r] = "releasing"
  /\ pc' = [pc EXCEPT ![r] = "done"]
  /\ outcome' = [outcome EXCEPT ![r] = "sign_failed"]
  /\ lock' = lock \/ lock' = [lock EXCEPT ![sess[r]] = NoRequest]
  /\ UNCHANGED <<sess, addr, buf, stored, live, written>>

\* The function instance dies, or the platform ends it.
Crash(r) ==
  /\ pc[r] \notin {"idle"} \cup Ended
  /\ pc' = [pc EXCEPT ![r] = "crashed"]
  /\ outcome' = [outcome EXCEPT ![r] = "none"]
  /\ Forget(r)
  /\ UNCHANGED <<sess, addr, lock, stored, live, written>>

-----------------------------------------------------------------------------
(***************************************************************************)
(* Time.  Keys expire on the server whatever the handlers are doing.  With *)
(* SlowHolder FALSE, every transaction that is still running is younger    *)
(* than its lock: only an orphaned lock runs out.                          *)
(***************************************************************************)

LockExpires(s) ==
  /\ lock[s] # NoRequest
  /\ SlowHolder \/ ~InCritical(lock[s])
  /\ lock' = [lock EXCEPT ![s] = NoRequest]
  /\ UNCHANGED <<pc, sess, addr, buf, outcome, stored, live, written>>

\* The chain key's TTL may even run out between a transaction's GET and SET.
ChainExpires(s) ==
  /\ live[s]
  /\ live' = [live EXCEPT ![s] = FALSE]
  /\ UNCHANGED <<pc, sess, addr, buf, outcome, lock, stored, written>>

-----------------------------------------------------------------------------

\* What the code itself does next for a request.
Handle(r) ==
  \/ AcquireLock(r) \/ SpinOnLock(r) \/ LockTimeout(r)
  \/ ReadChain(r) \/ BuildFails(r) \/ WriteChain(r) \/ ReleaseLock(r)

Fault(r) ==
  \/ AcquireErrors(r) \/ ReadErrors(r) \/ WriteErrors(r) \/ ReleaseErrors(r)
  \/ Crash(r)

Next ==
  \/ \E r \in Request : Begin(r) \/ Handle(r) \/ Fault(r)
  \/ \E s \in Session : LockExpires(s) \/ ChainExpires(s)

Spec == Init /\ [][Next]_vars

\* A handler that is neither killed nor failed by the store runs on.  Nothing
\* obliges a request to begin, a fault to strike, a chain to be abandoned, or a
\* lock to expire in time to help anybody.
FairSpec ==
  /\ Spec
  /\ \A r \in Request : WF_vars(Handle(r))

-----------------------------------------------------------------------------
(***************************************************************************)
(* Properties.                                                             *)
(***************************************************************************)

\* Every variable has its type, and no chain in the store or in a handler's
\* hands is longer than MAX_CHAIN_LEN (pushEntry's shift loop).
Chain == {c \in Seq(Entry) : Len(c) <= MaxChainLen}
TypeOK ==
  /\ pc \in [Request -> PcValue]
  /\ sess \in [Request -> Session]
  /\ addr \in [Request -> Address]
  /\ buf \in [Request -> Chain]
  /\ outcome \in [Request -> Outcome]
  /\ lock \in [Session -> Request \cup {NoRequest}]
  /\ stored \in [Session -> Chain]
  /\ live \in [Session -> BOOLEAN]
  /\ written \in [Session -> SUBSET Entry]

\* The locked read-modify-write of pushEntry behaves as one atomic append.
Log == INSTANCE SessionLog
ImplementsSessionLog == Log!Spec

\* The session's entries never fork: two entries stored for it never name the
\* same predecessor, whatever was evicted, failed, crashed or expired between
\* them (a chain that expired starts again from GENESIS).
NoFork == \A s \in Session : Unforked(written[s])

\* At most one handler per session is between its GET and its DEL: the lock of
\* acquireChainLock serialises the read-modify-write.
MutualExclusion ==
  \A q, r \in Request :
    InCritical(q) /\ InCritical(r) /\ sess[q] = sess[r] => q = r

\* "the per-IP cap admits a 6th entry under any input shape": no address has
\* more than MAX_PER_IP_IN_CHAIN entries in a stored chain.
PerIpCap ==
  \A s \in Session, i \in Ip :
    Cardinality(PositionsOf(stored[s], i)) <= MaxPerIpInChain

\* As long as neither cap can have bitten, the session's own chain passes
\* widget-verify, after any interleaving of writers, failures and expiries.
CapsUntouched(s) ==
  /\ Cardinality(written[s]) <= MaxChainLen
  /\ \A i \in Ip : Cardinality({e \in written[s] : e.ip = i}) <= MaxPerIpInChain
UncappedChainVerifies ==
  \A s \in Session : CapsUntouched(s) => SessionVerifies(Visible(s))

\* Entry m is no longer at place k - 1 of a chain drawn from W because of a cap:
\* its address has had more entries than its share, or m was shifted off the
\* front of a log longer than a chain.
GoneByACap(m, k, W) ==
  \/ k = 1 /\ Cardinality(W) > MaxChainLen
  \/ m.ip \in Ip /\ Cardinality({e \in W : e.ip = m.ip}) > MaxPerIpInChain

\* Wherever the walk of widget-verify breaks over a stored chain, what is
\* missing there is an entry that was stored for the session and that one of
\* the two caps evicted: failures, crashes, expiries and lost updates never
\* leave a link to an entry that was not stored, or to one still in the chain.
Explained(c, W, k) ==
  \/ LinksUp(c, k)
  \/ \E m \in W : /\ m.hash = c[k].prev
                 /\ m.hash \notin Hashes(c)
                 /\ GoneByACap(m, k, W)
BreaksAreEvictions ==
  \A s \in Session :
    \A k \in 1 .. Len(stored[s]) : Explained(stored[s], written[s], k)

\* A chain that is visible only ever changes by an eviction rule: a write keeps
\* every entry of the chain it replaces, but for the writing address's oldest
\* and the overall oldest.
Evictable(c, i) ==
  {k \in 1 .. Len(c) : \/ /\ Len(c) >= MaxChainLen
                          /\ k = 1
                       \/ /\ i # NoIp
                          /\ Cardinality(PositionsOf(c, i)) >= MaxPerIpInChain
                          /\ k = Min(PositionsOf(c, i))}
KeepsAllButEvicted(c, d) ==
  \E e \in {d[Len(d)]} :
    Hashes(c) \ Hashes(d) \subseteq {c[k].hash : k \in Evictable(c, e.ip)}
OnlyEvictionDrops ==
  [][\A s \in Session :
       live[s] /\ stored'[s] # stored[s]
         => KeepsAllButEvicted(stored[s], stored'[s])]_vars

\* A request that reached pushEntry is answered or its instance dies: nobody
\* waits for the lock for ever.
Answered == \A r \in Request : pc[r] = "locking" ~> pc[r] \in Ended

=============================================================================
