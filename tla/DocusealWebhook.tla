-------------------------- MODULE DocusealWebhook --------------------------
(***************************************************************************)
(* append_to_chain of lib/docuseal_webhook.py and its two users: deliveries *)
(* of DocuSeal events (handle_webhook) and signing dispatches of the       *)
(* donna_sign tool.  Both read the tail, sign over it and open the file    *)
(* "a" to append, without a lock; bin/notarise may replace the same file.  *)
(*                                                                         *)
(* A hash covers a record and, through previous_hash, all the records      *)
(* below it.  Here it is the sequence of what those records say.           *)
(***************************************************************************)
EXTENDS Naturals, Sequences, FiniteSets

CONSTANTS
  Delivery,   \* HTTP deliveries of events
  Dispatch,   \* donna_sign calls, and the submissions they create
  Notary,     \* calls of bin/notarise append, and the records they write
  Seed,       \* a bin/notarise record the file may start with
  NoEvent,    \* a body that is not JSON, or an event_type not in the map
  Torn,       \* a block whose closing fence was not written
  Bad         \* a closed block that is not JSON

Caller == Delivery \cup Dispatch
Call == Caller \cup Notary
Notarised == Notary \cup {Seed}

\* A redelivery carries the same content.  A dispatch's own record differs from
\* the event DocuSeal sends for it by its actor and timestamp.
Event == [sub : Dispatch, type : {"created", "completed"}]
OwnContent(c) == [sub |-> c, type |-> "dispatched"]
Content == [sub : Dispatch, type : {"created", "completed", "dispatched"}]

Hash == Seq(Content \cup Notarised)
Genesis == << >>
Foreign == [what : Content, prev : Hash]      \* foreign to bin/notarise
Block == Foreign \cup Notarised \cup {Torn, Bad}

ASSUME CallsDiffer == /\ Delivery \cap (Dispatch \cup Notary) = {}
                      /\ Dispatch \cap Notary = {}
ASSUME BlocksDiffer == /\ Notarised \cap (Foreign \cup {Torn, Bad}) = {}
                       /\ Foreign \cap {Torn, Bad} = {}
                       /\ Seed \notin Notary
                       /\ Torn # Bad
ASSUME NoEventIsNone == NoEvent \notin Event

VARIABLES
  alone,        \* do calls follow one another?
  keyed,        \* the callers that have a signing key
  emitting,     \* the dispatches asked to emit a record
  pc,           \* pc[c]: where call c is
  event,        \* event[d]: the event delivery d was accepted with, or NoEvent
  prev,         \* prev[c]: the previous_hash c signs over
  held,         \* held[n]: the text notarise call n has read
  outcome,      \* outcome[c]: what c's caller is told
  position,     \* position[d]: the chain_position d is answered
  submissions,  \* submissions DocuSeal has
  file          \* the chain file: its ```idr blocks

vars == <<alone, keyed, emitting, pc, event, prev, held, outcome, position,
          submissions, file>>

\* A call that ends is done, has raised an error in writing its record, or is dead.
PcValue == {"idle", "submitting", "reading", "writing", "answering", "replacing",
            "done", "raised", "dead"}
Outcome == {"none", "ok", "signed", "unsigned", "refused", "failed"}

InProgress(c) == pc[c] \notin {"idle", "done", "raised", "dead"}
MayStart(c) == pc[c] = "idle" /\ (alone => \A b \in Call : ~InProgress(b))

Goto(c, where) == pc' = [pc EXCEPT ![c] = where]
Tell(c, what) == Goto(c, "done") /\ outcome' = [outcome EXCEPT ![c] = what]

\* The last block that has a closing fence; 0 if there is none.
LastClosed(f) ==
  LET closed == {k \in DOMAIN f : f[k] # Torn}
  IN IF closed = {} THEN 0
     ELSE CHOOSE k \in closed : \A j \in closed : j <= k

\* json.loads of the last closed block.
TailReadable(f) == LastClosed(f) # 0 => f[LastClosed(f)] # Bad

\* Variant: previous_hash is left out with the signature.
HashOf_ContentOnly(b) == IF b \in Notarised THEN <<b>> ELSE <<b.what>>

\* The record without its signature.  Of a bin/notarise record this is not the
\* hash bin/notarise links to, which leaves "scheme" out as well.
HashOf(b) == IF b \in Notarised THEN <<b>> ELSE Append(b.prev, b.what)

\* Variant: the last record itself.
LastHash_Unhashed(f) == IF LastClosed(f) = 0 THEN Genesis ELSE <<f[LastClosed(f)]>>

LastHash(f) == IF LastClosed(f) = 0 THEN Genesis ELSE HashOf(f[LastClosed(f)])

-----------------------------------------------------------------------------

Init ==
  /\ alone \in BOOLEAN
  /\ keyed \in SUBSET Caller
  /\ emitting \in SUBSET Dispatch
  /\ pc = [c \in Call |-> "idle"]
  /\ event = [d \in Delivery |-> NoEvent]
  /\ prev = [c \in Caller |-> Genesis]
  /\ held = [n \in Notary |-> << >>]
  /\ outcome = [c \in Call |-> "none"]
  /\ position = [d \in Delivery |-> 0]
  /\ submissions = {}
  /\ file \in {<< >>, <<Seed>>, <<Bad>>}

\* parse_event and event_to_idr.  A signature is checked if the header is there;
\* that the event's submission exists is not.
Receive(d) ==
  \E e \in Event \cup {NoEvent},
     header \in {"absent", "right", "wrong"} :
    LET verified == header = "absent" \/ (d \in keyed /\ header = "right")
        accepted == verified /\ e # NoEvent
    IN
      /\ MayStart(d)
      /\ \/ accepted /\ Goto(d, "reading") /\ UNCHANGED outcome
         \/ ~accepted /\ Tell(d, "refused")
      /\ event' = [event EXCEPT ![d] = IF accepted THEN e ELSE NoEvent]
      /\ UNCHANGED <<alone, keyed, emitting, prev, held, position, submissions, file>>

\* adapt_ctx and the template; either may fail.
CreateTemplate(c) ==
  /\ MayStart(c)
  /\ \/ Goto(c, "submitting") /\ UNCHANGED outcome
     \/ Tell(c, "failed")
  /\ UNCHANGED <<alone, keyed, emitting, event, prev, held, position, submissions, file>>

\* create_submission, which may fail with the submission created or not.
CreateSubmission(c) ==
  /\ pc[c] = "submitting"
  /\ \/ /\ submissions' = submissions \cup {c}
        /\ \/ c \in emitting /\ Goto(c, "reading") /\ UNCHANGED outcome
           \/ c \notin emitting /\ Tell(c, "unsigned")
     \/ /\ submissions' \in {submissions, submissions \cup {c}}
        /\ Tell(c, "failed")
  /\ UNCHANGED <<alone, keyed, emitting, event, prev, held, position, file>>

\* An OSError, which EnvironmentError is another name of: a dispatch goes on
\* as if without a record, a delivery fails.
OsAnswer(c) == IF c \in Dispatch THEN "unsigned" ELSE "failed"
OsError(c) == Tell(c, OsAnswer(c))

\* The key and the tail.  The last case is that of no key or no access.
ReadTail(c) ==
  /\ pc[c] = "reading"
  /\ \/ /\ c \in keyed /\ TailReadable(file)
        /\ prev' = [prev EXCEPT ![c] = LastHash(file)]
        /\ Goto(c, "writing")
        /\ UNCHANGED outcome
     \/ /\ c \in keyed /\ ~TailReadable(file)
        /\ Tell(c, "failed")
        /\ UNCHANGED prev
     \/ OsError(c) /\ UNCHANGED prev
  /\ UNCHANGED <<alone, keyed, emitting, event, held, position, submissions, file>>

Says(c) == IF c \in Dispatch THEN OwnContent(c) ELSE event[c]
RecordOf(c) == [what |-> Says(c), prev |-> prev[c]]

WriteBlock(c) ==
  /\ pc[c] = "writing"
  /\ file' = Append(file, RecordOf(c))
  /\ Goto(c, "answering")
  /\ UNCHANGED <<alone, keyed, emitting, event, prev, held, outcome, position, submissions>>

\* Variant: a failed write is not noticed.
WriteFails_Unnoticed(c) ==
  /\ pc[c] = "writing"
  /\ file' \in {file, Append(file, Torn)}
  /\ Goto(c, "answering")
  /\ UNCHANGED <<alone, keyed, emitting, event, prev, held, outcome, position, submissions>>

\* The file cannot be opened, the disk is full, or closing the file fails.  A
\* tear before "```idr" is complete leaves no block, one after the closing fence,
\* or none at all, the whole record.
WriteFails(c) ==
  /\ pc[c] = "writing"
  /\ Goto(c, "raised")
  /\ outcome' = [outcome EXCEPT ![c] = OsAnswer(c)]
  /\ file' \in {file, Append(file, Torn), Append(file, RecordOf(c))}
  /\ UNCHANGED <<alone, keyed, emitting, event, prev, held, position, submissions>>

\* Variant: only blocks that are closed count.
CountBlocks_Closed(d) ==
  /\ pc[d] = "answering"
  /\ position' = [position EXCEPT ![d] = Cardinality({k \in DOMAIN file : file[k] # Torn})]
  /\ Tell(d, "ok")
  /\ UNCHANGED <<alone, keyed, emitting, event, prev, held, submissions, file>>

\* chain_position is the number of "```idr" the file has by now.
CountBlocks(d) ==
  /\ pc[d] = "answering"
  /\ position' = [position EXCEPT ![d] = Len(file)]
  /\ Tell(d, "ok")
  /\ UNCHANGED <<alone, keyed, emitting, event, prev, held, submissions, file>>

\* Variant: the delivery is handled once more.
CountFails_Retried(d) ==
  /\ pc[d] = "answering"
  /\ Goto(d, "reading")
  /\ UNCHANGED <<alone, keyed, emitting, event, prev, held, outcome, position, submissions, file>>

CountFails(d) ==
  /\ pc[d] = "answering"
  /\ OsError(d)
  /\ UNCHANGED <<alone, keyed, emitting, event, prev, held, position, submissions, file>>

\* A dispatch prints its result, which the tool hands on.
PrintResult(c) ==
  /\ pc[c] = "answering"
  /\ Tell(c, "signed")
  /\ UNCHANGED <<alone, keyed, emitting, event, prev, held, position, submissions, file>>

\* What bin/notarise can parse: fields of another record are a ValueError.
NotaryReads(f) == f # << >> /\ \A k \in 1 .. Len(f) : f[k] \in Notarised

\* Variant: blocks that do not parse are skipped.
NotariseRead_Lenient(n) ==
  /\ MayStart(n)
  /\ held' = [held EXCEPT ![n] = file]
  /\ Goto(n, "replacing")
  /\ UNCHANGED <<alone, keyed, emitting, event, prev, outcome, position, submissions, file>>

\* append_to_chain of bin/notarise up to its second read.
NotariseRead(n) ==
  /\ MayStart(n)
  /\ \/ /\ NotaryReads(file)
        /\ held' = [held EXCEPT ![n] = file]
        /\ Goto(n, "replacing")
        /\ UNCHANGED outcome
     \/ /\ ~NotaryReads(file)
        /\ Tell(n, "refused")
        /\ UNCHANGED held
  /\ UNCHANGED <<alone, keyed, emitting, event, prev, position, submissions, file>>

\* os.replace: whatever was appended since the read is gone.
NotariseReplace(n) ==
  /\ pc[n] = "replacing"
  /\ file' = Append(held[n], n)
  /\ Tell(n, "ok")
  /\ UNCHANGED <<alone, keyed, emitting, event, prev, held, position, submissions>>

\* A process dies.  That of a dispatch is killed after 60 seconds, and the tool
\* reports a failure.
Kill(c) ==
  /\ InProgress(c)
  /\ Goto(c, "dead")
  /\ outcome' = [outcome EXCEPT ![c] = IF c \in Dispatch THEN "failed" ELSE "none"]
  /\ UNCHANGED <<alone, keyed, emitting, event, prev, held, position, submissions, file>>

Next ==
  \/ \E d \in Delivery : Receive(d) \/ CountBlocks(d) \/ CountFails(d)
  \/ \E c \in Dispatch : CreateTemplate(c) \/ CreateSubmission(c) \/ PrintResult(c)
  \/ \E c \in Caller : ReadTail(c) \/ WriteBlock(c) \/ WriteFails(c)
  \/ \E n \in Notary : NotariseRead(n) \/ NotariseReplace(n)
  \/ \E c \in Call : Kill(c)

Spec == Init /\ [][Next]_vars

-----------------------------------------------------------------------------
(***************************************************************************)
(* Properties.                                                             *)
(***************************************************************************)

\* Every variable has its type.
TypeOK ==
  /\ alone \in BOOLEAN
  /\ keyed \subseteq Caller
  /\ emitting \subseteq Dispatch
  /\ pc \in [Call -> PcValue]
  /\ event \in [Delivery -> Event \cup {NoEvent}]
  /\ prev \in [Caller -> Hash]
  /\ held \in [Notary -> Seq(Block)]
  /\ outcome \in [Call -> Outcome]
  /\ position \in [Delivery -> Nat]
  /\ submissions \subseteq Dispatch
  /\ file \in Seq(Block)

\* No call of bin/notarise has replaced the file under somebody's feet.
NothingReplaced == alone \/ \A n \in Notary : outcome[n] # "ok"

\* Every record names the whole history of the file as it was at some time
\* before, the torn blocks in it apart; when calls follow one another, the
\* history up to the block below it: nothing forks and nothing is skipped,
\* whatever crashes and short writes have left at the end of the file.
HistoryTo(k) ==
  LET closed == {j \in 1 .. k : file[j] # Torn}
      last == CHOOSE j \in closed : \A i \in closed : i <= j
  IN IF closed = {} THEN Genesis
     ELSE IF file[last] \in Foreign THEN Append(file[last].prev, file[last].what)
     ELSE <<file[last]>>

LinksToItsPast ==
  NothingReplaced =>
    \A k \in 1 .. Len(file) :
      file[k] \in Foreign =>
        \E j \in 0 .. k - 1 : /\ alone => j = k - 1
                              /\ file[k].prev = HistoryTo(j)

\* A caller who is told so has a record on file.  A dispatch that is told anything
\* else, be it "unsigned" or "failed", has none, unless it was killed or the write
\* itself raised: of those two nothing can be told from the answer.  And whoever is
\* told "unsigned" has a submission.
OnFile(c) == \E k \in 1 .. Len(file) : file[k] = RecordOf(c)
Places(e) == {k \in 1 .. Len(file) : file[k] \in Foreign /\ file[k].what = e}
ToldTheTruth ==
  /\ NothingReplaced =>
       \A c \in Caller : outcome[c] \in {"ok", "signed"} => OnFile(c)
  /\ \A c \in Dispatch :
       /\ pc[c] = "done" /\ outcome[c] # "signed" => Places(OwnContent(c)) = {}
       /\ outcome[c] = "unsigned" => c \in submissions

\* The chain_position a delivery is answered is the place of its record when
\* calls follow one another, and no lower than that place in any case.
PositionCovers ==
  NothingReplaced =>
    \A d \in Delivery : outcome[d] = "ok" =>
      \E k \in 1 .. position[d] : /\ k <= Len(file) /\ file[k] = RecordOf(d)
                                  /\ alone => k = position[d]

\* An event is on file at most once for each time it was delivered: nothing is
\* recorded twice within a delivery, a write that raised included, and nothing that
\* was never delivered.  A dispatch's own record is there once at most, and only if
\* its submission was created.
OneRecordPerDelivery ==
  /\ \A e \in Event : Cardinality(Places(e)) <= Cardinality({d \in Delivery : event[d] = e})
  /\ \A c \in Dispatch : /\ Cardinality(Places(OwnContent(c))) <= 1
                          /\ Places(OwnContent(c)) # {} => c \in submissions

\* bin/notarise never grows a file that has something of another kind in it: its
\* records come before all others, however the calls interleave.
NotariseKeepsApart ==
  \A k \in 1 .. Len(file) : file[k] \in Notary =>
    \A j \in 1 .. k : file[j] \in Notarised

=============================================================================
