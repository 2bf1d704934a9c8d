# DONNA: a TLA+ model of its audit chains

DONNA keeps chains of signed decision records (IDRs): each record carries the
hash of the one before it.  Several programs of the repository extend such
chains, most of them by reading a tail, signing over it and writing the result
back, and several of them do so concurrently.  This directory models those
programs, model-checks them with TLC and proves the central results with TLAPS.

## 1. The system

| Component | State it keeps | Operations | Hard part |
|---|---|---|---|
| Widget session chains: `web/lib/widget-storage.js`, `web/api/widget-{notarise,verify,chain}.js` | per session, in Vercel KV: a chain key (24 h TTL) and a lock key (5 s TTL) | `pushEntry` (lock, read, build, evict, write, release), `readChain`, `listChain`, default mode of widget-verify | serverless handlers interleave at every KV command; locks and chains expire; a command may fail, applied or not; handlers die |
| Widget rate limit and checks: the same files | per address, in KV: a counter with a 1 h TTL | `checkRateLimit`, the handler's ordered checks | INCR and EXPIRE are two commands |
| `bin/notarise append` | a chain file, `<chain>.tmp` | `append_to_chain` | crashes, short writes, broken chains, two processes at once |
| probat-extend: `scripts/probat_extend.py`, `.github/workflows/probat-extend.yml` | PROBAT.md on every commit of main, the `probat/extend` branch, a queue of one waiting run | catch-up pass, direct push with three attempts, proposal branch | main moves under a run; pushes are declined, fail or are lost; runs are lost, replaced, cancelled |
| DocuSeal webhook: `lib/docuseal_webhook.py`, `donna-skill/handlers/sign.py`, `mcp-servers/donna/src/tools/sign.ts` | the same chain file; submissions at DocuSeal | parse, convert, append; template, submission, record | no lock, no verification, another record format, redelivery, retries |
| Clio integration: `client/donna/integrations/` | access token, refresh token, expiry in the secret store | `call`, `refresh_access_token`, `grant_oauth_tokens`, `vincent_call` | concurrent refreshes, partial writes, retried mutations, one record per mutation |
| Secret stores: `client/donna/secrets.py` | environment, memory, keychain, encrypted file | `read`, `write`, `select_store` | one lock per instance, failed loads, a store that cannot be written |
| PII shield, router, extractor: `client/donna/{pii_shield,router,extractor}.py` | placeholder registry of a process | `anonymize`, `deanonymize`, `handle`, `clarify` | one registry across utterances, a detector that must fail closed |
| Voice pipeline: `client/main.py`, `client/donna/{audio,vad,transcriber,voice_pipeline,speaker,store,webhook}.py` | recorder, stored entries | record, segment, transcribe, store, confirm, show, post | one step of several fails, and most exceptions end the process |
| Workflow hand-offs, policy, access: `client/donna/{workflow,policy,access,mcp_gov}.py` | in-memory chain, grants, rules | `handoff`, `chain`, `verify`, `evaluate`, `check` | dictionaries shared with callers, rule order, repeated grants |
| GRASP bridge: `client/donna/grasp_provenance.py` | the GRASP ledger | read, link, append, fail open | processes that record at the same time |
| Document upload: `lib/docuseal_file_adapter.py`, `lib/docuseal.py`, `donna-skill/handlers/sign.py` | a temporary directory; templates and submissions at DocuSeal | detect, convert, create template, create submission, clean up | a failure or kill between any two; what the converters lose |
| OAuth state, IDR libraries, stateless endpoints, MCP servers, demo | none | one request, one signature | none a model checker reaches |

The components meet in these places.  The widget handler passes its checks and
its rate limit and then calls `pushEntry`.  The probat-extend job calls
`append_to_chain` once per pending commit, one job at a time.  The DocuSeal
webhook appends to the file `bin/notarise` reads, and a signing dispatch does so
after its document was uploaded.  Calls of Clio share a secret store, of which
every access makes a new instance.  The client's main loop runs recorder,
detector, shield, model, store, speaker and webhook in turn.  Every process of
the client appends to one GRASP ledger.

What makes each component correct: a chain never forks and never loses an
accepted record; what the caller is told is what happened; limits hold under
every interleaving; nothing waits for ever; a crash leaves something the next
call can work with; a name the shield has found does not leave the machine.
`PROJECT.json` lists the hazards one by one, at the lines where they bite, with
the properties that watch them.

## 2. Modules

| Module | What it models | Status |
|---|---|---|
| `ChainRules` | data and pure rules of a widget chain: tip, caps, eviction, the verifier's walk | done |
| `SessionLog` | abstract: one-step append to a session's log | done |
| `WidgetChain`, `MCWidgetChain` | concurrent `pushEntry` over KV | done |
| `WidgetChain_proofs` | theorems about `WidgetChain`, lemmas about `ChainRules` | done |
| `WidgetRate`, `MCWidgetRate` | the handler's checks and `checkRateLimit` | done |
| `WidgetRate_proofs` | theorems about `WidgetRate` | done |
| `ProbatRules` | data of a chain file: parsing, links, what append accepts | done |
| `ChainFile` | abstract: one-step append to a chain file | done |
| `NotariseAppend`, `MCNotariseAppend` | `append_to_chain` on names and inodes | done |
| `NotariseAppend_proofs` | theorems about `NotariseAppend` | done |
| `ProbatExtend`, `MCProbatExtend` | the catch-up script and its workflow | done |
| `ProbatExtend_proofs` | theorems about `ProbatExtend` | done |
| `DocusealWebhook`, `MCDocusealWebhook` | webhook appends, signing dispatches and a `bin/notarise` append on one file | done |
| `Docuseal_proofs` | theorems about `DocusealWebhook` and `DocumentUpload` | done |
| `SecretStore` | images of a secret store, `select_store` | done |
| `ClioCall`, `MCClioCall` | calls of Clio: load, request, refresh, save, retry, record | done |
| `ClioCall_proofs` | theorems about `ClioCall` | done |
| `PiiSession` | the shield: registry, both layers, substitution and its inverse | done |
| `VoicePipeline`, `MCVoicePipeline` | the client's main loop, typed and spoken | done |
| `VoicePipeline_proofs` | theorems about `VoicePipeline` | done |
| `Decisions` | `evaluate` and `check` as functions | done |
| `Governance`, `MCGovernance` | hand-off chains, shared dictionaries, tampering, the ledger | done |
| `Governance_proofs` | theorems about `Governance` | done |
| `DocumentUpload`, `MCDocumentUpload` | file adapter, template, submission, clean-up | done |

Composition: `WidgetRate`'s `Push` is the whole of `WidgetChain`'s handler;
`WidgetChain` implements `SessionLog`; `NotariseAppend` implements `ChainFile`
when calls do not overlap, which the workflow's concurrency group gives
`ProbatExtend`, whose `AppendRecord` is one such append.  `ClioCall` extends
`SecretStore`, `VoicePipeline` extends `PiiSession` and `Governance` extends
`Decisions`.  `DocumentUpload` is the inside of `CreateTemplate` and
`CreateSubmission` of `DocusealWebhook`'s dispatch: it has `_dispatch_to_docuseal`
up to the submission in detail, `DocusealWebhook` what becomes of the record
after it.  It uses names of its own (`MakeTemplate`, `UploadSpec`), so that one
module of proofs can extend both.

### WidgetChain

A request's `pc` follows `pushEntry`: `idle`, `locking`/`spinning`
(`acquireChainLock`), `reading` (`readChain`), `building` (the `buildEntry`
callback, the caps and `writeChain`), `releasing` (the `finally`), `done`.
`stored` and `live` are the chain key and whether it has expired; `lock` is the
lock key.  The real key holds `"1"` for everybody; the model records who set it
so that properties can speak of owners, and no action of the handlers looks at
it, except that `LockExpires` uses it to tell an orphaned lock from one in use.
`written` is history.  An entry is its hash, its `previous_hash` and its
address; a request signs at most one entry, so the request is the hash.

Every KV command is a step.  `AcquireErrors`, `ReadErrors`, `WriteErrors` and
`ReleaseErrors` are `kvCall` throwing, with the command applied or not; `Crash`
is the instance dying anywhere.  `SlowHolder` says whether a transaction may
still be running when its 5 second lock expires.

The in-process fallback store (no KV configured) has no failures and no second
process and is not modelled.  A command abandoned by its caller that reaches
the store later is not modelled either; `SlowHolder` comes close to it.

### WidgetRate

`count` and `expires` are the value of `widget:rate:<ip>` and whether it has a
TTL; `admitted` is history, reset with the key.  `sort` abstracts a request to
the first check it would fail, before or after the limit.  Body checks (shape, session, intent, blocklist,
PII, signing key) are one step: they read nothing that changes.

### NotariseAppend

`chain` and `tmp` bind the two names to inodes, `data` holds contents as
sequences of blocks; `fd` is the inode a call has open, which it goes on
writing to whatever happens to the name.  Opening truncates; writing overlays;
`WriteFails` leaves any proper prefix, torn inside a block or not.  `Malformed`
stands for a block on which `parse_probat_text` raises.  Headings and
appendices are left out: no property is about them.  `alone`, chosen once,
says whether the callers run one append at a time, as the workflow's
concurrency group and a careful operator do.

### ProbatExtend

A commit of `main` is its subject and the chain it carries; a chain is the
sequence of commits its records name.  `waiting` is the one run the concurrency
group keeps.  A run checks out the commit that triggered it (or an older one,
when started over), appends, lands, pushes; a raced or failed push resets to
main and recomputes; after `MaxAttempts` or a declined push it force-pushes the
proposal branch.  Whether a fast-forward push is accepted or declined may
change at any time.  GitHub and git are external: a merge of the proposal is
refused if the chain on main has changed since the branch left it, and the run
a bot commit triggers may or may not cancel the one that waits.  Which name a
merged commit gets is of no consequence, so `MergeWork` takes the next.  `lost`
is history: the latest job's runner was lost.  Histories are not rewritten in
the model.

### DocusealWebhook

A delivery's `pc` follows `handle_webhook`: `Receive` (`parse_event` and
`event_to_idr`, nothing of which touches the file), `ReadTail` (key and
`_last_chain_hash`), `WriteBlock` or `WriteFails` (`open("a")`), `CountBlocks`.
A dispatch, a call of the `donna_sign` tool, creates a template and a
submission, then goes through the same two middle steps and prints.  `OsError`
is where they differ: `_emit_idr` swallows it, a delivery fails of it
(`OsAnswer`).  `WriteFails` leaves the file as it was, or with a torn block, or
with the whole record, if what is missing of it is after its closing fence or
only closing the file went wrong: the caller then is at `raised`, of whose answer
nothing follows.  `Kill` is a process dying, for a dispatch also the tool's 60
second limit.

The file is a sequence of blocks: records of this module (`Foreign`), records of
bin/notarise, `Torn` for a block that was opened and not closed, which readers
here skip and bin/notarise refuses, and `Bad` for a closed block that is no
JSON.  A hash is the sequence of what the records up to there say, so that equal
hashes mean equal histories.  A call of bin/notarise is its read and its
`os.replace`; `NotariseAppend` has the steps in between.  A handler's open and
its write are one step: a replacement between the two loses the block, as one
right after does.  The server that calls
`handle_webhook`, and who retries a delivery or a dispatch, is outside the
repository: deliveries come at any time, in any order and any number, and
nothing checks that their submission exists.  A delivery without a signature
header is accepted as the code accepts it.

### SecretStore and ClioCall

A token is the number of the grant it came from, so that older and newer are
comparable; 0 is none.  A call's `pc` follows `call`: `access` and `refresh`
(`load_config`, secret by secret, and again after a 401), `http`
(`_http_with_retry`: again after a 5xx while the window lasts), `creds` and
`grant` (`refresh_access_token`), `saving` and `replacing`
(`_stash_refreshed_tokens`, one secret at a time; the file store's load and its
replacement are two steps, as its lock belongs to one instance), `emit`.  The
verbs of `clio_domain.py` are calls of kind `read` and `mutate`; `vincent`
records even what fits a GET and does not refresh; `grant` is
`grant_oauth_tokens`, which records an intent and an outcome and hands the
tokens to its caller.  Clio is external: it takes the latest refresh token and
the one before, and rotates or does not.  An answer arrives, is lost, or breaks
off.  `steady` says that neither store nor process fails, `alone` that calls
follow one another; both are chosen once.  `adrift` is history: the tenants of
whom a grant never reached the store.

### PiiSession and VoicePipeline

A text is the set of entities it names; what an entity is, and which the first
layer's patterns match, is data (`Regex`).  Entities do not overlap.  The order
in which new entities are numbered is that of a Python set, so any.  `Radix` is
the base of the decimal numbers in placeholders, smaller in the runs so that
two-digit numbers occur.  `Leading` is what a regular expression made of
unsorted alternatives does at a longer number: the shorter one wins.

`pc` follows the main loop: a typed line goes to `scan`, a recording through
`recording`, `vad` (one `Frame` a step), `transcribe`; then `scan` (the shield,
and the request), `chat` (the answer), `clarify` or `store`, `confirm` (aloud),
`show`, `post`.  Whatever `main.py` does not catch goes to `dead`; `Kill` is the
operating system.  `Launch` is the next process over the same stores.  The
summary at the end of a voice session changes nothing and is left out.

### Decisions and Governance

`Sorted` is Python's stable sort, reversed: the one arrangement of the rules in
their order (`InOrder`).  `Evaluate` gives the number of the rule that decides.
What a rule's comparison matches is data, and so is what it raises on: `_match`
catches `TypeError` and `ValueError`, but a pattern that is none (`re.error`) or a
number too large leaves `evaluate`, and the tool answers an error (`Raised`).  Grants replace what an actor had in a
tenant, permissions are a dictionary: the last one counts.  Queries are the tools'
arguments once parsed, lists of any length (`QueriesAreTyped`).

`chain[p]` holds records whose dictionary is a reference: `heap` holds its
contents, which whoever else holds the reference may change (`Mutate`);
`given[p]` is history, what was handed off as it was then.  A hash is the
sequence of the contents it covers, so that equal hashes mean equal histories.
`Tamper` replaces any field of a record, its hash included, by a value that is not
worked out anew, and cuts off the end; in a chain whose hashes are all in place it
also takes out a record or exchanges two.  It does not put in a hash that fits the
changed record: whoever does that can replace an unsigned chain.  `MaxTampered`
bounds how many records differ from what was handed off; the theorem has it any
number.  `given[p]` is touched only by a hand-off, which goes on after whatever is
in the chain by then.  Recording to the ledger is two steps, `Read` and
`Write`, each of which may fail and nobody notices.

### DocumentUpload

A file is what its first bytes tell, its extension and its lines.  `Html` reads
Markdown line by line like `_minimal_md_to_html`, with a part of the result
naming the lines it is made of; `Pages` breaks a text into pages with the
code's own numbers.  A call goes from `Start` over `Adapt`, `MakeTemplate`
and `MakeSubmission` to `Leave`, the `finally` of `adapt_ctx`; `TimeOut` is the
caller killing it after 60 seconds, anywhere.  `removable` is whether the file
system lets the directory go: `rmtree(ignore_errors=True)` says nothing if not.
DocuSeal may have done what it
has not answered.  Markup inside a line is left out.  `TextHasALine` is what
`split` and `wrap` give: no plain text is without a line, so each page has one.

## 3. Runs

| Run | Question | Bounds |
|---|---|---|
| `widget_serial` | are concurrent pushes the one-step appends of `SessionLog`, without forks or losses, with all faults, when transactions outlast no lock, and is every broken link one a cap has broken? | 4 requests, 1 session, 2 addresses and none, chain cap 3, address cap 2 |
| `widget_live` | when locks may lapse: is everybody answered, does the address cap hold? | 2 requests, 2 sessions, `FairSpec` |
| `widget_lock_lapse` | violation, see section 5 | 2 requests |
| `rate` | does the quota hold around windows and faults, and come back? | 3 requests, 1 address and none, quota 2, `FairSpec` |
| `append` | is an append one step or none, is the caller told which, is a good record ever refused for what an earlier call left behind? | 3 appends, alone and overlapping, five kinds of first file |
| `webhook` | do records link to the file's past, are callers told what is on file, how often is an event recorded, what does bin/notarise do to such a file? | 2 deliveries, 1 dispatch, 1 append of bin/notarise, three kinds of first file, alone and overlapping |
| `extend` | is every chain a gapless, duplicate-free stretch of main, is no record taken back, does every surviving run land what it saw? | 3 merges, 2 attempts, `FairSpec` |
| `clio` | do records tell the truth, is a mutation repeated for no reason but a 5xx, do tokens stay in the store and stay the latest, does every call end? | 2 calls, 2 tenants, 4 pairs of tasks, one 5xx for each window of retries, every store; store failures only when calls follow one another; `FairSpec` |
| `voice` | does the shield hold, are names put back, is every voiced frame kept, does what the user is told agree with store and webhook? | 2 turns, 4 entities, 4 frames, numbers of two digits from the third on |
| `clarify_raw` | violation, see section 5 | 1 turn |
| `governance` | does a workflow verify just when it says what was handed off, how does the ledger hang together, are decisions those of the rules? | 1 server and 1 other process, 3 hand-offs, 1 record tampered with at a time, 2 dictionaries, 3 ledger records; every list of up to 3 rules and of up to 2 grants and 2 permissions |
| `upload` | is what DocuSeal makes a template of the document, what is left behind? | 2 calls, directories that can be removed or not, every content under every extension, Markdown of up to 4 lines, texts of 1, 44, 45 and 46 lines |

Why the bounds suffice.  Two handlers are enough for every race of a
read-modify-write and a third for one that meets the leftovers of both; four
requests on caps of 3 and 2 reach both caps, evict at the front and in the
middle, and go on afterwards.  The code's caps are 100 and 5; nothing in it
depends on their values beyond their being positive, and the theorems hold for
all of them.  Sessions share no key of the store; `widget_live` has two to show it.  The counters of two addresses share nothing
at all, so one is enough.  In ProbatExtend two attempts with three merges let a
run be raced out of all its attempts; the workflow has three.  `RecordsKept` and
`OneRecordPerCommit` quantify over all commits of main, so the whole history is
checked in each state.

Two calls of Clio meet in every step of a refresh; faults of the store are only
explored when calls follow one another: together with a failing store the token
tokens need not be the latest (`TenantStaysConnected` assumes `steady`), and what
else the run checks is proved for that case as well.  `MaxFaults` bounds the 5xx
answers within one `_http_with_retry`; the one after a refresh has as many again
(`Window`).  Two
turns show what a session carries over, within a process and to the next.  Four
frames open, close and leave open a segment.  Two dictionaries and three
hand-offs let a record be removed or exchanged in front of another and a
dictionary be shared by two; three rules are enough for two ties and a winner.
A page has 44 lines, hence the lengths of the texts; four lines of Markdown
open and close every block within every other.

Deadlock is not checked where a finite set of requests, appends or merges is
used up and the system then rightly stops.

Fairness.  `WF(Handle(r))`: a handler that is neither killed nor failed goes on;
its wait for the lock is bounded by a deadline in its own loop, so weak fairness
of the handler, not of the lock, is what `Answered` needs.  `WF(WindowEnds(i))`:
the store expires a counter that has a TTL.  `WF(Job)`: the
platform starts a queued run and the job's shell goes on.  Nothing obliges a
request, a fault, a merge or an expiry of a chain to happen.  `WF(Step(c))` in
`ClioCall`: each step is one request or one access of the store, both with a
timeout of their own; `CallsEnd` says that there are finitely many of them.
The voice, governance and upload runs state no liveness: they wait for the user,
for a model or for converters without a deadline, or have nothing to wait for.

Each property of a passing run has a variant of some definition (an operator next to
the original, named after it) under which the run finds it violated;
`PROJECT.json` lists them under "mutants".

## 4. Proofs

TLAPS checks the following for every value of the constants.

WidgetChain, for any sets of requests, sessions and addresses and any positive
caps:

- `TypeCorrect`: the type invariant, which includes that no chain ever exceeds
  MAX_CHAIN_LEN.  It rests on `DropOldestType`, `ShiftToFitType`, `PushOntoType`
  and `SignedOnType`, lemmas about the rules of `ChainRules`.
- `LockExcludes`, assuming `SlowHolder = FALSE`: mutual exclusion.  The
  inductive invariant `SerialInv` is stronger: a request in its critical section
  *holds the lock of its session* (`LockHeld`); a request that has not written
  yet has no entry in any log (`NotYetStored`); and a request that has read the
  chain has in its buffer what the abstract log allows an append to extend, the
  stored chain, or nothing if that has expired (`BufferCurrent`).  Mutual
  exclusion alone is not inductive: the unconditional DEL would free somebody
  else's lock if the one who deletes did not hold it.
- `RefinesSessionLog`: from `SerialInv`, every step is an `AppendEntry`, an
  `Expire` or a stutter of `SessionLog`.
- `ChainNeverForks`: no two entries ever stored for a session name the same
  predecessor, GENESIS apart, though entries may be evicted and chains expire in
  between.  Its invariant relates the stored chain to the history: only the tip
  of the stored chain can be without a successor (`History`,
  `ExtendKeepsHistory`).
- `OnlyCapsBreakLinks`: an entry of the stored chain that does not link to the one
  before it names one that a cap has evicted, also when transactions outlive their
  locks.
- `OnlyEvictions`: from `SerialInv`, whoever writes replaces the very chain it
  read, and `PushDropsOnlyEvicted` says what a push leaves out.
- `CapHolds` and `UncappedVerifies`, for transactions of any length.  Their
  invariant `CopiesInv` speaks of every *copy* of a chain, stored or in some
  handler's hands: each is `Capped`, and `Drawn` from what was ever written for
  the session, that is, its entries are distinct and were written, and it
  verifies if so few were written that no cap can have bitten.  Handlers that overlap then do no
  harm, as each pushes onto a copy that is good by itself: a lapsed lock loses
  entries, it breaks no chain.  For `OnlyCapsBreakLinks` each copy is also
  `Accounted`: every break in it is `Explained` by an entry the caps have evicted,
  and stays so however much is written later (`MoreAccounted`).

`SlowHolder = FALSE`, which `LockExcludes`, `RefinesSessionLog`, `ChainNeverForks`
and `OnlyEvictions` need, is the assumption that a transaction ends within the
lock's 5 seconds.  Without it those results are false, as `widget_lock_lapse` shows.

WidgetRate, for any requests, addresses and positive quota, faults included:
`TypeCorrect` and `QuotaHolds`.  Neither invariant is inductive.  `QuotaInv`
adds that at most one request at a time is about to give a counter its hour
(`OneCreator`), that until it does the counter cannot go away and still holds a
unit of the quota for it (`CreatorCounted`), and that whoever passed was counted
(`AdmittedCounted`).

NotariseAppend, for any number of calls on any of the first files:
`TypeCorrect`, overlapping calls included; and when calls do not overlap
(`alone`) `RefinesChainFile`, `CallersToldTheTruth` and `NoIdleRefusal`.  The
invariant behind them, `FullInv`, says that what a call is about to write has
been verified as a whole (`VerifiedText`), that the chain and the temporary file
are never the same inode (`NamesApart`), and that the call under way signed over
the tail as it still is, holds the chain as it still is plus its own record, and
has nothing in the temporary file but what it wrote there (`ViewCurrent`): that
is where truncation at open is needed, as a crash may have left anything under
that name.  `AcceptablePrefix` and `AcceptableExtended` are the lemmas about
verify_chain the step to ChainFile rests on.

ProbatExtend, for any set of commits and any number of attempts: `OneRecord`,
`NothingTakenBack` and `RecomputeIsFull`.  The invariant `ExtendInv` says of
main's history that the subjects to record differ, that each commit carries a
stretch (`PieceOf`) of the line of work up to itself, and that no commit takes
back a record (`HistoryInv`); of the job, wherever its checkout is, that its file
extends the chain there and is, together with what it has still to append,
*the whole rest of the line up to that place* (`RestOf`); and of the branch that
what it proposes extends the chain it is based on.  The properties alone are not
inductive: a file that is only a stretch of the line says nothing of what a
push at the tip would leave out.  `PendingIsRest` is what a checkout establishes,
`CommitMade` what a new commit needs, `SameRest` why a reset forgets nothing:
two rests of a line of different commits that begin alike are one.  They rest on
`Notarisable` growing by its last subject (`NotarisableStep`): it is a recursive
function, which is shown to exist (`UpToExists`) and to be determined
(`UpToAgrees`); inductions are arguments about a least counterexample.

DocusealWebhook, for any number of deliveries, dispatches and notarise calls:
`TypeCorrect`, `RecordsLinkToThePast`, `RecordedOnce`, `CallersToldTheTruth`,
`PositionsCover` and `NotaryStaysApart`.  The `...Does` lemmas say what each action does to its
caller; everything else is derived from them.  `TypeInv` adds that whoever
writes has an event (`HasEvent`), that bin/notarise holds nothing but records of
its own (`HeldNotarised`) and that the file has a last closed block (`HasLast`):
that a finite set of places has a greatest one would take an induction, so the
invariant carries it.  `OrderInv` says what "one at a time" gives: one call in
progress, and what bin/notarise holds is what is on file.  On it rest `TruthInv`
(whoever has written is on file; a dispatch that has not is not, and has a
submission once it is at writing), `LinkInv`
(whoever is about to write holds a history the file has had, and the history it
has if nobody else runs) and `PositionInv`.  `RecordedOnce` needs no "one at a
time": `OnceInv` counts the places of an event against the deliveries of it that
have passed the write (`Past`, `FileWithinReason`), to which whoever writes is
added.

ClioCall, for any calls, tenants, stores and retry bound, with failing stores and
deaths among concurrent calls: `TypeCorrect`, `RecordsAreTrue`,
`MutationsApplyOnce`, `SecretsStay` and `StaysConnected`.  The invariant behind
the first two of these says for each stage of a call what it may have applied,
answered and recorded so far.  `SecretsStay` needs that what a call holds of the
store lacks no secret the store has, for it writes back the whole image
(`KeepInv`), which is so as long as no load has failed (`unread`).  `StaysConnected` needs to know whose grant a call holds while it
saves one piece after another (`ConnInv`): in between, the store is a mixture.

VoicePipeline, for any entities, texts, settings and bounds: `TypeCorrect`,
`ShieldKept`, `SpeechKept`, `NamesComeBack` and `TruthKept`.  Types need to know that the counter
of a kind is a cardinality, so that the next number is never 0.  `ShieldKept`
rests on what a request was made from being still what the session and the scan
say; `SpeechKept` on the open and the closed segments together being the frames
since the first voiced one, less what silence left out between segments;
`TruthKept` on what each place in the loop says of the turn in progress and on
earlier turns being settled.  `NamesComeBack`, an action property, rests on the
session: no number of a kind is above the kind's count, and no two entities
share a placeholder (`WellNumbered`, which `Register` keeps whatever order the
new ones come in), and a number of one digit is its own `Leading` digit.  That
`Leading` is a function at all is an induction of its own (`LeadingGoesOn`,
`LeadingAgrees`).

Governance, for any processes, parties, dictionaries and contents: `TypeCorrect`,
`VerifyIsRight`, `LedgerHangsTogether` and `DecisionsAreRight`.  `VerifyIsRight` is an equivalence:
nothing that still says what was handed off is refused, and nothing else passes.
Its invariant (`Told`) splits a chain in two.  Up to some record it is `Sound`:
each has the hash it was given, over the previous of what was given; since a hash
equals another only if they cover the same (`HashInjective`), that part verifies
just when every field and dictionary is what it was.  The record after it, if there
is one, is where the chain is `Broken`: its hash is not the one given there, and is
not one longer than the one before, which neither a field nor a dictionary, nor
anything that happens behind it, can repair.
`LedgerHangsTogether` adds that a recorder that has read the ledger has a link
that fits the ledger as it was read, which is still there (`Fits`), and that as
long as none has overlapped at most one is at it (`Alone`).  `DecisionsAreRight`
needs of the state only that an answer is `Decide` of its query (`Answered`); the
rest is about lists of any length.  That rules can be put in order at all, so that
`Sorted` is it, is an induction on their number in which a rule is put in its
place among those before it (`RuleInserted`); a first fitting one then goes before
every other (`EvaluateDecides`).  A dictionary written to in turn holds under each
key what was last written there (`WritingKeepsLast`), which gives grants and
permissions alike.  These inductions are written as the least counterexample
(`LeastNatural`), which no prover needs an operator parameter for.

DocumentUpload, for any documents of any length and any number of calls:
`WholeDocumentSent` and `NothingLeftOver`.  `LeavingInv` says of each stage what
the call may have left at DocuSeal and on disk by then.  `WholeDocumentSent` is
about the renderers: whatever has been read up to a line satisfies `Rendered`, or
`Paged` for a plain text.  `Rendered` says that the parts hold just the lines that
are to be shown up to where the open paragraph begins (`KeepsTo`), that the
paragraph holds the lines from there on, and that as many lists and blocks of code
are open as the two flags say (`Balanced`).  `LineRendered` has one lemma for each
thing a line can do: flush a paragraph, close a list, put a part, toggle code, add
an item.  `EndRendered` is the last flush.  `Paged` counts what is on a page by the
height that is left (`FitIs`: 44 lines).  `Html` and `Pages` are recursive functions,
shown to exist by `SomeGoesThrough`; `LineByLine` is the induction over lines.

Only model-checked: liveness and `ENABLED` (`Answered`, `RunLands`, `CallsEnd` and their like, out of the prover's reach).  Every other
property of the runs that pass is stated by a theorem.

## 5. Where the code and its words disagree

- `widget_lock_lapse`: the lock is released without checking whose it is and the
  chain is written without checking that the lock is still held, so a
  transaction slower than 5 seconds overwrites an accepted entry.
- `clarify_raw`: an entry that needs clarification goes to the cloud model with
  its raw transcript and the names put back (`client/donna/router.py:110`,
  `extractor.py:112`), shield or no shield; `router.py:29` says the raw
  transcript never reaches a cloud provider.

The following were met while modelling.  They have no run of their own; where a
property says what holds instead, it is named.

- An eviction breaks the link of the evicted entry's successor, so a session that
  has met a cap no longer verifies (`UncappedChainVerifies`; that nothing but a cap
  breaks a link is `BreaksAreEvictions`).
- A rate counter whose EXPIRE was lost is never given another one
  (`RetryAfterHolds` says how long a refused caller waits otherwise).
- Two processes that run `bin/notarise append` at a time share one temporary
  file and can leave the chain empty (`ImplementsChainFile` holds of appends
  that follow one another).
- `_emit_idr` means to pass over a missing key and passes over every `OSError`,
  so a dispatch whose record could not be written succeeds.  It then says
  `unsigned`, and an error that comes after the record was written, or most of
  it, makes it say so of a record that is there (`sign.py:156`); `ToldTheTruth`
  claims nothing of a write that raised.
- A Clio answer that breaks off raises `http.client.IncompleteRead`, which
  `_http` and `_token_grant_post` do not catch: a mutation may be carried out
  and not recorded, though `clio.py:361` says a network error surfaces as
  status 0.  `RecordsTellTruth` speaks of calls that return.
- `EncryptedFileStore.write` after a load that failed replaces the file by one
  entry, though `secrets.py:309` says it is never recreated by a failed load;
  `SecretsKept` holds until there has been such a load (`unread`).
- Two refreshes at a time may leave the older grant in the store; hence `alone`
  in `TenantStaysConnected`.  A token that was granted but not saved is not
  used, so the call still ends in 401.
- A name an earlier utterance registered goes out in clear if nothing is
  detected in this one (`pii_shield.py:243`), and the tenth placeholder of a
  kind is read as the first (`pii_shield.py:257`): the conditions in
  `ShieldHolds` and `NamesRestored`.
- An unanswered detector (`PiiShieldError`) and a failed confirmation
  (`SpeakerError`) end the process, in pipe mode too, since `main.py` catches
  neither; the entry may be stored already.
- The dictionaries of a hand-off chain are shared with whoever passed or read
  them, though `workflow.py:100` says callers cannot mutate internal state;
  `verify` notices (`VerifyTells`).  It cannot notice that the end was cut off.
- Two processes that record at a time fork the GRASP ledger (`LedgerRooted`).
- `adapt_ctx` calls `adapt` before its `try`, so a converter that raises leaves
  the temporary directory, though the docstring says it is cleaned up on exit
  (`LeavesInOrder` says where one may stay).  One that cannot be removed
  stays in silence.  A dispatch that fails after the
  template was made leaves the template.
- `detect_format` takes every ZIP it does not know for a DOCX, though its
  docstring says it raises for unrecognised files (`UploadIsDocument` excepts
  them).
- `_build_pdf_page` gives absolute positions to an operator that moves from the
  last one, so of each page only the first line is where it should be.  Geometry
  on the page is not modelled.
- Entries are stamped in UTC (`models.py:25`) and the day's entries are asked for
  with local bounds (`main.py:162`, `store.py:148`), compared as strings: near
  midnight an entry counts for another day.  Clocks are not modelled.

A file that webhook deliveries have written to is one `bin/notarise append`
refuses from then on: the two kinds of records have other fields and hash them
differently (`lib/docuseal_webhook.py:95` keeps `scheme`).  Both programs use
PROBAT.md unless told otherwise.  `NotariseKeepsApart` states what follows; no
comment says otherwise, so it is not a finding.

Two more were met while modelling and are conditions of properties rather than
runs of their own.  `WriteErrors` and `ReleaseErrors` show that a lost reply, or
a failed DEL after a good write, makes the handler answer an error for an entry
that is on the chain (`web/lib/widget-storage.js:293`).  And as long as the
chain names no commit, a recomputation starts the era over at the newer HEAD
(`scripts/probat_extend.py:72`), so a raced first run drops its own commit;
`RecomputeKeepsPending` and `RunLands` therefore speak of commits merged after
the era has started.

## 6. Not modelled

- `run_vad`, which nothing calls, and the partial frame at the end of a recording;
  `AudioCapture.start` after a failed start matters only to callers that go on,
  and `run_voice` does not.
- Entities that overlap, and text that reads like a placeholder.
- `list`, `query` and `daily_summary` of the stores, which change nothing.
- The authorize URL and the state parameter of OAuth (`oauth_state.py`): stateless
  signing with a lifetime.
- The verbs of `lib/docuseal.py` nothing calls: get, list, documents, archive,
  delete.
- `bin/notarise sign`, `verify`, `demo` and `pubkey`; the IDR libraries; stateless
  endpoints: one input, one output.
- `client/donna/mcp_server.py`, whose tools call router methods that do not exist;
  the tools of `mcp-servers/donna/src/server.ts`, which are prompts.
- The atomic replacement of the encrypted file is one step; a crash inside it leaves
  a temporary file nobody reads.
- The in-process fallback store of the widget, commands that reach the KV store after
  their caller gave up, rewritten histories of main.
