---------------------------- MODULE ProbatExtend ----------------------------
(***************************************************************************)
(* The chain of a repository extended on every merge to main:              *)
(* scripts/probat_extend.py run by .github/workflows/probat-extend.yml.    *)
(*                                                                         *)
(* A commit on main is its subject and the chain in the PROBAT.md it       *)
(* carries; a chain is the sequence of commits its records name, oldest    *)
(* first (records that name no commit do not matter here, and how one      *)
(* record is appended to the file is NotariseAppend's subject).  The       *)
(* workflow's concurrency group runs one job at a time and keeps at most   *)
(* one waiting.                                                            *)
(***************************************************************************)
EXTENDS Naturals, Sequences, FiniteSets, SequencesExt

CONSTANTS
  Work,           \* commits that need a record
  First,          \* the commit main starts from
  Bot,            \* the subject of chore(probat) and probat/extend commits
  NoBranch,       \* no probat/extend branch with an open pull request
  MaxAttempts     \* direct pushes tried in one run, 3 in the workflow

ASSUME AttemptsPositive == MaxAttempts \in Nat \ {0}
ASSUME SubjectsDiffer == First \notin Work /\ Bot \notin Work \cup {First}

VARIABLES
  main,      \* first-parent history of main: [subject, chain]
  branch,    \* probat/extend: [base, chain], base its parent's place in main
  waiting,   \* the place in main of the commit whose run waits its turn, or 0
  pc,        \* where the running job is
  head,      \* the place in main of the commit the job has checked out
  file,      \* PROBAT.md in the job's checkout
  todo,      \* commits the job has still to notarise
  attempt,   \* the direct push the job is at
  lost       \* history: the latest job's runner was lost

job == <<pc, head, file, todo, attempt>>
vars == <<main, branch, waiting, job, lost>>

Commit == Work \cup {First}

Tip == main[Len(main)]
Subjects(k) == {main[j].subject : j \in 1 .. k}

-----------------------------------------------------------------------------
(***************************************************************************)
(* scripts/probat_extend.py                                                *)
(***************************************************************************)

\* Variant: the records are searched from the front.
LastNotarised_Oldest(f) == f[1]

\* last_notarised_sha: the newest record that names a commit.
LastNotarised(f) == f[Len(f)]

\* The subjects of history m from place j to place k, less those SKIP_SUBJECT
\* drops.
Notarisable(m, j, k) ==
  LET upTo[i \in 0 .. k] ==
        IF i < j THEN << >>
        ELSE IF m[i].subject = Bot THEN upTo[i - 1]
        ELSE Append(upTo[i - 1], m[i].subject)
  IN upTo[k]

\* pending_commits: the commits of history m up to place k that chain f does
\* not record yet; a chain that names no commit starts its era at k alone.
Pending(m, f, k) ==
  IF f = << >>
  THEN Notarisable(m, k, k)
  ELSE LET since == CHOOSE j \in 1 .. Len(m) : m[j].subject = LastNotarised(f)
       IN Notarisable(m, since + 1, k)

-----------------------------------------------------------------------------

Init ==
  /\ \E chain \in {<< >>, <<First>>} : main = << [subject |-> First, chain |-> chain] >>
  /\ branch = NoBranch
  /\ waiting = 0
  /\ pc = "idle"
  /\ head = 1
  /\ file = << >>
  /\ todo = << >>
  /\ attempt = 0
  /\ lost = FALSE

Unmerged == Work \ Subjects(Len(main))

\* A pull request is merged: which of the names its commit gets does not
\* matter.  Its run takes the place of one that was waiting.
MergeWork ==
  /\ Unmerged # {}
  /\ main' = Append(main, [subject |-> CHOOSE w \in Unmerged : TRUE, chain |-> Tip.chain])
  /\ waiting' = Len(main')
  /\ UNCHANGED <<branch, job, lost>>

\* A maintainer merges the probat/extend pull request; git refuses if PROBAT.md
\* changed on main since the branch left it.  Depending on how it is merged,
\* its run replaces the one waiting, or only cancels it and skips its own job.
MergeBranch ==
  /\ branch # NoBranch
  /\ main[branch.base].chain = Tip.chain
  /\ main' = Append(main, [subject |-> Bot, chain |-> branch.chain])
  /\ branch' = NoBranch
  /\ waiting' \in {waiting, 0, Len(main')}
  /\ UNCHANGED <<job, lost>>

\* workflow_dispatch, or an earlier run started over on its old commit: it too takes
\* the place of one that was waiting.
Dispatch ==
  /\ waiting' \in 1 .. Len(main)
  /\ UNCHANGED <<main, branch, job, lost>>

\* Check out place k of history m and find what is pending there.
CheckOut(m, k) ==
  /\ pc' = "extending"
  /\ head' = k
  /\ file' = m[k].chain
  /\ todo' = Pending(m, m[k].chain, k)

StartRun ==
  /\ pc = "idle"
  /\ waiting # 0
  /\ CheckOut(main, waiting)
  /\ waiting' = 0
  /\ attempt' = 1
  /\ lost' = FALSE
  /\ UNCHANGED <<main, branch>>

\* extend: one append_to_chain per pending commit, oldest first.
AppendRecord ==
  /\ pc = "extending"
  /\ todo # << >>
  /\ file' = Append(file, todo[1])
  /\ todo' = Tail(todo)
  /\ UNCHANGED <<main, branch, waiting, pc, head, attempt, lost>>

EndRun ==
  /\ pc' = "idle"
  /\ head' = 1
  /\ file' = << >>
  /\ todo' = << >>
  /\ attempt' = 0

\* git diff --quiet: the chain is current already.
NothingToLand ==
  /\ pc = "extending"
  /\ todo = << >>
  /\ file = main[head].chain
  /\ EndRun
  /\ UNCHANGED <<main, branch, waiting, lost>>

\* land: commit PROBAT.md, then push, or propose once the attempts are used up.
Land ==
  /\ pc = "extending"
  /\ todo = << >>
  /\ file # main[head].chain
  /\ pc' = IF attempt <= MaxAttempts THEN "pushing" ELSE "proposing"
  /\ UNCHANGED <<main, branch, waiting, head, file, todo, attempt, lost>>

PushedMain == Append(main, [subject |-> Bot, chain |-> file])

\* Variant: git push --force.
PushLands_Forced ==
  /\ pc = "pushing"
  /\ main' = PushedMain
  /\ waiting' \in {waiting, 0}
  /\ EndRun
  /\ UNCHANGED <<branch, lost>>

\* The push is a fast-forward and the branch rules allow it.  The run it
\* triggers skips its job, but may cancel the one that waits.
PushLands ==
  /\ pc = "pushing"
  /\ head = Len(main)
  /\ main' = PushedMain
  /\ waiting' \in {waiting, 0}
  /\ EndRun
  /\ UNCHANGED <<branch, lost>>

\* The push is a fast-forward, but declined by the branch rules.
PushDeclined ==
  /\ pc = "pushing"
  /\ head = Len(main)
  /\ pc' = "proposing"
  /\ UNCHANGED <<main, branch, waiting, head, file, todo, attempt, lost>>

\* Variant: the reset is not followed by another pass of probat_extend.
Recompute_ResetOnly(m) ==
  /\ pc' = "extending"
  /\ head' = Len(m)
  /\ file' = m[Len(m)].chain
  /\ todo' = << >>
  /\ attempt' = attempt + 1

\* git fetch, git reset --hard origin/main, and find again what is pending.
Recompute(m) ==
  /\ CheckOut(m, Len(m))
  /\ attempt' = attempt + 1

\* Main moved on since the checkout: not a fast-forward.
PushRaced ==
  /\ pc = "pushing"
  /\ head # Len(main)
  /\ Recompute(main)
  /\ UNCHANGED <<main, branch, waiting, lost>>

\* The push fails for another reason; it may have reached main all the same.
PushErrors ==
  /\ pc = "pushing"
  /\ \/ main' = main
     \/ /\ head = Len(main)
        /\ main' = PushedMain
  /\ Recompute(main')
  /\ UNCHANGED <<branch, waiting, lost>>

\* Variant: the pull request is opened, but nothing pushed to its branch.
Propose_WithoutPush ==
  /\ pc = "proposing"
  /\ EndRun
  /\ UNCHANGED <<main, branch, waiting, lost>>

\* git push -f origin HEAD:refs/heads/probat/extend; open or refresh the PR.
Propose ==
  /\ pc = "proposing"
  /\ branch' = [base |-> head, chain |-> file]
  /\ EndRun
  /\ UNCHANGED <<main, waiting, lost>>

\* The runner is lost; what it had appended was in its own checkout.
RunnerDies ==
  /\ pc # "idle"
  /\ EndRun
  /\ lost' = TRUE
  /\ UNCHANGED <<main, branch, waiting>>

-----------------------------------------------------------------------------

Job ==
  \/ StartRun \/ AppendRecord \/ NothingToLand \/ Land
  \/ PushLands \/ PushDeclined \/ PushRaced \/ PushErrors \/ Propose

Next == MergeWork \/ MergeBranch \/ Dispatch \/ Job \/ RunnerDies

Spec == Init /\ [][Next]_vars

\* A run that has been triggered starts when its turn comes and runs on.
\* Maintainers need not merge anything.
FairSpec == Spec /\ WF_vars(Job)

-----------------------------------------------------------------------------
(***************************************************************************)
(* Properties.                                                             *)
(***************************************************************************)

Chain == Seq(Commit)

WorkLine == Notarisable(main, 1, Len(main))

Chains ==
  {main[k].chain : k \in 1 .. Len(main)} \cup {file}
    \cup (IF branch = NoBranch THEN {} ELSE {branch.chain})

\* "exactly one IDR per first-parent main commit": from the first commit it
\* records, every chain - on main, proposed, or still in a runner - records
\* the commits that need it one by one, in main's order, without a gap and
\* without a duplicate.
OneRecordPerCommit ==
  \A c \in Chains :
    \E i \in 1 .. Len(WorkLine) + 1, j \in 0 .. Len(WorkLine) : c = SubSeq(WorkLine, i, j)

\* No commit of main, whoever made it and however it raced, takes back a record
\* that an earlier one carried.
RecordsKept ==
  \A k \in 1 .. Len(main) - 1 : IsPrefix(main[k].chain, main[k + 1].chain)

\* "re-running after a reset recomputes the full pending set": a commit the job
\* was about to record when its push failed is recorded on main by then, or
\* pending again.  This needs a chain that names a commit: a raced first run of
\* the per-merge era starts the era over at the newer commit.
EraStarted == main[head].chain # << >>
RecomputeKeepsPending ==
  [][EraStarted /\ pc = "pushing" /\ pc' = "extending"
       => ToSet(file) \subseteq ToSet(file') \cup ToSet(todo')]_vars

\* "a missed or raced run heals on the next one": once a job has checked out a
\* main that holds w, merged when the chain named a commit already, w ends up
\* recorded on main or proposed on the branch, if only the runner survives.
Recorded(w) == w \in ToSet(Tip.chain)
Proposed(w) == branch # NoBranch /\ w \in ToSet(branch.chain)
CheckedOut(w) ==
  /\ pc # "idle"
  /\ \E k \in 1 .. head : main[k].subject = w /\ main[k].chain # << >>
RunLands == \A w \in Work : CheckedOut(w) ~> (Recorded(w) \/ Proposed(w) \/ lost)

=============================================================================
