--------------------------- MODULE NotariseAppend ---------------------------
(***************************************************************************)
(* append_to_chain of bin/notarise: read the chain, sign over its tail,    *)
(* read the text again, verify the grown chain in memory, write it to      *)
(* <chain>.tmp and rename that over the chain.  Calls run in processes of  *)
(* their own; each file-system call is one step.                           *)
(*                                                                         *)
(* Names are bound to inodes because every call uses the same .tmp name: a *)
(* process goes on writing to the inode it opened whatever became of the   *)
(* name.                                                                   *)
(***************************************************************************)
EXTENDS ProbatRules

CONSTANTS
  Original,    \* the inode the chain's name is bound to at first
  NoFile       \* the name is not bound

ASSUME InodesDiffer == /\ Original \notin Appender
                       /\ NoFile \notin Appender \cup {Original}

VARIABLES
  alone,     \* do the callers run one append_to_chain at a time?
  pc,        \* pc[a]: where call a is
  sound,     \* sound[a]: its confidence argument is within [0, 1]
  prev,      \* prev[a]: the previous_hash a signed
  text,      \* text[a]: the grown chain a verified and will write
  fd,        \* fd[a]: the inode a has open for writing
  outcome,   \* outcome[a]: what the caller is told
  chain,     \* the inode the chain's name is bound to
  tmp,       \* the inode <chain>.tmp is bound to, or NoFile
  data       \* data[n]: contents of inode n

vars == <<alone, pc, sound, prev, text, fd, outcome, chain, tmp, data>>

Inode == Appender \cup {Original}
Ended == {"done", "crashed"}
PcValue == {"idle", "reading", "rereading", "opening", "writing", "replacing"}
             \cup Ended
Outcome == {"none", "ok", "refused", "error"}

InProgress(a) == pc[a] \notin {"idle"} \cup Ended

OnDisk == data[chain]

\* Chains the file may hold at first: a good one, none at all, one with a
\* tampered record, one whose link is wrong, one with a block that is no IDR.
Block(i, p, g) == [id |-> i, prev |-> p, good |-> g]
FirstFiles ==
  {<< >>} \cup
  UNION {{ <<Block(s, Genesis, TRUE)>>, <<Block(s, Genesis, FALSE)>>,
           <<Block(s, s, TRUE)>>, <<Block(s, Genesis, TRUE), Malformed>> } : s \in Seed}

-----------------------------------------------------------------------------

Init ==
  /\ alone \in BOOLEAN
  /\ pc = [a \in Appender |-> "idle"]
  /\ sound \in [Appender -> BOOLEAN]
  /\ prev = [a \in Appender |-> Genesis]
  /\ text = [a \in Appender |-> << >>]
  /\ fd = [a \in Appender |-> NoFile]
  /\ outcome = [a \in Appender |-> "none"]
  /\ chain = Original
  /\ tmp = NoFile
  /\ \E f \in FirstFiles :
       data = [n \in Inode |-> IF n = Original THEN f ELSE << >>]

Begin(a) ==
  /\ pc[a] = "idle"
  /\ alone => \A b \in Appender : ~InProgress(b)
  /\ pc' = [pc EXCEPT ![a] = "reading"]
  /\ UNCHANGED <<alone, sound, prev, text, fd, outcome, chain, tmp, data>>

\* A ValueError: the caller prints it and exits with status 1.
Refuse(a) ==
  /\ pc' = [pc EXCEPT ![a] = "done"]
  /\ outcome' = [outcome EXCEPT ![a] = "refused"]

\* parse_probat, and the signature over the tail it saw.
ReadRecords(a) ==
  /\ pc[a] = "reading"
  /\ \/ /\ Parses(OnDisk)
        /\ pc' = [pc EXCEPT ![a] = "rereading"]
        /\ prev' = [prev EXCEPT ![a] = TailHash(OnDisk)]
        /\ UNCHANGED outcome
     \/ /\ ~Parses(OnDisk)
        /\ Refuse(a)
        /\ UNCHANGED prev
  /\ UNCHANGED <<alone, sound, text, fd, chain, tmp, data>>

NewRecord(a) == [id |-> a, prev |-> prev[a], good |-> sound[a]]

\* The second read: no block to insert after, or a grown chain that does not
\* verify, refuses.
ReadText(a) ==
  LET grown == Append(OnDisk, NewRecord(a))
      writable == OnDisk # << >> /\ Acceptable(grown)
  IN
    /\ pc[a] = "rereading"
    /\ \/ /\ writable
          /\ pc' = [pc EXCEPT ![a] = "opening"]
          /\ text' = [text EXCEPT ![a] = grown]
          /\ UNCHANGED outcome
       \/ /\ ~writable
          /\ Refuse(a)
          /\ UNCHANGED text
    /\ UNCHANGED <<alone, sound, prev, fd, chain, tmp, data>>

\* Variant: the chain itself is opened for writing.
OpenTmp_InPlace(a) ==
  /\ pc[a] = "opening"
  /\ pc' = [pc EXCEPT ![a] = "writing"]
  /\ fd' = [fd EXCEPT ![a] = chain]
  /\ data' = [data EXCEPT ![chain] = << >>]
  /\ UNCHANGED <<alone, sound, prev, text, outcome, chain, tmp>>

\* open(<chain>.tmp, "w") creates the file or truncates the one that is there.
OpenTmp(a) ==
  LET n == IF tmp = NoFile THEN a ELSE tmp IN
    /\ pc[a] = "opening"
    /\ pc' = [pc EXCEPT ![a] = "writing"]
    /\ fd' = [fd EXCEPT ![a] = n]
    /\ tmp' = n
    /\ data' = [data EXCEPT ![n] = << >>]
    /\ UNCHANGED <<alone, sound, prev, text, outcome, chain>>

\* What a write at offset 0 leaves of a file that already held old.
Overlay(new, old) == new \o SubSeq(old, Len(new) + 1, Len(old))

WriteTmp(a) ==
  /\ pc[a] = "writing"
  /\ pc' = [pc EXCEPT ![a] = "replacing"]
  /\ data' = [data EXCEPT ![fd[a]] = Overlay(text[a], @)]
  /\ UNCHANGED <<alone, sound, prev, text, fd, outcome, chain, tmp>>

\* Variant: nobody looks at how much was written.
WriteFails_Unnoticed(a) ==
  /\ pc[a] = "writing"
  /\ pc' = [pc EXCEPT ![a] = "replacing"]
  /\ \E k \in 0 .. Len(text[a]) - 1 :
       data' = [data EXCEPT ![fd[a]] = Overlay(SubSeq(text[a], 1, k), @)]
  /\ UNCHANGED <<alone, sound, prev, text, fd, outcome, chain, tmp>>

\* The write stops short (disk full): OSError, with part of the text written.
WriteFails(a) ==
  /\ pc[a] = "writing"
  /\ pc' = [pc EXCEPT ![a] = "done"]
  /\ outcome' = [outcome EXCEPT ![a] = "error"]
  /\ \E k \in 0 .. Len(text[a]) - 1, torn \in BOOLEAN :
       LET part == SubSeq(text[a], 1, k) \o (IF torn THEN <<Malformed>> ELSE << >>)
       IN data' = [data EXCEPT ![fd[a]] = Overlay(part, @)]
  /\ UNCHANGED <<alone, sound, prev, text, fd, chain, tmp>>

\* Variant: the old chain is unlinked before the new one is put in its place.
Replace_UnlinksFirst(a) ==
  /\ pc[a] = "replacing"
  /\ pc' = [pc EXCEPT ![a] = "done"]
  /\ outcome' = [outcome EXCEPT ![a] = IF tmp # NoFile THEN "ok" ELSE "error"]
  /\ chain' = tmp
  /\ tmp' = NoFile
  /\ UNCHANGED <<alone, sound, prev, text, fd, data>>

\* os.replace; FileNotFoundError if another call has renamed the file away.
Replace(a) ==
  /\ pc[a] = "replacing"
  /\ pc' = [pc EXCEPT ![a] = "done"]
  /\ \/ /\ tmp # NoFile
        /\ outcome' = [outcome EXCEPT ![a] = "ok"]
        /\ chain' = tmp
        /\ tmp' = NoFile
     \/ /\ tmp = NoFile
        /\ outcome' = [outcome EXCEPT ![a] = "error"]
        /\ UNCHANGED <<chain, tmp>>
  /\ UNCHANGED <<alone, sound, prev, text, fd, data>>

\* The process is killed: what it left under .tmp stays there.
Crash(a) ==
  /\ InProgress(a)
  /\ pc' = [pc EXCEPT ![a] = "crashed"]
  /\ UNCHANGED <<alone, sound, prev, text, fd, outcome, chain, tmp, data>>

Next ==
  \E a \in Appender :
    \/ Begin(a) \/ ReadRecords(a) \/ ReadText(a) \/ OpenTmp(a)
    \/ WriteTmp(a) \/ WriteFails(a) \/ Replace(a) \/ Crash(a)

Spec == Init /\ [][Next]_vars

-----------------------------------------------------------------------------
(***************************************************************************)
(* Properties.                                                             *)
(***************************************************************************)

\* Every variable has its type; the chain's name, in particular, is always
\* bound to a file, whatever became of the temporary one.
TypeOK ==
  /\ alone \in BOOLEAN
  /\ pc \in [Appender -> PcValue]
  /\ sound \in [Appender -> BOOLEAN]
  /\ prev \in [Appender -> Hash]
  /\ text \in [Appender -> File]
  /\ fd \in [Appender -> Inode \cup {NoFile}]
  /\ outcome \in [Appender -> Outcome]
  /\ chain \in Inode
  /\ tmp \in Inode \cup {NoFile}
  /\ data \in [Inode -> File]

\* When calls do not overlap, reading, verifying, writing and renaming together
\* are one step on the chain file: it grows by one linked record, or nothing
\* happens, through crashes, short writes, a stale .tmp and chains that were
\* broken to begin with.  Of overlapping calls ChainFile says nothing.
Abstract == INSTANCE ChainFile WITH file <- IF alone THEN OnDisk ELSE << >>
ImplementsChainFile == Abstract!Spec

\* When calls do not overlap, the caller is told "ok" exactly when the record is
\* on the chain, at the time of the answer and from then on.
OnChain(a) ==
  \E k \in 1 .. Len(OnDisk) : OnDisk[k] # Malformed /\ OnDisk[k].id = a
ReportsTruth ==
  alone => \A a \in Appender : pc[a] = "done" => (outcome[a] = "ok" <=> OnChain(a))

\* When calls do not overlap, a call is refused only if its own record is no good
\* or the chain never was: no crash, short write or leftover temporary file of an
\* earlier call keeps a later one from growing a good chain.
RefusalsJustified ==
  alone =>
    \A a \in Appender : outcome[a] = "refused" => ~sound[a] \/ ~Acceptable(OnDisk)

=============================================================================
