------------------------ MODULE NotariseAppend_proofs ------------------------
(***************************************************************************)
(* Theorems about NotariseAppend, for every number of calls, whatever the  *)
(* chain holds at first, crashes and short writes included.                *)
(***************************************************************************)
EXTENDS NotariseAppend, SequenceTheorems, TLAPS

-----------------------------------------------------------------------------
(***************************************************************************)
(* Files.                                                                  *)
(***************************************************************************)

Piece == Record \cup {Malformed}

LEMMA FileFacts ==
  /\ File = Seq(Piece)
  /\ << >> \in File
  /\ \A f \in File : /\ Len(f) \in Nat
                     /\ \A k \in 1 .. Len(f) : f[k] \in Piece
                     /\ f # << >> => Len(f) > 0
<1>1. File = Seq(Piece)
  BY DEF File, Piece
<1>2. ASSUME NEW f \in Seq(Piece)
      PROVE  /\ Len(f) \in Nat
             /\ \A k \in 1 .. Len(f) : f[k] \in Piece
             /\ f # << >> => Len(f) > 0
  BY LenProperties, ElementOfSeq, EmptySeq
<1>. QED  BY <1>1, <1>2, EmptySeq

\* A part of a file is a file.
LEMMA SubSeqType ==
  ASSUME NEW f \in File, NEW i \in Nat \ {0}, NEW j \in Int, j <= Len(f)
  PROVE  /\ SubSeq(f, i, j) \in File
         /\ Len(SubSeq(f, i, j)) = IF i <= j THEN j - i + 1 ELSE 0
<1>1. \A k \in i .. j : f[k] \in Piece
  BY FileFacts
<1>. QED  BY <1>1, SubSeqProperties, FileFacts

\* Writing a file over another leaves a file.
LEMMA OverlayType ==
  ASSUME NEW new \in File, NEW old \in File
  PROVE  Overlay(new, old) \in File
<1>1. Len(new) + 1 \in Nat \ {0} /\ Len(old) \in Int
  BY FileFacts
<1>2. SubSeq(old, Len(new) + 1, Len(old)) \in File
  BY <1>1, SubSeqType
<1>. QED  BY <1>2, ConcatProperties, FileFacts DEF Overlay

\* Writing into a file just truncated leaves what was written.
LEMMA OverlayOfEmpty ==
  ASSUME NEW new \in File
  PROVE  Overlay(new, << >>) = new
<1>1. SubSeq(<< >>, Len(new) + 1, 0) = << >> /\ Len(<< >>) = 0
  BY FileFacts, SubSeqEmpty, EmptySeq
<1>. QED  BY <1>1, ConcatEmptySeq, FileFacts DEF Overlay

\* The tail's hash is a hash when the file parses.
LEMMA TailHashType ==
  ASSUME NEW f \in File, Parses(f)
  PROVE  TailHash(f) \in Hash
<1>1. CASE f = << >>
  BY <1>1 DEF TailHash, Hash
<1>2. CASE f # << >>
  <2>1. Len(f) \in 1 .. Len(f)
    BY <1>2, FileFacts
  <2>2. f[Len(f)] \in Record
    BY <2>1, FileFacts DEF Parses, Piece
  <2>. QED  BY <1>2, <2>2 DEF TailHash, Record, Hash
<1>. QED  BY <1>1, <1>2

\* What an append leaves at each place of a file.
LEMMA AppendFacts ==
  ASSUME NEW f \in File, NEW e \in Piece
  PROVE  /\ Append(f, e) \in File
         /\ Len(Append(f, e)) = Len(f) + 1
         /\ \A k \in 1 .. Len(f) : Append(f, e)[k] = f[k]
         /\ Append(f, e)[Len(f) + 1] = e
BY AppendProperties, FileFacts

\* The chain below a record that verifies is one that was acceptable already,
\* and the record links to its tail.
LEMMA AcceptablePrefix ==
  ASSUME NEW f \in File, f # << >>, NEW e \in Piece, Acceptable(Append(f, e))
  PROVE  Acceptable(f) /\ e.good /\ e.prev = TailHash(f)
<1> DEFINE g == Append(f, e)
           n == Len(f)
<1>1. /\ n \in Nat /\ n > 0
      /\ Len(g) = n + 1
      /\ g[n + 1] = e
      /\ \A k \in 1 .. n : g[k] = f[k]
  BY AppendFacts, FileFacts
<1> HIDE DEF g, n
<1>2. Parses(g) /\ Verifies(g)
  BY DEF Acceptable, g
<1>3. \A k \in 1 .. n : k \in 1 .. Len(g)
  BY <1>1
<1>4. Parses(f)
  BY <1>1, <1>2, <1>3 DEF Parses, n
<1>5. Verifies(f)
  <2> SUFFICES ASSUME NEW k \in 1 .. n
               PROVE  f[k].good /\ f[k].prev = IF k = 1 THEN Genesis ELSE f[k - 1].id
    BY DEF Verifies, n
  <2>1. g[k].good /\ g[k].prev = IF k = 1 THEN Genesis ELSE g[k - 1].id
    BY <1>2, <1>3 DEF Verifies
  <2>2. k # 1 => k - 1 \in 1 .. n
    BY <1>1
  <2>. QED  BY <1>1, <2>1, <2>2
<1>6. n + 1 \in 1 .. Len(g) /\ n + 1 # 1 /\ (n + 1) - 1 = n /\ n \in 1 .. n
  BY <1>1
<1>7. g[n + 1].good /\ g[n + 1].prev = g[n].id
  BY <1>2, <1>6 DEF Verifies
<1>. QED  BY <1>1, <1>4, <1>5, <1>6, <1>7 DEF Acceptable, TailHash, n

\* A good record linked to the tail keeps a chain acceptable.
LEMMA AcceptableExtended ==
  ASSUME NEW f \in File, Acceptable(f), NEW e \in Record, e.good, e.prev = TailHash(f)
  PROVE  Acceptable(Append(f, e))
<1> DEFINE g == Append(f, e)
           n == Len(f)
<1>1. /\ n \in Nat /\ n > 0
      /\ g \in File /\ Len(g) = n + 1
      /\ g[n + 1] = e
      /\ \A k \in 1 .. n : g[k] = f[k]
  BY AppendFacts, FileFacts DEF Acceptable, Piece
<1>2. e.prev = f[n].id /\ Parses(f) /\ Verifies(f)
  BY DEF Acceptable, TailHash
<1>3. g # << >>
  BY <1>1, EmptySeq
<1> HIDE DEF g
<1>4. e # Malformed
  BY MalformedIsNoRecord
<1>5. \A k \in 1 .. n : f[k] # Malformed
  BY <1>2 DEF Parses
<1>6. \A k \in 1 .. n : f[k].good /\ f[k].prev = IF k = 1 THEN Genesis ELSE f[k - 1].id
  BY <1>2 DEF Verifies
<1> HIDE DEF n
<1>7. Parses(g)
  <2> SUFFICES ASSUME NEW k \in 1 .. n + 1 PROVE g[k] # Malformed
    BY <1>1 DEF Parses
  <2>1. CASE k = n + 1
    BY <1>1, <1>4, <2>1
  <2>2. CASE k \in 1 .. n
    BY <1>1, <1>5, <2>2
  <2>. QED  BY <1>1, <2>1, <2>2
<1>8. Verifies(g)
  <2> SUFFICES ASSUME NEW k \in 1 .. n + 1
               PROVE  g[k].good /\ g[k].prev = IF k = 1 THEN Genesis ELSE g[k - 1].id
    BY <1>1 DEF Verifies
  <2>1. CASE k = n + 1
    <3>1. k # 1 /\ k - 1 = n /\ n \in 1 .. n
      BY <1>1, <2>1
    <3>. QED  BY <1>1, <1>2, <2>1, <3>1
  <2>2. CASE k \in 1 .. n
    <3>1. k # 1 => k - 1 \in 1 .. n
      BY <1>1, <2>2
    <3>. QED  BY <1>1, <1>6, <2>2, <3>1
  <2>. QED  BY <1>1, <2>1, <2>2
<1>. QED  BY <1>3, <1>7, <1>8 DEF Acceptable, g

-----------------------------------------------------------------------------
(***************************************************************************)
(* Type correctness, and what a call is about to write, however calls      *)
(* overlap.                                                                *)
(***************************************************************************)

LEMMA FirstFilesType == FirstFiles \subseteq File
<1>1. \A i \in Id, p \in Hash, g \in BOOLEAN : Block(i, p, g) \in Piece
  BY DEF Block, Record, Piece
<1>2. Genesis \in Hash /\ Malformed \in Piece
  BY DEF Hash, Piece
<1>3. \A s \in Seed : s \in Id /\ s \in Hash
  BY DEF Id, Hash
<1>4. \A b, c \in Piece : <<b>> \in Seq(Piece) /\ <<b, c>> \in Seq(Piece)
  OBVIOUS
<1>5. ASSUME NEW s \in Seed
      PROVE  { <<Block(s, Genesis, TRUE)>>, <<Block(s, Genesis, FALSE)>>,
               <<Block(s, s, TRUE)>>, <<Block(s, Genesis, TRUE), Malformed>> }
               \subseteq File
  BY <1>1, <1>2, <1>3, <1>4, FileFacts
<1>6. {<< >>} \subseteq File
  BY FileFacts
<1>. QED  BY <1>5, <1>6 DEF FirstFiles

LEMMA InitTypeOK == Init => TypeOK
<1> SUFFICES ASSUME Init PROVE TypeOK
  OBVIOUS
<1>1. PICK f \in FirstFiles : data = [n \in Inode |-> IF n = Original THEN f ELSE << >>]
  BY DEF Init
<1>2. data \in [Inode -> File]
  BY <1>1, FirstFilesType, FileFacts
<1>3. text \in [Appender -> File]
  BY FileFacts DEF Init
<1>. QED  BY <1>2, <1>3 DEF Init, TypeOK, PcValue, Ended, Outcome, Inode, Hash

\* The record a call signs is a piece of a file.
LEMMA NewRecordType ==
  ASSUME TypeOK, NEW a \in Appender
  PROVE  NewRecord(a) \in Record /\ NewRecord(a) \in Piece
BY DEF TypeOK, NewRecord, Record, Piece, Id

LEMMA StepTypeOK == TypeOK /\ [Next]_vars => TypeOK'
<1> SUFFICES ASSUME TypeOK, [Next]_vars PROVE TypeOK'
  OBVIOUS
<1> USE DEF PcValue, Ended, Outcome
<1>a. OnDisk \in File /\ << >> \in File
  BY FileFacts DEF TypeOK, OnDisk
<1>1. ASSUME NEW a \in Appender, Begin(a) PROVE TypeOK'
  BY <1>1 DEF Begin, TypeOK
<1>2. ASSUME NEW a \in Appender, ReadRecords(a) PROVE TypeOK'
  <2>1. CASE Parses(OnDisk)
    BY <1>2, <1>a, <2>1, TailHashType DEF ReadRecords, TypeOK
  <2>2. CASE ~Parses(OnDisk)
    BY <1>2, <2>2 DEF ReadRecords, Refuse, TypeOK
  <2>. QED  BY <2>1, <2>2
<1>3. ASSUME NEW a \in Appender, ReadText(a) PROVE TypeOK'
  <2>1. Append(OnDisk, NewRecord(a)) \in File
    BY <1>a, NewRecordType, AppendFacts
  <2>. QED  BY <1>3, <2>1 DEF ReadText, Refuse, TypeOK
<1>4. ASSUME NEW a \in Appender, OpenTmp(a) PROVE TypeOK'
  BY <1>4, <1>a DEF OpenTmp, TypeOK, Inode
<1>5. ASSUME NEW a \in Appender, WriteTmp(a) PROVE TypeOK'
  <2>1. \A n \in Inode : Overlay(text[a], data[n]) \in File
    BY OverlayType DEF TypeOK
  <2>. QED  BY <1>5, <2>1 DEF WriteTmp, TypeOK
<1>6. ASSUME NEW a \in Appender, WriteFails(a) PROVE TypeOK'
  <2>1. PICK k \in 0 .. Len(text[a]) - 1, torn \in BOOLEAN :
          data' = [data EXCEPT ![fd[a]] =
                     Overlay(SubSeq(text[a], 1, k)
                               \o (IF torn THEN <<Malformed>> ELSE << >>), @)]
    BY <1>6 DEF WriteFails
  <2>2. text[a] \in File /\ k \in Int /\ k <= Len(text[a])
    BY FileFacts DEF TypeOK
  <2>3. SubSeq(text[a], 1, k) \in File
    BY <2>2, SubSeqType
  <2>4. <<Malformed>> \in Seq(Piece) /\ << >> \in Seq(Piece)
    BY DEF Piece
  <2>5. SubSeq(text[a], 1, k) \o (IF torn THEN <<Malformed>> ELSE << >>) \in File
    BY <2>3, <2>4, ConcatProperties, FileFacts
  <2>6. \A n \in Inode :
          Overlay(SubSeq(text[a], 1, k)
                    \o (IF torn THEN <<Malformed>> ELSE << >>), data[n]) \in File
    BY <2>5, OverlayType DEF TypeOK
  <2>7. data' \in [Inode -> File]
    BY <2>1, <2>6 DEF TypeOK
  <2>. QED  BY <1>6, <2>7 DEF WriteFails, TypeOK
<1>7. ASSUME NEW a \in Appender, Replace(a) PROVE TypeOK'
  BY <1>7 DEF Replace, TypeOK
<1>8. ASSUME NEW a \in Appender, Crash(a) PROVE TypeOK'
  BY <1>8 DEF Crash, TypeOK
<1>9. CASE UNCHANGED vars
  BY <1>9 DEF vars, TypeOK
<1>. QED
  BY <1>1, <1>2, <1>3, <1>4, <1>5, <1>6, <1>7, <1>8, <1>9 DEF Next

\* Whatever overlaps, fails or dies, the chain's name stays bound to a file, and
\* each file is a sequence of blocks.
THEOREM TypeCorrect == Spec => []TypeOK
BY InitTypeOK, StepTypeOK, PTL DEF Spec

\* What a call writes has been verified as a whole.
VerifiedText ==
  \A a \in Appender :
    pc[a] \in {"opening", "writing", "replacing"} => Acceptable(text[a])

LEMMA StepVerified ==
  TypeOK /\ VerifiedText /\ [Next]_vars => VerifiedText'
<1> SUFFICES ASSUME TypeOK, VerifiedText, [Next]_vars, NEW b \in Appender,
                    pc'[b] \in {"opening", "writing", "replacing"}
             PROVE  Acceptable(text'[b])
  BY DEF VerifiedText, Acceptable, Parses, Verifies
<1>1. ASSUME NEW a \in Appender, ReadText(a) PROVE Acceptable(text'[b])
  BY <1>1 DEF ReadText, Refuse, TypeOK, VerifiedText
<1>2. ASSUME NEW a \in Appender,
             \/ Begin(a) \/ ReadRecords(a) \/ OpenTmp(a) \/ WriteTmp(a)
             \/ WriteFails(a) \/ Replace(a) \/ Crash(a)
      PROVE  Acceptable(text'[b])
  <2>1. UNCHANGED text
    BY <1>2 DEF Begin, ReadRecords, OpenTmp, WriteTmp, WriteFails, Replace, Crash
  <2>2. pc[b] \in {"opening", "writing", "replacing"}
    BY <1>2 DEF Begin, ReadRecords, Refuse, OpenTmp, WriteTmp, WriteFails, Replace,
                Crash, TypeOK
  <2>. QED  BY <2>1, <2>2 DEF VerifiedText
<1>3. CASE UNCHANGED vars
  BY <1>3 DEF vars, VerifiedText
<1>. QED  BY <1>1, <1>2, <1>3 DEF Next

-----------------------------------------------------------------------------
(***************************************************************************)
(* One append at a time: the implementation of ChainFile, and what the     *)
(* callers are told.                                                       *)
(***************************************************************************)

Unopened == {"idle", "reading", "rereading", "opening"}
Planned == {"opening", "writing", "replacing"}

\* No two calls are under way.
OneAtATime == \A a, b \in Appender : InProgress(a) /\ InProgress(b) => a = b

\* The two names are bound to different inodes, and neither to the one a call
\* may yet create.
NamesApart ==
  /\ tmp # chain
  /\ \A a \in Appender : pc[a] \in Unopened => chain # a /\ tmp # a

\* The call under way knows the chain as it is: it signed over its tail, will
\* write it with its own record added, and writes to the temporary file, which
\* holds nothing but what it wrote there.
ViewCurrent ==
  \A a \in Appender :
    /\ pc[a] \in {"rereading"} \cup Planned => prev[a] = TailHash(OnDisk)
    /\ pc[a] \in Planned => /\ OnDisk # << >>
                            /\ text[a] = Append(OnDisk, NewRecord(a))
    /\ pc[a] \in {"writing", "replacing"} => fd[a] = tmp /\ tmp # NoFile
    /\ pc[a] = "writing" => data[tmp] = << >>
    /\ pc[a] = "replacing" => data[tmp] = text[a]

\* Exactly the calls that were told so have their record on the chain.
Told ==
  \A a \in Appender : /\ outcome[a] = "ok" <=> OnChain(a)
                      /\ pc[a] # "done" => outcome[a] # "ok"

AloneInv == alone => OneAtATime /\ NamesApart /\ ViewCurrent /\ Told
FullInv == TypeOK /\ VerifiedText /\ AloneInv

LEMMA InitAlone == Init => AloneInv
<1> SUFFICES ASSUME Init PROVE AloneInv
  OBVIOUS
<1>1. PICK f \in FirstFiles : data = [n \in Inode |-> IF n = Original THEN f ELSE << >>]
  BY DEF Init
<1>2. OnDisk = f
  BY <1>1 DEF Init, OnDisk, Inode
<1>3. \A k \in 1 .. Len(f) : f[k] = Malformed \/ f[k].id \in Seed
  BY <1>1 DEF FirstFiles, Block
<1>4. \A a \in Appender : ~OnChain(a)
  BY <1>2, <1>3, SeedsAreNoAppends DEF OnChain
<1>5. NamesApart
  BY InodesDiffer DEF Init, NamesApart, Unopened
<1>. QED
  BY <1>4, <1>5 DEF Init, AloneInv, OneAtATime, ViewCurrent, Told, InProgress,
                    Ended, Planned

\* The steps that leave the chain alone leave what is on it alone.
LEMMA DiskUnchanged ==
  ASSUME UNCHANGED <<alone, chain>>, data'[chain] = data[chain]
  PROVE  /\ OnDisk' = OnDisk
         /\ \A a \in Appender : OnChain(a)' <=> OnChain(a)
BY DEF OnDisk, OnChain

\* Whether calls overlap is settled at the start.
LEMMA AloneFixed == [Next]_vars => alone' = alone
BY DEF Next, vars, Begin, ReadRecords, ReadText, OpenTmp, WriteTmp, WriteFails,
       Replace, Crash

LEMMA StepAlone == FullInv /\ [Next]_vars => AloneInv'
<1> SUFFICES ASSUME FullInv, [Next]_vars, alone
             PROVE  (OneAtATime /\ NamesApart /\ ViewCurrent /\ Told)'
  BY AloneFixed DEF AloneInv
<1> USE DEF PcValue, Ended, InProgress, Unopened, Planned
<1>a. TypeOK /\ OneAtATime /\ NamesApart /\ ViewCurrent /\ Told
  BY DEF FullInv, AloneInv
<1>1. ASSUME NEW a \in Appender, Begin(a)
      PROVE  (OneAtATime /\ NamesApart /\ ViewCurrent /\ Told)'
  <2>1. OnDisk' = OnDisk /\ \A b \in Appender : OnChain(b)' <=> OnChain(b)
    BY <1>1, DiskUnchanged DEF Begin
  <2>2. pc' = [pc EXCEPT ![a] = "reading"] /\ \A b \in Appender : ~InProgress(b)
    BY <1>1 DEF Begin
  <2>3. OneAtATime'
    BY <1>a, <2>2 DEF OneAtATime, TypeOK
  <2>4. NamesApart'
    BY <1>a, <1>1 DEF NamesApart, Begin, TypeOK
  <2>5. ViewCurrent'
    BY <1>a, <2>2 DEF ViewCurrent, TypeOK
  <2>6. Told'
    BY <1>a, <1>1, <2>1 DEF Told, Begin, TypeOK
  <2>. QED  BY <2>3, <2>4, <2>5, <2>6
<1>2. ASSUME NEW a \in Appender, ReadRecords(a)
      PROVE  (OneAtATime /\ NamesApart /\ ViewCurrent /\ Told)'
  <2>1. OnDisk' = OnDisk /\ \A b \in Appender : OnChain(b)' <=> OnChain(b)
    BY <1>2, DiskUnchanged DEF ReadRecords
  <2>2. pc[a] = "reading" /\ \A b \in Appender \ {a} : ~InProgress(b)
    BY <1>a, <1>2 DEF ReadRecords, OneAtATime, TypeOK
  <2>3. \/ pc' = [pc EXCEPT ![a] = "rereading"] /\ prev'[a] = TailHash(OnDisk)
        \/ pc' = [pc EXCEPT ![a] = "done"]
    BY <1>a, <1>2 DEF ReadRecords, Refuse, TypeOK
  <2>4. OneAtATime'
    BY <1>a, <2>2, <2>3 DEF OneAtATime, TypeOK
  <2>5. NamesApart'
    BY <1>a, <1>2, <2>2, <2>3 DEF NamesApart, ReadRecords, TypeOK
  <2>6. ViewCurrent'
    BY <1>a, <2>1, <2>2, <2>3 DEF ViewCurrent, TailHash, TypeOK
  <2>7. Told'
    BY <1>a, <1>2, <2>1, <2>2 DEF Told, ReadRecords, Refuse, TypeOK
  <2>. QED  BY <2>4, <2>5, <2>6, <2>7
<1>3. ASSUME NEW a \in Appender, ReadText(a)
      PROVE  (OneAtATime /\ NamesApart /\ ViewCurrent /\ Told)'
  <2>1. OnDisk' = OnDisk /\ \A b \in Appender : OnChain(b)' <=> OnChain(b)
    BY <1>3, DiskUnchanged DEF ReadText
  <2>2. pc[a] = "rereading" /\ \A b \in Appender \ {a} : ~InProgress(b)
    BY <1>a, <1>3 DEF ReadText, OneAtATime, TypeOK
  <2>3. \/ /\ pc' = [pc EXCEPT ![a] = "opening"]
           /\ OnDisk # << >>
           /\ text'[a] = Append(OnDisk, NewRecord(a))
        \/ pc' = [pc EXCEPT ![a] = "done"]
    BY <1>a, <1>3 DEF ReadText, Refuse, TypeOK
  <2>4. OneAtATime'
    BY <1>a, <2>2, <2>3 DEF OneAtATime, TypeOK
  <2>5. NamesApart'
    BY <1>a, <1>3, <2>2, <2>3 DEF NamesApart, ReadText, TypeOK
  <2>6. ViewCurrent'
    <3>1. NewRecord(a)' = NewRecord(a) /\ prev' = prev
      BY <1>3 DEF ReadText, NewRecord
    <3>2. prev[a] = TailHash(OnDisk)
      BY <1>a, <2>2 DEF ViewCurrent
    <3>. QED  BY <1>a, <2>1, <2>2, <2>3, <3>1, <3>2 DEF ViewCurrent, TailHash, TypeOK
  <2>7. Told'
    BY <1>a, <1>3, <2>1, <2>2 DEF Told, ReadText, Refuse, TypeOK
  <2>. QED  BY <2>4, <2>5, <2>6, <2>7
<1>4. ASSUME NEW a \in Appender, OpenTmp(a)
      PROVE  (OneAtATime /\ NamesApart /\ ViewCurrent /\ Told)'
  <2> DEFINE n == IF tmp = NoFile THEN a ELSE tmp
  <2>1. /\ pc[a] = "opening" /\ pc' = [pc EXCEPT ![a] = "writing"]
        /\ fd' = [fd EXCEPT ![a] = n] /\ tmp' = n
        /\ data' = [data EXCEPT ![n] = << >>]
        /\ UNCHANGED <<alone, sound, prev, text, outcome, chain>>
    BY <1>4 DEF OpenTmp
  <2>2. n # chain /\ n \in Inode /\ n # NoFile
    BY <1>a, <2>1, InodesDiffer DEF NamesApart, TypeOK, Inode
  <2> HIDE DEF n
  <2>3. OnDisk' = OnDisk /\ \A b \in Appender : OnChain(b)' <=> OnChain(b)
    BY <1>a, <2>1, <2>2, DiskUnchanged DEF TypeOK
  <2>4. \A b \in Appender \ {a} : ~InProgress(b)
    BY <1>a, <2>1 DEF OneAtATime, TypeOK
  <2>5. OneAtATime'
    BY <1>a, <2>1, <2>4 DEF OneAtATime, TypeOK
  <2>6. NamesApart'
    BY <1>a, <2>1, <2>2 DEF NamesApart, TypeOK, n
  <2>7. ViewCurrent'
    <3>1. NewRecord(a)' = NewRecord(a)
      BY <2>1 DEF NewRecord
    <3>2. /\ prev[a] = TailHash(OnDisk) /\ OnDisk # << >>
          /\ text[a] = Append(OnDisk, NewRecord(a))
      BY <1>a, <2>1 DEF ViewCurrent
    <3>. QED  BY <1>a, <2>1, <2>2, <2>3, <2>4, <3>1, <3>2 DEF ViewCurrent, TailHash, TypeOK
  <2>8. Told'
    BY <1>a, <2>1, <2>3 DEF Told, TypeOK
  <2>. QED  BY <2>5, <2>6, <2>7, <2>8
<1>5. ASSUME NEW a \in Appender, WriteTmp(a)
      PROVE  (OneAtATime /\ NamesApart /\ ViewCurrent /\ Told)'
  <2>1. /\ pc[a] = "writing" /\ pc' = [pc EXCEPT ![a] = "replacing"]
        /\ data' = [data EXCEPT ![fd[a]] = Overlay(text[a], @)]
        /\ UNCHANGED <<alone, sound, prev, text, fd, outcome, chain, tmp>>
    BY <1>5 DEF WriteTmp
  <2>2. /\ fd[a] = tmp /\ tmp # NoFile /\ tmp \in Inode /\ data[tmp] = << >>
        /\ tmp # chain
        /\ prev[a] = TailHash(OnDisk) /\ OnDisk # << >>
        /\ text[a] = Append(OnDisk, NewRecord(a)) /\ text[a] \in File
    BY <1>a, <2>1 DEF ViewCurrent, TypeOK, NamesApart
  <2>3. data' = [data EXCEPT ![tmp] = text[a]]
    BY <2>1, <2>2, OverlayOfEmpty
  <2>4. OnDisk' = OnDisk /\ \A b \in Appender : OnChain(b)' <=> OnChain(b)
    BY <1>a, <2>1, <2>2, <2>3, DiskUnchanged DEF TypeOK
  <2>5. \A b \in Appender \ {a} : ~InProgress(b)
    BY <1>a, <2>1 DEF OneAtATime, TypeOK
  <2>6. OneAtATime'
    BY <1>a, <2>1, <2>5 DEF OneAtATime, TypeOK
  <2>7. NamesApart'
    BY <1>a, <2>1 DEF NamesApart, TypeOK
  <2>8. ViewCurrent'
    <3>1. NewRecord(a)' = NewRecord(a)
      BY <2>1 DEF NewRecord
    <3>. QED  BY <1>a, <2>1, <2>2, <2>3, <2>4, <2>5, <3>1 DEF ViewCurrent, TailHash, TypeOK
  <2>9. Told'
    BY <1>a, <2>1, <2>4 DEF Told, TypeOK
  <2>. QED  BY <2>6, <2>7, <2>8, <2>9
<1>6. ASSUME NEW a \in Appender, WriteFails(a)
      PROVE  (OneAtATime /\ NamesApart /\ ViewCurrent /\ Told)'
  <2>1. /\ pc[a] = "writing" /\ pc' = [pc EXCEPT ![a] = "done"]
        /\ outcome' = [outcome EXCEPT ![a] = "error"]
        /\ UNCHANGED <<alone, sound, prev, text, fd, chain, tmp>>
    BY <1>6 DEF WriteFails
  <2>2. fd[a] = tmp /\ tmp # chain
    BY <1>a, <2>1 DEF ViewCurrent, NamesApart
  <2>3. data'[chain] = data[chain]
    BY <1>a, <1>6, <2>2 DEF WriteFails, TypeOK
  <2>4. OnDisk' = OnDisk /\ \A b \in Appender : OnChain(b)' <=> OnChain(b)
    BY <2>1, <2>3, DiskUnchanged
  <2>5. \A b \in Appender \ {a} : ~InProgress(b)
    BY <1>a, <2>1 DEF OneAtATime, TypeOK
  <2>6. OneAtATime'
    BY <1>a, <2>1, <2>5 DEF OneAtATime, TypeOK
  <2>7. NamesApart'
    BY <1>a, <2>1 DEF NamesApart, TypeOK
  <2>8. ViewCurrent'
    BY <1>a, <2>1, <2>5 DEF ViewCurrent, TypeOK
  <2>9. Told'
    BY <1>a, <2>1, <2>4 DEF Told, TypeOK
  <2>. QED  BY <2>6, <2>7, <2>8, <2>9
<1>7. ASSUME NEW a \in Appender, Replace(a)
      PROVE  (OneAtATime /\ NamesApart /\ ViewCurrent /\ Told)'
  <2>1. pc[a] = "replacing" /\ pc' = [pc EXCEPT ![a] = "done"]
    BY <1>7 DEF Replace
  <2>2. /\ tmp # NoFile /\ tmp # chain /\ data[tmp] = text[a]
        /\ text[a] = Append(OnDisk, NewRecord(a))
        /\ OnDisk \in File /\ NewRecord(a) \in Piece
    BY <1>a, <2>1, NewRecordType DEF ViewCurrent, NamesApart, TypeOK, OnDisk
  <2>3. /\ outcome' = [outcome EXCEPT ![a] = "ok"] /\ chain' = tmp /\ tmp' = NoFile
        /\ UNCHANGED <<alone, sound, prev, text, fd, data>>
    BY <1>7, <2>2 DEF Replace
  <2>4. OnDisk' = Append(OnDisk, NewRecord(a))
    BY <2>2, <2>3 DEF OnDisk
  <2>5. \A b \in Appender \ {a} : ~InProgress(b)
    BY <1>a, <2>1 DEF OneAtATime, TypeOK
  <2>6. OneAtATime'
    BY <1>a, <2>1, <2>5 DEF OneAtATime, TypeOK
  <2>7. NamesApart'
    BY <1>a, <2>1, <2>3, <2>2, InodesDiffer DEF NamesApart, TypeOK, Inode
  <2>8. ViewCurrent'
    BY <1>a, <2>1, <2>5 DEF ViewCurrent, TypeOK
  <2>9. Told'
    <3> DEFINE g == Append(OnDisk, NewRecord(a))
               m == Len(OnDisk)
    <3>1. /\ m \in Nat /\ Len(g) = m + 1 /\ g[m + 1] = NewRecord(a)
          /\ \A k \in 1 .. m : g[k] = OnDisk[k]
      BY <2>2, AppendFacts, FileFacts
    <3>2. g[m + 1] # Malformed
      <4>1. Acceptable(text[a])
        BY <2>1 DEF FullInv, VerifiedText
      <4>2. m + 1 \in 1 .. Len(g)
        BY <3>1
      <4>. QED  BY <2>2, <4>1, <4>2 DEF Acceptable, Parses
    <3>3. NewRecord(a).id = a
      BY DEF NewRecord
    <3>4. OnDisk' = g
      BY <2>4
    <3> HIDE DEF g
    <3>5. \A b \in Appender :
            OnChain(b) <=> \E k \in 1 .. m : g[k] # Malformed /\ g[k].id = b
      BY <3>1 DEF OnChain, m
    <3> HIDE DEF m
    <3>6. \A b \in Appender :
            OnChain(b)' <=> \E k \in 1 .. m + 1 : g[k] # Malformed /\ g[k].id = b
      BY <3>1, <3>4 DEF OnChain
    <3>7. \A k : k \in 1 .. m + 1 <=> k \in 1 .. m \/ k = m + 1
      BY <3>1
    <3>8. \A b \in Appender : OnChain(b)' <=> OnChain(b) \/ b = a
      BY <3>1, <3>2, <3>3, <3>5, <3>6, <3>7
    <3>. QED  BY <1>a, <2>1, <2>3, <3>8 DEF Told, TypeOK
  <2>. QED  BY <2>6, <2>7, <2>8, <2>9
<1>8. ASSUME NEW a \in Appender, Crash(a)
      PROVE  (OneAtATime /\ NamesApart /\ ViewCurrent /\ Told)'
  <2>1. /\ InProgress(a) /\ pc' = [pc EXCEPT ![a] = "crashed"]
        /\ UNCHANGED <<alone, sound, prev, text, fd, outcome, chain, tmp, data>>
    BY <1>8 DEF Crash
  <2>2. OnDisk' = OnDisk /\ \A b \in Appender : OnChain(b)' <=> OnChain(b)
    BY <2>1, DiskUnchanged
  <2>3. \A b \in Appender \ {a} : ~InProgress(b)
    BY <1>a, <2>1 DEF OneAtATime, TypeOK
  <2>4. OneAtATime' /\ NamesApart' /\ ViewCurrent'
    BY <1>a, <2>1, <2>3 DEF OneAtATime, NamesApart, ViewCurrent, TypeOK
  <2>5. Told'
    BY <1>a, <2>1, <2>2 DEF Told, TypeOK
  <2>. QED  BY <2>4, <2>5
<1>9. CASE UNCHANGED vars
  BY <1>a, <1>9, DiskUnchanged DEF vars, OneAtATime, NamesApart, ViewCurrent, Told,
     NewRecord, TailHash, OnDisk
<1>. QED
  BY <1>1, <1>2, <1>3, <1>4, <1>5, <1>6, <1>7, <1>8, <1>9 DEF Next

LEMMA FullInvariant == Spec => []FullInv
<1>1. Init => FullInv
  BY InitTypeOK, InitAlone DEF FullInv, Init, VerifiedText
<1>2. FullInv /\ [Next]_vars => FullInv'
  BY StepTypeOK, StepVerified, StepAlone DEF FullInv
<1>. QED  BY <1>1, <1>2, PTL DEF Spec

\* When calls do not overlap, a caller is told "ok" exactly when its record is on
\* the chain, whatever other calls failed, died or left behind.
THEOREM CallersToldTheTruth == Spec => []ReportsTruth
<1>1. FullInv => ReportsTruth
  BY DEF FullInv, AloneInv, Told, ReportsTruth
<1>. QED  BY <1>1, FullInvariant, PTL

\* Only a rename changes the chain file.
LEMMA DiskStable ==
  ASSUME FullInv, alone, [Next]_vars, \A a \in Appender : ~Replace(a)
  PROVE  OnDisk' = OnDisk
<1>1. ASSUME NEW a \in Appender, Begin(a) \/ ReadRecords(a) \/ ReadText(a) \/ Crash(a)
      PROVE  OnDisk' = OnDisk
  BY <1>1 DEF Begin, ReadRecords, ReadText, Crash, OnDisk
<1>2. ASSUME NEW a \in Appender, OpenTmp(a) PROVE OnDisk' = OnDisk
  <2>1. tmp # chain /\ chain # a /\ chain \in Inode
    BY <1>2 DEF FullInv, AloneInv, NamesApart, Unopened, OpenTmp, TypeOK
  <2>. QED  BY <1>2, <2>1 DEF OpenTmp, OnDisk, FullInv, TypeOK
<1>3. ASSUME NEW a \in Appender, WriteTmp(a) \/ WriteFails(a) PROVE OnDisk' = OnDisk
  <2>1. fd[a] # chain /\ chain \in Inode /\ data \in [Inode -> File]
    BY <1>3 DEF FullInv, AloneInv, NamesApart, ViewCurrent, TypeOK, WriteTmp, WriteFails
  <2>2. chain' = chain /\ data'[chain] = data[chain]
    BY <1>3, <2>1 DEF WriteTmp, WriteFails
  <2>. QED  BY <2>2 DEF OnDisk
<1>4. CASE UNCHANGED vars
  BY <1>4 DEF vars, OnDisk
<1>. QED  BY <1>1, <1>2, <1>3, <1>4 DEF Next

\* What a rename does: the chain was acceptable, and one good linked record is
\* added to it.
LEMMA ReplaceFacts ==
  ASSUME FullInv, alone, NEW a \in Appender, Replace(a)
  PROVE  /\ OnDisk' = Append(OnDisk, NewRecord(a))
         /\ Acceptable(OnDisk)
         /\ NewRecord(a) = [id |-> a, prev |-> TailHash(OnDisk), good |-> TRUE]
<1>1. pc[a] = "replacing" /\ TypeOK /\ VerifiedText /\ ViewCurrent
  BY DEF FullInv, AloneInv, Replace
<1>2. /\ tmp # NoFile /\ data[tmp] = text[a] /\ OnDisk # << >>
      /\ prev[a] = TailHash(OnDisk)
      /\ text[a] = Append(OnDisk, NewRecord(a))
      /\ OnDisk \in File /\ NewRecord(a) \in Piece
  BY <1>1, NewRecordType DEF ViewCurrent, TypeOK, OnDisk, Planned
<1>3. OnDisk' = Append(OnDisk, NewRecord(a))
  BY <1>2 DEF Replace, OnDisk
<1>4. Acceptable(Append(OnDisk, NewRecord(a)))
  BY <1>1, <1>2 DEF VerifiedText
<1>5. Acceptable(OnDisk) /\ NewRecord(a).good
  BY <1>2, <1>4, AcceptablePrefix
<1>6. sound[a] = TRUE
  BY <1>1, <1>5 DEF NewRecord, TypeOK
<1>. QED  BY <1>2, <1>3, <1>5, <1>6 DEF NewRecord

LEMMA StepRefusals ==
  FullInv /\ RefusalsJustified /\ [Next]_vars => RefusalsJustified'
<1> SUFFICES ASSUME FullInv, RefusalsJustified, [Next]_vars, alone,
                    NEW b \in Appender, outcome'[b] = "refused"
             PROVE  ~sound'[b] \/ ~Acceptable(OnDisk')
  BY AloneFixed DEF RefusalsJustified, Acceptable, Parses, Verifies
<1>a. TypeOK /\ ViewCurrent /\ OnDisk \in File /\ sound' = sound
  BY DEF FullInv, AloneInv, TypeOK, OnDisk, Next, vars, Begin, ReadRecords, ReadText,
         OpenTmp, WriteTmp, WriteFails, Replace, Crash
<1>1. ASSUME NEW a \in Appender, Replace(a) PROVE ~sound'[b] \/ ~Acceptable(OnDisk')
  <2>1. Acceptable(OnDisk)
    BY <1>1, ReplaceFacts
  <2>2. outcome[b] = "refused"
    BY <1>a, <1>1 DEF Replace, TypeOK
  <2>. QED  BY <1>a, <2>1, <2>2 DEF RefusalsJustified
<1>2. CASE \A a \in Appender : ~Replace(a)
  <2>1. OnDisk' = OnDisk
    BY <1>2, DiskStable
  <2>2. CASE outcome[b] = "refused"
    BY <1>a, <2>1, <2>2 DEF RefusalsJustified
  <2>3. CASE outcome[b] # "refused"
    <3>1. ReadRecords(b) \/ ReadText(b)
      BY <1>a, <1>2, <2>3 DEF Next, vars, Begin, ReadRecords, Refuse, ReadText, OpenTmp,
                              WriteTmp, WriteFails, Crash, TypeOK
    <3>2. CASE ReadRecords(b)
      BY <2>1, <2>3, <3>2 DEF ReadRecords, Acceptable
    <3>3. CASE ReadText(b)
      <4>1. ~(OnDisk # << >> /\ Acceptable(Append(OnDisk, NewRecord(b))))
        BY <2>3, <3>3 DEF ReadText
      <4>2. NewRecord(b) \in Record /\ NewRecord(b).good = sound[b]
            /\ NewRecord(b).prev = prev[b]
        BY <1>a, NewRecordType DEF NewRecord
      <4>3. prev[b] = TailHash(OnDisk)
        BY <1>a, <3>3 DEF ViewCurrent, ReadText
      <4>4. ~sound[b] \/ ~Acceptable(OnDisk)
        <5>1. Acceptable(OnDisk) => OnDisk # << >>
          BY DEF Acceptable
        <5>. QED  BY <1>a, <4>1, <4>2, <4>3, <5>1, AcceptableExtended
      <4>. QED  BY <1>a, <2>1, <4>4
    <3>. QED  BY <3>1, <3>2, <3>3
  <2>. QED  BY <2>2, <2>3
<1>. QED  BY <1>1, <1>2

\* When calls do not overlap, a good record for a good chain is never refused,
\* whatever crashes and short writes came before.
THEOREM NoIdleRefusal == Spec => []RefusalsJustified
<1>1. Init => RefusalsJustified
  BY DEF Init, RefusalsJustified
<1>. QED  BY <1>1, StepRefusals, FullInvariant, PTL DEF Spec

\* The rules ChainFile reads are the ones NotariseAppend reads.
LEMMA SameRules ==
  ASSUME NEW f
  PROVE  /\ Abstract!Acceptable(f) <=> Acceptable(f)
         /\ Abstract!TailHash(f) = TailHash(f)
BY DEF Abstract!Acceptable, Acceptable, Abstract!Parses, Parses, Abstract!Verifies,
       Verifies, Abstract!TailHash, TailHash

\* A rename puts one linked record on an acceptable chain.
LEMMA ReplaceGrows ==
  ASSUME FullInv, alone, NEW a \in Appender, Replace(a)
  PROVE  Abstract!Next
<1>1. ~OnChain(a)
  BY DEF FullInv, AloneInv, Told, Replace
<1>2. \A k \in 1 .. Len(OnDisk) : OnDisk[k].id # a
  BY <1>1, ReplaceFacts DEF OnChain, Acceptable, Parses
<1>3. alone' = alone
  BY DEF Replace
<1>4. Abstract!Grow(a)
  BY <1>2, <1>3, ReplaceFacts, SameRules DEF Abstract!Grow
<1>. QED  BY <1>4 DEF Abstract!Next

\* When calls do not overlap, reading twice, signing, verifying, writing and
\* renaming, crashes and short writes included, are one step on the chain file.
THEOREM RefinesChainFile == Spec => ImplementsChainFile
<1> DEFINE disk == IF alone THEN OnDisk ELSE << >>
<1>1. Init => Abstract!Init
  <2>1. TypeOK => disk \in File
    BY FileFacts DEF TypeOK, OnDisk
  <2>2. Abstract!File = File
    BY DEF Abstract!File, File, Abstract!Record, Record, Abstract!Hash, Hash,
           Abstract!Id, Id
  <2>. QED  BY <2>1, <2>2, InitTypeOK DEF Abstract!Init
<1>2. ASSUME FullInv, [Next]_vars PROVE [Abstract!Next]_disk
  <2>1. alone' = alone
    BY <1>2, AloneFixed
  <2>2. CASE ~alone
    BY <2>1, <2>2
  <2>3. CASE alone
    <3>1. ASSUME NEW a \in Appender, Replace(a) PROVE [Abstract!Next]_disk
      BY <1>2, <2>3, <3>1, ReplaceGrows
    <3>2. CASE \A a \in Appender : ~Replace(a)
      BY <1>2, <2>1, <2>3, <3>2, DiskStable
    <3>. QED  BY <3>1, <3>2
  <2>. QED  BY <2>2, <2>3
<1>. QED
  BY <1>1, <1>2, FullInvariant, PTL DEF Spec, ImplementsChainFile, Abstract!Spec

=============================================================================
