-------------------------- MODULE Docuseal_proofs --------------------------
(***************************************************************************)
(* Theorems about signing with DocuSeal, for any number of calls: about    *)
(* DocusealWebhook, the records of deliveries, dispatches and bin/notarise *)
(* on one file, and about DocumentUpload, the way of any document of any   *)
(* length from the file to the submission.                                 *)
(***************************************************************************)
EXTENDS DocusealWebhook, DocumentUpload, SequenceTheorems, FiniteSetTheorems,
        WellFoundedInduction, TLAPS

-----------------------------------------------------------------------------
(***************************************************************************)
(* Files and hashes.                                                       *)
(***************************************************************************)

\* The last closed block is determined when there is a greatest one.  No set of
\* naturals is shown to have a maximum here: the invariant carries it.
Closed(f) == {k \in DOMAIN f : f[k] # Torn}
HasLast(f) ==
  Closed(f) # {} => \E k \in Closed(f) : \A j \in Closed(f) : j <= k

\* What an append leaves at each place of a file.
LEMMA AppendFacts ==
  ASSUME NEW f \in Seq(Block), NEW b \in Block
  PROVE  /\ Append(f, b) \in Seq(Block)
         /\ Len(f) \in Nat
         /\ Len(Append(f, b)) = Len(f) + 1
         /\ DOMAIN f = 1 .. Len(f)
         /\ DOMAIN Append(f, b) = 1 .. (Len(f) + 1)
         /\ \A k \in 1 .. Len(f) : Append(f, b)[k] = f[k]
         /\ Append(f, b)[Len(f) + 1] = b
BY AppendProperties, LenProperties

\* Blocks are of four kinds, told apart.
LEMMA BlockFacts ==
  /\ \A b \in Block : b # Torn /\ b # Bad => b \in Notarised \/ b \in Foreign
  /\ \A b \in Foreign : b \in Block /\ b # Torn /\ b # Bad /\ b \notin Notarised
  /\ \A b \in Notarised : b \in Block /\ b # Torn /\ b \notin Foreign
  /\ Torn \in Block /\ Torn \notin Foreign /\ Torn \notin Notary
  /\ Bad \in Block /\ Bad # Torn
  /\ Notary \subseteq Notarised
BY BlocksDiffer DEF Block, Notarised

\* Appending a block keeps the last closed one determined.
LEMMA HasLastAppend ==
  ASSUME NEW f \in Seq(Block), HasLast(f), NEW b \in Block
  PROVE  HasLast(Append(f, b))
<1> DEFINE g == Append(f, b)
           n == Len(f)
<1>1. /\ n \in Nat
      /\ DOMAIN f = 1 .. n /\ DOMAIN g = 1 .. n + 1
      /\ \A k \in 1 .. n : g[k] = f[k]
      /\ g[n + 1] = b
  BY AppendFacts
<1> HIDE DEF g, n
<1>2. CASE b = Torn
  <2>1. Closed(g) = Closed(f)
    BY <1>1, <1>2 DEF Closed
  <2>. QED  BY <2>1 DEF HasLast, g
<1>3. CASE b # Torn
  <2>1. n + 1 \in Closed(g)
    BY <1>1, <1>3 DEF Closed
  <2>2. \A j \in Closed(g) : j <= n + 1
    BY <1>1 DEF Closed
  <2>. QED  BY <2>1, <2>2 DEF HasLast, g
<1>. QED  BY <1>2, <1>3

\* A file all of whose blocks are closed has a last one.
LEMMA HasLastClosed ==
  ASSUME NEW f \in Seq(Block), \A k \in 1 .. Len(f) : f[k] # Torn
  PROVE  HasLast(f)
<1>1. DOMAIN f = 1 .. Len(f) /\ Len(f) \in Nat
  BY LenProperties
<1>2. Closed(f) = 1 .. Len(f)
  BY <1>1 DEF Closed
<1>. QED  BY <1>1, <1>2 DEF HasLast

LEMMA LastClosedFacts ==
  ASSUME NEW f \in Seq(Block), HasLast(f)
  PROVE  \/ LastClosed(f) = 0
         \/ LastClosed(f) \in 1 .. Len(f) /\ f[LastClosed(f)] # Torn
<1>1. DOMAIN f = 1 .. Len(f)
  BY LenProperties
<1>2. CASE Closed(f) = {}
  BY <1>2 DEF LastClosed, Closed
<1>3. CASE Closed(f) # {}
  <2>1. LastClosed(f) = CHOOSE k \in Closed(f) : \A j \in Closed(f) : j <= k
    BY <1>3 DEF LastClosed, Closed
  <2>2. \E k \in Closed(f) : \A j \in Closed(f) : j <= k
    BY <1>3 DEF HasLast
  <2>3. LastClosed(f) \in Closed(f)
    BY <2>1, <2>2, Zenon
  <2>. QED  BY <1>1, <2>3 DEF Closed
<1>. QED  BY <1>2, <1>3

\* The hash of a readable tail is a hash.
LEMMA LastHashType ==
  ASSUME NEW f \in Seq(Block), HasLast(f), TailReadable(f)
  PROVE  LastHash(f) \in Hash
<1>1. CASE LastClosed(f) = 0
  BY <1>1, EmptySeq DEF LastHash, Genesis, Hash
<1>2. CASE LastClosed(f) # 0
  <2> DEFINE b == f[LastClosed(f)]
  <2>1. LastClosed(f) \in 1 .. Len(f) /\ b # Torn /\ b # Bad
    BY <1>2, LastClosedFacts DEF TailReadable
  <2>2. b \in Block
    BY <2>1, ElementOfSeq
  <2>3. LastHash(f) = HashOf(b)
    BY <1>2 DEF LastHash
  <2> HIDE DEF b
  <2>4. CASE b \in Notarised
    <3>1. HashOf(b) = <<b>>
      BY <2>4 DEF HashOf
    <3>2. b \in Content \cup Notarised
      BY <2>4
    <3>. QED  BY <2>3, <3>1, <3>2 DEF Hash
  <2>5. CASE b \in Foreign
    <3>1. b.what \in Content \cup Notarised /\ b.prev \in Seq(Content \cup Notarised)
      BY <2>5 DEF Foreign, Hash
    <3>2. HashOf(b) = Append(b.prev, b.what)
      BY <2>5, BlockFacts DEF HashOf
    <3>. QED  BY <2>3, <3>1, <3>2, AppendProperties DEF Hash
  <2>. QED  BY <2>1, <2>2, <2>4, <2>5, BlockFacts
<1>. QED  BY <1>1, <1>2

-----------------------------------------------------------------------------
(***************************************************************************)
(* Types.                                                                  *)
(***************************************************************************)

Accepted == {"reading", "writing", "answering"}

\* Whoever goes on to the file has an event to record.
HasEvent == \A d \in Delivery : pc[d] \in Accepted => event[d] \in Event

\* A call of bin/notarise has seen nothing but records of its own kind.
HeldNotarised ==
  \A n \in Notary : pc[n] = "replacing" =>
    \A k \in 1 .. Len(held[n]) : held[n][k] \in Notarised

TypeInv == TypeOK /\ HasEvent /\ HeldNotarised /\ HasLast(file)

LEMMA CallFacts ==
  /\ Delivery \subseteq Caller /\ Dispatch \subseteq Caller
  /\ Caller \subseteq Call /\ Notary \subseteq Call
  /\ \A c \in Caller : c \notin Notary
  /\ \A c \in Caller : c \in Dispatch <=> c \notin Delivery
BY CallsDiffer DEF Call, Caller

\* What a caller that writes has to say is content.
LEMMA RecordType ==
  ASSUME TypeOK, HasEvent, NEW c \in Caller, pc[c] \in Accepted
  PROVE  RecordOf(c) \in Foreign
<1>1. prev[c] \in Hash
  BY DEF TypeOK
<1>2. Says(c) \in Content
  <2>1. CASE c \in Dispatch
    BY <2>1 DEF Says, OwnContent, Content
  <2>2. CASE c \notin Dispatch
    <3>1. event[c] \in Event
      BY <2>2, CallFacts DEF HasEvent
    <3>. QED  BY <2>2, <3>1 DEF Says, Event, Content
  <2>. QED  BY <2>1, <2>2
<1>. QED  BY <1>1, <1>2 DEF RecordOf, Foreign

\* The file bin/notarise puts in place.
LEMMA ReplacedType ==
  ASSUME NEW f \in Seq(Block), NEW n \in Notary,
         \A k \in 1 .. Len(f) : f[k] \in Notarised
  PROVE  /\ Append(f, n) \in Seq(Block)
         /\ \A k \in 1 .. Len(Append(f, n)) : Append(f, n)[k] \in Notarised
         /\ HasLast(Append(f, n))
<1>1. n \in Block /\ n \in Notarised
  BY BlockFacts
<1>2. /\ Append(f, n) \in Seq(Block)
      /\ \A k \in 1 .. Len(Append(f, n)) : Append(f, n)[k] \in Notarised
  BY <1>1, AppendFacts
<1>. QED  BY <1>2, HasLastClosed, BlockFacts

LEMMA InitTyped == Init => TypeInv
<1> SUFFICES ASSUME Init PROVE TypeInv
  OBVIOUS
<1>1. Seed \in Block /\ Bad \in Block
  BY BlockFacts DEF Notarised, Block
<1>2. \A b \in Block : <<b>> \in Seq(Block) /\ Len(<<b>>) = 1 /\ <<b>>[1] = b
  OBVIOUS
<1>3. << >> \in Seq(Block) /\ Len(<< >>) = 0
  BY EmptySeq
<1>4. file \in Seq(Block)
  BY <1>1, <1>2, <1>3 DEF Init
<1>5. HasLast(file)
  <2>1. Seed # Torn /\ Bad # Torn
    BY BlockFacts DEF Notarised
  <2>2. \A k \in 1 .. Len(file) : file[k] # Torn
    BY <1>1, <1>2, <1>3, <2>1 DEF Init
  <2>. QED  BY <1>4, <2>2, HasLastClosed
<1>6. Genesis \in Hash
  BY EmptySeq DEF Genesis, Hash
<1>7. TypeOK
  BY <1>3, <1>4, <1>6 DEF Init, TypeOK, PcValue, Outcome
<1>8. HasEvent /\ HeldNotarised
  BY CallFacts DEF Init, HasEvent, HeldNotarised, Accepted
<1>. QED  BY <1>5, <1>7, <1>8 DEF TypeInv

\* What Goto and Tell do to the two functions they change.
LEMMA GotoType ==
  ASSUME TypeOK, NEW c \in Call, NEW where \in PcValue, Goto(c, where)
  PROVE  /\ pc' \in [Call -> PcValue]
         /\ pc'[c] = where
         /\ \A b \in Call : b # c => pc'[b] = pc[b]
BY DEF TypeOK, Goto

LEMMA TellType ==
  ASSUME TypeOK, NEW c \in Call, NEW what \in Outcome, Tell(c, what)
  PROVE  /\ pc' \in [Call -> PcValue]
         /\ pc'[c] = "done"
         /\ \A b \in Call : b # c => pc'[b] = pc[b]
         /\ outcome' \in [Call -> Outcome]
         /\ outcome'[c] = what
         /\ \A b \in Call : b # c => outcome'[b] = outcome[b]
BY DEF TypeOK, Goto, Tell, PcValue

LEMMA OsErrorType ==
  ASSUME TypeOK, NEW c \in Caller, OsError(c)
  PROVE  /\ pc' \in [Call -> PcValue]
         /\ pc'[c] = "done"
         /\ \A b \in Call : b # c => pc'[b] = pc[b]
         /\ outcome' \in [Call -> Outcome]
         /\ outcome'[c] = OsAnswer(c)
         /\ \A b \in Call : b # c => outcome'[b] = outcome[b]
<1>1. OsAnswer(c) \in Outcome
  BY DEF OsAnswer, Outcome
<1>. QED  BY <1>1, CallFacts, TellType DEF OsError

\* Every step moves one call, and says which way it went.
Moved(c) ==
  /\ pc' \in [Call -> PcValue]
  /\ outcome' \in [Call -> Outcome]
  /\ \A b \in Call : b # c => pc'[b] = pc[b] /\ outcome'[b] = outcome[b]

LEMMA GotoMoves ==
  ASSUME TypeOK, NEW c \in Call, NEW where \in PcValue, Goto(c, where), UNCHANGED outcome
  PROVE  Moved(c) /\ pc'[c] = where /\ outcome'[c] = outcome[c]
BY GotoType DEF Moved, TypeOK

LEMMA TellMoves ==
  ASSUME TypeOK, NEW c \in Call, NEW what \in Outcome, Tell(c, what)
  PROVE  Moved(c) /\ pc'[c] = "done" /\ outcome'[c] = what
BY TellType DEF Moved

LEMMA OsErrorMoves ==
  ASSUME TypeOK, NEW c \in Caller, OsError(c)
  PROVE  /\ Moved(c) /\ pc'[c] = "done"
         /\ outcome'[c] = OsAnswer(c)
BY OsErrorType DEF Moved

-----------------------------------------------------------------------------
(***************************************************************************)
(* What each action does to the calls, for the proofs to build on.         *)
(***************************************************************************)

LEMMA ReceiveDoes ==
  ASSUME TypeOK, NEW d \in Delivery, Receive(d)
  PROVE  /\ Moved(d) /\ MayStart(d)
         /\ \/ pc'[d] = "reading" /\ outcome'[d] = outcome[d] /\ event'[d] \in Event
            \/ pc'[d] = "done" /\ outcome'[d] = "refused"
         /\ event' \in [Delivery -> Event \cup {NoEvent}]
         /\ \A b \in Delivery : b # d => event'[b] = event[b]
         /\ UNCHANGED <<alone, keyed, emitting, prev, held, position, submissions, file>>
<1>1. PICK e \in Event \cup {NoEvent},
           header \in {"absent", "right", "wrong"} :
        LET verified == header = "absent" \/ (d \in keyed /\ header = "right")
            accepted == verified /\ e # NoEvent
        IN /\ MayStart(d)
           /\ \/ accepted /\ Goto(d, "reading") /\ UNCHANGED outcome
              \/ ~accepted /\ Tell(d, "refused")
           /\ event' = [event EXCEPT ![d] = IF accepted THEN e ELSE NoEvent]
           /\ UNCHANGED <<alone, keyed, emitting, prev, held, position, submissions, file>>
  BY DEF Receive
<1> DEFINE accepted == (header = "absent" \/ (d \in keyed /\ header = "right"))
                         /\ e # NoEvent
<1>2. d \in Call /\ "reading" \in PcValue /\ "refused" \in Outcome
  BY CallFacts DEF PcValue, Outcome
<1>3. event' = [event EXCEPT ![d] = IF accepted THEN e ELSE NoEvent]
  BY <1>1
<1>4. (IF accepted THEN e ELSE NoEvent) \in Event \cup {NoEvent}
  OBVIOUS
<1>5. /\ event' \in [Delivery -> Event \cup {NoEvent}]
      /\ \A b \in Delivery : b # d => event'[b] = event[b]
      /\ accepted => event'[d] \in Event
  BY <1>3, <1>4 DEF TypeOK
<1>6. CASE accepted
  <2>1. Goto(d, "reading") /\ UNCHANGED outcome
    BY <1>1, <1>6
  <2>2. Moved(d) /\ pc'[d] = "reading" /\ outcome'[d] = outcome[d]
    BY <1>2, <2>1, GotoMoves
  <2>. QED  BY <1>1, <1>5, <1>6, <2>2
<1>7. CASE ~accepted
  <2>1. Tell(d, "refused")
    BY <1>1, <1>7
  <2>2. Moved(d) /\ pc'[d] = "done" /\ outcome'[d] = "refused"
    BY <1>2, <2>1, TellMoves
  <2>. QED  BY <1>1, <1>5, <2>2
<1>. QED  BY <1>6, <1>7

LEMMA CreateTemplateDoes ==
  ASSUME TypeOK, NEW c \in Dispatch, CreateTemplate(c)
  PROVE  /\ Moved(c) /\ MayStart(c)
         /\ \/ pc'[c] = "submitting" /\ outcome'[c] = outcome[c]
            \/ pc'[c] = "done" /\ outcome'[c] = "failed"
         /\ UNCHANGED <<alone, keyed, emitting, event, prev, held, position, submissions, file>>
<1>1. c \in Call /\ "submitting" \in PcValue /\ "failed" \in Outcome
  BY CallFacts DEF PcValue, Outcome
<1>. QED  BY <1>1, GotoMoves, TellMoves DEF CreateTemplate

LEMMA CreateSubmissionDoes ==
  ASSUME TypeOK, NEW c \in Dispatch, CreateSubmission(c)
  PROVE  /\ Moved(c) /\ pc[c] = "submitting"
         /\ \/ pc'[c] = "reading" /\ outcome'[c] = outcome[c] /\ c \in submissions'
            \/ pc'[c] = "done" /\ outcome'[c] = "unsigned" /\ c \in submissions'
            \/ pc'[c] = "done" /\ outcome'[c] = "failed"
         /\ submissions \subseteq submissions' /\ submissions' \subseteq Dispatch
         /\ UNCHANGED <<alone, keyed, emitting, event, prev, held, position, file>>
<1>1. /\ c \in Call /\ "reading" \in PcValue
      /\ "failed" \in Outcome /\ "unsigned" \in Outcome
  BY CallFacts DEF PcValue, Outcome
<1>2. /\ pc[c] = "submitting"
      /\ submissions \subseteq submissions' /\ submissions' \subseteq Dispatch
      /\ UNCHANGED <<alone, keyed, emitting, event, prev, held, position, file>>
  BY DEF CreateSubmission, TypeOK
<1>3. \/ c \in submissions' /\ Goto(c, "reading") /\ UNCHANGED outcome
      \/ c \in submissions' /\ Tell(c, "unsigned")
      \/ Tell(c, "failed")
  BY DEF CreateSubmission
<1>. QED  BY <1>1, <1>2, <1>3, GotoMoves, TellMoves

LEMMA ReadTailDoes ==
  ASSUME TypeOK, HasLast(file), NEW c \in Caller, ReadTail(c)
  PROVE  /\ Moved(c) /\ pc[c] = "reading"
         /\ \/ /\ pc'[c] = "writing" /\ outcome'[c] = outcome[c]
               /\ prev'[c] = LastHash(file) /\ TailReadable(file)
            \/ /\ pc'[c] = "done"
               /\ outcome'[c] \in {"failed", "unsigned"}
               /\ outcome'[c] = "unsigned" => c \in Dispatch
         /\ prev' \in [Caller -> Hash]
         /\ \A b \in Caller : b # c => prev'[b] = prev[b]
         /\ UNCHANGED <<alone, keyed, emitting, event, held, position, submissions, file>>
<1>1. c \in Call /\ "writing" \in PcValue /\ "failed" \in Outcome
  BY CallFacts DEF PcValue, Outcome
<1>2. /\ pc[c] = "reading"
      /\ UNCHANGED <<alone, keyed, emitting, event, held, position, submissions, file>>
  BY DEF ReadTail
<1>3. CASE /\ TailReadable(file)
           /\ prev' = [prev EXCEPT ![c] = LastHash(file)]
           /\ Goto(c, "writing")
           /\ UNCHANGED outcome
  <2>1. LastHash(file) \in Hash
    BY <1>3, LastHashType DEF TypeOK
  <2>2. /\ prev' \in [Caller -> Hash] /\ prev'[c] = LastHash(file)
        /\ \A b \in Caller : b # c => prev'[b] = prev[b]
    BY <1>3, <2>1 DEF TypeOK
  <2>3. Moved(c) /\ pc'[c] = "writing" /\ outcome'[c] = outcome[c]
    BY <1>1, <1>3, GotoMoves
  <2>. QED  BY <1>2, <1>3, <2>2, <2>3
<1>4. CASE Tell(c, "failed") /\ UNCHANGED prev
  <2>1. Moved(c) /\ pc'[c] = "done" /\ outcome'[c] = "failed"
    BY <1>1, <1>4, TellMoves
  <2>. QED  BY <1>2, <1>4, <2>1 DEF TypeOK
<1>5. CASE OsError(c) /\ UNCHANGED prev
  <2>1. Moved(c) /\ pc'[c] = "done"
          /\ outcome'[c] = OsAnswer(c)
    BY <1>5, OsErrorMoves
  <2>. QED  BY <1>2, <1>5, <2>1 DEF TypeOK, OsAnswer
<1>. QED  BY <1>3, <1>4, <1>5 DEF ReadTail

LEMMA WriteBlockDoes ==
  ASSUME TypeOK, NEW c \in Caller, WriteBlock(c)
  PROVE  /\ Moved(c) /\ pc[c] = "writing"
         /\ pc'[c] = "answering" /\ outcome'[c] = outcome[c]
         /\ file' = Append(file, RecordOf(c))
         /\ UNCHANGED <<alone, keyed, emitting, event, prev, held, position, submissions>>
<1>1. c \in Call /\ "answering" \in PcValue
  BY CallFacts DEF PcValue
<1>. QED  BY <1>1, GotoMoves DEF WriteBlock

LEMMA WriteFailsDoes ==
  ASSUME TypeOK, NEW c \in Caller, WriteFails(c)
  PROVE  /\ Moved(c) /\ pc[c] = "writing" /\ pc'[c] = "raised"
         /\ outcome'[c] \in {"failed", "unsigned"}
         /\ outcome'[c] = "unsigned" => c \in Dispatch
         /\ \/ file' = file
            \/ file' = Append(file, Torn)
            \/ file' = Append(file, RecordOf(c))
         /\ UNCHANGED <<alone, keyed, emitting, event, prev, held, position, submissions>>
<1>1. c \in Call /\ "raised" \in PcValue /\ OsAnswer(c) \in Outcome
  BY CallFacts DEF PcValue, OsAnswer, Outcome
<1>2. /\ pc' \in [Call -> PcValue] /\ pc'[c] = "raised"
      /\ \A b \in Call : b # c => pc'[b] = pc[b]
  BY <1>1, GotoType DEF WriteFails
<1>3. /\ outcome' \in [Call -> Outcome] /\ outcome'[c] = OsAnswer(c)
      /\ \A b \in Call : b # c => outcome'[b] = outcome[b]
  BY <1>1 DEF WriteFails, TypeOK
<1>. QED  BY <1>2, <1>3 DEF WriteFails, Moved, OsAnswer

LEMMA CountBlocksDoes ==
  ASSUME TypeOK, NEW d \in Delivery, CountBlocks(d)
  PROVE  /\ Moved(d) /\ pc[d] = "answering" /\ pc'[d] = "done" /\ outcome'[d] = "ok"
         /\ position' \in [Delivery -> Nat] /\ position'[d] = Len(file)
         /\ \A b \in Delivery : b # d => position'[b] = position[b]
         /\ UNCHANGED <<alone, keyed, emitting, event, prev, held, submissions, file>>
<1>1. d \in Call /\ "ok" \in Outcome
  BY CallFacts DEF Outcome
<1>2. Len(file) \in Nat
  BY LenProperties DEF TypeOK
<1>3. Moved(d) /\ pc'[d] = "done" /\ outcome'[d] = "ok"
  BY <1>1, TellMoves DEF CountBlocks
<1>. QED  BY <1>2, <1>3 DEF CountBlocks, TypeOK

LEMMA CountFailsDoes ==
  ASSUME TypeOK, NEW d \in Delivery, CountFails(d)
  PROVE  /\ Moved(d) /\ pc[d] = "answering" /\ pc'[d] = "done" /\ outcome'[d] = "failed"
         /\ UNCHANGED <<alone, keyed, emitting, event, prev, held, position, submissions, file>>
<1>1. d \in Caller /\ d \notin Dispatch
  BY CallFacts
<1>. QED  BY <1>1, OsErrorMoves DEF CountFails, OsAnswer

LEMMA PrintResultDoes ==
  ASSUME TypeOK, NEW c \in Dispatch, PrintResult(c)
  PROVE  /\ Moved(c) /\ pc[c] = "answering" /\ pc'[c] = "done" /\ outcome'[c] = "signed"
         /\ UNCHANGED <<alone, keyed, emitting, event, prev, held, position, submissions, file>>
<1>1. c \in Call /\ "signed" \in Outcome
  BY CallFacts DEF Outcome
<1>. QED  BY <1>1, TellMoves DEF PrintResult

LEMMA NotariseReadDoes ==
  ASSUME TypeOK, NEW n \in Notary, NotariseRead(n)
  PROVE  /\ Moved(n) /\ MayStart(n)
         /\ \/ /\ pc'[n] = "replacing" /\ outcome'[n] = outcome[n]
               /\ held'[n] = file
               /\ \A k \in 1 .. Len(file) : file[k] \in Notarised
            \/ pc'[n] = "done" /\ outcome'[n] = "refused"
         /\ held' \in [Notary -> Seq(Block)]
         /\ \A m \in Notary : m # n => held'[m] = held[m]
         /\ UNCHANGED <<alone, keyed, emitting, event, prev, position, submissions, file>>
<1>1. n \in Call /\ "replacing" \in PcValue /\ "refused" \in Outcome
  BY CallFacts DEF PcValue, Outcome
<1>2. MayStart(n)
      /\ UNCHANGED <<alone, keyed, emitting, event, prev, position, submissions, file>>
  BY DEF NotariseRead
<1>3. CASE /\ NotaryReads(file)
           /\ held' = [held EXCEPT ![n] = file]
           /\ Goto(n, "replacing")
           /\ UNCHANGED outcome
  <2>1. Moved(n) /\ pc'[n] = "replacing" /\ outcome'[n] = outcome[n]
    BY <1>1, <1>3, GotoMoves
  <2>2. /\ held' \in [Notary -> Seq(Block)] /\ held'[n] = file
        /\ \A m \in Notary : m # n => held'[m] = held[m]
    BY <1>3 DEF TypeOK
  <2>. QED  BY <1>2, <1>3, <2>1, <2>2 DEF NotaryReads
<1>4. CASE Tell(n, "refused") /\ UNCHANGED held
  <2>1. Moved(n) /\ pc'[n] = "done" /\ outcome'[n] = "refused"
    BY <1>1, <1>4, TellMoves
  <2>. QED  BY <1>2, <1>4, <2>1 DEF TypeOK
<1>. QED  BY <1>3, <1>4 DEF NotariseRead

LEMMA NotariseReplaceDoes ==
  ASSUME TypeOK, NEW n \in Notary, NotariseReplace(n)
  PROVE  /\ Moved(n) /\ pc[n] = "replacing" /\ pc'[n] = "done" /\ outcome'[n] = "ok"
         /\ file' = Append(held[n], n)
         /\ UNCHANGED <<alone, keyed, emitting, event, prev, held, position, submissions>>
<1>1. n \in Call /\ "ok" \in Outcome
  BY CallFacts DEF Outcome
<1>. QED  BY <1>1, TellMoves DEF NotariseReplace

LEMMA KillDoes ==
  ASSUME TypeOK, NEW c \in Call, Kill(c)
  PROVE  /\ Moved(c) /\ InProgress(c) /\ pc'[c] = "dead"
         /\ outcome'[c] \in {"failed", "none"}
         /\ UNCHANGED <<alone, keyed, emitting, event, prev, held, position, submissions, file>>
<1>1. "dead" \in PcValue /\ "failed" \in Outcome /\ "none" \in Outcome
  BY DEF PcValue, Outcome
<1>2. Goto(c, "dead")
  BY DEF Kill
<1>3. /\ pc' \in [Call -> PcValue] /\ pc'[c] = "dead"
      /\ \A b \in Call : b # c => pc'[b] = pc[b]
  BY <1>1, <1>2, GotoType
<1>4. outcome' = [outcome EXCEPT ![c] = IF c \in Dispatch THEN "failed" ELSE "none"]
  BY DEF Kill
<1>5. /\ outcome' \in [Call -> Outcome] /\ outcome'[c] \in {"failed", "none"}
      /\ \A b \in Call : b # c => outcome'[b] = outcome[b]
  BY <1>1, <1>4 DEF TypeOK
<1>. QED  BY <1>3, <1>5 DEF Kill, Moved

-----------------------------------------------------------------------------
(***************************************************************************)
(* The type invariant.                                                     *)
(***************************************************************************)

LEMMA NextTyped == TypeInv /\ [Next]_vars => TypeInv'
<1> SUFFICES ASSUME TypeInv, [Next]_vars PROVE TypeInv'
  OBVIOUS
<1> USE DEF TypeInv
<1>1. ASSUME NEW d \in Delivery, Receive(d) PROVE TypeInv'
  <2>2. TypeOK'
    BY <1>1, ReceiveDoes, CallFacts DEF TypeOK, Moved
  <2>3. HasEvent'
    BY <1>1, ReceiveDoes, CallFacts DEF HasEvent, Moved, Accepted, MayStart, InProgress
  <2>4. HeldNotarised'
    BY <1>1, ReceiveDoes, CallFacts DEF HeldNotarised, Moved
  <2>5. HasLast(file)'
    BY <1>1, ReceiveDoes DEF HasLast, Closed
  <2>. QED  BY <2>2, <2>3, <2>4, <2>5
<1>2. ASSUME NEW d \in Delivery, CountBlocks(d) PROVE TypeInv'
  <2>2. TypeOK'
    BY <1>2, CountBlocksDoes, CallFacts DEF TypeOK, Moved
  <2>3. HasEvent'
    BY <1>2, CountBlocksDoes, CallFacts DEF HasEvent, Moved, Accepted, MayStart, InProgress
  <2>4. HeldNotarised'
    BY <1>2, CountBlocksDoes, CallFacts DEF HeldNotarised, Moved
  <2>5. HasLast(file)'
    BY <1>2, CountBlocksDoes DEF HasLast, Closed
  <2>. QED  BY <2>2, <2>3, <2>4, <2>5
<1>3. ASSUME NEW d \in Delivery, CountFails(d) PROVE TypeInv'
  <2>2. TypeOK'
    BY <1>3, CountFailsDoes, CallFacts DEF TypeOK, Moved
  <2>3. HasEvent'
    BY <1>3, CountFailsDoes, CallFacts DEF HasEvent, Moved, Accepted, MayStart, InProgress
  <2>4. HeldNotarised'
    BY <1>3, CountFailsDoes, CallFacts DEF HeldNotarised, Moved
  <2>5. HasLast(file)'
    BY <1>3, CountFailsDoes DEF HasLast, Closed
  <2>. QED  BY <2>2, <2>3, <2>4, <2>5
<1>4. ASSUME NEW c \in Dispatch, CreateTemplate(c) PROVE TypeInv'
  <2>2. TypeOK'
    BY <1>4, CreateTemplateDoes, CallFacts DEF TypeOK, Moved
  <2>3. HasEvent'
    BY <1>4, CreateTemplateDoes, CallFacts DEF HasEvent, Moved, Accepted, MayStart, InProgress
  <2>4. HeldNotarised'
    BY <1>4, CreateTemplateDoes, CallFacts DEF HeldNotarised, Moved
  <2>5. HasLast(file)'
    BY <1>4, CreateTemplateDoes DEF HasLast, Closed
  <2>. QED  BY <2>2, <2>3, <2>4, <2>5
<1>5. ASSUME NEW c \in Dispatch, CreateSubmission(c) PROVE TypeInv'
  <2>2. TypeOK'
    BY <1>5, CreateSubmissionDoes, CallFacts DEF TypeOK, Moved
  <2>3. HasEvent'
    BY <1>5, CreateSubmissionDoes, CallFacts DEF HasEvent, Moved, Accepted, MayStart, InProgress
  <2>4. HeldNotarised'
    BY <1>5, CreateSubmissionDoes, CallFacts DEF HeldNotarised, Moved
  <2>5. HasLast(file)'
    BY <1>5, CreateSubmissionDoes DEF HasLast, Closed
  <2>. QED  BY <2>2, <2>3, <2>4, <2>5
<1>6. ASSUME NEW c \in Caller, ReadTail(c) PROVE TypeInv'
  <2>2. TypeOK'
    BY <1>6, ReadTailDoes, CallFacts DEF TypeOK, Moved
  <2>3. HasEvent'
    BY <1>6, ReadTailDoes, CallFacts DEF HasEvent, Moved, Accepted, MayStart, InProgress
  <2>4. HeldNotarised'
    BY <1>6, ReadTailDoes, CallFacts DEF HeldNotarised, Moved
  <2>5. HasLast(file)'
    BY <1>6, ReadTailDoes DEF HasLast, Closed
  <2>. QED  BY <2>2, <2>3, <2>4, <2>5
<1>7. ASSUME NEW c \in Caller, WriteBlock(c) PROVE TypeInv'
  <2>1. file' \in Seq(Block) /\ HasLast(file')
    <3>1. RecordOf(c) \in Block
      BY <1>7, WriteBlockDoes, RecordType, BlockFacts DEF Accepted
    <3>2. file' = Append(file, RecordOf(c))
      BY <1>7, WriteBlockDoes
    <3>3. file \in Seq(Block) /\ HasLast(file)
      BY DEF TypeOK
    <3>4. Append(file, RecordOf(c)) \in Seq(Block) /\ HasLast(Append(file, RecordOf(c)))
      BY <3>1, <3>3, AppendFacts, HasLastAppend
    <3>. QED  BY <3>2, <3>4
  <2>2. TypeOK'
    BY <1>7, <2>1, WriteBlockDoes, CallFacts DEF TypeOK, Moved
  <2>3. HasEvent'
    BY <1>7, WriteBlockDoes, CallFacts DEF HasEvent, Moved, Accepted
  <2>4. HeldNotarised'
    BY <1>7, WriteBlockDoes, CallFacts DEF HeldNotarised, Moved
  <2>5. HasLast(file)'
    BY <2>1 DEF HasLast, Closed
  <2>. QED  BY <2>2, <2>3, <2>4, <2>5
<1>8. ASSUME NEW c \in Caller, WriteFails(c) PROVE TypeInv'
  <2>1. file' \in Seq(Block) /\ HasLast(file')
    <3>1. pc[c] = "writing"
          /\ (file' = file \/ \E b \in {Torn, RecordOf(c)} : file' = Append(file, b))
      BY <1>8, WriteFailsDoes
    <3>2. /\ file \in Seq(Block) /\ HasLast(file)
          /\ {Torn, RecordOf(c)} \subseteq Block
      BY <1>8, <3>1, RecordType, BlockFacts DEF TypeOK, Accepted
    <3>3. \A b \in {Torn, RecordOf(c)} :
            Append(file, b) \in Seq(Block) /\ HasLast(Append(file, b))
      BY <3>2, AppendFacts, HasLastAppend
    <3>. QED  BY <3>1, <3>2, <3>3
  <2>2. TypeOK'
    BY <1>8, <2>1, WriteFailsDoes, CallFacts DEF TypeOK, Moved
  <2>3. HasEvent'
    BY <1>8, WriteFailsDoes, CallFacts DEF HasEvent, Moved, Accepted
  <2>4. HeldNotarised'
    BY <1>8, WriteFailsDoes, CallFacts DEF HeldNotarised, Moved
  <2>5. HasLast(file)'
    BY <2>1 DEF HasLast, Closed
  <2>. QED  BY <2>2, <2>3, <2>4, <2>5
<1>9. ASSUME NEW n \in Notary, NotariseRead(n) PROVE TypeInv'
  <2>2. TypeOK'
    BY <1>9, NotariseReadDoes, CallFacts DEF TypeOK, Moved
  <2>3. HasEvent'
    BY <1>9, NotariseReadDoes, CallFacts DEF HasEvent, Moved, Accepted, MayStart, InProgress
  <2>4. HeldNotarised'
    BY <1>9, NotariseReadDoes, CallFacts DEF HeldNotarised, Moved
  <2>5. HasLast(file)'
    BY <1>9, NotariseReadDoes DEF HasLast, Closed
  <2>. QED  BY <2>2, <2>3, <2>4, <2>5
<1>10. ASSUME NEW n \in Notary, NotariseReplace(n) PROVE TypeInv'
  <2>1. file' \in Seq(Block) /\ HasLast(file')
    <3>1. pc[n] = "replacing" /\ file' = Append(held[n], n)
      BY <1>10, NotariseReplaceDoes
    <3>2. held[n] \in Seq(Block) /\ \A k \in 1 .. Len(held[n]) : held[n][k] \in Notarised
      BY <1>10, <3>1 DEF TypeOK, HeldNotarised
    <3>3. Append(held[n], n) \in Seq(Block) /\ HasLast(Append(held[n], n))
      BY <1>10, <3>2, ReplacedType
    <3>. QED  BY <3>1, <3>3
  <2>2. TypeOK'
    BY <1>10, <2>1, NotariseReplaceDoes, CallFacts DEF TypeOK, Moved
  <2>3. HasEvent'
    BY <1>10, NotariseReplaceDoes, CallFacts DEF HasEvent, Moved, Accepted
  <2>4. HeldNotarised'
    BY <1>10, NotariseReplaceDoes, CallFacts DEF HeldNotarised, Moved
  <2>5. HasLast(file)'
    BY <2>1 DEF HasLast, Closed
  <2>. QED  BY <2>2, <2>3, <2>4, <2>5
<1>11. ASSUME NEW c \in Call, Kill(c) PROVE TypeInv'
  <2>2. TypeOK'
    BY <1>11, KillDoes, CallFacts DEF TypeOK, Moved
  <2>3. HasEvent'
    BY <1>11, KillDoes, CallFacts DEF HasEvent, Moved, Accepted, MayStart, InProgress
  <2>4. HeldNotarised'
    BY <1>11, KillDoes, CallFacts DEF HeldNotarised, Moved
  <2>5. HasLast(file)'
    BY <1>11, KillDoes DEF HasLast, Closed
  <2>. QED  BY <2>2, <2>3, <2>4, <2>5
<1>12. ASSUME NEW c \in Dispatch, PrintResult(c) PROVE TypeInv'
  <2>2. TypeOK'
    BY <1>12, PrintResultDoes, CallFacts DEF TypeOK, Moved
  <2>3. HasEvent'
    BY <1>12, PrintResultDoes, CallFacts DEF HasEvent, Moved, Accepted, MayStart, InProgress
  <2>4. HeldNotarised'
    BY <1>12, PrintResultDoes, CallFacts DEF HeldNotarised, Moved
  <2>5. HasLast(file)'
    BY <1>12, PrintResultDoes DEF HasLast, Closed
  <2>. QED  BY <2>2, <2>3, <2>4, <2>5
<1>13. CASE UNCHANGED vars
  BY <1>13 DEF vars, TypeOK, HasEvent, HeldNotarised, HasLast, Closed
<1>. QED  BY <1>1, <1>2, <1>3, <1>4, <1>5, <1>6, <1>7, <1>8, <1>9, <1>10, <1>11, <1>12, <1>13 DEF Next

\* Every variable has its type.
THEOREM TypeCorrect == Spec => []TypeOK
<1>1. TypeInv => TypeOK
  BY DEF TypeInv
<1>. QED  BY <1>1, InitTyped, NextTyped, PTL DEF Spec

-----------------------------------------------------------------------------
(***************************************************************************)
(* bin/notarise keeps to files of its own.                                 *)
(***************************************************************************)

LEMMA ApartAfterAppend ==
  ASSUME TypeOK, NotariseKeepsApart, NEW b \in Block, b \notin Notary,
         file' = Append(file, b)
  PROVE  NotariseKeepsApart'
<1> DEFINE n == Len(file)
<1>1. /\ n \in Nat /\ Len(file') = n + 1 /\ file'[n + 1] = b
      /\ \A k \in 1 .. n : file'[k] = file[k]
  BY AppendFacts DEF TypeOK
<1> SUFFICES ASSUME NEW k \in 1 .. Len(file'), file'[k] \in Notary, NEW j \in 1 .. k
             PROVE  file'[j] \in Notarised
  BY DEF NotariseKeepsApart
<1>2. k \in 1 .. n
  BY <1>1
<1>3. j \in 1 .. n
  BY <1>1, <1>2
<1>. QED  BY <1>1, <1>2, <1>3 DEF NotariseKeepsApart

LEMMA NextKeepsApart ==
  TypeInv /\ NotariseKeepsApart /\ [Next]_vars => NotariseKeepsApart'
<1> SUFFICES ASSUME TypeInv, NotariseKeepsApart, [Next]_vars PROVE NotariseKeepsApart'
  OBVIOUS
<1> USE DEF TypeInv
<1>1. ASSUME NEW d \in Delivery, Receive(d) PROVE NotariseKeepsApart'
  BY <1>1, ReceiveDoes DEF NotariseKeepsApart
<1>2. ASSUME NEW d \in Delivery, CountBlocks(d) PROVE NotariseKeepsApart'
  BY <1>2, CountBlocksDoes DEF NotariseKeepsApart
<1>3. ASSUME NEW d \in Delivery, CountFails(d) PROVE NotariseKeepsApart'
  BY <1>3, CountFailsDoes DEF NotariseKeepsApart
<1>4. ASSUME NEW c \in Dispatch, CreateTemplate(c) PROVE NotariseKeepsApart'
  BY <1>4, CreateTemplateDoes DEF NotariseKeepsApart
<1>5. ASSUME NEW c \in Dispatch, CreateSubmission(c) PROVE NotariseKeepsApart'
  BY <1>5, CreateSubmissionDoes DEF NotariseKeepsApart
<1>6. ASSUME NEW c \in Caller, ReadTail(c) PROVE NotariseKeepsApart'
  BY <1>6, ReadTailDoes DEF NotariseKeepsApart
<1>7. ASSUME NEW c \in Caller, WriteBlock(c) PROVE NotariseKeepsApart'
  <2>1. RecordOf(c) \in Foreign
    BY <1>7, WriteBlockDoes, RecordType DEF Accepted
  <2>2. RecordOf(c) \in Block /\ RecordOf(c) \notin Notary
    BY <2>1, BlockFacts
  <2>3. file' = Append(file, RecordOf(c))
    BY <1>7, WriteBlockDoes
  <2>. QED  BY <2>2, <2>3, ApartAfterAppend
<1>8. ASSUME NEW c \in Caller, WriteFails(c) PROVE NotariseKeepsApart'
  <2>1. pc[c] = "writing"
        /\ (file' = file \/ \E b \in {Torn, RecordOf(c)} : file' = Append(file, b))
    BY <1>8, WriteFailsDoes
  <2>2. CASE file' = file
    BY <2>2 DEF NotariseKeepsApart
  <2>3. \A b \in {Torn, RecordOf(c)} : b \in Block /\ b \notin Notary
    BY <1>8, <2>1, RecordType, BlockFacts DEF Accepted
  <2>4. CASE \E b \in {Torn, RecordOf(c)} : file' = Append(file, b)
    BY <2>3, <2>4, ApartAfterAppend
  <2>. QED  BY <2>1, <2>2, <2>4
<1>9. ASSUME NEW n \in Notary, NotariseRead(n) PROVE NotariseKeepsApart'
  BY <1>9, NotariseReadDoes DEF NotariseKeepsApart
<1>10. ASSUME NEW n \in Notary, NotariseReplace(n) PROVE NotariseKeepsApart'
  <2>1. pc[n] = "replacing" /\ file' = Append(held[n], n)
    BY <1>10, NotariseReplaceDoes
  <2>2. held[n] \in Seq(Block) /\ \A k \in 1 .. Len(held[n]) : held[n][k] \in Notarised
    BY <1>10, <2>1 DEF TypeOK, HeldNotarised
  <2>3. \A k \in 1 .. Len(file') : file'[k] \in Notarised
    BY <1>10, <2>1, <2>2, ReplacedType
  <2>4. Len(file') \in Nat
    BY <1>10, <2>1, <2>2, ReplacedType, LenProperties
  <2>. QED  BY <2>3, <2>4 DEF NotariseKeepsApart
<1>11. ASSUME NEW c \in Call, Kill(c) PROVE NotariseKeepsApart'
  BY <1>11, KillDoes DEF NotariseKeepsApart
<1>12. ASSUME NEW c \in Dispatch, PrintResult(c) PROVE NotariseKeepsApart'
  BY <1>12, PrintResultDoes DEF NotariseKeepsApart
<1>13. CASE UNCHANGED vars
  BY <1>13 DEF vars, NotariseKeepsApart
<1>. QED  BY <1>1, <1>2, <1>3, <1>4, <1>5, <1>6, <1>7, <1>8, <1>9, <1>10, <1>11, <1>12, <1>13 DEF Next

\* bin/notarise never grows a file that has something of another kind in it.
THEOREM NotaryStaysApart == Spec => []NotariseKeepsApart
<1>1. Init => NotariseKeepsApart
  <2> SUFFICES ASSUME Init PROVE NotariseKeepsApart
    OBVIOUS
  <2>1. Seed \notin Notary /\ Bad \notin Notary
    BY BlocksDiffer DEF Notarised
  <2>2. file \in {<< >>, <<Seed>>, <<Bad>>}
    BY DEF Init
  <2>3. \A k \in 1 .. Len(file) : file[k] \notin Notary
    BY <2>1, <2>2
  <2>. QED  BY <2>3 DEF NotariseKeepsApart
<1>. QED  BY <1>1, InitTyped, NextTyped, NextKeepsApart, PTL DEF Spec

-----------------------------------------------------------------------------
(***************************************************************************)
(* Order: what it means that calls follow one another.                     *)
(***************************************************************************)

\* Nobody is told anything before the end.
SilentTillEnd == \A c \in Call : outcome[c] # "none" => pc[c] \in {"done", "raised", "dead"}

OneAtATime ==
  alone => \A a, b \in Call : InProgress(a) /\ InProgress(b) => a = b

\* The text bin/notarise will replace is the one on file.
HeldCurrent ==
  alone => \A n \in Notary : pc[n] = "replacing" => held[n] = file

OrderInv == TypeInv /\ SilentTillEnd /\ OneAtATime /\ HeldCurrent

LEMMA InitOrdered == Init => OrderInv
BY InitTyped, CallFacts DEF Init, OrderInv, SilentTillEnd, OneAtATime, HeldCurrent, InProgress

\* A call that moves is the only one, or starts when there is none.
LEMMA MovedAlone ==
  ASSUME OneAtATime, NEW c \in Call, Moved(c), UNCHANGED alone,
         InProgress(c) \/ MayStart(c)
  PROVE  OneAtATime'
<1> SUFFICES ASSUME alone', NEW a \in Call, NEW b \in Call,
                    InProgress(a)', InProgress(b)'
             PROVE  a = b
  BY DEF OneAtATime
<1>1. \A x \in Call : x # c => (InProgress(x)' <=> InProgress(x))
  BY DEF Moved, InProgress
<1>2. \A x \in Call : x # c => ~InProgress(x)
  BY DEF OneAtATime, MayStart
<1>. QED  BY <1>1, <1>2

LEMMA NextOrdered == OrderInv /\ [Next]_vars => OrderInv'
<1> SUFFICES ASSUME OrderInv, [Next]_vars PROVE OrderInv'
  OBVIOUS
<1>t. TypeInv /\ TypeInv' /\ TypeOK /\ HasLast(file)
  BY NextTyped DEF OrderInv, TypeInv
<1>1. ASSUME NEW d \in Delivery, Receive(d) PROVE OrderInv'
  <2>1. SilentTillEnd'
    BY <1>t, <1>1, ReceiveDoes, CallFacts DEF OrderInv, SilentTillEnd, Moved, MayStart
  <2>2. OneAtATime'
    BY <1>t, <1>1, ReceiveDoes, CallFacts, MovedAlone DEF OrderInv, InProgress
  <2>3. HeldCurrent'
    BY <1>t, <1>1, ReceiveDoes, CallFacts DEF OrderInv, HeldCurrent, Moved
  <2>. QED  BY <1>t, <2>1, <2>2, <2>3 DEF OrderInv
<1>2. ASSUME NEW d \in Delivery, CountBlocks(d) PROVE OrderInv'
  <2>1. SilentTillEnd'
    BY <1>t, <1>2, CountBlocksDoes, CallFacts DEF OrderInv, SilentTillEnd, Moved, MayStart
  <2>2. OneAtATime'
    BY <1>t, <1>2, CountBlocksDoes, CallFacts, MovedAlone DEF OrderInv, InProgress
  <2>3. HeldCurrent'
    BY <1>t, <1>2, CountBlocksDoes, CallFacts DEF OrderInv, HeldCurrent, Moved
  <2>. QED  BY <1>t, <2>1, <2>2, <2>3 DEF OrderInv
<1>3. ASSUME NEW d \in Delivery, CountFails(d) PROVE OrderInv'
  <2>1. SilentTillEnd'
    BY <1>t, <1>3, CountFailsDoes, CallFacts DEF OrderInv, SilentTillEnd, Moved, MayStart
  <2>2. OneAtATime'
    BY <1>t, <1>3, CountFailsDoes, CallFacts, MovedAlone DEF OrderInv, InProgress
  <2>3. HeldCurrent'
    BY <1>t, <1>3, CountFailsDoes, CallFacts DEF OrderInv, HeldCurrent, Moved
  <2>. QED  BY <1>t, <2>1, <2>2, <2>3 DEF OrderInv
<1>4. ASSUME NEW c \in Dispatch, CreateTemplate(c) PROVE OrderInv'
  <2>1. SilentTillEnd'
    BY <1>t, <1>4, CreateTemplateDoes, CallFacts DEF OrderInv, SilentTillEnd, Moved, MayStart
  <2>2. OneAtATime'
    BY <1>t, <1>4, CreateTemplateDoes, CallFacts, MovedAlone DEF OrderInv, InProgress
  <2>3. HeldCurrent'
    BY <1>t, <1>4, CreateTemplateDoes, CallFacts DEF OrderInv, HeldCurrent, Moved
  <2>. QED  BY <1>t, <2>1, <2>2, <2>3 DEF OrderInv
<1>5. ASSUME NEW c \in Dispatch, CreateSubmission(c) PROVE OrderInv'
  <2>1. SilentTillEnd'
    BY <1>t, <1>5, CreateSubmissionDoes, CallFacts DEF OrderInv, SilentTillEnd, Moved, MayStart
  <2>2. OneAtATime'
    BY <1>t, <1>5, CreateSubmissionDoes, CallFacts, MovedAlone DEF OrderInv, InProgress
  <2>3. HeldCurrent'
    BY <1>t, <1>5, CreateSubmissionDoes, CallFacts DEF OrderInv, HeldCurrent, Moved
  <2>. QED  BY <1>t, <2>1, <2>2, <2>3 DEF OrderInv
<1>6. ASSUME NEW c \in Caller, ReadTail(c) PROVE OrderInv'
  <2>1. SilentTillEnd'
    BY <1>t, <1>6, ReadTailDoes, CallFacts DEF OrderInv, SilentTillEnd, Moved, MayStart
  <2>2. OneAtATime'
    BY <1>t, <1>6, ReadTailDoes, CallFacts, MovedAlone DEF OrderInv, InProgress
  <2>3. HeldCurrent'
    BY <1>t, <1>6, ReadTailDoes, CallFacts DEF OrderInv, HeldCurrent, Moved
  <2>. QED  BY <1>t, <2>1, <2>2, <2>3 DEF OrderInv
<1>7. ASSUME NEW c \in Caller, WriteBlock(c) PROVE OrderInv'
  <2>1. SilentTillEnd'
    BY <1>t, <1>7, WriteBlockDoes, CallFacts DEF OrderInv, SilentTillEnd, Moved, MayStart
  <2>2. OneAtATime'
    BY <1>t, <1>7, WriteBlockDoes, CallFacts, MovedAlone DEF OrderInv, InProgress
  <2>3. HeldCurrent'
    <3> SUFFICES ASSUME alone', NEW m \in Notary, pc'[m] = "replacing"
                 PROVE  FALSE
      BY DEF HeldCurrent
    <3>1. c \in Call /\ m \in Call /\ InProgress(c) /\ alone
      BY <1>t, <1>7, WriteBlockDoes, CallFacts DEF InProgress
    <3>2. m # c
      BY <1>t, <1>7, WriteBlockDoes, CallFacts
    <3>3. InProgress(m)
      BY <1>t, <1>7, <3>1, <3>2, WriteBlockDoes, CallFacts DEF InProgress, Moved
    <3>. QED  BY <3>1, <3>2, <3>3 DEF OrderInv, OneAtATime
  <2>. QED  BY <1>t, <2>1, <2>2, <2>3 DEF OrderInv
<1>8. ASSUME NEW c \in Caller, WriteFails(c) PROVE OrderInv'
  <2>1. SilentTillEnd'
    BY <1>t, <1>8, WriteFailsDoes, CallFacts DEF OrderInv, SilentTillEnd, Moved, MayStart
  <2>2. OneAtATime'
    BY <1>t, <1>8, WriteFailsDoes, CallFacts, MovedAlone DEF OrderInv, InProgress
  <2>3. HeldCurrent'
    <3> SUFFICES ASSUME alone', NEW m \in Notary, pc'[m] = "replacing"
                 PROVE  FALSE
      BY DEF HeldCurrent
    <3>1. c \in Call /\ m \in Call /\ InProgress(c) /\ alone
      BY <1>t, <1>8, WriteFailsDoes, CallFacts DEF InProgress
    <3>2. m # c
      BY <1>t, <1>8, WriteFailsDoes, CallFacts
    <3>3. InProgress(m)
      BY <1>t, <1>8, <3>1, <3>2, WriteFailsDoes, CallFacts DEF InProgress, Moved
    <3>. QED  BY <3>1, <3>2, <3>3 DEF OrderInv, OneAtATime
  <2>. QED  BY <1>t, <2>1, <2>2, <2>3 DEF OrderInv
<1>9. ASSUME NEW n \in Notary, NotariseRead(n) PROVE OrderInv'
  <2>1. SilentTillEnd'
    BY <1>t, <1>9, NotariseReadDoes, CallFacts DEF OrderInv, SilentTillEnd, Moved, MayStart
  <2>2. OneAtATime'
    BY <1>t, <1>9, NotariseReadDoes, CallFacts, MovedAlone DEF OrderInv, InProgress
  <2>3. HeldCurrent'
    BY <1>t, <1>9, NotariseReadDoes, CallFacts DEF OrderInv, HeldCurrent, Moved
  <2>. QED  BY <1>t, <2>1, <2>2, <2>3 DEF OrderInv
<1>10. ASSUME NEW n \in Notary, NotariseReplace(n) PROVE OrderInv'
  <2>1. SilentTillEnd'
    BY <1>t, <1>10, NotariseReplaceDoes, CallFacts DEF OrderInv, SilentTillEnd, Moved, MayStart
  <2>2. OneAtATime'
    BY <1>t, <1>10, NotariseReplaceDoes, CallFacts, MovedAlone DEF OrderInv, InProgress
  <2>3. HeldCurrent'
    <3> SUFFICES ASSUME alone', NEW m \in Notary, pc'[m] = "replacing"
                 PROVE  FALSE
      BY DEF HeldCurrent
    <3>1. n \in Call /\ m \in Call /\ InProgress(n) /\ alone
      BY <1>t, <1>10, NotariseReplaceDoes, CallFacts DEF InProgress
    <3>2. m # n
      BY <1>t, <1>10, NotariseReplaceDoes, CallFacts
    <3>3. InProgress(m)
      BY <1>t, <1>10, <3>1, <3>2, NotariseReplaceDoes, CallFacts DEF InProgress, Moved
    <3>. QED  BY <3>1, <3>2, <3>3 DEF OrderInv, OneAtATime
  <2>. QED  BY <1>t, <2>1, <2>2, <2>3 DEF OrderInv
<1>11. ASSUME NEW c \in Call, Kill(c) PROVE OrderInv'
  <2>1. SilentTillEnd'
    BY <1>t, <1>11, KillDoes, CallFacts DEF OrderInv, SilentTillEnd, Moved, MayStart
  <2>2. OneAtATime'
    BY <1>t, <1>11, KillDoes, CallFacts, MovedAlone DEF OrderInv, InProgress
  <2>3. HeldCurrent'
    BY <1>t, <1>11, KillDoes, CallFacts DEF OrderInv, HeldCurrent, Moved
  <2>. QED  BY <1>t, <2>1, <2>2, <2>3 DEF OrderInv
<1>12. ASSUME NEW c \in Dispatch, PrintResult(c) PROVE OrderInv'
  <2>1. SilentTillEnd'
    BY <1>t, <1>12, PrintResultDoes, CallFacts DEF OrderInv, SilentTillEnd, Moved, MayStart
  <2>2. OneAtATime'
    BY <1>t, <1>12, PrintResultDoes, CallFacts, MovedAlone DEF OrderInv, InProgress
  <2>3. HeldCurrent'
    BY <1>t, <1>12, PrintResultDoes, CallFacts DEF OrderInv, HeldCurrent, Moved
  <2>. QED  BY <1>t, <2>1, <2>2, <2>3 DEF OrderInv
<1>13. CASE UNCHANGED vars
  BY <1>t, <1>13 DEF vars, OrderInv, SilentTillEnd, OneAtATime, HeldCurrent, InProgress
<1>. QED  BY <1>1, <1>2, <1>3, <1>4, <1>5, <1>6, <1>7, <1>8, <1>9, <1>10, <1>11, <1>12, <1>13 DEF Next

-----------------------------------------------------------------------------
(***************************************************************************)
(* What a step leaves of records, files and answers.                       *)
(***************************************************************************)

\* Who has written, or found that it cannot.
Recording(c) == outcome[c] \in {"ok", "signed"} \/ pc[c] = "answering"

\* Whoever has signed goes on with the record it has signed.
LEMMA StepKeepsRecord ==
  ASSUME OrderInv, [Next]_vars, NEW x \in Caller,
         pc[x] \in {"writing", "answering", "done", "raised", "dead"}
  PROVE  RecordOf(x)' = RecordOf(x) /\ prev'[x] = prev[x]
<1>t. TypeOK /\ HasLast(file)
  BY DEF OrderInv, TypeInv
<1> DEFINE Goal == RecordOf(x)' = RecordOf(x) /\ prev'[x] = prev[x]
<1>1. ASSUME NEW d \in Delivery, Receive(d) PROVE Goal
  <2>1. x # d
    BY <1>t, <1>1, ReceiveDoes DEF MayStart
  <2>2. x \in Delivery => event'[x] = event[x]
    BY <1>t, <1>1, <2>1, ReceiveDoes
  <2>3. prev' = prev
    BY <1>t, <1>1, ReceiveDoes
  <2>. QED  BY <2>2, <2>3, CallFacts DEF RecordOf, Says
<1>2. ASSUME NEW d \in Delivery, CountBlocks(d) PROVE Goal
  BY <1>t, <1>2, CountBlocksDoes, CallFacts DEF RecordOf, Says
<1>3. ASSUME NEW d \in Delivery, CountFails(d) PROVE Goal
  BY <1>t, <1>3, CountFailsDoes, CallFacts DEF RecordOf, Says
<1>4. ASSUME NEW c \in Dispatch, CreateTemplate(c) PROVE Goal
  BY <1>t, <1>4, CreateTemplateDoes, CallFacts DEF RecordOf, Says
<1>5. ASSUME NEW c \in Dispatch, CreateSubmission(c) PROVE Goal
  BY <1>t, <1>5, CreateSubmissionDoes, CallFacts DEF RecordOf, Says
<1>6. ASSUME NEW c \in Caller, ReadTail(c) PROVE Goal
  BY <1>t, <1>6, ReadTailDoes, CallFacts DEF RecordOf, Says
<1>7. ASSUME NEW c \in Caller, WriteBlock(c) PROVE Goal
  BY <1>t, <1>7, WriteBlockDoes, CallFacts DEF RecordOf, Says
<1>8. ASSUME NEW c \in Caller, WriteFails(c) PROVE Goal
  BY <1>t, <1>8, WriteFailsDoes, CallFacts DEF RecordOf, Says
<1>9. ASSUME NEW n \in Notary, NotariseRead(n) PROVE Goal
  BY <1>t, <1>9, NotariseReadDoes, CallFacts DEF RecordOf, Says
<1>10. ASSUME NEW n \in Notary, NotariseReplace(n) PROVE Goal
  BY <1>t, <1>10, NotariseReplaceDoes, CallFacts DEF RecordOf, Says
<1>11. ASSUME NEW c \in Call, Kill(c) PROVE Goal
  BY <1>t, <1>11, KillDoes, CallFacts DEF RecordOf, Says
<1>12. ASSUME NEW c \in Dispatch, PrintResult(c) PROVE Goal
  BY <1>t, <1>12, PrintResultDoes, CallFacts DEF RecordOf, Says
<1>13. CASE UNCHANGED vars
  BY <1>13 DEF vars, RecordOf, Says
<1>. QED  BY <1>1, <1>2, <1>3, <1>4, <1>5, <1>6, <1>7, <1>8, <1>9, <1>10, <1>11, <1>12, <1>13 DEF Next

\* A caller writes at most once, and it is then that it counts as recorded.
LEMMA StepRecords ==
  ASSUME OrderInv, [Next]_vars, NEW x \in Caller, Recording(x)'
  PROVE  \/ Recording(x)
         \/ pc[x] = "writing" /\ file' = Append(file, RecordOf(x))
<1>t. TypeOK /\ HasLast(file) /\ SilentTillEnd
  BY DEF OrderInv, TypeInv
<1> DEFINE Goal == \/ Recording(x)
                   \/ pc[x] = "writing" /\ file' = Append(file, RecordOf(x))
<1>1. ASSUME NEW d \in Delivery, Receive(d) PROVE Goal
  BY <1>t, <1>1, ReceiveDoes, CallFacts DEF Recording, Moved, SilentTillEnd, MayStart
<1>2. ASSUME NEW d \in Delivery, CountBlocks(d) PROVE Goal
  BY <1>t, <1>2, CountBlocksDoes, CallFacts DEF Recording, Moved, SilentTillEnd, MayStart
<1>3. ASSUME NEW d \in Delivery, CountFails(d) PROVE Goal
  BY <1>t, <1>3, CountFailsDoes, CallFacts DEF Recording, Moved, SilentTillEnd, MayStart
<1>4. ASSUME NEW c \in Dispatch, CreateTemplate(c) PROVE Goal
  BY <1>t, <1>4, CreateTemplateDoes, CallFacts DEF Recording, Moved, SilentTillEnd, MayStart
<1>5. ASSUME NEW c \in Dispatch, CreateSubmission(c) PROVE Goal
  BY <1>t, <1>5, CreateSubmissionDoes, CallFacts DEF Recording, Moved, SilentTillEnd, MayStart
<1>6. ASSUME NEW c \in Caller, ReadTail(c) PROVE Goal
  BY <1>t, <1>6, ReadTailDoes, CallFacts DEF Recording, Moved, SilentTillEnd, MayStart
<1>7. ASSUME NEW c \in Caller, WriteBlock(c) PROVE Goal
  BY <1>t, <1>7, WriteBlockDoes, CallFacts DEF Recording, Moved, SilentTillEnd, MayStart
<1>8. ASSUME NEW c \in Caller, WriteFails(c) PROVE Goal
  BY <1>t, <1>8, WriteFailsDoes, CallFacts DEF Recording, Moved, SilentTillEnd, MayStart
<1>9. ASSUME NEW n \in Notary, NotariseRead(n) PROVE Goal
  BY <1>t, <1>9, NotariseReadDoes, CallFacts DEF Recording, Moved, SilentTillEnd, MayStart
<1>10. ASSUME NEW n \in Notary, NotariseReplace(n) PROVE Goal
  BY <1>t, <1>10, NotariseReplaceDoes, CallFacts DEF Recording, Moved, SilentTillEnd, MayStart
<1>11. ASSUME NEW c \in Call, Kill(c) PROVE Goal
  BY <1>t, <1>11, KillDoes, CallFacts DEF Recording, Moved, SilentTillEnd, MayStart
<1>12. ASSUME NEW c \in Dispatch, PrintResult(c) PROVE Goal
  BY <1>t, <1>12, PrintResultDoes, CallFacts DEF Recording, Moved, SilentTillEnd, MayStart
<1>13. CASE UNCHANGED vars
  BY <1>13 DEF vars, Recording
<1>. QED  BY <1>1, <1>2, <1>3, <1>4, <1>5, <1>6, <1>7, <1>8, <1>9, <1>10, <1>11, <1>12, <1>13 DEF Next

\* As long as bin/notarise replaces nothing under anybody's feet, the file only
\* grows, and by one block at a time.
LEMMA StepGrows ==
  ASSUME OrderInv, [Next]_vars, NothingReplaced'
  PROVE  /\ NothingReplaced
         /\ \/ file' = file
            \/ \E b \in Block :
                 /\ file' = Append(file, b)
                 /\ b \in Foreign => \E c \in Caller : pc[c] = "writing" /\ b = RecordOf(c)
<1>t. TypeOK /\ HasLast(file) /\ SilentTillEnd /\ HeldCurrent /\ HasEvent
  BY DEF OrderInv, TypeInv
<1> DEFINE Goal ==
      /\ NothingReplaced
      /\ \/ file' = file
         \/ \E b \in Block :
              /\ file' = Append(file, b)
              /\ b \in Foreign => \E c \in Caller : pc[c] = "writing" /\ b = RecordOf(c)
<1>k. ASSUME NEW c \in Call, Moved(c), pc[c] \notin {"done", "raised", "dead"}, alone' = alone
      PROVE  NothingReplaced
  <2>1. CASE alone
    BY <2>1 DEF NothingReplaced
  <2>2. CASE ~alone
    <3>1. \A n \in Notary : outcome'[n] # "ok"
      BY <1>k, <2>2 DEF NothingReplaced
    <3>2. ASSUME NEW n \in Notary, outcome[n] = "ok" PROVE FALSE
      <4>1. n \in Call /\ pc[n] \in {"done", "raised", "dead"}
        BY <1>t, <3>2, CallFacts DEF SilentTillEnd
      <4>2. n # c
        BY <1>k, <4>1
      <4>3. outcome'[n] = outcome[n]
        BY <1>k, <4>1, <4>2 DEF Moved
      <4>. QED  BY <3>1, <3>2, <4>3
    <3>. QED  BY <3>2 DEF NothingReplaced
  <2>. QED  BY <2>1, <2>2
<1>1. ASSUME NEW d \in Delivery, Receive(d) PROVE Goal
  <2>1. NothingReplaced
    BY <1>t, <1>k, <1>1, ReceiveDoes, CallFacts DEF MayStart, InProgress
  <2>. QED  BY <1>t, <1>1, <2>1, ReceiveDoes
<1>2. ASSUME NEW d \in Delivery, CountBlocks(d) PROVE Goal
  <2>1. NothingReplaced
    BY <1>t, <1>k, <1>2, CountBlocksDoes, CallFacts DEF MayStart, InProgress
  <2>. QED  BY <1>t, <1>2, <2>1, CountBlocksDoes
<1>3. ASSUME NEW d \in Delivery, CountFails(d) PROVE Goal
  <2>1. NothingReplaced
    BY <1>t, <1>k, <1>3, CountFailsDoes, CallFacts DEF MayStart, InProgress
  <2>. QED  BY <1>t, <1>3, <2>1, CountFailsDoes
<1>4. ASSUME NEW c \in Dispatch, CreateTemplate(c) PROVE Goal
  <2>1. NothingReplaced
    BY <1>t, <1>k, <1>4, CreateTemplateDoes, CallFacts DEF MayStart, InProgress
  <2>. QED  BY <1>t, <1>4, <2>1, CreateTemplateDoes
<1>5. ASSUME NEW c \in Dispatch, CreateSubmission(c) PROVE Goal
  <2>1. NothingReplaced
    BY <1>t, <1>k, <1>5, CreateSubmissionDoes, CallFacts DEF MayStart, InProgress
  <2>. QED  BY <1>t, <1>5, <2>1, CreateSubmissionDoes
<1>6. ASSUME NEW c \in Caller, ReadTail(c) PROVE Goal
  <2>1. NothingReplaced
    BY <1>t, <1>k, <1>6, ReadTailDoes, CallFacts DEF MayStart, InProgress
  <2>. QED  BY <1>t, <1>6, <2>1, ReadTailDoes
<1>7. ASSUME NEW c \in Caller, WriteBlock(c) PROVE Goal
  <2>1. NothingReplaced
    BY <1>t, <1>k, <1>7, WriteBlockDoes, CallFacts DEF MayStart, InProgress
  <2>2. pc[c] = "writing" /\ file' = Append(file, RecordOf(c))
    BY <1>t, <1>7, WriteBlockDoes
  <2>3. RecordOf(c) \in Block
    BY <1>t, <1>7, <2>2, RecordType, BlockFacts DEF Accepted
  <2>. QED  BY <2>1, <2>2, <2>3
<1>8. ASSUME NEW c \in Caller, WriteFails(c) PROVE Goal
  <2>1. NothingReplaced
    BY <1>t, <1>k, <1>8, WriteFailsDoes, CallFacts DEF MayStart, InProgress
  <2>2. pc[c] = "writing"
        /\ (file' = file \/ \E b \in {Torn, RecordOf(c)} : file' = Append(file, b))
    BY <1>t, <1>8, WriteFailsDoes
  <2>3. /\ Torn \in Block /\ Torn \notin Foreign
        /\ RecordOf(c) \in Block
    BY <1>t, <1>8, <2>2, RecordType, BlockFacts DEF Accepted
  <2>. QED  BY <1>8, <2>1, <2>2, <2>3
<1>9. ASSUME NEW n \in Notary, NotariseRead(n) PROVE Goal
  <2>1. NothingReplaced
    BY <1>t, <1>k, <1>9, NotariseReadDoes, CallFacts DEF MayStart, InProgress
  <2>. QED  BY <1>t, <1>9, <2>1, NotariseReadDoes
<1>10. ASSUME NEW n \in Notary, NotariseReplace(n) PROVE Goal
  <2>1. NothingReplaced
    BY <1>t, <1>k, <1>10, NotariseReplaceDoes, CallFacts DEF MayStart, InProgress
  <2>2. /\ pc[n] = "replacing" /\ outcome'[n] = "ok" /\ alone' = alone
        /\ file' = Append(held[n], n)
    BY <1>t, <1>10, NotariseReplaceDoes
  <2>3. alone
    BY <1>10, <2>2 DEF NothingReplaced
  <2>4. held[n] = file
    BY <1>t, <1>10, <2>2, <2>3 DEF HeldCurrent
  <2>5. n \in Block /\ n \notin Foreign
    BY <1>10, BlockFacts
  <2>. QED  BY <2>1, <2>2, <2>4, <2>5
<1>11. ASSUME NEW c \in Call, Kill(c) PROVE Goal
  <2>1. NothingReplaced
    BY <1>t, <1>k, <1>11, KillDoes, CallFacts DEF MayStart, InProgress
  <2>. QED  BY <1>t, <1>11, <2>1, KillDoes
<1>12. ASSUME NEW c \in Dispatch, PrintResult(c) PROVE Goal
  <2>1. NothingReplaced
    BY <1>t, <1>k, <1>12, PrintResultDoes, CallFacts DEF MayStart, InProgress
  <2>. QED  BY <1>t, <1>12, <2>1, PrintResultDoes
<1>13. CASE UNCHANGED vars
  BY <1>13 DEF vars, NothingReplaced
<1>. QED  BY <1>1, <1>2, <1>3, <1>4, <1>5, <1>6, <1>7, <1>8, <1>9, <1>10, <1>11, <1>12, <1>13 DEF Next

-----------------------------------------------------------------------------
(***************************************************************************)
(* Callers are told the truth.                                             *)
(***************************************************************************)

\* Whoever has written is on file.
Recorded == NothingReplaced => \A c \in Caller : Recording(c) => OnFile(c)

\* No record of a dispatch is on file before it is written, nor ever after it
\* has ended, of itself and without an error in writing, unsigned.
Unwritten(c) ==
  \/ pc[c] \in {"idle", "submitting", "reading", "writing"}
  \/ pc[c] = "done" /\ outcome[c] # "signed"
Sent(c) == pc[c] \in {"reading", "writing"} \/ outcome[c] = "unsigned"
NoRecordOf(c) == Places(OwnContent(c)) = {}
Unrecorded ==
  \A c \in Dispatch : /\ Unwritten(c) => NoRecordOf(c)
                      /\ Sent(c) => c \in submissions

TruthInv == OrderInv /\ Recorded /\ Unrecorded

LEMMA InitTruth == Init => TruthInv
<1> SUFFICES ASSUME Init PROVE TruthInv
  OBVIOUS
<1>1. Recorded
  BY CallFacts DEF Init, Recorded, Recording
<1>2. Seed \notin Foreign /\ Bad \notin Foreign
  BY BlocksDiffer DEF Notarised
<1>3. file \in {<< >>, <<Seed>>, <<Bad>>}
  BY DEF Init
<1>4. \A k \in 1 .. Len(file) : file[k] \notin Foreign
  BY <1>2, <1>3
<1>5. Unrecorded
  BY <1>4, CallFacts DEF Init, Unrecorded, NoRecordOf, Places, Sent
<1>. QED  BY <1>1, <1>5, InitOrdered DEF TruthInv

LEMMA NextRecorded == TruthInv /\ [Next]_vars => Recorded'
<1> SUFFICES ASSUME TruthInv, [Next]_vars, NothingReplaced',
                    NEW c \in Caller, Recording(c)'
             PROVE  OnFile(c)'
  BY DEF Recorded
<1>1. OrderInv /\ Recorded /\ file \in Seq(Block)
  BY DEF TruthInv, OrderInv, TypeInv, TypeOK
<1>2. NothingReplaced /\ (file' = file \/ \E b \in Block : file' = Append(file, b))
  BY <1>1, StepGrows
<1>3. CASE Recording(c)
  <2>1. PICK k \in 1 .. Len(file) : file[k] = RecordOf(c)
    BY <1>1, <1>2, <1>3 DEF Recorded, OnFile
  <2>2. pc[c] \in {"answering", "done", "raised", "dead"}
    BY <1>1, <1>3, CallFacts DEF Recording, OrderInv, SilentTillEnd
  <2>3. RecordOf(c)' = RecordOf(c)
    BY <1>1, <2>2, StepKeepsRecord
  <2>4. k \in 1 .. Len(file') /\ file'[k] = file[k]
    BY <1>1, <1>2, AppendFacts
  <2>. QED  BY <2>1, <2>3, <2>4 DEF OnFile
<1>4. CASE pc[c] = "writing" /\ file' = Append(file, RecordOf(c))
  <2>1. RecordOf(c)' = RecordOf(c)
    BY <1>1, <1>4, StepKeepsRecord
  <2>2. RecordOf(c) \in Block
    BY <1>1, <1>4, RecordType, BlockFacts DEF OrderInv, TypeInv, Accepted
  <2>3. Len(file) + 1 \in 1 .. Len(file') /\ file'[Len(file) + 1] = RecordOf(c)
    BY <1>1, <1>4, <2>2, AppendFacts
  <2>. QED  BY <2>1, <2>3 DEF OnFile
<1>. QED  BY <1>1, <1>3, <1>4, StepRecords

\* An appended block that is no record of dispatch c leaves none.
LEMMA NoRecordAppend ==
  ASSUME NEW c \in Dispatch, NoRecordOf(c), file \in Seq(Block), NEW b \in Block,
         b \in Foreign => b.what # OwnContent(c), file' = Append(file, b)
  PROVE  NoRecordOf(c)'
BY AppendFacts DEF NoRecordOf, Places

\* What a writer says is not what another dispatch has to say.
LEMMA SaysOwn ==
  ASSUME HasEvent, NEW c \in Caller, pc[c] = "writing", NEW x \in Dispatch, x # c
  PROVE  RecordOf(c).what # OwnContent(x)
<1>1. CASE c \in Dispatch
  BY <1>1 DEF RecordOf, Says, OwnContent
<1>2. CASE c \notin Dispatch
  <2>1. event[c] \in Event /\ RecordOf(c).what = event[c]
    BY <1>2, CallFacts DEF HasEvent, Accepted, RecordOf, Says
  <2>2. event[c].type # "dispatched"
    BY <2>1 DEF Event
  <2>. QED  BY <2>1, <2>2 DEF OwnContent
<1>. QED  BY <1>1, <1>2

LEMMA NextUnrecorded == TruthInv /\ [Next]_vars => Unrecorded'
<1> SUFFICES ASSUME TruthInv, [Next]_vars PROVE Unrecorded'
  OBVIOUS
<1>t. TypeOK /\ HasLast(file) /\ SilentTillEnd /\ HasEvent /\ HeldNotarised /\ Unrecorded
  BY DEF TruthInv, OrderInv, TypeInv
<1>1. ASSUME NEW d \in Delivery, Receive(d) PROVE Unrecorded'
  <2> SUFFICES ASSUME NEW x \in Dispatch
               PROVE  (Unwritten(x)' => NoRecordOf(x)') /\ (Sent(x)' => x \in submissions')
    BY DEF Unrecorded
  <2>1. Unwritten(x)' => Unwritten(x)
    BY <1>t, <1>1, ReceiveDoes, CallFacts DEF Unwritten, Moved, MayStart
  <2>2. Sent(x)' => Sent(x) \/ x \in submissions'
    BY <1>t, <1>1, ReceiveDoes, CallFacts DEF Sent, Moved, MayStart
  <2>3. submissions \subseteq submissions'
    BY <1>t, <1>1, ReceiveDoes
  <2>4. Unwritten(x)' /\ NoRecordOf(x) => NoRecordOf(x)'
    BY <1>t, <1>1, ReceiveDoes DEF NoRecordOf, Places
  <2>. QED  BY <1>t, <2>1, <2>2, <2>3, <2>4 DEF Unrecorded
<1>2. ASSUME NEW d \in Delivery, CountBlocks(d) PROVE Unrecorded'
  <2> SUFFICES ASSUME NEW x \in Dispatch
               PROVE  (Unwritten(x)' => NoRecordOf(x)') /\ (Sent(x)' => x \in submissions')
    BY DEF Unrecorded
  <2>1. Unwritten(x)' => Unwritten(x)
    BY <1>t, <1>2, CountBlocksDoes, CallFacts DEF Unwritten, Moved, MayStart
  <2>2. Sent(x)' => Sent(x) \/ x \in submissions'
    BY <1>t, <1>2, CountBlocksDoes, CallFacts DEF Sent, Moved, MayStart
  <2>3. submissions \subseteq submissions'
    BY <1>t, <1>2, CountBlocksDoes
  <2>4. Unwritten(x)' /\ NoRecordOf(x) => NoRecordOf(x)'
    BY <1>t, <1>2, CountBlocksDoes DEF NoRecordOf, Places
  <2>. QED  BY <1>t, <2>1, <2>2, <2>3, <2>4 DEF Unrecorded
<1>3. ASSUME NEW d \in Delivery, CountFails(d) PROVE Unrecorded'
  <2> SUFFICES ASSUME NEW x \in Dispatch
               PROVE  (Unwritten(x)' => NoRecordOf(x)') /\ (Sent(x)' => x \in submissions')
    BY DEF Unrecorded
  <2>1. Unwritten(x)' => Unwritten(x)
    BY <1>t, <1>3, CountFailsDoes, CallFacts DEF Unwritten, Moved, MayStart
  <2>2. Sent(x)' => Sent(x) \/ x \in submissions'
    BY <1>t, <1>3, CountFailsDoes, CallFacts DEF Sent, Moved, MayStart
  <2>3. submissions \subseteq submissions'
    BY <1>t, <1>3, CountFailsDoes
  <2>4. Unwritten(x)' /\ NoRecordOf(x) => NoRecordOf(x)'
    BY <1>t, <1>3, CountFailsDoes DEF NoRecordOf, Places
  <2>. QED  BY <1>t, <2>1, <2>2, <2>3, <2>4 DEF Unrecorded
<1>4. ASSUME NEW c \in Dispatch, CreateTemplate(c) PROVE Unrecorded'
  <2> SUFFICES ASSUME NEW x \in Dispatch
               PROVE  (Unwritten(x)' => NoRecordOf(x)') /\ (Sent(x)' => x \in submissions')
    BY DEF Unrecorded
  <2>1. Unwritten(x)' => Unwritten(x)
    BY <1>t, <1>4, CreateTemplateDoes, CallFacts DEF Unwritten, Moved, MayStart
  <2>2. Sent(x)' => Sent(x) \/ x \in submissions'
    BY <1>t, <1>4, CreateTemplateDoes, CallFacts DEF Sent, Moved, MayStart
  <2>3. submissions \subseteq submissions'
    BY <1>t, <1>4, CreateTemplateDoes
  <2>4. Unwritten(x)' /\ NoRecordOf(x) => NoRecordOf(x)'
    BY <1>t, <1>4, CreateTemplateDoes DEF NoRecordOf, Places
  <2>. QED  BY <1>t, <2>1, <2>2, <2>3, <2>4 DEF Unrecorded
<1>5. ASSUME NEW c \in Dispatch, CreateSubmission(c) PROVE Unrecorded'
  <2> SUFFICES ASSUME NEW x \in Dispatch
               PROVE  (Unwritten(x)' => NoRecordOf(x)') /\ (Sent(x)' => x \in submissions')
    BY DEF Unrecorded
  <2>1. Unwritten(x)' => Unwritten(x)
    BY <1>t, <1>5, CreateSubmissionDoes, CallFacts DEF Unwritten, Moved, MayStart
  <2>2. Sent(x)' => Sent(x) \/ x \in submissions'
    BY <1>t, <1>5, CreateSubmissionDoes, CallFacts DEF Sent, Moved, MayStart
  <2>3. submissions \subseteq submissions'
    BY <1>t, <1>5, CreateSubmissionDoes
  <2>4. Unwritten(x)' /\ NoRecordOf(x) => NoRecordOf(x)'
    BY <1>t, <1>5, CreateSubmissionDoes DEF NoRecordOf, Places
  <2>. QED  BY <1>t, <2>1, <2>2, <2>3, <2>4 DEF Unrecorded
<1>6. ASSUME NEW c \in Caller, ReadTail(c) PROVE Unrecorded'
  <2> SUFFICES ASSUME NEW x \in Dispatch
               PROVE  (Unwritten(x)' => NoRecordOf(x)') /\ (Sent(x)' => x \in submissions')
    BY DEF Unrecorded
  <2>1. Unwritten(x)' => Unwritten(x)
    BY <1>t, <1>6, ReadTailDoes, CallFacts DEF Unwritten, Moved, MayStart
  <2>2. Sent(x)' => Sent(x) \/ x \in submissions'
    BY <1>t, <1>6, ReadTailDoes, CallFacts DEF Sent, Moved, MayStart
  <2>3. submissions \subseteq submissions'
    BY <1>t, <1>6, ReadTailDoes
  <2>4. Unwritten(x)' /\ NoRecordOf(x) => NoRecordOf(x)'
    BY <1>t, <1>6, ReadTailDoes DEF NoRecordOf, Places
  <2>. QED  BY <1>t, <2>1, <2>2, <2>3, <2>4 DEF Unrecorded
<1>7. ASSUME NEW c \in Caller, WriteBlock(c) PROVE Unrecorded'
  <2> SUFFICES ASSUME NEW x \in Dispatch
               PROVE  (Unwritten(x)' => NoRecordOf(x)') /\ (Sent(x)' => x \in submissions')
    BY DEF Unrecorded
  <2>1. Unwritten(x)' => Unwritten(x)
    BY <1>t, <1>7, WriteBlockDoes, CallFacts DEF Unwritten, Moved, MayStart
  <2>2. Sent(x)' => Sent(x) \/ x \in submissions'
    BY <1>t, <1>7, WriteBlockDoes, CallFacts DEF Sent, Moved, MayStart
  <2>3. submissions \subseteq submissions'
    BY <1>t, <1>7, WriteBlockDoes
  <2>4. Unwritten(x)' /\ NoRecordOf(x) => NoRecordOf(x)'
    <3> SUFFICES ASSUME Unwritten(x)', NoRecordOf(x) PROVE NoRecordOf(x)'
      OBVIOUS
    <3>1. pc[c] = "writing" /\ file' = Append(file, RecordOf(c))
      BY <1>t, <1>7, WriteBlockDoes
    <3>2. x # c
      BY <1>t, <1>7, WriteBlockDoes, CallFacts DEF Unwritten, SilentTillEnd
    <3>3. RecordOf(c) \in Block
      BY <1>t, <1>7, <3>1, RecordType, BlockFacts DEF Accepted
    <3>4. RecordOf(c).what # OwnContent(x)
      BY <1>t, <1>7, <3>1, <3>2, SaysOwn
    <3>5. file \in Seq(Block)
      BY <1>t DEF TypeOK
    <3>. QED  BY <3>1, <3>3, <3>4, <3>5, NoRecordAppend
  <2>. QED  BY <1>t, <2>1, <2>2, <2>3, <2>4 DEF Unrecorded
<1>8. ASSUME NEW c \in Caller, WriteFails(c) PROVE Unrecorded'
  <2> SUFFICES ASSUME NEW x \in Dispatch
               PROVE  (Unwritten(x)' => NoRecordOf(x)') /\ (Sent(x)' => x \in submissions')
    BY DEF Unrecorded
  <2>1. Unwritten(x)' => Unwritten(x)
    BY <1>t, <1>8, WriteFailsDoes, CallFacts DEF Unwritten, Moved, MayStart
  <2>2. Sent(x)' => Sent(x) \/ x \in submissions'
    BY <1>t, <1>8, WriteFailsDoes, CallFacts DEF Sent, Moved, MayStart
  <2>3. submissions \subseteq submissions'
    BY <1>t, <1>8, WriteFailsDoes
  <2>4. Unwritten(x)' /\ NoRecordOf(x) => NoRecordOf(x)'
    <3> SUFFICES ASSUME Unwritten(x)', NoRecordOf(x) PROVE NoRecordOf(x)'
      OBVIOUS
    <3>1. /\ pc[c] = "writing" /\ file \in Seq(Block)
          /\ file' = file \/ \E b \in {Torn, RecordOf(c)} : file' = Append(file, b)
      BY <1>t, <1>8, WriteFailsDoes DEF TypeOK
    <3>2. x # c
      BY <1>t, <1>8, WriteFailsDoes, CallFacts DEF Unwritten
    <3>3. RecordOf(c) \in Block
      BY <1>t, <1>8, <3>1, RecordType, BlockFacts DEF Accepted
    <3>4. RecordOf(c).what # OwnContent(x)
      BY <1>t, <1>8, <3>1, <3>2, SaysOwn
    <3>5. CASE file' = file
      BY <3>5 DEF NoRecordOf, Places
    <3>6. CASE \E b \in {Torn, RecordOf(c)} : file' = Append(file, b)
      BY <3>1, <3>3, <3>4, <3>6, BlockFacts, NoRecordAppend
    <3>. QED  BY <3>1, <3>5, <3>6
  <2>. QED  BY <1>t, <2>1, <2>2, <2>3, <2>4 DEF Unrecorded
<1>9. ASSUME NEW n \in Notary, NotariseRead(n) PROVE Unrecorded'
  <2> SUFFICES ASSUME NEW x \in Dispatch
               PROVE  (Unwritten(x)' => NoRecordOf(x)') /\ (Sent(x)' => x \in submissions')
    BY DEF Unrecorded
  <2>1. Unwritten(x)' => Unwritten(x)
    BY <1>t, <1>9, NotariseReadDoes, CallFacts DEF Unwritten, Moved, MayStart
  <2>2. Sent(x)' => Sent(x) \/ x \in submissions'
    BY <1>t, <1>9, NotariseReadDoes, CallFacts DEF Sent, Moved, MayStart
  <2>3. submissions \subseteq submissions'
    BY <1>t, <1>9, NotariseReadDoes
  <2>4. Unwritten(x)' /\ NoRecordOf(x) => NoRecordOf(x)'
    BY <1>t, <1>9, NotariseReadDoes DEF NoRecordOf, Places
  <2>. QED  BY <1>t, <2>1, <2>2, <2>3, <2>4 DEF Unrecorded
<1>10. ASSUME NEW n \in Notary, NotariseReplace(n) PROVE Unrecorded'
  <2> SUFFICES ASSUME NEW x \in Dispatch
               PROVE  (Unwritten(x)' => NoRecordOf(x)') /\ (Sent(x)' => x \in submissions')
    BY DEF Unrecorded
  <2>1. Unwritten(x)' => Unwritten(x)
    BY <1>t, <1>10, NotariseReplaceDoes, CallFacts DEF Unwritten, Moved, MayStart
  <2>2. Sent(x)' => Sent(x) \/ x \in submissions'
    BY <1>t, <1>10, NotariseReplaceDoes, CallFacts DEF Sent, Moved, MayStart
  <2>3. submissions \subseteq submissions'
    BY <1>t, <1>10, NotariseReplaceDoes
  <2>4. Unwritten(x)' /\ NoRecordOf(x) => NoRecordOf(x)'
    <3>1. pc[n] = "replacing" /\ file' = Append(held[n], n)
      BY <1>t, <1>10, NotariseReplaceDoes
    <3>2. held[n] \in Seq(Block) /\ \A k \in 1 .. Len(held[n]) : held[n][k] \in Notarised
      BY <1>t, <1>10, <3>1 DEF TypeOK, HeldNotarised
    <3>3. \A k \in 1 .. Len(file') : file'[k] \notin Foreign
      BY <1>10, <3>1, <3>2, ReplacedType, BlockFacts
    <3>. QED  BY <3>3 DEF NoRecordOf, Places
  <2>. QED  BY <1>t, <2>1, <2>2, <2>3, <2>4 DEF Unrecorded
<1>11. ASSUME NEW c \in Call, Kill(c) PROVE Unrecorded'
  <2> SUFFICES ASSUME NEW x \in Dispatch
               PROVE  (Unwritten(x)' => NoRecordOf(x)') /\ (Sent(x)' => x \in submissions')
    BY DEF Unrecorded
  <2>1. Unwritten(x)' => Unwritten(x)
    BY <1>t, <1>11, KillDoes, CallFacts DEF Unwritten, Moved, MayStart
  <2>2. Sent(x)' => Sent(x) \/ x \in submissions'
    BY <1>t, <1>11, KillDoes, CallFacts DEF Sent, Moved, MayStart
  <2>3. submissions \subseteq submissions'
    BY <1>t, <1>11, KillDoes
  <2>4. Unwritten(x)' /\ NoRecordOf(x) => NoRecordOf(x)'
    BY <1>t, <1>11, KillDoes DEF NoRecordOf, Places
  <2>. QED  BY <1>t, <2>1, <2>2, <2>3, <2>4 DEF Unrecorded
<1>12. ASSUME NEW c \in Dispatch, PrintResult(c) PROVE Unrecorded'
  <2> SUFFICES ASSUME NEW x \in Dispatch
               PROVE  (Unwritten(x)' => NoRecordOf(x)') /\ (Sent(x)' => x \in submissions')
    BY DEF Unrecorded
  <2>1. Unwritten(x)' => Unwritten(x)
    BY <1>t, <1>12, PrintResultDoes, CallFacts DEF Unwritten, Moved, MayStart
  <2>2. Sent(x)' => Sent(x) \/ x \in submissions'
    BY <1>t, <1>12, PrintResultDoes, CallFacts DEF Sent, Moved, MayStart
  <2>3. submissions \subseteq submissions'
    BY <1>t, <1>12, PrintResultDoes
  <2>4. Unwritten(x)' /\ NoRecordOf(x) => NoRecordOf(x)'
    BY <1>t, <1>12, PrintResultDoes DEF NoRecordOf, Places
  <2>. QED  BY <1>t, <2>1, <2>2, <2>3, <2>4 DEF Unrecorded
<1>13. CASE UNCHANGED vars
  BY <1>t, <1>13 DEF vars, Unrecorded, Unwritten, Sent, NoRecordOf, Places
<1>. QED  BY <1>1, <1>2, <1>3, <1>4, <1>5, <1>6, <1>7, <1>8, <1>9, <1>10, <1>11, <1>12, <1>13 DEF Next

LEMMA NextTruth == TruthInv /\ [Next]_vars => TruthInv'
BY NextOrdered, NextRecorded, NextUnrecorded DEF TruthInv

\* Whoever is told that there is a record finds it on file, and a dispatch that is
\* told anything else has none, unless it was killed or its write raised.
THEOREM CallersToldTheTruth == Spec => []ToldTheTruth
<1>1. TruthInv => ToldTheTruth
  <2> SUFFICES ASSUME TruthInv PROVE ToldTheTruth
    OBVIOUS
  <2>1. Recorded /\ Unrecorded
    BY DEF TruthInv
  <2>. QED
    BY <2>1 DEF ToldTheTruth, Recorded, Recording, Unrecorded, Unwritten, Sent, NoRecordOf
<1>. QED  BY <1>1, InitTruth, NextTruth, PTL DEF Spec

-----------------------------------------------------------------------------
(***************************************************************************)
(* Records link to the past of the file they are in.                       *)
(***************************************************************************)

\* HistoryTo of any file.
ClosedTo(f, k) == {j \in 1 .. k : f[j] # Torn}
LastOf(S) == CHOOSE j \in S : \A i \in S : i <= j
Hist(f, k) ==
  LET last == LastOf(ClosedTo(f, k))
  IN IF ClosedTo(f, k) = {} THEN Genesis
     ELSE IF f[last] \in Foreign THEN Append(f[last].prev, f[last].what)
     ELSE <<f[last]>>

\* Every beginning of the file has a last closed block.
HasLasts(f) ==
  \A k \in 0 .. Len(f) :
    ClosedTo(f, k) # {} =>
      \E j \in ClosedTo(f, k) : \A i \in ClosedTo(f, k) : i <= j

LEMMA HistIsHistory ==
  /\ \A k : HistoryTo(k) = Hist(file, k)
  /\ \A k : HistoryTo(k)' = Hist(file', k)
BY DEF HistoryTo, Hist, ClosedTo, LastOf

LEMMA HistAppend ==
  ASSUME NEW f \in Seq(Block), HasLasts(f), NEW b \in Block, NEW k \in 0 .. Len(f)
  PROVE  Hist(Append(f, b), k) = Hist(f, k)
<1> DEFINE g == Append(f, b)
           last == LastOf(ClosedTo(f, k))
<1>1. \A j \in 1 .. k : g[j] = f[j]
  BY AppendFacts
<1>2. ClosedTo(g, k) = ClosedTo(f, k)
  BY <1>1 DEF ClosedTo
<1>3. CASE ClosedTo(f, k) = {}
  BY <1>2, <1>3 DEF Hist
<1>4. CASE ClosedTo(f, k) # {}
  <2>1. \E j \in ClosedTo(f, k) : \A i \in ClosedTo(f, k) : i <= j
    BY <1>4 DEF HasLasts
  <2>2. last \in ClosedTo(f, k)
    BY <2>1, Zenon DEF LastOf
  <2>3. g[last] = f[last]
    BY <1>1, <2>2 DEF ClosedTo
  <2>4. Hist(f, k) = IF f[last] \in Foreign THEN Append(f[last].prev, f[last].what)
                     ELSE <<f[last]>>
    BY <1>4 DEF Hist
  <2>5. Hist(g, k) = IF g[last] \in Foreign THEN Append(g[last].prev, g[last].what)
                     ELSE <<g[last]>>
    BY <1>2, <1>4 DEF Hist
  <2>. QED  BY <2>3, <2>4, <2>5
<1>. QED  BY <1>3, <1>4

LEMMA HasLastsAppend ==
  ASSUME NEW f \in Seq(Block), HasLasts(f), NEW b \in Block
  PROVE  HasLasts(Append(f, b))
<1> DEFINE g == Append(f, b)
           n == Len(f)
<1>1. n \in Nat /\ Len(g) = n + 1 /\ g[n + 1] = b /\ \A j \in 1 .. n : g[j] = f[j]
  BY AppendFacts
<1> HIDE DEF g, n
<1> SUFFICES ASSUME NEW k \in 0 .. n + 1, ClosedTo(g, k) # {}
             PROVE  \E j \in ClosedTo(g, k) : \A i \in ClosedTo(g, k) : i <= j
  BY <1>1 DEF HasLasts, g
<1>2. CASE k \in 0 .. n
  <2>1. ClosedTo(g, k) = ClosedTo(f, k)
    BY <1>1, <1>2 DEF ClosedTo
  <2>. QED  BY <1>2, <2>1 DEF HasLasts, n
<1>3. CASE k = n + 1 /\ b = Torn
  <2>1. ClosedTo(g, k) = ClosedTo(f, n)
    BY <1>1, <1>3 DEF ClosedTo
  <2>2. n \in 0 .. n
    BY <1>1
  <2>. QED  BY <2>1, <2>2 DEF HasLasts, n
<1>4. CASE k = n + 1 /\ b # Torn
  <2>1. n + 1 \in ClosedTo(g, k)
    BY <1>1, <1>4 DEF ClosedTo
  <2>2. \A i \in ClosedTo(g, k) : i <= n + 1
    BY <1>1, <1>4 DEF ClosedTo
  <2>. QED  BY <2>1, <2>2
<1>. QED  BY <1>1, <1>2, <1>3, <1>4

\* What a caller signs over is the whole history of the file.
LEMMA LastHashIsHistory ==
  ASSUME NEW f \in Seq(Block), HasLast(f), TailReadable(f)
  PROVE  LastHash(f) = Hist(f, Len(f))
<1> DEFINE n == Len(f)
           last == LastOf(ClosedTo(f, n))
<1>1. n \in Nat /\ DOMAIN f = 1 .. n
  BY LenProperties
<1>2. Closed(f) = ClosedTo(f, n)
  BY <1>1 DEF Closed, ClosedTo
<1>3. LastClosed(f) = IF ClosedTo(f, n) = {} THEN 0 ELSE last
  <2>1. LastClosed(f) = IF Closed(f) = {} THEN 0 ELSE LastOf(Closed(f))
    BY DEF LastClosed, Closed, LastOf
  <2>. QED  BY <1>2, <2>1
<1>4. CASE ClosedTo(f, n) = {}
  BY <1>3, <1>4 DEF LastHash, Hist
<1>5. CASE ClosedTo(f, n) # {}
  <2>1. \E j \in ClosedTo(f, n) : \A i \in ClosedTo(f, n) : i <= j
    BY <1>2, <1>5 DEF HasLast
  <2>2. last \in ClosedTo(f, n)
    BY <2>1, Zenon DEF LastOf
  <2> HIDE DEF last
  <2>3. last \in 1 .. n /\ f[last] # Torn /\ last # 0 /\ LastClosed(f) = last
    BY <1>1, <1>3, <1>5, <2>2 DEF ClosedTo
  <2>4. f[last] \in Block /\ f[last] # Bad
    BY <2>3, ElementOfSeq DEF TailReadable
  <2>5. LastHash(f) = HashOf(f[last])
    BY <2>3 DEF LastHash
  <2>6. Hist(f, n) = IF f[last] \in Foreign THEN Append(f[last].prev, f[last].what)
                     ELSE <<f[last]>>
    BY <1>5 DEF Hist, last
  <2>. QED  BY <2>3, <2>4, <2>5, <2>6, BlockFacts DEF HashOf
<1>. QED  BY <1>4, <1>5

\* A caller about to write holds a history the file has had; when calls follow
\* one another, the one it has.
WriterLinks ==
  NothingReplaced =>
    \A c \in Caller : pc[c] = "writing" =>
      \E j \in 0 .. Len(file) : prev[c] = HistoryTo(j) /\ (alone => j = Len(file))

LinkInv ==
  OrderInv /\ WriterLinks /\ LinksToItsPast /\ (NothingReplaced => HasLasts(file))

LEMMA InitLinked == Init => LinkInv
<1> SUFFICES ASSUME Init PROVE LinkInv
  OBVIOUS
<1>1. Seed \notin Foreign /\ Bad \notin Foreign /\ Seed # Torn /\ Bad # Torn
  BY BlocksDiffer DEF Notarised
<1>2. file \in {<< >>, <<Seed>>, <<Bad>>}
  BY DEF Init
<1>3. \A k \in 1 .. Len(file) : file[k] \notin Foreign /\ file[k] # Torn
  BY <1>1, <1>2
<1>4. Len(file) \in Nat
  BY <1>2
<1>5. HasLasts(file)
  <2> SUFFICES ASSUME NEW k \in 0 .. Len(file), ClosedTo(file, k) # {}
               PROVE  \E j \in ClosedTo(file, k) : \A i \in ClosedTo(file, k) : i <= j
    BY DEF HasLasts
  <2>1. ClosedTo(file, k) = 1 .. k
    BY <1>3, <1>4 DEF ClosedTo
  <2>. QED  BY <1>4, <2>1
<1>6. WriterLinks
  BY CallFacts DEF Init, WriterLinks
<1>. QED  BY <1>3, <1>5, <1>6, InitOrdered DEF LinkInv, LinksToItsPast

LEMMA AloneStays == [Next]_vars => alone' = alone
BY DEF Next, vars, Receive, CreateTemplate, CreateSubmission, ReadTail, WriteBlock,
  WriteFails, CountBlocks, CountFails, PrintResult, NotariseRead, NotariseReplace, Kill

\* Who is about to write has just read, or was about to write before, and when
\* calls follow one another nobody has changed the file since.
LEMMA StepWriter ==
  ASSUME OrderInv, [Next]_vars, NEW x \in Caller, pc'[x] \in {"writing", "answering"}
  PROVE  /\ alone' = alone
         /\ \/ pc[x] = pc'[x] /\ (alone => file' = file)
            \/ /\ pc'[x] = "writing" /\ prev'[x] = LastHash(file)
               /\ TailReadable(file) /\ file' = file
            \/ /\ pc'[x] = "answering" /\ pc[x] = "writing"
               /\ file' = Append(file, RecordOf(x))
<1>t. TypeOK /\ HasLast(file) /\ OneAtATime
  BY DEF OrderInv, TypeInv
<1>k. \A c \in Call : c # x /\ alone /\ InProgress(c) => ~InProgress(x)
  BY <1>t, CallFacts DEF OneAtATime
<1> DEFINE Goal ==
      /\ alone' = alone
      /\ \/ pc[x] = pc'[x] /\ (alone => file' = file)
         \/ /\ pc'[x] = "writing" /\ prev'[x] = LastHash(file)
            /\ TailReadable(file) /\ file' = file
         \/ /\ pc'[x] = "answering" /\ pc[x] = "writing"
            /\ file' = Append(file, RecordOf(x))
<1>1. ASSUME NEW d \in Delivery, Receive(d) PROVE Goal
  BY <1>t, <1>1, ReceiveDoes, CallFacts DEF Moved
<1>2. ASSUME NEW d \in Delivery, CountBlocks(d) PROVE Goal
  BY <1>t, <1>2, CountBlocksDoes, CallFacts DEF Moved
<1>3. ASSUME NEW d \in Delivery, CountFails(d) PROVE Goal
  BY <1>t, <1>3, CountFailsDoes, CallFacts DEF Moved
<1>4. ASSUME NEW c \in Dispatch, CreateTemplate(c) PROVE Goal
  BY <1>t, <1>4, CreateTemplateDoes, CallFacts DEF Moved
<1>5. ASSUME NEW c \in Dispatch, CreateSubmission(c) PROVE Goal
  BY <1>t, <1>5, CreateSubmissionDoes, CallFacts DEF Moved
<1>6. ASSUME NEW c \in Caller, ReadTail(c) PROVE Goal
  BY <1>t, <1>6, ReadTailDoes, CallFacts DEF Moved
<1>7. ASSUME NEW c \in Caller, WriteBlock(c) PROVE Goal
  <2>1. Moved(c) /\ InProgress(c) /\ alone' = alone
    BY <1>t, <1>7, WriteBlockDoes DEF InProgress
  <2>2. CASE x = c
    BY <1>t, <1>7, <2>2, WriteBlockDoes, CallFacts
  <2>3. CASE x # c
    <3>1. pc[x] = pc'[x]
      BY <2>1, <2>3, CallFacts DEF Moved
    <3>2. ~alone
      BY <1>k, <1>7, <2>1, <2>3, <3>1, CallFacts DEF InProgress
    <3>. QED  BY <2>1, <3>1, <3>2
  <2>. QED  BY <2>2, <2>3
<1>8. ASSUME NEW c \in Caller, WriteFails(c) PROVE Goal
  <2>1. Moved(c) /\ InProgress(c) /\ alone' = alone
    BY <1>t, <1>8, WriteFailsDoes DEF InProgress
  <2>2. CASE x = c
    BY <1>t, <1>8, <2>2, WriteFailsDoes, CallFacts
  <2>3. CASE x # c
    <3>1. pc[x] = pc'[x]
      BY <2>1, <2>3, CallFacts DEF Moved
    <3>2. ~alone
      BY <1>k, <1>8, <2>1, <2>3, <3>1, CallFacts DEF InProgress
    <3>. QED  BY <2>1, <3>1, <3>2
  <2>. QED  BY <2>2, <2>3
<1>9. ASSUME NEW n \in Notary, NotariseRead(n) PROVE Goal
  BY <1>t, <1>9, NotariseReadDoes, CallFacts DEF Moved
<1>10. ASSUME NEW n \in Notary, NotariseReplace(n) PROVE Goal
  <2>1. Moved(n) /\ InProgress(n) /\ alone' = alone
    BY <1>t, <1>10, NotariseReplaceDoes DEF InProgress
  <2>2. CASE x = n
    BY <1>t, <1>10, <2>2, NotariseReplaceDoes, CallFacts
  <2>3. CASE x # n
    <3>1. pc[x] = pc'[x]
      BY <2>1, <2>3, CallFacts DEF Moved
    <3>2. ~alone
      BY <1>k, <1>10, <2>1, <2>3, <3>1, CallFacts DEF InProgress
    <3>. QED  BY <2>1, <3>1, <3>2
  <2>. QED  BY <2>2, <2>3
<1>11. ASSUME NEW c \in Call, Kill(c) PROVE Goal
  BY <1>t, <1>11, KillDoes, CallFacts DEF Moved
<1>12. ASSUME NEW c \in Dispatch, PrintResult(c) PROVE Goal
  BY <1>t, <1>12, PrintResultDoes, CallFacts DEF Moved
<1>13. CASE UNCHANGED vars
  BY <1>13 DEF vars
<1>. QED  BY <1>1, <1>2, <1>3, <1>4, <1>5, <1>6, <1>7, <1>8, <1>9, <1>10, <1>11, <1>12, <1>13 DEF Next

LEMMA NextLinked == LinkInv /\ [Next]_vars => LinkInv'
<1> SUFFICES ASSUME LinkInv, [Next]_vars, NothingReplaced'
             PROVE  WriterLinks' /\ LinksToItsPast' /\ HasLasts(file')
  <2>1. (NothingReplaced => HasLasts(file))' <=> (NothingReplaced' => HasLasts(file'))
    BY DEF HasLasts, ClosedTo
  <2>2. ~NothingReplaced' => WriterLinks' /\ LinksToItsPast'
    BY DEF WriterLinks, LinksToItsPast
  <2>3. LinkInv /\ [Next]_vars => OrderInv'
    BY NextOrdered DEF LinkInv
  <2>. QED  BY <2>1, <2>2, <2>3 DEF LinkInv
<1>1. /\ OrderInv /\ NothingReplaced
      /\ file \in Seq(Block) /\ HasLast(file) /\ HasLasts(file)
      /\ WriterLinks /\ LinksToItsPast
      /\ Len(file) \in Nat
  BY StepGrows, LenProperties DEF LinkInv, OrderInv, TypeInv, TypeOK
<1>2. \/ file' = file
      \/ \E b \in Block :
           /\ file' = Append(file, b)
           /\ b \in Foreign => \E c \in Caller : pc[c] = "writing" /\ b = RecordOf(c)
  BY <1>1, StepGrows
<1>3. /\ Len(file') \in Nat /\ Len(file) <= Len(file')
      /\ \A k \in 0 .. Len(file) : HistoryTo(k)' = HistoryTo(k)
  <2>1. CASE file' = file
    BY <1>1, <2>1, HistIsHistory
  <2>2. ASSUME NEW b \in Block, file' = Append(file, b)
        PROVE  /\ Len(file') = Len(file) + 1
               /\ \A k \in 0 .. Len(file) : Hist(file', k) = Hist(file, k)
    BY <1>1, <2>2, AppendFacts, HistAppend
  <2>. QED  BY <1>1, <1>2, <2>1, <2>2, HistIsHistory
<1>4. HasLasts(file')
  <2>1. \A b \in Block : HasLasts(Append(file, b))
    BY <1>1, HasLastsAppend
  <2>. QED  BY <1>1, <1>2, <2>1
<1>5. WriterLinks'
  <2> SUFFICES ASSUME NEW c \in Caller, pc'[c] = "writing"
               PROVE  \E j \in 0 .. Len(file') :
                        prev'[c] = HistoryTo(j)' /\ (alone' => j = Len(file'))
    BY DEF WriterLinks
  <2>1. CASE pc[c] = "writing" /\ (alone => file' = file) /\ alone' = alone
    <3>1. PICK j \in 0 .. Len(file) : prev[c] = HistoryTo(j) /\ (alone => j = Len(file))
      BY <1>1, <2>1 DEF WriterLinks
    <3>2. prev'[c] = prev[c]
      BY <1>1, <2>1, StepKeepsRecord
    <3>3. j \in 0 .. Len(file') /\ HistoryTo(j)' = HistoryTo(j)
      BY <1>1, <1>3
    <3>. QED  BY <2>1, <3>1, <3>2, <3>3
  <2>2. CASE prev'[c] = LastHash(file) /\ TailReadable(file) /\ file' = file
    <3>1. prev'[c] = Hist(file', Len(file'))
      BY <1>1, <2>2, LastHashIsHistory
    <3>2. \A k : HistoryTo(k)' = Hist(file', k)
      BY HistIsHistory
    <3>3. Len(file') \in 0 .. Len(file')
      BY <1>3
    <3>. QED  BY <3>1, <3>2, <3>3
  <2>. QED  BY <1>1, <2>1, <2>2, StepWriter
<1>6. LinksToItsPast'
  <2> SUFFICES ASSUME NEW k \in 1 .. Len(file'), file'[k] \in Foreign
               PROVE  \E j \in 0 .. k - 1 : /\ alone' => j = k - 1
                                            /\ file'[k].prev = HistoryTo(j)'
    BY DEF LinksToItsPast
  <2>a. alone' = alone
    BY AloneStays
  <2>1. CASE k \in 1 .. Len(file)
    <3>1. file'[k] = file[k]
      BY <1>1, <1>2, <2>1, AppendFacts
    <3>2. PICK j \in 0 .. k - 1 : (alone => j = k - 1) /\ file[k].prev = HistoryTo(j)
      BY <1>1, <2>1, <3>1 DEF LinksToItsPast
    <3>3. HistoryTo(j)' = HistoryTo(j)
      BY <1>1, <1>3, <2>1
    <3>. QED  BY <2>a, <3>1, <3>2, <3>3
  <2>2. CASE k \notin 1 .. Len(file)
    <3>1. PICK b \in Block :
            /\ file' = Append(file, b)
            /\ b \in Foreign => \E c \in Caller : pc[c] = "writing" /\ b = RecordOf(c)
      BY <1>2, <2>2
    <3>2. k = Len(file) + 1 /\ file'[k] = b
      BY <1>1, <2>2, <3>1, AppendFacts
    <3>3. PICK c \in Caller : pc[c] = "writing" /\ b = RecordOf(c)
      BY <3>1, <3>2
    <3>4. PICK j \in 0 .. Len(file) : prev[c] = HistoryTo(j) /\ (alone => j = Len(file))
      BY <1>1, <3>3 DEF WriterLinks
    <3>5. b.prev = prev[c]
      BY <3>3 DEF RecordOf
    <3>6. HistoryTo(j)' = HistoryTo(j) /\ j \in 0 .. k - 1 /\ (alone => j = k - 1)
      BY <1>1, <1>3, <3>2, <3>4
    <3>. QED  BY <2>a, <3>2, <3>4, <3>5, <3>6
  <2>. QED  BY <2>1, <2>2
<1>. QED  BY <1>4, <1>5, <1>6

\* Every record names the history of the file as it was at some time before and,
\* when calls follow one another, up to the block below it.
THEOREM RecordsLinkToThePast == Spec => []LinksToItsPast
<1>1. LinkInv => LinksToItsPast
  BY DEF LinkInv
<1>. QED  BY <1>1, InitLinked, NextLinked, PTL DEF Spec

-----------------------------------------------------------------------------
(***************************************************************************)
(* Positions.                                                              *)
(***************************************************************************)

\* A delivery that counts while nobody else is under way has its record last.
CountedLast ==
  alone => \A d \in Delivery :
    pc[d] = "answering" => Len(file) # 0 /\ file[Len(file)] = RecordOf(d)

PositionInv == TruthInv /\ CountedLast /\ PositionCovers

LEMMA StepAnswers ==
  ASSUME OrderInv, [Next]_vars, NEW x \in Delivery, outcome'[x] = "ok"
  PROVE  \/ outcome[x] = "ok" /\ position'[x] = position[x]
         \/ pc[x] = "answering" /\ position'[x] = Len(file) /\ file' = file
<1>t. TypeOK /\ HasLast(file) /\ SilentTillEnd
  BY DEF OrderInv, TypeInv
<1> DEFINE Goal == \/ outcome[x] = "ok" /\ position'[x] = position[x]
                   \/ pc[x] = "answering" /\ position'[x] = Len(file) /\ file' = file
<1>1. ASSUME NEW d \in Delivery, Receive(d) PROVE Goal
  BY <1>t, <1>1, ReceiveDoes, CallFacts DEF Moved, SilentTillEnd, MayStart
<1>2. ASSUME NEW d \in Delivery, CountBlocks(d) PROVE Goal
  BY <1>t, <1>2, CountBlocksDoes, CallFacts DEF Moved, SilentTillEnd, MayStart
<1>3. ASSUME NEW d \in Delivery, CountFails(d) PROVE Goal
  BY <1>t, <1>3, CountFailsDoes, CallFacts DEF Moved, SilentTillEnd, MayStart
<1>4. ASSUME NEW c \in Dispatch, CreateTemplate(c) PROVE Goal
  BY <1>t, <1>4, CreateTemplateDoes, CallFacts DEF Moved, SilentTillEnd, MayStart
<1>5. ASSUME NEW c \in Dispatch, CreateSubmission(c) PROVE Goal
  BY <1>t, <1>5, CreateSubmissionDoes, CallFacts DEF Moved, SilentTillEnd, MayStart
<1>6. ASSUME NEW c \in Caller, ReadTail(c) PROVE Goal
  BY <1>t, <1>6, ReadTailDoes, CallFacts DEF Moved, SilentTillEnd, MayStart
<1>7. ASSUME NEW c \in Caller, WriteBlock(c) PROVE Goal
  BY <1>t, <1>7, WriteBlockDoes, CallFacts DEF Moved, SilentTillEnd, MayStart
<1>8. ASSUME NEW c \in Caller, WriteFails(c) PROVE Goal
  BY <1>t, <1>8, WriteFailsDoes, CallFacts DEF Moved, SilentTillEnd, MayStart
<1>9. ASSUME NEW n \in Notary, NotariseRead(n) PROVE Goal
  BY <1>t, <1>9, NotariseReadDoes, CallFacts DEF Moved, SilentTillEnd, MayStart
<1>10. ASSUME NEW n \in Notary, NotariseReplace(n) PROVE Goal
  BY <1>t, <1>10, NotariseReplaceDoes, CallFacts DEF Moved, SilentTillEnd, MayStart
<1>11. ASSUME NEW c \in Call, Kill(c) PROVE Goal
  BY <1>t, <1>11, KillDoes, CallFacts DEF Moved, SilentTillEnd, MayStart
<1>12. ASSUME NEW c \in Dispatch, PrintResult(c) PROVE Goal
  BY <1>t, <1>12, PrintResultDoes, CallFacts DEF Moved, SilentTillEnd, MayStart
<1>13. CASE UNCHANGED vars
  BY <1>13 DEF vars
<1>. QED  BY <1>1, <1>2, <1>3, <1>4, <1>5, <1>6, <1>7, <1>8, <1>9, <1>10, <1>11, <1>12, <1>13 DEF Next

LEMMA NextCounted == PositionInv /\ [Next]_vars => CountedLast'
<1> SUFFICES ASSUME PositionInv, [Next]_vars, alone',
                    NEW d \in Delivery, pc'[d] = "answering"
             PROVE  Len(file') # 0 /\ file'[Len(file')] = RecordOf(d)'
  BY DEF CountedLast
<1>1. /\ OrderInv /\ CountedLast /\ alone /\ file \in Seq(Block) /\ d \in Caller
  BY AloneStays, CallFacts DEF PositionInv, TruthInv, OrderInv, TypeInv, TypeOK
<1>2. CASE pc[d] = "answering" /\ file' = file
  <2>1. RecordOf(d)' = RecordOf(d)
    BY <1>1, <1>2, StepKeepsRecord
  <2>. QED  BY <1>1, <1>2, <2>1 DEF CountedLast
<1>3. CASE pc[d] = "writing" /\ file' = Append(file, RecordOf(d))
  <2>1. RecordOf(d)' = RecordOf(d)
    BY <1>1, <1>3, StepKeepsRecord
  <2>2. RecordOf(d) \in Block
    BY <1>1, <1>3, RecordType, BlockFacts DEF OrderInv, TypeInv, Accepted
  <2>3. Len(file') = Len(file) + 1 /\ Len(file) \in Nat /\ file'[Len(file) + 1] = RecordOf(d)
    BY <1>1, <1>3, <2>2, AppendFacts
  <2>. QED  BY <2>1, <2>3
<1>. QED  BY <1>1, <1>2, <1>3, StepWriter

LEMMA NextPosition == PositionInv /\ [Next]_vars => PositionCovers'
<1> SUFFICES ASSUME PositionInv, [Next]_vars, NothingReplaced',
                    NEW d \in Delivery, outcome'[d] = "ok"
             PROVE  \E k \in 1 .. position'[d] :
                      /\ k <= Len(file') /\ file'[k] = RecordOf(d)'
                      /\ alone' => k = position'[d]
  BY DEF PositionCovers
<1>1. /\ OrderInv /\ CountedLast /\ PositionCovers /\ Recorded
      /\ file \in Seq(Block) /\ Len(file) \in Nat /\ d \in Caller
      /\ position[d] \in Nat /\ alone' = alone
  BY AloneStays, CallFacts, LenProperties
     DEF PositionInv, TruthInv, OrderInv, TypeInv, TypeOK
<1>2. NothingReplaced /\ (file' = file \/ \E b \in Block : file' = Append(file, b))
  BY <1>1, StepGrows
<1>3. CASE outcome[d] = "ok" /\ position'[d] = position[d]
  <2>1. PICK k \in 1 .. position[d] : /\ k <= Len(file) /\ file[k] = RecordOf(d)
                                      /\ alone => k = position[d]
    BY <1>1, <1>2, <1>3 DEF PositionCovers
  <2>2. pc[d] \in {"done", "raised", "dead"}
    BY <1>1, <1>3, CallFacts DEF OrderInv, SilentTillEnd
  <2>3. RecordOf(d)' = RecordOf(d)
    BY <1>1, <2>2, StepKeepsRecord
  <2>4. k \in 1 .. Len(file)
    BY <1>1, <2>1
  <2>5. k <= Len(file') /\ file'[k] = file[k]
    BY <1>1, <1>2, <2>4, AppendFacts
  <2>. QED  BY <1>1, <1>3, <2>1, <2>3, <2>5
<1>4. CASE pc[d] = "answering" /\ position'[d] = Len(file) /\ file' = file
  <2>1. RecordOf(d)' = RecordOf(d)
    BY <1>1, <1>4, StepKeepsRecord
  <2>2. PICK k \in 1 .. Len(file) : file[k] = RecordOf(d)
    BY <1>1, <1>2, <1>4 DEF Recorded, Recording, OnFile
  <2>3. alone => Len(file) # 0 /\ file[Len(file)] = RecordOf(d)
    BY <1>1, <1>4 DEF CountedLast
  <2>4. CASE alone
    <3>1. Len(file) \in 1 .. position'[d]
      BY <1>1, <1>4, <2>3, <2>4
    <3>. QED  BY <1>1, <1>4, <2>1, <2>3, <2>4, <3>1
  <2>5. CASE ~alone
    BY <1>1, <1>4, <2>1, <2>2, <2>5
  <2>. QED  BY <2>4, <2>5
<1>. QED  BY <1>1, <1>3, <1>4, StepAnswers

\* The chain_position of an answer covers the delivery's record and, when calls
\* follow one another, is its place.
THEOREM PositionsCover == Spec => []PositionCovers
<1>1. Init => PositionInv
  <2>1. Init => CountedLast /\ PositionCovers
    BY CallFacts DEF Init, CountedLast, PositionCovers
  <2>. QED  BY <2>1, InitTruth DEF PositionInv
<1>2. PositionInv /\ [Next]_vars => PositionInv'
  BY NextTruth, NextCounted, NextPosition DEF PositionInv
<1>3. PositionInv => PositionCovers
  BY DEF PositionInv
<1>. QED  BY <1>1, <1>2, <1>3, PTL DEF Spec

-----------------------------------------------------------------------------
(***************************************************************************)
(* One record for each delivery of an event.                               *)
(***************************************************************************)

\* Deliveries of e that have written their record, or given it up.
Past(e) == {d \in Delivery : event[d] = e /\ pc[d] \in {"answering", "done", "raised", "dead"}}

\* Only these are counted, so there is a number to compare with.
Arrived == {d \in Delivery : event[d] # NoEvent}

FileWithinReason ==
  /\ \A e \in Event : Cardinality(Places(e)) <= Cardinality(Past(e))
  /\ \A c \in Dispatch : Cardinality(Places(OwnContent(c))) <= 1
  /\ \A c \in Dispatch : Places(OwnContent(c)) # {} => c \in submissions

OnceInv == TruthInv /\ IsFiniteSet(Arrived) /\ FileWithinReason

\* A caller that writes, be it that the write raises in the end.
Writes(c) ==
  /\ pc[c] = "writing" /\ pc'[c] \in {"answering", "raised"}
  /\ file' = Append(file, RecordOf(c))
  /\ event' = event /\ submissions' = submissions

\* What a step may do to the file.
LEMMA StepFile ==
  ASSUME TypeInv, [Next]_vars
  PROVE  \/ file' = file
         \/ file' = Append(file, Torn)
         \/ \E c \in Caller : Writes(c)
         \/ file' \in Seq(Block) /\ \A k \in 1 .. Len(file') : file'[k] \in Notarised
<1>t. TypeOK /\ HasLast(file) /\ HeldNotarised
  BY DEF TypeInv
<1> DEFINE Goal ==
      \/ file' = file
      \/ file' = Append(file, Torn)
      \/ \E c \in Caller : Writes(c)
      \/ file' \in Seq(Block) /\ \A k \in 1 .. Len(file') : file'[k] \in Notarised
<1>1. ASSUME NEW d \in Delivery, Receive(d) PROVE Goal
  BY <1>t, <1>1, ReceiveDoes
<1>2. ASSUME NEW d \in Delivery, CountBlocks(d) PROVE Goal
  BY <1>t, <1>2, CountBlocksDoes
<1>3. ASSUME NEW d \in Delivery, CountFails(d) PROVE Goal
  BY <1>t, <1>3, CountFailsDoes
<1>4. ASSUME NEW c \in Dispatch, CreateTemplate(c) PROVE Goal
  BY <1>t, <1>4, CreateTemplateDoes
<1>5. ASSUME NEW c \in Dispatch, CreateSubmission(c) PROVE Goal
  BY <1>t, <1>5, CreateSubmissionDoes
<1>6. ASSUME NEW c \in Caller, ReadTail(c) PROVE Goal
  BY <1>t, <1>6, ReadTailDoes
<1>7. ASSUME NEW c \in Caller, WriteBlock(c) PROVE Goal
  <2>1. Writes(c)
    BY <1>t, <1>7, WriteBlockDoes DEF Writes
  <2>. QED  BY <2>1
<1>8. ASSUME NEW c \in Caller, WriteFails(c) PROVE Goal
  <2>1. file' = file \/ file' = Append(file, Torn) \/ Writes(c)
    BY <1>t, <1>8, WriteFailsDoes DEF Writes
  <2>. QED  BY <2>1
<1>9. ASSUME NEW n \in Notary, NotariseRead(n) PROVE Goal
  BY <1>t, <1>9, NotariseReadDoes
<1>10. ASSUME NEW n \in Notary, NotariseReplace(n) PROVE Goal
  <2>1. pc[n] = "replacing" /\ file' = Append(held[n], n)
    BY <1>t, <1>10, NotariseReplaceDoes
  <2>2. held[n] \in Seq(Block) /\ \A k \in 1 .. Len(held[n]) : held[n][k] \in Notarised
    BY <1>t, <1>10, <2>1 DEF TypeOK, HeldNotarised
  <2>3. file' \in Seq(Block) /\ \A k \in 1 .. Len(file') : file'[k] \in Notarised
    BY <1>10, <2>1, <2>2, ReplacedType
  <2>. QED  BY <2>3
<1>11. ASSUME NEW c \in Call, Kill(c) PROVE Goal
  BY <1>t, <1>11, KillDoes
<1>12. ASSUME NEW c \in Dispatch, PrintResult(c) PROVE Goal
  BY <1>t, <1>12, PrintResultDoes
<1>13. CASE UNCHANGED vars
  BY <1>13 DEF vars
<1>. QED  BY <1>1, <1>2, <1>3, <1>4, <1>5, <1>6, <1>7, <1>8, <1>9, <1>10, <1>11, <1>12, <1>13 DEF Next

\* What a step does to the deliveries: at most one is accepted, and none comes back
\* to its start.
Accepts(d) ==
  /\ pc[d] = "idle"
  /\ event' \in [Delivery -> Event \cup {NoEvent}]
  /\ \A b \in Delivery : b # d => event'[b] = event[b]

LEMMA StepDeliveries ==
  ASSUME OrderInv, [Next]_vars
  PROVE  /\ submissions \subseteq submissions'
         /\ event' = event \/ \E d \in Delivery : Accepts(d)
         /\ \A d \in Delivery :
              pc[d] \in {"answering", "done", "raised", "dead"}
                => pc'[d] \in {"answering", "done", "raised", "dead"}
<1>t. TypeOK /\ HasLast(file)
  BY DEF OrderInv, TypeInv
<1> DEFINE Goal ==
      /\ submissions \subseteq submissions'
      /\ event' = event \/ \E d \in Delivery : Accepts(d)
      /\ \A d \in Delivery :
           pc[d] \in {"answering", "done", "raised", "dead"}
             => pc'[d] \in {"answering", "done", "raised", "dead"}
<1>1. ASSUME NEW d \in Delivery, Receive(d) PROVE Goal
  <2>1. /\ pc[d] = "idle" /\ event' \in [Delivery -> Event \cup {NoEvent}]
        /\ \A b \in Delivery : b # d => event'[b] = event[b] /\ pc'[b] = pc[b]
        /\ submissions' = submissions
    BY <1>t, <1>1, ReceiveDoes, CallFacts DEF MayStart, Moved
  <2>2. Accepts(d)
    BY <2>1 DEF Accepts
  <2>. QED  BY <1>1, <2>1, <2>2
<1>2. ASSUME NEW d \in Delivery, CountBlocks(d) PROVE Goal
  BY <1>t, <1>2, CountBlocksDoes, CallFacts DEF Moved, MayStart, InProgress
<1>3. ASSUME NEW d \in Delivery, CountFails(d) PROVE Goal
  BY <1>t, <1>3, CountFailsDoes, CallFacts DEF Moved, MayStart, InProgress
<1>4. ASSUME NEW c \in Dispatch, CreateTemplate(c) PROVE Goal
  BY <1>t, <1>4, CreateTemplateDoes, CallFacts DEF Moved, MayStart, InProgress
<1>5. ASSUME NEW c \in Dispatch, CreateSubmission(c) PROVE Goal
  BY <1>t, <1>5, CreateSubmissionDoes, CallFacts DEF Moved, MayStart, InProgress
<1>6. ASSUME NEW c \in Caller, ReadTail(c) PROVE Goal
  BY <1>t, <1>6, ReadTailDoes, CallFacts DEF Moved, MayStart, InProgress
<1>7. ASSUME NEW c \in Caller, WriteBlock(c) PROVE Goal
  BY <1>t, <1>7, WriteBlockDoes, CallFacts DEF Moved, MayStart, InProgress
<1>8. ASSUME NEW c \in Caller, WriteFails(c) PROVE Goal
  BY <1>t, <1>8, WriteFailsDoes, CallFacts DEF Moved, MayStart, InProgress
<1>9. ASSUME NEW n \in Notary, NotariseRead(n) PROVE Goal
  BY <1>t, <1>9, NotariseReadDoes, CallFacts DEF Moved, MayStart, InProgress
<1>10. ASSUME NEW n \in Notary, NotariseReplace(n) PROVE Goal
  BY <1>t, <1>10, NotariseReplaceDoes, CallFacts DEF Moved, MayStart, InProgress
<1>11. ASSUME NEW c \in Call, Kill(c) PROVE Goal
  BY <1>t, <1>11, KillDoes, CallFacts DEF Moved, MayStart, InProgress
<1>12. ASSUME NEW c \in Dispatch, PrintResult(c) PROVE Goal
  BY <1>t, <1>12, PrintResultDoes, CallFacts DEF Moved, MayStart, InProgress
<1>13. CASE UNCHANGED vars
  BY <1>13 DEF vars
<1>. QED  BY <1>1, <1>2, <1>3, <1>4, <1>5, <1>6, <1>7, <1>8, <1>9, <1>10, <1>11, <1>12, <1>13 DEF Next

\* What is said of something is at finitely many places of the file.
LEMMA PlacesCount ==
  ASSUME file \in Seq(Block), NEW e
  PROVE  IsFiniteSet(Places(e)) /\ Cardinality(Places(e)) \in Nat
<1>1. Places(e) \in SUBSET (1 .. Len(file))
  BY DEF Places
<1>2. Len(file) \in Int
  BY LenProperties
<1>3. IsFiniteSet(1 .. Len(file))
  BY <1>2, FS_Interval
<1>4. IsFiniteSet(Places(e))
  BY <1>1, <1>3, FS_Subset
<1>. QED  BY <1>4, FS_CardinalityType

\* An appended block adds a place to what it says, and to nothing else.
LEMMA PlacesAppend ==
  ASSUME file \in Seq(Block), NEW b \in Block, file' = Append(file, b), NEW e
  PROVE  Cardinality(Places(e)') = IF b \in Foreign /\ b.what = e
                                   THEN Cardinality(Places(e)) + 1
                                   ELSE Cardinality(Places(e))
<1>1. /\ Len(file) \in Nat /\ Len(file') = Len(file) + 1
      /\ file'[Len(file) + 1] = b
      /\ \A k \in 1 .. Len(file) : file'[k] = file[k]
  BY AppendFacts
<1>2. CASE b \in Foreign /\ b.what = e
  <2>1. Places(e)' = Places(e) \cup {Len(file) + 1}
    BY <1>1, <1>2 DEF Places
  <2>2. Len(file) + 1 \notin Places(e)
    BY <1>1 DEF Places
  <2>. QED  BY <1>2, <2>1, <2>2, PlacesCount, FS_AddElement
<1>3. CASE ~ (b \in Foreign /\ b.what = e)
  <2>1. Places(e)' = Places(e)
    BY <1>1, <1>3 DEF Places
  <2>. QED  BY <1>3, <2>1
<1>. QED  BY <1>2, <1>3

\* The deliveries that have arrived stay finitely many, each with the event it
\* came with, and what is past stays past.
LEMMA NextArrived ==
  ASSUME OnceInv, [Next]_vars
  PROVE  /\ IsFiniteSet(Arrived')
         /\ \A e \in Event : /\ Past(e) \subseteq Past(e)'
                             /\ IsFiniteSet(Past(e)) /\ IsFiniteSet(Past(e)')
<1>1. /\ submissions \subseteq submissions'
      /\ event' = event \/ \E d \in Delivery : Accepts(d)
      /\ \A d \in Delivery :
           pc[d] \in {"answering", "done", "raised", "dead"}
             => pc'[d] \in {"answering", "done", "raised", "dead"}
  BY StepDeliveries DEF OnceInv, TruthInv
<1>2. IsFiniteSet(Arrived)
  BY DEF OnceInv
<1>3. /\ IsFiniteSet(Arrived')
      /\ \A d \in Delivery : pc[d] # "idle" => event'[d] = event[d]
  <2>1. CASE event' = event
    BY <1>1, <1>2, <2>1 DEF Arrived
  <2>2. ASSUME NEW d \in Delivery, Accepts(d)
        PROVE  /\ IsFiniteSet(Arrived')
               /\ \A b \in Delivery : pc[b] # "idle" => event'[b] = event[b]
    <3>1. Arrived' \in SUBSET (Arrived \cup {d})
      BY <2>2 DEF Accepts, Arrived
    <3>2. IsFiniteSet(Arrived \cup {d})
      BY <1>2, FS_AddElement
    <3>3. IsFiniteSet(Arrived')
      BY <3>1, <3>2, FS_Subset
    <3>. QED  BY <2>2, <3>3 DEF Accepts
  <2>. QED  BY <1>1, <2>1, <2>2
<1>4. ASSUME NEW e \in Event
      PROVE  /\ Past(e) \subseteq Past(e)'
             /\ IsFiniteSet(Past(e)) /\ IsFiniteSet(Past(e)')
  <2>1. Past(e) \subseteq Past(e)'
    BY <1>1, <1>3 DEF Past
  <2>2. Past(e) \in SUBSET Arrived /\ Past(e)' \in SUBSET Arrived'
    BY NoEventIsNone DEF Past, Arrived
  <2>. QED  BY <1>2, <1>3, <2>1, <2>2, FS_Subset
<1>. QED  BY <1>3, <1>4

\* The past of an event only grows, and does when a delivery of it has written.
LEMMA PastGrows ==
  ASSUME OnceInv, [Next]_vars, NEW e \in Event
  PROVE  /\ Cardinality(Past(e)) \in Nat /\ Cardinality(Past(e)') \in Nat
         /\ Cardinality(Past(e)) <= Cardinality(Past(e)')
         /\ \A d \in Past(e)' : d \notin Past(e)
              => Cardinality(Past(e)) + 1 <= Cardinality(Past(e)')
<1>1. /\ Past(e) \subseteq Past(e)'
      /\ IsFiniteSet(Past(e)) /\ IsFiniteSet(Past(e)')
  BY NextArrived
<1>2. /\ Cardinality(Past(e)) \in Nat /\ Cardinality(Past(e)') \in Nat
      /\ Cardinality(Past(e)) <= Cardinality(Past(e)')
  BY <1>1, FS_CardinalityType, FS_Subset
<1>3. ASSUME NEW d \in Past(e)', d \notin Past(e)
      PROVE  Cardinality(Past(e)) + 1 <= Cardinality(Past(e)')
  <2>1. Cardinality(Past(e) \cup {d}) = Cardinality(Past(e)) + 1
    BY <1>1, <1>3, FS_AddElement
  <2>2. Past(e) \cup {d} \in SUBSET (Past(e)')
    BY <1>1, <1>3
  <2>. QED  BY <1>1, <2>1, <2>2, FS_Subset
<1>. QED  BY <1>2, <1>3

\* What a caller that writes says has not been said before, or is said for one
\* more delivery.
LEMMA WritesOnce ==
  ASSUME OnceInv, [Next]_vars, NEW c \in Caller, Writes(c)
  PROVE  FileWithinReason'
<1>1. /\ TruthInv /\ TypeOK /\ HasEvent /\ file \in Seq(Block)
      /\ FileWithinReason
  BY DEF OnceInv, TruthInv, OrderInv, TypeInv, TypeOK
<1>2. /\ pc[c] = "writing" /\ pc'[c] \in {"answering", "raised"}
      /\ file' = Append(file, RecordOf(c))
      /\ event' = event /\ submissions' = submissions
  BY DEF Writes
<1>3. RecordOf(c) \in Foreign /\ RecordOf(c) \in Block /\ RecordOf(c).what = Says(c)
  BY <1>1, <1>2, RecordType, BlockFacts DEF Accepted, RecordOf
<1>4. \A e : Cardinality(Places(e)') = IF Says(c) = e THEN Cardinality(Places(e)) + 1
                                       ELSE Cardinality(Places(e))
  BY <1>1, <1>2, <1>3, PlacesAppend
<1>o. /\ \A x \in Dispatch : Cardinality(Places(OwnContent(x))) <= 1
      /\ \A x \in Dispatch : Places(OwnContent(x)) # {} => x \in submissions
  BY <1>1 DEF FileWithinReason
<1>5. CASE c \in Dispatch
  <2>1. Says(c) = OwnContent(c)
    BY <1>5 DEF Says
  <2>2. /\ \A e \in Event : Says(c) # e
        /\ \A x \in Dispatch : Says(c) = OwnContent(x) => x = c
    BY <2>1 DEF OwnContent, Event
  <2>3. c \in submissions /\ NoRecordOf(c)
    BY <1>1, <1>2, <1>5 DEF TruthInv, Unrecorded, Unwritten, Sent
  <2>4. Places(OwnContent(c)) = {}
    BY <2>3 DEF Places, NoRecordOf
  <2>5. Cardinality(Places(OwnContent(c))) = 0
    BY <2>4, FS_EmptySet
  <2>6. \A x \in Dispatch : Cardinality(Places(OwnContent(x))') <= 1
    BY <1>o, <1>4, <2>2, <2>5
  <2>7. \A e \in Event : Cardinality(Places(e)') <= Cardinality(Past(e)')
    <3> SUFFICES ASSUME NEW e \in Event
                 PROVE  Cardinality(Places(e)') <= Cardinality(Past(e)')
      OBVIOUS
    <3>1. Cardinality(Places(e)') = Cardinality(Places(e))
      BY <1>4, <2>2
    <3>2. Cardinality(Places(e)) \in Nat
      BY <1>1, PlacesCount
    <3>3. Cardinality(Places(e)) <= Cardinality(Past(e))
      BY <1>1 DEF FileWithinReason
    <3>4. /\ Cardinality(Past(e)) \in Nat /\ Cardinality(Past(e)') \in Nat
          /\ Cardinality(Past(e)) <= Cardinality(Past(e)')
      BY PastGrows
    <3>. QED  BY <3>1, <3>2, <3>3, <3>4
  <2>8. \A x \in Dispatch : Places(OwnContent(x))' # {} => x \in submissions'
    <3>1. \A x \in Dispatch : x # c /\ Places(OwnContent(x))' # {} => Places(OwnContent(x)) # {}
      BY <1>1, <1>2, <1>3, <2>2, AppendFacts DEF Places
    <3>. QED  BY <1>o, <1>2, <2>3, <3>1
  <2>. QED  BY <2>6, <2>7, <2>8 DEF FileWithinReason
<1>6. CASE c \in Delivery
  <2>1. Says(c) = event[c] /\ event[c] \in Event
    BY <1>1, <1>2, <1>6, CallFacts DEF Says, HasEvent, Accepted
  <2>2. \A x \in Dispatch : Says(c) # OwnContent(x)
    BY <2>1 DEF OwnContent, Event
  <2>4. \A x \in Dispatch : Cardinality(Places(OwnContent(x))') <= 1
    BY <1>o, <1>4, <2>2
  <2>5. ASSUME NEW e \in Event PROVE Cardinality(Places(e)') <= Cardinality(Past(e)')
    <3>1. /\ Cardinality(Places(e)) \in Nat
          /\ Cardinality(Places(e)) <= Cardinality(Past(e))
      BY <1>1, PlacesCount DEF FileWithinReason
    <3>2. CASE Says(c) = e
      <4>1. c \notin Past(e)
        BY <1>2 DEF Past
      <4>2. c \in Past(e)'
        BY <1>2, <1>6, <2>1, <3>2 DEF Past
      <4>3. Cardinality(Past(e)) + 1 <= Cardinality(Past(e)')
        BY <4>1, <4>2, PastGrows
      <4>4. Cardinality(Past(e)) \in Nat /\ Cardinality(Past(e)') \in Nat
        BY PastGrows
      <4>. QED  BY <1>4, <3>1, <3>2, <4>3, <4>4
    <3>3. CASE Says(c) # e
      <4>1. /\ Cardinality(Past(e)) \in Nat /\ Cardinality(Past(e)') \in Nat
            /\ Cardinality(Past(e)) <= Cardinality(Past(e)')
        BY PastGrows
      <4>. QED  BY <1>4, <3>1, <3>3, <4>1
    <3>. QED  BY <3>2, <3>3
  <2>6. \A x \in Dispatch : Places(OwnContent(x))' # {} => x \in submissions'
    <3>1. \A x \in Dispatch : Places(OwnContent(x))' # {} => Places(OwnContent(x)) # {}
      BY <1>1, <1>2, <1>3, <2>2, AppendFacts DEF Places
    <3>. QED  BY <1>o, <1>2, <3>1
  <2>. QED  BY <2>4, <2>5, <2>6 DEF FileWithinReason
<1>. QED  BY <1>5, <1>6, CallFacts

LEMMA NextWithinReason ==
  ASSUME OnceInv, [Next]_vars
  PROVE  FileWithinReason'
<1>1. /\ TypeInv /\ file \in Seq(Block) /\ FileWithinReason
      /\ submissions \subseteq submissions'
  BY StepDeliveries DEF OnceInv, TruthInv, OrderInv, TypeInv, TypeOK
<1>2. ASSUME NEW e \in Event
      PROVE  /\ Cardinality(Past(e)) \in Nat /\ Cardinality(Past(e)') \in Nat
             /\ Cardinality(Past(e)) <= Cardinality(Past(e)')
             /\ Cardinality(Places(e)) \in Nat
             /\ Cardinality(Places(e)) <= Cardinality(Past(e))
  BY <1>1, PastGrows, PlacesCount DEF FileWithinReason
<1>3. ASSUME \A e : Places(e)' = Places(e)
      PROVE  FileWithinReason'
  <2>1. ASSUME NEW e \in Event PROVE Cardinality(Places(e)') <= Cardinality(Past(e)')
    <3>1. Cardinality(Places(e)') = Cardinality(Places(e))
      BY <1>3
    <3>. QED  BY <1>2, <3>1
  <2>2. /\ \A c \in Dispatch : Cardinality(Places(OwnContent(c))') <= 1
        /\ \A c \in Dispatch : Places(OwnContent(c))' # {} => c \in submissions'
    BY <1>1, <1>3 DEF FileWithinReason
  <2>. QED  BY <2>1, <2>2 DEF FileWithinReason
<1>4. CASE file' = file
  <2>1. \A e : Places(e)' = Places(e)
    BY <1>4 DEF Places
  <2>. QED  BY <1>3, <2>1
<1>5. CASE file' = Append(file, Torn)
  <2>1. Torn \in Block /\ Torn \notin Foreign
    BY BlockFacts
  <2>2. \A e : Places(e)' = Places(e)
    BY <1>1, <1>5, <2>1, AppendFacts DEF Places
  <2>. QED  BY <1>3, <2>2
<1>6. CASE \A k \in 1 .. Len(file') : file'[k] \in Notarised
  <2>1. \A k \in 1 .. Len(file') : file'[k] \notin Foreign
    BY <1>6, BlockFacts
  <2>2. \A e : Places(e)' = {}
    BY <2>1 DEF Places
  <2>3. \A e : Cardinality(Places(e)') = 0
    BY <2>2, FS_EmptySet
  <2>4. \A e \in Event : Cardinality(Places(e)') <= Cardinality(Past(e)')
    BY <1>2, <2>3
  <2>5. /\ \A c \in Dispatch : Cardinality(Places(OwnContent(c))') <= 1
        /\ \A c \in Dispatch : Places(OwnContent(c))' # {} => c \in submissions'
    BY <2>2, <2>3
  <2>. QED  BY <2>4, <2>5 DEF FileWithinReason
<1>. QED  BY <1>1, <1>4, <1>5, <1>6, StepFile, WritesOnce

LEMMA InitOnce == Init => OnceInv
<1> SUFFICES ASSUME Init PROVE OnceInv
  OBVIOUS
<1>1. Seed \notin Foreign /\ Bad \notin Foreign
  BY BlocksDiffer DEF Notarised
<1>2. file \in {<< >>, <<Seed>>, <<Bad>>}
  BY DEF Init
<1>3. \A k \in 1 .. Len(file) : file[k] \notin Foreign
  BY <1>1, <1>2
<1>4. Arrived = {}
  BY DEF Init, Arrived
<1>5. \A e : Places(e) = {}
  BY <1>3 DEF Places
<1>6. \A e \in Event : Past(e) = {}
  BY NoEventIsNone DEF Init, Past
<1>7. FileWithinReason
  <2>1. \A e : Cardinality(Places(e)) = 0
    BY <1>5, FS_EmptySet
  <2>2. \A e \in Event : Cardinality(Past(e)) = 0
    BY <1>6, FS_EmptySet
  <2>. QED  BY <1>5, <2>1, <2>2 DEF FileWithinReason
<1>. QED  BY <1>4, <1>7, InitTruth, FS_EmptySet DEF OnceInv

\* An event is on file at most once for each time it was delivered, a dispatch's
\* own record at most once, and only if its submission was created.
THEOREM RecordedOnce == Spec => []OneRecordPerDelivery
<1>1. OnceInv /\ [Next]_vars => OnceInv'
  BY NextTruth, NextArrived, NextWithinReason DEF OnceInv
<1>2. OnceInv => OneRecordPerDelivery
  <2> SUFFICES ASSUME OnceInv, NEW e \in Event
               PROVE  Cardinality(Places(e)) <= Cardinality({d \in Delivery : event[d] = e})
    BY DEF OnceInv, FileWithinReason, OneRecordPerDelivery
  <2> DEFINE D == {d \in Delivery : event[d] = e}
  <2>1. D \in SUBSET Arrived /\ Past(e) \in SUBSET D
    BY NoEventIsNone DEF Past, Arrived
  <2> HIDE DEF D
  <2>2. IsFiniteSet(D) /\ IsFiniteSet(Past(e))
    <3>1. IsFiniteSet(D)
      BY <2>1, FS_Subset DEF OnceInv
    <3>. QED  BY <2>1, <3>1, FS_Subset
  <2>3. /\ Cardinality(Past(e)) \in Nat /\ Cardinality(D) \in Nat
        /\ Cardinality(Past(e)) <= Cardinality(D)
    BY <2>1, <2>2, FS_CardinalityType, FS_Subset
  <2>4. /\ Cardinality(Places(e)) \in Nat
        /\ Cardinality(Places(e)) <= Cardinality(Past(e))
    BY PlacesCount DEF OnceInv, FileWithinReason, TruthInv, OrderInv, TypeInv, TypeOK
  <2>. QED  BY <2>3, <2>4 DEF D
<1>. QED  BY <1>1, <1>2, InitOnce, PTL DEF Spec

-----------------------------------------------------------------------------
(***************************************************************************)
(* DocumentUpload: what the calls for a document leave.                    *)
(***************************************************************************)

TemplatesOf(c) == {t \in templates : t.call = c}
OnlyOne(S) == \E t : S = {t}

UploadTypes ==
  /\ call \in 0 .. MaxCalls
  /\ stage \in {"idle", "adapting", "uploading", "submitting", "leaving", "failing"}
  /\ stage # "idle" => call \in Attempt
  /\ DOMAIN ended = Attempt

\* Of a call: before its template there is none, and no submission; then there is one
\* template, and after a failure one at most; calls yet to come have left nothing.
CallLeaves(c) ==
  /\ ended[c] = "ok" => OnlyOne(TemplatesOf(c)) /\ c \in submitted
  /\ c \in dirs => \/ ended[c] \in {"killed", "unconverted"} \/ (c = call /\ Active)
                   \/ ended[c] \in {"ok", "failed"} /\ ~removable
  /\ c \in submitted => TemplatesOf(c) # {}
  /\ ended[c] \in {"unknown", "unconverted"} => TemplatesOf(c) = {}
CallGoesOn ==
  Active =>
    /\ ended[call] = "none"
    /\ stage \in {"adapting", "uploading"} => TemplatesOf(call) = {}
    /\ stage \in {"submitting", "leaving"} => OnlyOne(TemplatesOf(call))
    /\ stage = "leaving" => call \in submitted
ComingCalls ==
  \A c \in Attempt : c > call =>
    ended[c] = "none" /\ TemplatesOf(c) = {} /\ c \notin submitted /\ c \notin dirs
LeavingInv == UploadTypes /\ (\A c \in Attempt : CallLeaves(c)) /\ CallGoesOn /\ ComingCalls

LEMMA InitLeaving == UploadInit => LeavingInv
<1>. SUFFICES ASSUME UploadInit PROVE LeavingInv  OBVIOUS
<1>1. UploadTypes
  BY CallsAreNumbers DEF UploadInit, UploadTypes
<1>2. \A c \in Attempt : TemplatesOf(c) = {} /\ ended[c] = "none" /\ c \notin submitted /\ c \notin dirs
  BY DEF UploadInit, TemplatesOf
<1>. QED  BY <1>1, <1>2 DEF LeavingInv, CallLeaves, CallGoesOn, ComingCalls, UploadInit, Active

\* A step that leaves every other call's traces alone keeps what holds of them.
Aside(c) ==
  /\ TemplatesOf(c)' = TemplatesOf(c) /\ (c \in submitted' <=> c \in submitted)
  /\ (c \in dirs' => c \in dirs) /\ ended'[c] = ended[c] /\ removable' = removable

LEMMA AsideKeeps ==
  ASSUME NEW c \in Attempt, CallLeaves(c), Aside(c), c # call \/ (Active /\ Active' /\ call' = call)
  PROVE  CallLeaves(c)'
BY DEF CallLeaves, Aside

LEMMA NextLeaving == LeavingInv /\ [UploadNext]_uploadVars => LeavingInv'
<1>. SUFFICES ASSUME LeavingInv, [UploadNext]_uploadVars PROVE LeavingInv'
  OBVIOUS
<1>0. UploadTypes /\ (\A c \in Attempt : CallLeaves(c)) /\ CallGoesOn /\ ComingCalls
  BY DEF LeavingInv
<1>n. MaxCalls \in Nat
  BY CallsAreNumbers
<1>1. CASE Start
  <2>1. /\ stage = "idle" /\ call < MaxCalls /\ call' = call + 1 /\ call' \in Attempt
        /\ UNCHANGED <<removable, templates, submitted>>
    BY <1>0, <1>1, <1>n DEF Start, Active, UploadTypes, Attempt
  <2>2. \A c \in Attempt : TemplatesOf(c)' = TemplatesOf(c)
    BY <2>1 DEF TemplatesOf
  <2>3. /\ ended[call'] = "none" /\ TemplatesOf(call') = {} /\ call' \notin submitted /\ call' \notin dirs
    BY <1>0, <2>1 DEF ComingCalls, UploadTypes
  <2>4. \/ stage' = stage /\ dirs' = dirs /\ ended' = [ended EXCEPT ![call'] = "unknown"]
        \/ stage' = "adapting" /\ dirs' = dirs \cup {call'} /\ ended' = ended
    BY <1>1 DEF Start
  <2>5. UploadTypes'
    BY <1>0, <1>n, <2>1, <2>4 DEF UploadTypes, Attempt
  <2>6. ASSUME NEW c \in Attempt, c # call' PROVE CallLeaves(c)'
    <3>1. Aside(c)
      BY <1>0, <2>1, <2>2, <2>4, <2>6 DEF Aside, UploadTypes
    <3>2. c \in dirs => \/ ended[c] \in {"killed", "unconverted"}
                        \/ ended[c] \in {"ok", "failed"} /\ ~removable
      BY <1>0, <2>1 DEF CallLeaves, Active
    <3>. QED  BY <1>0, <3>1, <3>2 DEF CallLeaves, Aside
  <2>7. ASSUME NEW c \in Attempt, c = call' PROVE CallLeaves(c)'
    <3>1. ended'[c] \in {"none", "unknown"} /\ (c \in dirs' => stage' = "adapting")
      BY <1>0, <2>1, <2>3, <2>4, <2>7 DEF UploadTypes
    <3>2. TemplatesOf(c)' = {} /\ c \notin submitted'
      BY <2>1, <2>2, <2>3, <2>7
    <3>. QED  BY <2>7, <3>1, <3>2 DEF CallLeaves, Active
  <2>8. CallGoesOn'
    <3>1. CASE stage' = stage
      BY <2>1, <3>1 DEF CallGoesOn, Active
    <3>2. CASE stage' = "adapting" /\ ended' = ended
      <4>1. TemplatesOf(call)' = {}
        BY <2>1, <2>2, <2>3 DEF TemplatesOf
      <4>. QED  BY <2>3, <3>2, <4>1 DEF CallGoesOn, Active
    <3>. QED  BY <2>4, <3>1, <3>2
  <2>9. ComingCalls'
    <3>. SUFFICES ASSUME NEW c \in Attempt, c > call'
                  PROVE  ended'[c] = "none" /\ TemplatesOf(c)' = {} /\ c \notin submitted' /\ c \notin dirs'
      BY DEF ComingCalls
    <3>1. c > call /\ c # call'
      BY <1>0, <1>n, <2>1 DEF UploadTypes, Attempt
    <3>2. ended[c] = "none" /\ TemplatesOf(c) = {} /\ c \notin submitted /\ c \notin dirs
      BY <1>0, <3>1 DEF ComingCalls
    <3>. QED  BY <1>0, <2>1, <2>2, <2>4, <3>1, <3>2 DEF UploadTypes
  <2>a. \A c \in Attempt : CallLeaves(c)'
    BY <2>6, <2>7
  <2>. QED  BY <2>5, <2>a, <2>8, <2>9 DEF LeavingInv
\* The other steps are steps of the call.
<1>t. ASSUME stage # "idle", call' = call, stage' \in {"idle", "adapting", "uploading", "submitting", "leaving", "failing"},
             DOMAIN ended' = Attempt, \A c \in Attempt : c # call => Aside(c),
             CallLeaves(call)', CallGoesOn'
      PROVE  LeavingInv'
  <2>1. call \in Attempt
    BY <1>0, <1>t DEF UploadTypes
  <2>2. UploadTypes'
    BY <1>0, <1>t, <2>1 DEF UploadTypes
  <2>3. \A c \in Attempt : CallLeaves(c)'
    <3>. SUFFICES ASSUME NEW c \in Attempt, c # call PROVE CallLeaves(c)'
      BY <1>t
    <3>. QED  BY <1>0, <1>t, AsideKeeps
  <2>4. ComingCalls'
    <3>. SUFFICES ASSUME NEW c \in Attempt, c > call
                  PROVE  ended'[c] = "none" /\ TemplatesOf(c)' = {} /\ c \notin submitted' /\ c \notin dirs'
      BY <1>t DEF ComingCalls
    <3>1. c # call
      BY <2>1 DEF Attempt
    <3>. QED  BY <1>0, <1>t, <3>1 DEF ComingCalls, Aside
  <2>. QED  BY <1>t, <2>2, <2>3, <2>4 DEF LeavingInv
<1>2. CASE Adapt
  <2>1. /\ stage = "adapting" /\ UNCHANGED <<removable, call, dirs, templates, submitted>>
        /\ \/ stage' = "uploading" /\ ended' = ended
           \/ stage' = "idle" /\ ended' = [ended EXCEPT ![call] = "unconverted"]
    BY <1>2 DEF Adapt, End
  <2>2. call \in Attempt
    BY <1>0, <2>1 DEF UploadTypes
  <2>3. \A c \in Attempt : TemplatesOf(c)' = TemplatesOf(c)
    BY <2>1 DEF TemplatesOf
  <2>4. \A c \in Attempt : c # call => Aside(c)
    BY <1>0, <2>1, <2>3 DEF Aside, UploadTypes
  <2>5. TemplatesOf(call) = {} /\ ended[call] = "none" /\ call \notin submitted
    BY <1>0, <2>1, <2>2 DEF CallGoesOn, CallLeaves, Active
  <2>6. TemplatesOf(call)' = {} /\ call' = call /\ call' \notin submitted'
    BY <2>1, <2>2, <2>3, <2>5
  <2>7. ended'[call] = IF stage' = "idle" THEN "unconverted" ELSE "none"
    BY <1>0, <2>1, <2>2, <2>5 DEF UploadTypes
  <2>8. CallLeaves(call)'
    BY <2>1, <2>6, <2>7 DEF CallLeaves, Active
  <2>9. CallGoesOn'
    BY <2>1, <2>6, <2>7 DEF CallGoesOn, Active
  <2>a. DOMAIN ended' = Attempt
    BY <1>0, <2>1 DEF UploadTypes
  <2>. QED  BY <1>t, <2>1, <2>4, <2>8, <2>9, <2>a
<1>3. CASE MakeTemplate
  <2> DEFINE t == [call |-> call, made |-> output]
  <2>1. /\ stage = "uploading" /\ UNCHANGED <<removable, call, dirs, submitted, ended>>
        /\ \/ stage' = "submitting" /\ templates' = templates \cup {t}
           \/ stage' = "failing" /\ templates' \in {templates, templates \cup {t}}
    BY <1>3 DEF MakeTemplate
  <2>2. call \in Attempt
    BY <1>0, <2>1 DEF UploadTypes
  <2>3. t.call = call
    OBVIOUS
  <2>4. TemplatesOf(call) = {} /\ ended[call] = "none" /\ call \notin submitted
    BY <1>0, <2>1, <2>2 DEF CallGoesOn, CallLeaves, Active
  <2> HIDE DEF t
  <2>5. \A c \in Attempt : c # call => TemplatesOf(c)' = TemplatesOf(c)
    BY <2>1, <2>3 DEF TemplatesOf
  <2>6. \A c \in Attempt : c # call => Aside(c)
    BY <2>1, <2>5 DEF Aside
  <2>7. templates' = templates \cup {t} => TemplatesOf(call)' = {t}
    <3>1. call' = call
      BY <2>1
    <3>. QED  BY <2>3, <2>4, <3>1 DEF TemplatesOf
  <2>8. stage' = "submitting" => OnlyOne(TemplatesOf(call)')
    BY <2>1, <2>7 DEF OnlyOne
  <2>9. CallLeaves(call)'
    BY <2>1, <2>4 DEF CallLeaves, Active
  <2>a. CallGoesOn'
    BY <2>1, <2>4, <2>8 DEF CallGoesOn, Active, OnlyOne
  <2>. QED  BY <1>0, <1>t, <2>1, <2>6, <2>9, <2>a DEF UploadTypes
<1>4. CASE MakeSubmission
  <2>1. /\ stage = "submitting" /\ UNCHANGED <<removable, call, dirs, templates, ended>>
        /\ submitted' \in {submitted, submitted \cup {call}}
        /\ stage' \in {"leaving", "failing"} /\ (stage' = "leaving" => call \in submitted')
    BY <1>4 DEF MakeSubmission
  <2>2. call \in Attempt
    BY <1>0, <2>1 DEF UploadTypes
  <2>3. \A c \in Attempt : TemplatesOf(c)' = TemplatesOf(c)
    BY <2>1 DEF TemplatesOf
  <2>4. \A c \in Attempt : c # call => Aside(c)
    BY <2>1, <2>3 DEF Aside
  <2>5. OnlyOne(TemplatesOf(call)) /\ ended[call] = "none"
    BY <1>0, <2>1 DEF CallGoesOn, Active
  <2>6. TemplatesOf(call)' = TemplatesOf(call) /\ TemplatesOf(call) # {}
    BY <2>1, <2>2, <2>3, <2>5 DEF OnlyOne
  <2>7. CallLeaves(call)'
    BY <2>1, <2>5, <2>6 DEF CallLeaves, Active
  <2>8. CallGoesOn'
    BY <2>1, <2>5, <2>6 DEF CallGoesOn, Active, OnlyOne
  <2>. QED  BY <1>0, <1>t, <2>1, <2>4, <2>7, <2>8 DEF UploadTypes
<1>5. CASE Leave \/ TimeOut
  <2>1. /\ stage # "idle" /\ UNCHANGED <<removable, call, templates, submitted>>
        /\ stage' = "idle" /\ dirs' \subseteq dirs
        /\ \/ /\ stage = "leaving" /\ (removable => call \notin dirs')
              /\ ended' = [ended EXCEPT ![call] = "ok"]
           \/ /\ removable => call \notin dirs'
              /\ ended' = [ended EXCEPT ![call] = "failed"]
           \/ ended' = [ended EXCEPT ![call] = "killed"]
    BY <1>5 DEF Leave, Removed, TimeOut, End, Active
  <2>2. call \in Attempt
    BY <1>0, <2>1 DEF UploadTypes
  <2>3. \A c \in Attempt : TemplatesOf(c)' = TemplatesOf(c)
    BY <2>1 DEF TemplatesOf
  <2>4. \A c \in Attempt : c # call => Aside(c)
    BY <1>0, <2>1, <2>3 DEF Aside, UploadTypes
  <2>5. stage = "leaving" => OnlyOne(TemplatesOf(call)) /\ call \in submitted
    BY <1>0 DEF CallGoesOn, Active
  <2>6. TemplatesOf(call)' = TemplatesOf(call) /\ (call \in submitted => TemplatesOf(call) # {})
    <3>1. CallLeaves(call)
      BY <1>0, <2>2
    <3>. QED  BY <2>1, <2>2, <2>3, <3>1 DEF CallLeaves
  <2>7. \/ ended'[call] = "ok" /\ stage = "leaving" /\ (removable => call \notin dirs')
        \/ ended'[call] = "failed" /\ (removable => call \notin dirs')
        \/ ended'[call] = "killed"
    BY <1>0, <2>1, <2>2 DEF UploadTypes
  <2>8. CallLeaves(call)'
    BY <2>1, <2>5, <2>6, <2>7 DEF CallLeaves, Active, OnlyOne
  <2>9. CallGoesOn'
    BY <2>1 DEF CallGoesOn, Active
  <2>a. DOMAIN ended' = Attempt
    BY <1>0, <2>1 DEF UploadTypes
  <2>. QED  BY <1>t, <2>1, <2>4, <2>8, <2>9, <2>a
<1>6. CASE UNCHANGED uploadVars
  <2>1. \A c : TemplatesOf(c)' = TemplatesOf(c)
    BY <1>6 DEF uploadVars, TemplatesOf
  <2>. QED
    BY <1>0, <1>6, <2>1 DEF uploadVars, LeavingInv, UploadTypes, CallLeaves, CallGoesOn, ComingCalls, Active
<1>. QED  BY <1>1, <1>2, <1>3, <1>4, <1>5, <1>6 DEF UploadNext

\* Whatever fails and however often the document is sent again, a call that went well
\* leaves one template and its submission, a directory that can be removed stays only
\* where the call was killed or the file not converted, and no submission lacks its
\* template.
THEOREM NothingLeftOver == UploadSpec => []LeavesInOrder
<1>1. LeavingInv => LeavesInOrder
  <2>. SUFFICES ASSUME LeavingInv, NEW c \in Attempt
                PROVE  LET mine == {t \in templates : t.call = c} IN
                       /\ ended[c] = "ok" => Cardinality(mine) = 1 /\ c \in submitted
                       /\ c \in dirs => \/ ended[c] \in {"killed", "unconverted"} \/ (c = call /\ Active)
                                        \/ ended[c] \in {"ok", "failed"} /\ ~removable
                       /\ c \in submitted => mine # {}
                       /\ ended[c] \in {"unknown", "unconverted"} => mine = {}
    BY DEF LeavesInOrder
  <2>1. CallLeaves(c)
    BY DEF LeavingInv
  <2>2. ASSUME OnlyOne(TemplatesOf(c)) PROVE Cardinality(TemplatesOf(c)) = 1
    BY <2>2, FS_Singleton DEF OnlyOne
  <2>. QED  BY <2>1, <2>2 DEF CallLeaves, TemplatesOf
<1>. QED  BY <1>1, InitLeaving, NextLeaving, PTL DEF UploadSpec

-----------------------------------------------------------------------------
(***************************************************************************)
(* Functions that go through the lines of a text.                          *)
(***************************************************************************)

LEMMA LeastNatural ==
  ASSUME NEW S \in SUBSET Nat, S # {}
  PROVE  \E m \in S : \A n \in S : m <= n
<1> DEFINE R == OpToRel(<, Nat)
<1>1. IsWellFoundedOn(R, Nat)
  BY NatLessThanWellFounded
<1>2. R = {p \in Nat \X Nat : p[1] < p[2]}
  BY DEF OpToRel
<1> HIDE DEF R
<1>3. PICK m \in S : \A n \in S : ~ (<<n, m>> \in R)
  BY <1>1, WFMin
<1>4. ASSUME NEW n \in S PROVE m <= n
  <2>1. m \in Nat /\ n \in Nat
    OBVIOUS
  <2>2. <<n, m>> \in R <=> n < m
    BY <1>2, <2>1
  <2>. QED  BY <1>3, <2>1, <2>2
<1>. QED  BY <1>4

\* What holds at 0 and from line to line holds at each.
LEMMA LineByLine ==
  ASSUME NEW n \in Nat, NEW B, 0 \in B, \A i \in 1 .. n : i - 1 \in B => i \in B
  PROVE  \A i \in 0 .. n : i \in B
<1> DEFINE S == {i \in 0 .. n : i \notin B}
<1>. SUFFICES ASSUME S # {} PROVE FALSE  OBVIOUS
<1>0. S \in SUBSET Nat
  OBVIOUS
<1>1. PICK m \in S : \A i \in S : m <= i
  <2> HIDE DEF S
  <2>. QED  BY <1>0, LeastNatural
<1>2. m \in 1 .. n /\ m - 1 \in 0 .. n /\ ~ (m <= m - 1)
  OBVIOUS
<1>. QED  BY <1>1, <1>2

\* F[i] takes what there is before line i to what there is after it.
LineStep(F, base, f, i) == IF i = 0 THEN base ELSE F[i][f[i - 1]]
GoesThrough(F, base, f, n) == f = [i \in 0 .. n |-> LineStep(F, base, f, i)]

LEMMA SomeGoesThrough ==
  ASSUME NEW F, NEW base, NEW n \in Nat
  PROVE  \E f : GoesThrough(F, base, f, n)
<1> DEFINE B == {m \in 0 .. n : \E f : GoesThrough(F, base, f, m)}
<1>1. 0 \in B
  <2> DEFINE g == [i \in 0 .. 0 |-> base]
  <2>1. \A i \in 0 .. 0 : LineStep(F, base, g, i) = base
    BY DEF LineStep
  <2>2. GoesThrough(F, base, g, 0)
    BY <2>1 DEF GoesThrough
  <2>. QED  BY <2>2
<1>2. ASSUME NEW m \in 1 .. n, m - 1 \in B PROVE m \in B
  <2>1. PICK f : GoesThrough(F, base, f, m - 1)
    BY <1>2
  <2> DEFINE g == [i \in 0 .. m |-> IF i = m THEN LineStep(F, base, f, m) ELSE f[i]]
  <2>2. \A i \in 0 .. m - 1 : f[i] = LineStep(F, base, f, i)
    BY <2>1 DEF GoesThrough
  <2>3. \A i \in 0 .. m - 1 : g[i] = f[i]
    OBVIOUS
  <2>4. g[m] = LineStep(F, base, f, m)
    OBVIOUS
  <2>5. g = [i \in 0 .. m |-> g[i]]
    OBVIOUS
  <2> HIDE DEF g
  <2>6. ASSUME NEW i \in 0 .. m PROVE g[i] = LineStep(F, base, g, i)
    <3>1. LineStep(F, base, g, i) = LineStep(F, base, f, i)
      <4>1. i # 0 => i - 1 \in 0 .. m - 1
        OBVIOUS
      <4>. QED  BY <2>3, <4>1 DEF LineStep
    <3>2. i = m \/ i \in 0 .. m - 1
      OBVIOUS
    <3>. QED  BY <2>2, <2>3, <2>4, <3>1, <3>2
  <2>7. GoesThrough(F, base, g, m)
    BY <2>5, <2>6 DEF GoesThrough
  <2>. QED  BY <2>7
<1> HIDE DEF B
<1>3. \A i \in 0 .. n : i \in B
  BY <1>1, <1>2, LineByLine
<1>4. n \in B
  BY <1>3
<1>. QED  BY <1>4 DEF B

-----------------------------------------------------------------------------
(***************************************************************************)
(* The pages of a plain text.                                              *)
(***************************************************************************)

\* A page's lines, if all pages before it are full.
Filled(page, k) == \A j \in 1 .. Len(page) : page[j] = (k - 1) * Fit + j
PageState == [pages : Seq(Seq(Nat)), y : Int]
Paged(s, n) ==
  LET p == s.pages
      m == Len(p)
      q == Len(p[m])
  IN /\ s \in PageState /\ m >= 1
     /\ s.y = Top - q * Leading /\ q <= Fit
     /\ \A k \in 1 .. m - 1 : Len(p[k]) = Fit
     /\ (m - 1) * Fit + q = n /\ (q = 0 => n = 0)
     /\ \A k \in 1 .. m : Filled(p[k], k)

LEMMA FitIs == Fit = 44
  BY DEF Fit, Top, Margin, Leading

LEMMA PagedIf ==
  ASSUME NEW s \in PageState, NEW m \in Nat, m >= 1, m = Len(s.pages), NEW q \in Nat, q = Len(s.pages[m]),
         NEW n, s.y = Top - q * Leading, q <= Fit,
         \A k \in 1 .. m - 1 : Len(s.pages[k]) = Fit,
         (m - 1) * Fit + q = n, q = 0 => n = 0,
         \A k \in 1 .. m : Filled(s.pages[k], k)
  PROVE  Paged(s, n)
BY DEF Paged

LEMMA FirstPaged == Paged(FirstPage, 0)
<1>1. FirstPage.pages = << << >> >> /\ FirstPage.y = Top
  BY DEF FirstPage
<1>2. FirstPage \in PageState
  BY DEF FirstPage, PageState, Top, Margin
<1>3. Len(<< << >> >>) = 1 /\ << << >> >>[1] = << >> /\ Len(<< >>) = 0
  OBVIOUS
<1>4. Filled(<< >>, 1)
  BY DEF Filled
<1>5. FirstPage.y = Top - 0 * Leading /\ 0 <= Fit /\ (1 - 1) * Fit + 0 = 0
  BY <1>1, FitIs DEF Top, Margin, Leading
<1>6. \A k \in 1 .. 1 - 1 : Len(FirstPage.pages[k]) = Fit
  OBVIOUS
<1>7. \A k \in 1 .. 1 : Filled(FirstPage.pages[k], k)
  BY <1>1, <1>3, <1>4
<1>8. Len(FirstPage.pages) = 1 /\ Len(FirstPage.pages[1]) = 0
  BY <1>1, <1>3
<1> DEFINE s == FirstPage
           m == 1
           q == 0
<1>9. /\ s \in PageState /\ m \in Nat /\ m >= 1 /\ m = Len(s.pages) /\ q \in Nat /\ q = Len(s.pages[m])
      /\ s.y = Top - q * Leading /\ q <= Fit /\ (m - 1) * Fit + q = 0
      /\ \A k \in 1 .. m - 1 : Len(s.pages[k]) = Fit
      /\ \A k \in 1 .. m : Filled(s.pages[k], k)
  BY <1>2, <1>5, <1>6, <1>7, <1>8
<1> HIDE DEF s, m, q
<1>10. Paged(s, 0)
  BY <1>9, PagedIf
<1>. QED  BY <1>10 DEF s

LEMMA PlacedPaged ==
  ASSUME NEW n \in Nat \ {0}, NEW s, Paged(s, n - 1)
  PROVE  Placed(s, n) \in PageState /\ Paged(Placed(s, n), n)
<1> DEFINE p == s.pages
           m == Len(p)
           q == Len(p[m])
           r == Placed(s, n)
<1>1. /\ p \in Seq(Seq(Nat)) /\ m \in Nat /\ m >= 1 /\ p[m] \in Seq(Nat) /\ q \in Nat
      /\ DOMAIN p = 1 .. m /\ \A k \in 1 .. m : p[k] \in Seq(Nat) /\ Len(p[k]) \in Nat
  <2>1. p \in Seq(Seq(Nat)) /\ m \in Nat /\ m >= 1
    BY DEF Paged, PageState
  <2>2. \A k \in 1 .. m : p[k] \in Seq(Nat)
    BY <2>1, ElementOfSeq
  <2>. QED  BY <2>1, <2>2, LenProperties
<1>2. /\ s.y = Top - q * Leading /\ q <= 44
      /\ \A k \in 1 .. m - 1 : Len(p[k]) = 44
      /\ (m - 1) * 44 + q = n - 1
      /\ \A k \in 1 .. m : Filled(p[k], k)
  BY FitIs DEF Paged
<1> HIDE DEF p, m, q
<1>3. s.y - Leading < Margin <=> q = 44
  BY <1>1, <1>2 DEF Top, Leading, Margin
<1>4. CASE q = 44
  <2>1. r = [pages |-> Append(p, <<n>>), y |-> Top - Leading]
    BY <1>3, <1>4 DEF Placed, p
  <2> HIDE DEF r
  <2>2. r.pages = Append(p, <<n>>) /\ r.y = Top - Leading
    BY <2>1
  <2>3. <<n>> \in Seq(Nat) /\ Len(<<n>>) = 1 /\ <<n>>[1] = n
    OBVIOUS
  <2>4. /\ r.pages \in Seq(Seq(Nat)) /\ Len(r.pages) = m + 1
        /\ \A k \in 1 .. m : r.pages[k] = p[k]
        /\ r.pages[m + 1] = <<n>>
    BY <1>1, <2>2, <2>3, AppendProperties DEF m
  <2>5. r \in PageState
    BY <2>1, <2>2, <2>4 DEF PageState, Top, Leading, Margin
  <2>6. \A k \in 1 .. m : Len(r.pages[k]) = 44
    <3>1. \A k \in 1 .. m : k = m \/ k \in 1 .. m - 1
      BY <1>1
    <3>2. \A k \in 1 .. m - 1 : k \in 1 .. m /\ Len(p[k]) = 44
      BY <1>1, <1>2
    <3>3. Len(p[m]) = 44
      BY <1>4 DEF q
    <3>4. \A k \in 1 .. m : Len(p[k]) = 44
      BY <3>1, <3>2, <3>3
    <3>. QED  BY <2>4, <3>4
  <2>7. \A k \in 1 .. m + 1 : Filled(r.pages[k], k)
    <3>1. \A k \in 1 .. m : Filled(r.pages[k], k)
      BY <1>2, <2>4
    <3>2. m * 44 + 1 = n
      BY <1>1, <1>2, <1>4
    <3>3. Filled(r.pages[m + 1], m + 1)
      <4> DEFINE page == r.pages[m + 1]
      <4>1. Len(page) = 1 /\ page[1] = n
        BY <2>3, <2>4
      <4> HIDE DEF page
      <4>2. \A j \in 1 .. Len(page) : j = 1
        BY <4>1
      <4>3. ((m + 1) - 1) * Fit + 1 = n
        BY <1>1, <3>2, FitIs
      <4>4. \A j \in 1 .. Len(page) : page[j] = ((m + 1) - 1) * Fit + j
        BY <4>1, <4>2, <4>3
      <4>5. Filled(page, m + 1)
        BY <4>4 DEF Filled
      <4>. QED  BY <4>5 DEF page
    <3>4. \A k \in 1 .. m + 1 : k = m + 1 \/ k \in 1 .. m
      BY <1>1
    <3>. QED  BY <2>4, <3>1, <3>3, <3>4
  <2>8. ((m + 1) - 1) * 44 + 1 = n /\ Top - Leading = Top - 1 * Leading
    BY <1>1, <1>2, <1>4 DEF Top, Leading, Margin
  <2>9. Len(r.pages[m + 1]) = 1
    BY <2>3, <2>4
  <2>10. ((m + 1) - 1) * Fit + 1 = n /\ 1 <= Fit /\ m + 1 \in Nat /\ m + 1 >= 1 /\ r.y = Top - 1 * Leading
    BY <1>1, <1>2, <1>4, <2>2, <2>8, FitIs
  <2>11. \A k \in 1 .. (m + 1) - 1 : Len(r.pages[k]) = Fit
    <3>1. (m + 1) - 1 = m
      BY <1>1
    <3>. QED  BY <2>6, <3>1, FitIs
  <2>12. Paged(r, n)
    <3> DEFINE l == m + 1
    <3>1. /\ l \in Nat /\ l >= 1 /\ l = Len(r.pages) /\ Len(r.pages[l]) = 1
          /\ r.y = Top - 1 * Leading /\ 1 <= Fit /\ (l - 1) * Fit + 1 = n
          /\ \A k \in 1 .. l - 1 : Len(r.pages[k]) = Fit
          /\ \A k \in 1 .. l : Filled(r.pages[k], k)
      BY <2>4, <2>7, <2>9, <2>10, <2>11
    <3> HIDE DEF l
    <3>2. 1 \in Nat /\ (1 = 0 => n = 0)
      OBVIOUS
    <3>. QED  BY <2>5, <3>1, <3>2, PagedIf
  <2>. QED  BY <2>5, <2>12 DEF r
<1>5. CASE q # 44
  <2>1. r = [pages |-> [p EXCEPT ![m] = Append(@, n)], y |-> s.y - Leading]
    BY <1>3, <1>5 DEF Placed, p, m
  <2> HIDE DEF r
  <2>2. r.pages = [p EXCEPT ![m] = Append(@, n)] /\ r.y = s.y - Leading
    BY <2>1
  <2>3. /\ Append(p[m], n) \in Seq(Nat) /\ Len(Append(p[m], n)) = q + 1
        /\ \A j \in 1 .. q : Append(p[m], n)[j] = p[m][j]
        /\ Append(p[m], n)[q + 1] = n
    BY <1>1, AppendProperties DEF q
  <2>4. /\ r.pages \in Seq(Seq(Nat)) /\ Len(r.pages) = m
        /\ \A k \in 1 .. m - 1 : r.pages[k] = p[k]
        /\ r.pages[m] = Append(p[m], n)
    <3>1. r.pages \in Seq(Seq(Nat)) /\ Len(r.pages) = m
      BY <1>1, <2>2, <2>3, ExceptSeq DEF m
    <3>. QED  BY <1>1, <2>2, <3>1
  <2>5. r \in PageState
    <3>1. s.y \in Int
      BY DEF Paged, PageState
    <3>. QED  BY <2>1, <2>2, <2>4, <3>1 DEF PageState, Leading
  <2>6. \A k \in 1 .. m - 1 : Len(r.pages[k]) = 44
    BY <1>2, <2>4
  <2>7. \A k \in 1 .. m : Filled(r.pages[k], k)
    <3>1. \A k \in 1 .. m - 1 : k \in 1 .. m
      BY <1>1
    <3>2. \A k \in 1 .. m - 1 : Filled(r.pages[k], k)
      BY <1>2, <2>4, <3>1
    <3>3. Filled(r.pages[m], m)
      <4>1. \A j \in 1 .. q + 1 : j = q + 1 \/ j \in 1 .. q
        BY <1>1
      <4>2. Filled(p[m], m)
        BY <1>1, <1>2
      <4>3. \A j \in 1 .. q : p[m][j] = (m - 1) * 44 + j
        BY <4>2, FitIs DEF Filled, q
      <4>4. (m - 1) * 44 + (q + 1) = n
        BY <1>1, <1>2
      <4>5. \A j \in 1 .. q + 1 : Append(p[m], n)[j] = (m - 1) * 44 + j
        BY <2>3, <4>1, <4>3, <4>4
      <4>. QED  BY <2>3, <2>4, <4>5, FitIs DEF Filled
    <3>4. \A k \in 1 .. m : k = m \/ k \in 1 .. m - 1
      BY <1>1
    <3>. QED  BY <3>2, <3>3, <3>4
  <2>8. (m - 1) * 44 + (q + 1) = n /\ r.y = Top - (q + 1) * Leading /\ q + 1 <= 44 /\ q + 1 # 0
    BY <1>1, <1>2, <1>5, <2>2 DEF Top, Leading, Margin
  <2>9. (m - 1) * Fit + (q + 1) = n /\ q + 1 <= Fit /\ q + 1 \in Nat /\ q + 1 # 0
    BY <1>1, <2>8, FitIs
  <2>10. \A k \in 1 .. m - 1 : Len(r.pages[k]) = Fit
    BY <2>6, FitIs
  <2>11. Len(r.pages[m]) = q + 1
    BY <2>3, <2>4
  <2>12. Paged(r, n)
    BY <1>1, <2>4, <2>5, <2>7, <2>8, <2>9, <2>10, <2>11, PagedIf
  <2>. QED  BY <2>5, <2>12 DEF r
<1>. QED  BY <1>4, <1>5

\* The pages the adapter writes hold the lines of the text, full but for the last.
LEMMA PagesAreKept ==
  ASSUME NEW lines \in Seq(LineKind), lines # << >>
  PROVE  PagesKeep(lines, Pages(lines))
<1> DEFINE N == Len(lines)
           F == [i \in 1 .. N |-> [s \in PageState |-> Placed(s, i)]]
           After(f) == f = [n \in 0 .. N |-> IF n = 0 THEN FirstPage ELSE Placed(f[n - 1], n)]
           g == CHOOSE f : After(f)
<1>1. N \in Nat /\ N # 0
  BY EmptySeq, LenProperties
<1> HIDE DEF N
<1>2. PICK f : GoesThrough(F, FirstPage, f, N)
  BY <1>1, SomeGoesThrough
<1>3. ASSUME NEW i \in 0 .. N PROVE f[i] = IF i = 0 THEN FirstPage ELSE F[i][f[i - 1]]
  BY <1>2 DEF GoesThrough, LineStep
<1> DEFINE B == {i \in 0 .. N : Paged(f[i], i)}
<1>4. 0 \in B
  <2>1. 0 \in 0 .. N
    BY <1>1
  <2>2. f[0] = FirstPage
    BY <1>3, <2>1
  <2>. QED  BY <2>1, <2>2, FirstPaged
<1>5. ASSUME NEW i \in 1 .. N, i - 1 \in B PROVE i \in B /\ f[i] = Placed(f[i - 1], i)
  <2>1. Paged(f[i - 1], i - 1) /\ i \in Nat \ {0} /\ i \in 0 .. N
    BY <1>1, <1>5
  <2>2. f[i - 1] \in PageState
    BY <2>1 DEF Paged
  <2>3. f[i] = Placed(f[i - 1], i)
    BY <1>3, <2>1, <2>2
  <2>4. Paged(Placed(f[i - 1], i), i)
    BY <2>1, PlacedPaged
  <2>. QED  BY <2>1, <2>3, <2>4
<1>6. \A i \in 0 .. N : i \in B
  <2> HIDE DEF B
  <2>. QED  BY <1>1, <1>4, <1>5, LineByLine
<1>7. ASSUME NEW i \in 0 .. N PROVE f[i] = IF i = 0 THEN FirstPage ELSE Placed(f[i - 1], i)
  <2>1. CASE i = 0
    BY <1>3, <2>1
  <2>2. CASE i # 0
    <3>1. i \in 1 .. N /\ i - 1 \in 0 .. N
      BY <1>1, <2>2
    <3> HIDE DEF B
    <3>. QED  BY <1>5, <1>6, <2>2, <3>1
  <2>. QED  BY <2>1, <2>2
<1>8. f = [i \in 0 .. N |-> f[i]]
  BY <1>2 DEF GoesThrough
<1> HIDE DEF F, B
<1>9. After(f)
  BY <1>7, <1>8
<1> HIDE DEF After
<1>10. After(g)
  BY <1>9, Zenon
<1>11. Pages(lines) = g[N].pages
  BY DEF Pages, After, g, N
<1> HIDE DEF g
<1>12. \A i \in 0 .. N : g[i] = IF i = 0 THEN FirstPage ELSE Placed(g[i - 1], i)
  BY <1>10 DEF After
<1> DEFINE C == {i \in 0 .. N : Paged(g[i], i)}
<1>13. 0 \in C
  <2>1. 0 \in 0 .. N
    BY <1>1
  <2>2. g[0] = FirstPage
    BY <1>12, <2>1
  <2>. QED  BY <2>1, <2>2, FirstPaged
<1>14. ASSUME NEW i \in 1 .. N, i - 1 \in C PROVE i \in C
  <2>1. Paged(g[i - 1], i - 1) /\ i \in Nat \ {0} /\ i \in 0 .. N
    BY <1>1, <1>14
  <2>2. g[i] = Placed(g[i - 1], i)
    BY <1>12, <2>1
  <2>3. Paged(Placed(g[i - 1], i), i)
    BY <2>1, PlacedPaged
  <2>4. Paged(g[i], i)
    BY <2>2, <2>3, Zenon
  <2>. QED  BY <2>1, <2>4
<1>15. N \in C
  <2>1. N \in 0 .. N
    BY <1>1
  <2> HIDE DEF C
  <2>2. \A i \in 0 .. N : i \in C
    BY <1>1, <1>13, <1>14, LineByLine
  <2>. QED  BY <2>1, <2>2
<1>16. Paged(g[N], N)
  BY <1>15
<1> DEFINE p == g[N].pages
           q == Len(p[Len(p)])
<1>17. p \in Seq(Seq(Nat)) /\ Len(p) \in Nat /\ Len(p) >= 1
  BY <1>16 DEF Paged, PageState
<1>18. q \in Nat /\ \A k \in 1 .. Len(p) : Len(p[k]) \in Nat
  BY <1>17, ElementOfSeq, LenProperties
<1>19. /\ q <= Fit /\ (q = 0 => N = 0)
       /\ \A k \in 1 .. Len(p) - 1 : Len(p[k]) = Fit
       /\ (Len(p) - 1) * Fit + q = N
       /\ \A k \in 1 .. Len(p) : Filled(p[k], k)
  BY <1>16 DEF Paged
<1>20. q \in 1 .. Fit
  <2> HIDE DEF q
  <2>. QED  BY <1>1, <1>18, <1>19, FitIs
<1>21. PagesKeep(lines, p)
  <2> HIDE DEF p
  <2>. QED  BY <1>19, <1>20 DEF PagesKeep, Filled, N
<1>. QED  BY <1>11, <1>21

-----------------------------------------------------------------------------
(***************************************************************************)
(* The parts of a Markdown text.                                           *)
(***************************************************************************)

PartTag == {"p", "h", "ul", "li", "/ul", "pre", "raw", "/pre"}
PartOK == [tag : PartTag, lines : Seq(Nat)]
HtmlState == [parts : Seq(PartOK), code : BOOLEAN, list : BOOLEAN, para : Seq(Nat)]

LEMMA AppendPart ==
  ASSUME NEW parts \in Seq(PartOK), NEW part \in PartOK
  PROVE  /\ Append(parts, part) \in Seq(PartOK) /\ Len(parts) \in Nat
         /\ Len(Append(parts, part)) = Len(parts) + 1
         /\ DOMAIN parts = 1 .. Len(parts) /\ DOMAIN Append(parts, part) = 1 .. Len(parts) + 1
         /\ \A k \in 1 .. Len(parts) : Append(parts, part)[k] = parts[k]
         /\ Append(parts, part)[Len(parts) + 1] = part
         /\ \A k \in 1 .. Len(parts) + 1 : k = Len(parts) + 1 \/ k \in 1 .. Len(parts)
<1>1. Len(parts) \in Nat
  BY LenProperties
<1>. QED  BY <1>1, AppendProperties, LenProperties

\* Whether a line is code changes at the fences.
LEMMA InCodeAtFences ==
  ASSUME NEW lines \in Seq(LineKind)
  PROVE  /\ ~InCode(lines, 0)
         /\ \A n \in 1 .. Len(lines) :
             /\ (lines[n] = "fence" => (InCode(lines, n) <=> ~InCode(lines, n - 1)))
             /\ (lines[n] # "fence" => (InCode(lines, n) <=> InCode(lines, n - 1)))
<1> DEFINE Fences(i) == {j \in 1 .. i : lines[j] = "fence"}
<1>1. ~InCode(lines, 0)
  <2>1. Fences(0) = {}
    OBVIOUS
  <2>2. Cardinality(Fences(0)) = 0
    BY <2>1, FS_EmptySet
  <2>. QED  BY <2>2 DEF InCode
<1>2. ASSUME NEW n \in 1 .. Len(lines)
      PROVE  /\ (lines[n] = "fence" => (InCode(lines, n) <=> ~InCode(lines, n - 1)))
             /\ (lines[n] # "fence" => (InCode(lines, n) <=> InCode(lines, n - 1)))
  <2>0. Len(lines) \in Nat
    BY LenProperties
  <2>1. n \in Nat /\ n - 1 \in Nat /\ n \in 1 .. n /\ n \notin 1 .. n - 1
    BY <2>0
  <2>2. IsFiniteSet(Fences(n - 1))
    <3>1. IsFiniteSet(1 .. n - 1)
      BY <2>1, FS_Interval
    <3>. QED  BY <3>1, FS_Subset
  <2>3. 1 .. n = (1 .. n - 1) \cup {n}
    BY <2>1
  <2>4. Fences(n) = IF lines[n] = "fence" THEN Fences(n - 1) \cup {n} ELSE Fences(n - 1)
    BY <2>3
  <2>5. n \notin Fences(n - 1)
    BY <2>1
  <2> DEFINE a == Cardinality(Fences(n - 1))
             b == Cardinality(Fences(n))
  <2>6. (InCode(lines, n - 1) <=> a % 2 = 1) /\ (InCode(lines, n) <=> b % 2 = 1)
    BY DEF InCode
  <2> HIDE DEF Fences
  <2>7. a \in Nat
    BY <2>2, FS_CardinalityType
  <2>8. b = IF lines[n] = "fence" THEN a + 1 ELSE a
    BY <2>2, <2>4, <2>5, FS_AddElement
  <2> HIDE DEF a, b
  <2>9. (a + 1) % 2 = 1 <=> ~ (a % 2 = 1)
    BY <2>7
  <2>10. CASE lines[n] = "fence"
    <3>1. b % 2 = 1 <=> ~ (a % 2 = 1)
      BY <2>8, <2>9, <2>10
    <3>. QED  BY <2>6, <2>10, <3>1, Zenon
  <2>11. CASE lines[n] # "fence"
    <3>1. b = a
      BY <2>8, <2>11
    <3>. QED  BY <2>6, <2>11, <3>1, Zenon
  <2>. QED  BY <2>10, <2>11
<1>. QED  BY <1>1, <1>2

Consecutive(part) == \A j \in 2 .. Len(part.lines) : part.lines[j] = part.lines[j - 1] + 1
InKind(lines, part) == \A i \in Holds(part) : part.tag = TagOf(lines, i)
InOrder(parts, k) == \A m \in 1 .. k - 1 : \A i \in Holds(parts[m]), j \in Holds(parts[k]) : i < j
HeldIn(parts) == UNION {Holds(parts[k]) : k \in DOMAIN parts}
ShownFrom(lines, m, n) == {i \in Shown(lines) : m < i /\ i <= n}

\* parts keep the first m lines.
KeepsTo(lines, parts, m) ==
  /\ ShownFrom(lines, 0, m) = HeldIn(parts)
  /\ \A k \in DOMAIN parts : InKind(lines, parts[k]) /\ Consecutive(parts[k]) /\ InOrder(parts, k)

LEMMA KeepAppend ==
  ASSUME NEW lines \in Seq(LineKind), NEW parts \in Seq(PartOK), NEW part \in PartOK,
         NEW m \in Nat, NEW n \in Nat, m <= n, KeepsTo(lines, parts, m),
         Holds(part) = ShownFrom(lines, m, n), InKind(lines, part), Consecutive(part)
  PROVE  KeepsTo(lines, Append(parts, part), n)
<1> DEFINE r == Append(parts, part)
           l == Len(parts)
<1>1. /\ l \in Nat /\ DOMAIN parts = 1 .. l /\ DOMAIN r = 1 .. l + 1
      /\ \A k \in 1 .. l : r[k] = parts[k]
      /\ r[l + 1] = part
      /\ \A k \in 1 .. l + 1 : k = l + 1 \/ k \in 1 .. l
      /\ \A k \in 1 .. l : k \in 1 .. l + 1
      /\ l + 1 \in 1 .. l + 1
  BY AppendPart
<1> HIDE DEF r, l
<1>2. HeldIn(r) = HeldIn(parts) \cup Holds(part)
  BY <1>1 DEF HeldIn
<1>3. ShownFrom(lines, 0, n) = ShownFrom(lines, 0, m) \cup ShownFrom(lines, m, n)
  <2>1. \A i \in Shown(lines) : i \in Nat \ {0}
    BY LenProperties DEF Shown
  <2>. QED  BY <2>1 DEF ShownFrom
<1>4. ASSUME NEW k \in 1 .. l PROVE InKind(lines, r[k]) /\ Consecutive(r[k]) /\ InOrder(r, k)
  <2>1. InKind(lines, parts[k]) /\ Consecutive(parts[k]) /\ InOrder(parts, k)
    BY <1>1 DEF KeepsTo
  <2>2. \A j \in 1 .. k - 1 : r[j] = parts[j]
    BY <1>1
  <2>. QED  BY <1>1, <2>1, <2>2 DEF InOrder
<1>5. InKind(lines, r[l + 1]) /\ Consecutive(r[l + 1])
  BY <1>1
<1>6. InOrder(r, l + 1)
  <2>. SUFFICES ASSUME NEW k \in 1 .. l, NEW i \in Holds(r[k]), NEW j \in Holds(part) PROVE i < j
    <3>1. (l + 1) - 1 = l
      BY <1>1
    <3>. QED  BY <1>1, <3>1 DEF InOrder
  <2>1. i \in HeldIn(parts)
    BY <1>1 DEF HeldIn
  <2>2. i \in ShownFrom(lines, 0, m) /\ j \in ShownFrom(lines, m, n)
    BY <2>1 DEF KeepsTo
  <2>3. i \in Nat /\ j \in Nat
    BY <2>2, LenProperties DEF ShownFrom, Shown
  <2>. QED  BY <2>2, <2>3 DEF ShownFrom
<1>7. ShownFrom(lines, 0, n) = HeldIn(r)
  BY <1>2, <1>3 DEF KeepsTo
<1>8. \A k \in DOMAIN r : InKind(lines, r[k]) /\ Consecutive(r[k]) /\ InOrder(r, k)
  BY <1>1, <1>4, <1>5, <1>6
<1>9. KeepsTo(lines, r, n)
  BY <1>7, <1>8 DEF KeepsTo
<1>. QED  BY <1>9 DEF r

\* A line that is not to be shown needs no part.
LEMMA KeepSkip ==
  ASSUME NEW lines \in Seq(LineKind), NEW parts, NEW n \in Nat \ {0}, KeepsTo(lines, parts, n - 1),
         n \notin Shown(lines)
  PROVE  KeepsTo(lines, parts, n)
<1>1. \A i \in Shown(lines) : i \in Nat
  BY LenProperties DEF Shown
<1>2. ShownFrom(lines, 0, n) = ShownFrom(lines, 0, n - 1)
  BY <1>1 DEF ShownFrom
<1>. QED  BY <1>2 DEF KeepsTo

\* Parts open and close by turns, with those between them that hold what is open.
Balanced(parts, open, inner, end, is) ==
  /\ \A k \in 1 .. Len(parts) : Opened(parts, k, open, end) = IF parts[k].tag \in {open, inner} THEN 1 ELSE 0
  /\ Opened(parts, Len(parts), open, end) = IF is THEN 1 ELSE 0

\* What a part with a tag opens or closes, or needs open or closed.
Turn(tag, open, inner, end, was, is) ==
  \/ tag = open /\ ~was /\ is
  \/ tag = inner /\ was /\ is
  \/ tag = end /\ was /\ ~is
  \/ tag \notin {open, inner, end} /\ ~was /\ ~is

LEMMA BalanceAppend ==
  ASSUME NEW parts \in Seq(PartOK), NEW part \in PartOK, NEW open, NEW inner, NEW end,
         open # end, inner # end, inner # open, NEW was \in BOOLEAN, NEW is \in BOOLEAN,
         Balanced(parts, open, inner, end, was),
         Turn(part.tag, open, inner, end, was, is)
  PROVE  Balanced(Append(parts, part), open, inner, end, is)
<1> DEFINE r == Append(parts, part)
           l == Len(parts)
           Count(p, k, t) == Cardinality({j \in 1 .. k : p[j].tag = t})
<1>1. /\ l \in Nat /\ Len(r) = l + 1
      /\ \A k \in 1 .. l : r[k] = parts[k]
      /\ r[l + 1] = part
      /\ \A k \in 1 .. l + 1 : k = l + 1 \/ k \in 1 .. l
  BY AppendPart
<1> HIDE DEF r, l
<1>2. ASSUME NEW k \in 1 .. l, NEW t PROVE Count(r, k, t) = Count(parts, k, t)
  <2>1. \A j \in 1 .. k : j \in 1 .. l
    BY <1>1
  <2>2. {j \in 1 .. k : r[j].tag = t} = {j \in 1 .. k : parts[j].tag = t}
    BY <1>1, <2>1
  <2>. QED  BY <2>2
<1>3. ASSUME NEW t
      PROVE  /\ Count(parts, l, t) \in Nat
             /\ Count(r, l + 1, t) = Count(parts, l, t) + (IF part.tag = t THEN 1 ELSE 0)
  <2> DEFINE S == {j \in 1 .. l : parts[j].tag = t}
  <2>1. IsFiniteSet(S) /\ l + 1 \notin S
    <3>1. IsFiniteSet(1 .. l)
      BY <1>1, FS_Interval
    <3>. QED  BY <1>1, <3>1, FS_Subset
  <2>2. 1 .. l + 1 = (1 .. l) \cup {l + 1}
    BY <1>1
  <2>3. {j \in 1 .. l + 1 : r[j].tag = t} = IF part.tag = t THEN S \cup {l + 1} ELSE S
    BY <1>1, <2>2
  <2> HIDE DEF S
  <2>4. Cardinality(S) \in Nat
    BY <2>1, FS_CardinalityType
  <2>5. Cardinality(S \cup {l + 1}) = Cardinality(S) + 1
    BY <2>1, FS_AddElement
  <2>6. Count(parts, l, t) = Cardinality(S)
    BY DEF S
  <2>7. Count(r, l + 1, t) = IF part.tag = t THEN Cardinality(S) + 1 ELSE Cardinality(S)
    BY <2>3, <2>5
  <2> HIDE DEF Count
  <2>. QED  BY <2>4, <2>6, <2>7
<1>4. \A p, k : Opened(p, k, open, end) = Count(p, k, open) - Count(p, k, end)
  BY DEF Opened
<1> HIDE DEF Count
<1>5. ASSUME NEW k \in 1 .. l
      PROVE  Opened(r, k, open, end) = IF r[k].tag \in {open, inner} THEN 1 ELSE 0
  <2>1. Opened(r, k, open, end) = Opened(parts, k, open, end)
    BY <1>2, <1>4
  <2>2. Opened(parts, k, open, end) = IF parts[k].tag \in {open, inner} THEN 1 ELSE 0
    BY DEF Balanced, l
  <2>. QED  BY <1>1, <2>1, <2>2
<1>6. Opened(parts, l, open, end) = IF was THEN 1 ELSE 0
  BY DEF Balanced, l
<1>7. Opened(r, l + 1, open, end)
        = (IF was THEN 1 ELSE 0) + (IF part.tag = open THEN 1 ELSE 0) - (IF part.tag = end THEN 1 ELSE 0)
  <2> DEFINE a == Count(parts, l, open)
             b == Count(parts, l, end)
             c == Count(r, l + 1, open)
             d == Count(r, l + 1, end)
  <2>1. a \in Nat /\ b \in Nat
    BY <1>3
  <2>2. c = a + (IF part.tag = open THEN 1 ELSE 0) /\ d = b + (IF part.tag = end THEN 1 ELSE 0)
    BY <1>3
  <2>3. a - b = IF was THEN 1 ELSE 0
    BY <1>4, <1>6
  <2>4. Opened(r, l + 1, open, end) = c - d
    BY <1>4
  <2> HIDE DEF a, b, c, d
  <2>. QED  BY <2>1, <2>2, <2>3, <2>4
<1>8. Opened(r, l + 1, open, end) = IF is THEN 1 ELSE 0
  BY <1>7 DEF Turn
<1>9. (part.tag \in {open, inner}) <=> is
  BY DEF Turn
<1>10. Balanced(r, open, inner, end, is)
  BY <1>1, <1>5, <1>8, <1>9 DEF Balanced
<1>. QED  BY <1>10 DEF r

\* What is written of a text after n lines: its parts, with lists and code as open as
\* they are, and the paragraph of the last lines, none of which is code.
Core(lines, parts, list, code, m) ==
  /\ parts \in Seq(PartOK) /\ KeepsTo(lines, parts, m)
  /\ Balanced(parts, "ul", "li", "/ul", list) /\ Balanced(parts, "pre", "raw", "/pre", code)
InPara(lines, para, n) ==
  /\ Len(para) <= n
  /\ \A j \in 1 .. Len(para) : para[j] = (n - Len(para)) + j
  /\ \A i \in (n - Len(para)) + 1 .. n : lines[i] = "text" /\ ~InCode(lines, i)
Rendered(lines, h, n) ==
  /\ h \in HtmlState
  /\ Core(lines, h.parts, h.list, h.code, n - Len(h.para))
  /\ InPara(lines, h.para, n)
  /\ h.code <=> InCode(lines, n)
  /\ h.code => ~h.list
  /\ h.code \/ h.list => h.para = << >>

\* A part of the lines that come after line m, up to n.
NewPart(lines, part, m, n) ==
  part \in PartOK /\ Holds(part) = ShownFrom(lines, m, n) /\ InKind(lines, part) /\ Consecutive(part)
LEMMA CoreAppend ==
  ASSUME NEW lines \in Seq(LineKind), NEW parts, NEW part,
         NEW list \in BOOLEAN, NEW code \in BOOLEAN, NEW list2 \in BOOLEAN, NEW code2 \in BOOLEAN,
         NEW m \in Nat, NEW n \in Nat, m <= n, Core(lines, parts, list, code, m),
         NewPart(lines, part, m, n),
         Turn(part.tag, "ul", "li", "/ul", list, list2),
         Turn(part.tag, "pre", "raw", "/pre", code, code2)
  PROVE  Core(lines, Append(parts, part), list2, code2, n)
<1>1. parts \in Seq(PartOK) /\ KeepsTo(lines, parts, m)
      /\ Balanced(parts, "ul", "li", "/ul", list) /\ Balanced(parts, "pre", "raw", "/pre", code)
  BY DEF Core
<1>p. part \in PartOK /\ Holds(part) = ShownFrom(lines, m, n) /\ InKind(lines, part) /\ Consecutive(part)
  BY DEF NewPart
<1>2. Append(parts, part) \in Seq(PartOK)
  BY <1>1, <1>p, AppendPart
<1>3. KeepsTo(lines, Append(parts, part), n)
  BY <1>1, <1>p, KeepAppend
<1>4. Balanced(Append(parts, part), "ul", "li", "/ul", list2)
  BY <1>1, <1>p, BalanceAppend
<1>5. Balanced(Append(parts, part), "pre", "raw", "/pre", code2)
  BY <1>1, <1>p, BalanceAppend
<1>. QED  BY <1>2, <1>3, <1>4, <1>5 DEF Core

\* A part without lines, and a part of the next line.
LEMMA BarePart ==
  ASSUME NEW lines \in Seq(LineKind), NEW tag \in PartTag, NEW m \in Nat
  PROVE  NewPart(lines, Part(tag, << >>), m, m) /\ Part(tag, << >>).tag = tag
<1> DEFINE part == Part(tag, << >>)
<1>1. part.tag = tag /\ part.lines = << >> /\ part \in PartOK
  BY DEF Part, PartOK
<1> HIDE DEF part
<1>2. Len(part.lines) = 0 /\ DOMAIN part.lines = {}
  BY <1>1
<1>3. Holds(part) = {}
  BY <1>2 DEF Holds
<1>4. ShownFrom(lines, m, m) = {}
  <2>1. \A i \in Shown(lines) : i \in Nat
    BY LenProperties DEF Shown
  <2>. QED  BY <2>1 DEF ShownFrom
<1>5. Consecutive(part)
  BY <1>2 DEF Consecutive
<1>6. NewPart(lines, part, m, m) /\ part.tag = tag
  BY <1>1, <1>3, <1>4, <1>5 DEF InKind, NewPart
<1>. QED  BY <1>6 DEF part

LEMMA LinePart ==
  ASSUME NEW lines \in Seq(LineKind), NEW n \in Shown(lines), NEW tag \in PartTag, tag = TagOf(lines, n)
  PROVE  NewPart(lines, Part(tag, <<n>>), n - 1, n) /\ Part(tag, <<n>>).tag = tag
<1> DEFINE part == Part(tag, <<n>>)
<1>0. n \in Nat \ {0} /\ \A i \in Shown(lines) : i \in Nat
  BY LenProperties DEF Shown
<1>1. part.tag = tag /\ part.lines = <<n>> /\ part \in PartOK
  BY <1>0 DEF Part, PartOK
<1> HIDE DEF part
<1>2. Len(part.lines) = 1 /\ DOMAIN part.lines = {1} /\ part.lines[1] = n
  BY <1>1
<1>3. Holds(part) = {n}
  BY <1>2 DEF Holds
<1>4. ShownFrom(lines, n - 1, n) = {n}
  <2>1. \A i \in Shown(lines) : n - 1 < i /\ i <= n <=> i = n
    BY <1>0
  <2>. QED  BY <2>1, Zenon DEF ShownFrom
<1>5. Consecutive(part)
  BY <1>2 DEF Consecutive
<1>6. NewPart(lines, part, n - 1, n) /\ part.tag = tag
  BY <1>1, <1>3, <1>4, <1>5 DEF InKind, NewPart
<1>. QED  BY <1>6 DEF part

LEMMA ParaFlushed ==
  ASSUME NEW lines \in Seq(LineKind), NEW n \in 0 .. Len(lines), NEW h, Rendered(lines, h, n)
  PROVE  LET g == FlushPara(h)
         IN Rendered(lines, g, n) /\ g.para = << >> /\ g.list = h.list /\ g.code = h.code
<1> DEFINE part == Part("p", h.para)
           q == Len(h.para)
           m == n - q
           g == FlushPara(h)
<1>1. CASE h.para = << >>
  BY <1>1 DEF FlushPara
<1>2. CASE h.para # << >>
  <2>1. n \in Nat /\ h \in HtmlState /\ h.para \in Seq(Nat) /\ q \in Nat /\ q # 0 /\ q <= n /\ m \in Nat /\ m <= n
    <3>1. h \in HtmlState /\ h.para \in Seq(Nat) /\ q <= n
      BY DEF Rendered, HtmlState, InPara
    <3>2. q \in Nat /\ q # 0
      BY <1>2, <3>1, EmptySeq, LenProperties
    <3>. QED  BY <3>1, <3>2, LenProperties
  <2>2. h.list = FALSE /\ h.code = FALSE
    BY <1>2, <2>1 DEF Rendered, HtmlState
  <2>3. Core(lines, h.parts, FALSE, FALSE, m)
    BY <2>2 DEF Rendered
  <2>4. /\ \A j \in 1 .. q : h.para[j] = m + j
        /\ \A i \in m + 1 .. n : lines[i] = "text" /\ ~InCode(lines, i)
    BY DEF Rendered, InPara
  <2>5. part \in PartOK /\ part.tag = "p" /\ part.lines = h.para
    <3>1. "p" \in PartTag /\ h.para \in Seq(Nat)
      BY <2>1 DEF PartTag
    <3>. QED  BY <3>1 DEF Part, PartOK
  <2>6. g = [[h EXCEPT !.parts = Append(@, part)] EXCEPT !.para = << >>]
    BY <1>2, <2>1 DEF FlushPara, HtmlState
  <2>7. /\ g.parts = Append(h.parts, part) /\ g.para = << >> /\ g.list = FALSE /\ g.code = FALSE
        /\ h.parts \in Seq(PartOK)
    BY <2>1, <2>2, <2>6 DEF HtmlState
  <2>8. g \in HtmlState
    <3>1. Append(h.parts, part) \in Seq(PartOK) /\ << >> \in Seq(Nat)
      BY <2>5, <2>7, AppendPart
    <3>. QED  BY <2>1, <2>6, <3>1 DEF HtmlState
  <2> HIDE DEF part, q, m, g
  <2>9. Holds(part) = m + 1 .. n
    <3>1. DOMAIN h.para = 1 .. q /\ m + q = n
      BY <2>1, LenProperties DEF q, m
    <3>2. \A i \in m + 1 .. n : i - m \in 1 .. q /\ m + (i - m) = i
      BY <2>1, <3>1
    <3>3. \A j \in 1 .. q : m + j \in m + 1 .. n
      BY <2>1, <3>1
    <3>. QED  BY <2>4, <2>5, <3>1, <3>2, <3>3 DEF Holds
  <2>10. ShownFrom(lines, m, n) = m + 1 .. n
    <3>1. DOMAIN lines = 1 .. Len(lines) /\ Len(lines) \in Nat
      BY LenProperties
    <3>2. \A i \in m + 1 .. n : i \in Shown(lines) /\ m < i /\ i <= n
      BY <2>1, <2>4, <3>1 DEF Shown
    <3>3. \A i \in Shown(lines) : i \in Nat
      BY <3>1 DEF Shown
    <3>. QED  BY <2>1, <3>2, <3>3 DEF ShownFrom
  <2>11. InKind(lines, part)
    BY <2>4, <2>5, <2>9 DEF InKind, TagOf
  <2>12. Consecutive(part)
    <3>1. Len(part.lines) = q
      BY <2>5 DEF q
    <3>2. \A j \in 2 .. q : j \in 1 .. q /\ j - 1 \in 1 .. q /\ m + j = (m + (j - 1)) + 1
      BY <2>1
    <3>3. \A j \in 2 .. q : h.para[j] = m + j /\ h.para[j - 1] = m + (j - 1)
      BY <2>4, <3>2
    <3>4. \A j \in 2 .. q : h.para[j] = h.para[j - 1] + 1
      BY <3>2, <3>3
    <3>. QED  BY <2>5, <3>1, <3>4 DEF Consecutive
  <2>13. Core(lines, Append(h.parts, part), FALSE, FALSE, n)
    <3>1. NewPart(lines, part, m, n)
      BY <2>5, <2>9, <2>10, <2>11, <2>12 DEF NewPart
    <3>2. Turn(part.tag, "ul", "li", "/ul", FALSE, FALSE) /\ Turn(part.tag, "pre", "raw", "/pre", FALSE, FALSE)
      BY <2>5 DEF Turn
    <3>. QED  BY <2>1, <2>3, <3>1, <3>2, CoreAppend
  <2>14. n - Len(g.para) = n /\ InPara(lines, g.para, n)
    <3>1. Len(g.para) = 0
      BY <2>7
    <3>. QED  BY <2>1, <3>1 DEF InPara
  <2>15. ~InCode(lines, n)
    BY <2>2 DEF Rendered
  <2>16. Rendered(lines, g, n)
    BY <2>7, <2>8, <2>13, <2>14, <2>15 DEF Rendered
  <2>. QED  BY <2>2, <2>7, <2>16 DEF g
<1>. QED  BY <1>1, <1>2

LEMMA ListFlushed ==
  ASSUME NEW lines \in Seq(LineKind), NEW n \in 0 .. Len(lines), NEW h, Rendered(lines, h, n)
  PROVE  LET g == FlushList(h)
         IN Rendered(lines, g, n) /\ g.para = h.para /\ g.list = FALSE /\ g.code = h.code
<1> DEFINE part == Part("/ul", << >>)
           g == FlushList(h)
<1>0. h \in HtmlState /\ n \in Nat
  BY LenProperties DEF Rendered
<1>1. CASE h.list = FALSE
  BY <1>1 DEF FlushList
<1>2. CASE h.list = TRUE
  <2>1. h.para = << >> /\ h.code = FALSE /\ h.parts \in Seq(PartOK)
    BY <1>0, <1>2 DEF Rendered, HtmlState
  <2>2. Core(lines, h.parts, TRUE, FALSE, n)
    <3>1. n - Len(h.para) = n
      BY <1>0, <2>1
    <3>. QED  BY <1>2, <2>1, <3>1 DEF Rendered
  <2>3. NewPart(lines, part, n, n) /\ part.tag = "/ul"
    <3>1. "/ul" \in PartTag
      BY DEF PartTag
    <3>. QED  BY <1>0, <3>1, BarePart
  <2>4. g = [[h EXCEPT !.parts = Append(@, part)] EXCEPT !.list = FALSE]
    BY <1>0, <1>2 DEF FlushList, HtmlState
  <2> HIDE DEF part, g
  <2>5. g.parts = Append(h.parts, part) /\ g.para = << >> /\ g.list = FALSE /\ g.code = FALSE
    BY <1>0, <2>1, <2>4 DEF HtmlState
  <2>6. g \in HtmlState
    <3>1. Append(h.parts, part) \in Seq(PartOK)
      BY <2>1, <2>3, AppendPart DEF NewPart
    <3>. QED  BY <1>0, <2>4, <3>1 DEF HtmlState
  <2>7. Core(lines, Append(h.parts, part), FALSE, FALSE, n)
    <3>1. Turn(part.tag, "ul", "li", "/ul", TRUE, FALSE) /\ Turn(part.tag, "pre", "raw", "/pre", FALSE, FALSE)
      BY <2>3 DEF Turn
    <3>2. n <= n
      BY <1>0
    <3>. QED  BY <1>0, <2>2, <2>3, <3>1, <3>2, CoreAppend
  <2>8. n - Len(g.para) = n /\ InPara(lines, g.para, n)
    <3>1. Len(g.para) = 0
      BY <2>5
    <3>. QED  BY <1>0, <3>1 DEF InPara
  <2>9. ~InCode(lines, n)
    BY <2>1 DEF Rendered
  <2>10. Rendered(lines, g, n)
    BY <2>5, <2>6, <2>7, <2>8, <2>9 DEF Rendered
  <2>. QED  BY <2>1, <2>5, <2>10 DEF g
<1>3. h.list \in BOOLEAN
  BY <1>0 DEF HtmlState
<1>. QED  BY <1>1, <1>2, <1>3

LEMMA NoParaRendered ==
  ASSUME NEW lines \in Seq(LineKind), NEW n \in 0 .. Len(lines), NEW g \in HtmlState, g.para = << >>
  PROVE  /\ Rendered(lines, g, n) => /\ Core(lines, g.parts, g.list, g.code, n)
                                     /\ g.code <=> InCode(lines, n)
                                     /\ g.code => ~g.list
         /\ (/\ Core(lines, g.parts, g.list, g.code, n)
             /\ g.code <=> InCode(lines, n)
             /\ g.code => ~g.list) => Rendered(lines, g, n)
<1>1. n \in Nat /\ Len(g.para) = 0
  BY LenProperties
<1>2. n - Len(g.para) = n /\ InPara(lines, g.para, n)
  BY <1>1 DEF InPara
<1>. QED  BY <1>2 DEF Rendered

LEMMA PutRendered ==
  ASSUME NEW lines \in Seq(LineKind), NEW n \in 1 .. Len(lines), NEW g, g.para = << >>,
         Rendered(lines, g, n - 1), n \in Shown(lines), NEW tag, tag = TagOf(lines, n),
         \/ tag = "raw" /\ g.code
         \/ tag = "h" /\ ~g.code /\ ~g.list
         \/ tag = "li" /\ g.list
  PROVE  Rendered(lines, Put(g, tag, n), n)
<1> DEFINE part == Part(tag, <<n>>)
           r == Put(g, tag, n)
<1>1. g \in HtmlState /\ n \in Nat \ {0} /\ n - 1 \in 0 .. Len(lines) /\ n \in 0 .. Len(lines) /\ n - 1 \in Nat /\ n - 1 <= n
  BY LenProperties DEF Rendered
<1>2. /\ Core(lines, g.parts, g.list, g.code, n - 1)
      /\ g.code <=> InCode(lines, n - 1)
      /\ g.code => ~g.list
  BY <1>1, NoParaRendered
<1>3. NewPart(lines, part, n - 1, n) /\ part.tag = tag
  <2>1. tag \in PartTag
    BY DEF PartTag
  <2>. QED  BY <2>1, LinePart
<1> HIDE DEF part
<1>4. r = [g EXCEPT !.parts = Append(@, part)]
  BY DEF Put, part
<1> HIDE DEF r
<1>5. g.list \in BOOLEAN /\ g.code \in BOOLEAN /\ g.parts \in Seq(PartOK)
  BY <1>1 DEF HtmlState
<1>6. r.parts = Append(g.parts, part) /\ r.para = << >> /\ r.list = g.list /\ r.code = g.code
  BY <1>1, <1>4 DEF HtmlState
<1>7. r \in HtmlState
  <2>1. Append(g.parts, part) \in Seq(PartOK)
    BY <1>3, <1>5, AppendPart DEF NewPart
  <2>. QED  BY <1>1, <1>4, <2>1 DEF HtmlState
<1>8. \/ tag = "li" /\ g.list = TRUE /\ g.code = FALSE
      \/ tag = "raw" /\ g.list = FALSE /\ g.code = TRUE
      \/ tag = "h" /\ g.list = FALSE /\ g.code = FALSE
  BY <1>2, <1>5
<1>9. Core(lines, Append(g.parts, part), g.list, g.code, n)
  <2>1. /\ Turn(part.tag, "ul", "li", "/ul", g.list, g.list)
        /\ Turn(part.tag, "pre", "raw", "/pre", g.code, g.code)
    BY <1>3, <1>8 DEF Turn
  <2>. QED  BY <1>1, <1>2, <1>3, <1>5, <2>1, CoreAppend
<1>10. InCode(lines, n) <=> InCode(lines, n - 1)
  <2>1. lines[n] # "fence"
    BY DEF Shown
  <2>. QED  BY <2>1, InCodeAtFences
<1>11. Core(lines, r.parts, r.list, r.code, n) /\ (r.code <=> InCode(lines, n)) /\ (r.code => ~r.list)
  BY <1>2, <1>6, <1>9, <1>10
<1>12. Rendered(lines, r, n)
  BY <1>1, <1>6, <1>7, <1>11, NoParaRendered
<1>. QED  BY <1>12 DEF r

LEMMA FenceRendered ==
  ASSUME NEW lines \in Seq(LineKind), NEW n \in 1 .. Len(lines), NEW h,
         Rendered(lines, h, n - 1), lines[n] = "fence"
  PROVE  Rendered(lines, Fence(h), n)
<1> DEFINE g == FlushList(FlushPara(h))
           part == Part(IF h.code THEN "/pre" ELSE "pre", << >>)
           r == Fence(h)
<1>1. h \in HtmlState /\ n \in Nat \ {0} /\ n - 1 \in 0 .. Len(lines) /\ n \in 0 .. Len(lines) /\ n - 1 \in Nat /\ n - 1 <= n
  BY LenProperties DEF Rendered
<1>2. Rendered(lines, g, n - 1) /\ g.para = << >> /\ g.list = FALSE /\ g.code = h.code
  <2> DEFINE f == FlushPara(h)
  <2>1. Rendered(lines, f, n - 1) /\ f.para = << >> /\ f.code = h.code
    BY <1>1, ParaFlushed
  <2> HIDE DEF f
  <2>2. Rendered(lines, FlushList(f), n - 1) /\ FlushList(f).para = f.para /\ FlushList(f).list = FALSE /\ FlushList(f).code = f.code
    BY <1>1, <2>1, ListFlushed
  <2>. QED  BY <2>1, <2>2 DEF f
<1>3. r = [[g EXCEPT !.parts = Append(@, part)] EXCEPT !.code = ~@]
  <2>1. g \in HtmlState
    BY <1>2 DEF Rendered
  <2> HIDE DEF g, part
  <2>2. [[g EXCEPT !.parts = Append(@, part)] EXCEPT !.code = ~@] = [g EXCEPT !.parts = Append(@, part), !.code = ~@]
    BY <2>1 DEF HtmlState
  <2>. QED  BY <2>2 DEF Fence, g, part
<1> HIDE DEF g, r
<1>4. /\ g \in HtmlState /\ h.code \in BOOLEAN /\ g.parts \in Seq(PartOK)
      /\ Core(lines, g.parts, FALSE, h.code, n - 1) /\ (h.code <=> InCode(lines, n - 1))
  <2>1. g \in HtmlState
    BY <1>2 DEF Rendered
  <2>2. /\ Core(lines, g.parts, g.list, g.code, n - 1) /\ (g.code <=> InCode(lines, n - 1))
    BY <1>1, <1>2, <2>1, NoParaRendered
  <2>. QED  BY <1>1, <1>2, <2>1, <2>2 DEF HtmlState
<1>5. Core(lines, g.parts, FALSE, h.code, n)
  <2>1. n \notin Shown(lines)
    BY DEF Shown
  <2>. QED  BY <1>1, <1>4, <2>1, KeepSkip DEF Core
<1>6. NewPart(lines, part, n, n) /\ part.tag = (IF h.code THEN "/pre" ELSE "pre")
  <2>1. (IF h.code THEN "/pre" ELSE "pre") \in PartTag
    BY DEF PartTag
  <2> DEFINE tag == IF h.code THEN "/pre" ELSE "pre"
  <2> HIDE DEF tag
  <2>2. NewPart(lines, Part(tag, << >>), n, n) /\ Part(tag, << >>).tag = tag
    BY <1>1, <2>1, BarePart DEF tag
  <2>. QED  BY <2>2 DEF tag
<1> HIDE DEF part
<1>7. r.parts = Append(g.parts, part) /\ r.para = << >> /\ r.list = FALSE /\ r.code = ~h.code
  BY <1>2, <1>3, <1>4 DEF HtmlState
<1>8. r \in HtmlState
  <2>1. Append(g.parts, part) \in Seq(PartOK) /\ (~g.code) \in BOOLEAN
    BY <1>4, <1>6, AppendPart DEF NewPart
  <2>. QED  BY <1>3, <1>4, <2>1 DEF HtmlState
<1>9. Core(lines, Append(g.parts, part), FALSE, ~h.code, n)
  <2>1. CASE h.code = TRUE
    <3>1. Core(lines, Append(g.parts, part), FALSE, FALSE, n)
      <4>1. part.tag = "/pre"
        BY <1>6, <2>1
      <4>2. Core(lines, g.parts, FALSE, TRUE, n)
        BY <1>5, <2>1
      <4>3. n \in Nat /\ n <= n
        BY <1>1
      <4>4. Turn(part.tag, "ul", "li", "/ul", FALSE, FALSE) /\ Turn(part.tag, "pre", "raw", "/pre", TRUE, FALSE)
        BY <4>1 DEF Turn
      <4>. QED  BY <1>6, <4>2, <4>3, <4>4, CoreAppend
    <3>. QED  BY <2>1, <3>1
  <2>2. CASE h.code = FALSE
    <3>1. Core(lines, Append(g.parts, part), FALSE, TRUE, n)
      <4>1. part.tag = "pre"
        BY <1>6, <2>2
      <4>2. Core(lines, g.parts, FALSE, FALSE, n)
        BY <1>5, <2>2
      <4>3. n \in Nat /\ n <= n
        BY <1>1
      <4>4. Turn(part.tag, "ul", "li", "/ul", FALSE, FALSE) /\ Turn(part.tag, "pre", "raw", "/pre", FALSE, TRUE)
        BY <4>1 DEF Turn
      <4>. QED  BY <1>6, <4>2, <4>3, <4>4, CoreAppend
    <3>. QED  BY <2>2, <3>1
  <2>. QED  BY <1>4, <2>1, <2>2
<1>10. InCode(lines, n) <=> ~InCode(lines, n - 1)
  BY InCodeAtFences
<1>11. Core(lines, r.parts, r.list, r.code, n) /\ (r.code <=> InCode(lines, n)) /\ (r.code => ~r.list)
  BY <1>4, <1>7, <1>9, <1>10
<1>12. Rendered(lines, r, n)
  BY <1>1, <1>7, <1>8, <1>11, NoParaRendered
<1>. QED  BY <1>12 DEF r

LEMMA ItemRendered ==
  ASSUME NEW lines \in Seq(LineKind), NEW n \in 1 .. Len(lines), NEW h,
         Rendered(lines, h, n - 1), lines[n] = "item", h.code = FALSE
  PROVE  Rendered(lines, Item(h, n), n)
<1> DEFINE g == FlushPara(h)
           part == Part("ul", << >>)
           e == IF g.list THEN g ELSE [g EXCEPT !.parts = Append(@, part), !.list = TRUE]
<1>1. h \in HtmlState /\ n \in Nat \ {0} /\ n - 1 \in 0 .. Len(lines) /\ n \in 0 .. Len(lines) /\ n - 1 \in Nat /\ n - 1 <= n
  BY LenProperties DEF Rendered
<1>2. Rendered(lines, g, n - 1) /\ g.para = << >> /\ g.code = FALSE
  BY <1>1, ParaFlushed
<1>3. Item(h, n) = Put(e, "li", n)
  BY DEF Item
<1> HIDE DEF g
<1>4. g \in HtmlState /\ g.list \in BOOLEAN /\ g.parts \in Seq(PartOK)
  BY <1>2 DEF Rendered, HtmlState
<1>5. Core(lines, g.parts, g.list, FALSE, n - 1) /\ ~InCode(lines, n - 1)
  <2>1. Core(lines, g.parts, g.list, g.code, n - 1) /\ (g.code <=> InCode(lines, n - 1))
    BY <1>1, <1>2, <1>4, NoParaRendered
  <2>. QED  BY <1>2, <2>1
<1>6. Rendered(lines, e, n - 1) /\ e.para = << >> /\ e.list = TRUE
  <2>1. CASE g.list = TRUE
    BY <1>2, <2>1
  <2>2. CASE g.list = FALSE
    <3>1. NewPart(lines, part, n - 1, n - 1) /\ part.tag = "ul"
      <4>1. "ul" \in PartTag
        BY DEF PartTag
      <4>. QED  BY <1>1, <4>1, BarePart
    <3>2. e = [[g EXCEPT !.parts = Append(@, part)] EXCEPT !.list = TRUE]
      <4> HIDE DEF part
      <4>1. [[g EXCEPT !.parts = Append(@, part)] EXCEPT !.list = TRUE] = [g EXCEPT !.parts = Append(@, part), !.list = TRUE]
        BY <1>4 DEF HtmlState
      <4>. QED  BY <2>2, <4>1
    <3> HIDE DEF part, e
    <3>3. e.parts = Append(g.parts, part) /\ e.para = << >> /\ e.list = TRUE /\ e.code = FALSE
      BY <1>2, <1>4, <3>2 DEF HtmlState
    <3>4. e \in HtmlState
      <4>1. Append(g.parts, part) \in Seq(PartOK)
        BY <1>4, <3>1, AppendPart DEF NewPart
      <4>. QED  BY <1>4, <3>2, <4>1 DEF HtmlState
    <3>5. Core(lines, g.parts, FALSE, FALSE, n - 1)
      BY <1>5, <2>2
    <3>6. Core(lines, Append(g.parts, part), TRUE, FALSE, n - 1)
      <4>1. n - 1 <= n - 1
        BY <1>1
      <4>2. Turn(part.tag, "ul", "li", "/ul", FALSE, TRUE) /\ Turn(part.tag, "pre", "raw", "/pre", FALSE, FALSE)
        BY <3>1 DEF Turn
      <4>. QED  BY <1>1, <3>1, <3>5, <4>1, <4>2, CoreAppend
    <3>7. Core(lines, e.parts, e.list, e.code, n - 1) /\ (e.code <=> InCode(lines, n - 1)) /\ (e.code => ~e.list)
      BY <1>5, <3>3, <3>6
    <3>. QED  BY <1>1, <3>3, <3>4, <3>7, NoParaRendered
  <2>. QED  BY <1>4, <2>1, <2>2
<1> HIDE DEF e
<1>7. ~InCode(lines, n)
  BY <1>5, InCodeAtFences
<1>8. n \in Shown(lines) /\ TagOf(lines, n) = "li"
  BY <1>7, LenProperties DEF Shown, TagOf
<1>9. Rendered(lines, Put(e, "li", n), n)
  BY <1>6, <1>8, PutRendered
<1>. QED  BY <1>3, <1>9

\* Each line keeps what holds of the text so far.
LEMMA LineRendered ==
  ASSUME NEW lines \in Seq(LineKind), NEW n \in 1 .. Len(lines), NEW h, Rendered(lines, h, n - 1)
  PROVE  Rendered(lines, HtmlLine(h, lines[n], n), n)
<1> DEFINE f == FlushPara(h)
           e == FlushList(f)
<1>1. /\ h \in HtmlState /\ n \in Nat \ {0} /\ n - 1 \in 0 .. Len(lines) /\ n \in 0 .. Len(lines)
      /\ n - 1 \in Nat /\ n - 1 <= n /\ DOMAIN lines = 1 .. Len(lines)
      /\ h.code \in BOOLEAN
  BY LenProperties DEF Rendered, HtmlState
<1>2. lines[n] \in LineKind
  BY ElementOfSeq
<1>3. Rendered(lines, e, n - 1) /\ e.para = << >> /\ e.list = FALSE /\ e.code = h.code
  <2>1. Rendered(lines, f, n - 1) /\ f.para = << >> /\ f.code = h.code
    BY <1>1, ParaFlushed
  <2> HIDE DEF f
  <2>. QED  BY <1>1, <2>1, ListFlushed
<1> HIDE DEF e, f
<1>4. CASE lines[n] = "fence"
  BY <1>4, FenceRendered DEF HtmlLine
<1>5. CASE lines[n] # "fence" /\ h.code = TRUE
  <2>1. HtmlLine(h, lines[n], n) = Put(h, "raw", n)
    BY <1>5 DEF HtmlLine
  <2>2. h.para = << >> /\ InCode(lines, n - 1)
    BY <1>5 DEF Rendered
  <2>3. InCode(lines, n)
    BY <1>5, <2>2, InCodeAtFences
  <2>4. n \in Shown(lines) /\ TagOf(lines, n) = "raw"
    BY <1>1, <1>5, <2>3 DEF Shown, TagOf
  <2>5. Rendered(lines, Put(h, "raw", n), n)
    BY <1>5, <2>2, <2>4, PutRendered
  <2>. QED  BY <2>1, <2>5
<1>6. CASE lines[n] # "fence" /\ h.code = FALSE
  <2>0. ~InCode(lines, n)
    <3>1. ~InCode(lines, n - 1)
      BY <1>6 DEF Rendered
    <3>. QED  BY <1>6, <3>1, InCodeAtFences
  <2>1. CASE lines[n] = "heading"
    <3>1. HtmlLine(h, lines[n], n) = Put(e, "h", n)
      BY <1>6, <2>1 DEF HtmlLine, e, f
    <3>2. n \in Shown(lines) /\ TagOf(lines, n) = "h"
      BY <1>1, <2>0, <2>1 DEF Shown, TagOf
    <3>3. Rendered(lines, Put(e, "h", n), n)
      BY <1>3, <1>6, <3>2, PutRendered
    <3>. QED  BY <3>1, <3>3
  <2>2. CASE lines[n] = "item"
    <3>1. HtmlLine(h, lines[n], n) = Item(h, n)
      BY <1>6, <2>2 DEF HtmlLine
    <3>. QED  BY <1>6, <2>2, <3>1, ItemRendered
  <2>3. CASE lines[n] = "blank"
    <3>1. HtmlLine(h, lines[n], n) = e
      BY <1>6, <2>3 DEF HtmlLine, e, f
    <3>2. e \in HtmlState
      BY <1>3 DEF Rendered
    <3>3. Core(lines, e.parts, e.list, e.code, n - 1)
      BY <1>1, <1>3, <3>2, NoParaRendered
    <3>4. n \notin Shown(lines)
      BY <2>0, <2>3 DEF Shown
    <3>5. Core(lines, e.parts, e.list, e.code, n)
      BY <1>1, <3>3, <3>4, KeepSkip DEF Core
    <3>6. Rendered(lines, e, n)
      BY <1>1, <1>3, <1>6, <2>0, <3>2, <3>5, NoParaRendered
    <3>. QED  BY <3>1, <3>6
  <2>4. CASE lines[n] = "text"
    <3> DEFINE g == FlushList(h)
               r == [g EXCEPT !.para = Append(@, n)]
    <3>1. HtmlLine(h, lines[n], n) = r
      BY <1>6, <2>4 DEF HtmlLine
    <3>2. Rendered(lines, g, n - 1) /\ g.list = FALSE /\ g.code = FALSE
      BY <1>1, <1>6, ListFlushed
    <3> HIDE DEF g
    <3> DEFINE q == Len(g.para)
    <3>3. g \in HtmlState /\ g.para \in Seq(Nat) /\ q \in Nat
      BY <3>2, LenProperties DEF Rendered, HtmlState
    <3>4. /\ Append(g.para, n) \in Seq(Nat) /\ Len(Append(g.para, n)) = q + 1
          /\ \A j \in 1 .. q : Append(g.para, n)[j] = g.para[j]
          /\ Append(g.para, n)[q + 1] = n
      BY <1>1, <3>3, AppendProperties
    <3>5. /\ r \in HtmlState /\ r.para = Append(g.para, n) /\ r.parts = g.parts
          /\ r.list = FALSE /\ r.code = FALSE
      BY <3>2, <3>3, <3>4 DEF HtmlState
    <3>6. /\ q <= n - 1
          /\ \A j \in 1 .. q : g.para[j] = ((n - 1) - q) + j
          /\ \A i \in ((n - 1) - q) + 1 .. n - 1 : lines[i] = "text" /\ ~InCode(lines, i)
          /\ Core(lines, g.parts, FALSE, FALSE, (n - 1) - q)
      BY <3>2 DEF Rendered, InPara
    <3> HIDE DEF q, r
    <3>7. n - (q + 1) = (n - 1) - q
      BY <1>1, <3>3
    <3>8. InPara(lines, r.para, n)
      <4>1. Len(r.para) = q + 1 /\ q + 1 <= n
        BY <1>1, <3>3, <3>4, <3>5, <3>6
      <4>2. ASSUME NEW j \in 1 .. q + 1 PROVE r.para[j] = (n - (q + 1)) + j
        <5>1. CASE j = q + 1
          <6>1. (n - (q + 1)) + (q + 1) = n
            BY <1>1, <3>3
          <6>. QED  BY <3>4, <3>5, <5>1, <6>1
        <5>2. CASE j # q + 1
          <6>1. j \in 1 .. q
            BY <3>3, <5>2
          <6>. QED  BY <3>4, <3>5, <3>6, <3>7, <6>1
        <5>. QED  BY <5>1, <5>2
      <4>3. ASSUME NEW i \in (n - (q + 1)) + 1 .. n PROVE lines[i] = "text" /\ ~InCode(lines, i)
        <5>1. i = n \/ i \in ((n - 1) - q) + 1 .. n - 1
          BY <1>1, <3>3
        <5>. QED  BY <2>0, <2>4, <3>6, <5>1
      <4>. QED  BY <4>1, <4>2, <4>3 DEF InPara
    <3>9. Core(lines, r.parts, r.list, r.code, n - Len(r.para))
      BY <3>4, <3>5, <3>6, <3>7
    <3>10. Rendered(lines, r, n)
      BY <2>0, <3>5, <3>8, <3>9 DEF Rendered
    <3>. QED  BY <3>1, <3>10
  <2>. QED  BY <1>2, <1>6, <2>1, <2>2, <2>3, <2>4 DEF LineKind
<1>. QED  BY <1>1, <1>4, <1>5, <1>6

LEMMA NothingRendered == ASSUME NEW lines \in Seq(LineKind) PROVE Rendered(lines, NothingRead, 0)
<1> DEFINE h == NothingRead
<1>1. h.parts = << >> /\ h.para = << >> /\ h.list = FALSE /\ h.code = FALSE /\ h \in HtmlState
  BY DEF NothingRead, HtmlState
<1> HIDE DEF h
<1>2. Len(h.parts) = 0 /\ DOMAIN h.parts = {} /\ h.parts \in Seq(PartOK)
  BY <1>1
<1>3. KeepsTo(lines, h.parts, 0)
  <2>1. HeldIn(h.parts) = {}
    BY <1>2 DEF HeldIn
  <2>2. ShownFrom(lines, 0, 0) = {}
    <3>1. \A i \in Shown(lines) : i \in Nat
      BY LenProperties DEF Shown
    <3>. QED  BY <3>1 DEF ShownFrom
  <2>. QED  BY <1>2, <2>1, <2>2 DEF KeepsTo
<1>4. \A open, inner, end : Balanced(h.parts, open, inner, end, FALSE)
  <2>. SUFFICES ASSUME NEW open, NEW inner, NEW end PROVE Balanced(h.parts, open, inner, end, FALSE)
    OBVIOUS
  <2>1. {j \in 1 .. 0 : h.parts[j].tag = open} = {} /\ {j \in 1 .. 0 : h.parts[j].tag = end} = {}
    OBVIOUS
  <2>2. Opened(h.parts, 0, open, end) = 0
    BY <2>1, FS_EmptySet DEF Opened
  <2>. QED  BY <1>2, <2>2 DEF Balanced
<1>5. Core(lines, h.parts, h.list, h.code, 0)
  BY <1>1, <1>2, <1>3, <1>4 DEF Core
<1>6. 0 \in 0 .. Len(lines)
  BY LenProperties
<1>7. ~InCode(lines, 0)
  BY InCodeAtFences
<1>8. Rendered(lines, h, 0)
  BY <1>1, <1>5, <1>6, <1>7, NoParaRendered
<1>. QED  BY <1>8 DEF h

\* What is rendered to the end keeps the lines and nests.
LEMMA EndRendered ==
  ASSUME NEW lines \in Seq(LineKind), NEW h, Rendered(lines, h, Len(lines))
  PROVE  LET parts == FlushList(FlushPara(h)).parts
         IN PartsKeep(lines, parts) /\ PartsNest(lines, parts)
<1> DEFINE f == FlushPara(h)
           e == FlushList(f)
           p == e.parts
           N == Len(lines)
<1>1. N \in Nat /\ N \in 0 .. N /\ DOMAIN lines = 1 .. N
  BY LenProperties
<1>2. Rendered(lines, e, N) /\ e.para = << >> /\ e.list = FALSE
  <2>1. Rendered(lines, f, N) /\ f.para = << >>
    BY <1>1, ParaFlushed
  <2> HIDE DEF f
  <2>. QED  BY <1>1, <2>1, ListFlushed
<1> HIDE DEF e
<1>3. Core(lines, p, FALSE, e.code, N) /\ (e.code <=> InCode(lines, N)) /\ e.code \in BOOLEAN
  <2>1. e \in HtmlState
    BY <1>2 DEF Rendered
  <2>2. Core(lines, e.parts, e.list, e.code, N) /\ (e.code <=> InCode(lines, N))
    BY <1>1, <1>2, <2>1, NoParaRendered
  <2>. QED  BY <1>2, <2>1, <2>2 DEF HtmlState
<1> HIDE DEF p
<1>4. /\ p \in Seq(PartOK) /\ KeepsTo(lines, p, N)
      /\ Balanced(p, "ul", "li", "/ul", FALSE) /\ Balanced(p, "pre", "raw", "/pre", e.code)
  BY <1>3 DEF Core
<1>5. PartsKeep(lines, p)
  <2>1. ShownFrom(lines, 0, N) = Shown(lines)
    <3>1. \A i \in Shown(lines) : i \in Nat /\ 0 < i /\ i <= N
      BY <1>1 DEF Shown
    <3>. QED  BY <3>1 DEF ShownFrom
  <2>2. Shown(lines) = UNION {Holds(p[k]) : k \in DOMAIN p}
    BY <1>4, <2>1 DEF KeepsTo, HeldIn
  <2>3. \A k \in DOMAIN p : InKind(lines, p[k]) /\ Consecutive(p[k]) /\ InOrder(p, k)
    BY <1>4 DEF KeepsTo
  <2>. QED  BY <2>2, <2>3 DEF PartsKeep, InKind, Consecutive, InOrder
<1>6. PartsNest(lines, p)
  <2> DEFINE n == Len(p)
  <2>1. n \in Nat
    BY <1>4, LenProperties
  <2>2. \A k \in 1 .. n :
          /\ Opened(p, k, "ul", "/ul") = IF p[k].tag \in {"ul", "li"} THEN 1 ELSE 0
          /\ Opened(p, k, "pre", "/pre") = IF p[k].tag \in {"pre", "raw"} THEN 1 ELSE 0
    BY <1>4 DEF Balanced
  <2>3. Opened(p, n, "ul", "/ul") = 0 /\ Opened(p, n, "pre", "/pre") = IF e.code THEN 1 ELSE 0
    BY <1>4 DEF Balanced
  <2>4. n > 0 => /\ p[n].tag \notin {"ul", "li"}
                 /\ p[n].tag \in {"pre", "raw"} <=> InCode(lines, N)
    <3>1. n > 0 => n \in 1 .. n
      BY <2>1
    <3>. QED  BY <1>3, <2>2, <2>3, <3>1
  <2>. QED  BY <2>2, <2>4 DEF PartsNest
<1>. QED  BY <1>5, <1>6 DEF p, e

\* The parts the adapter writes keep the lines of a Markdown text.
LEMMA PartsAreKept ==
  ASSUME NEW lines \in Seq(LineKind)
  PROVE  PartsKeep(lines, Html(lines)) /\ PartsNest(lines, Html(lines))
<1> DEFINE N == Len(lines)
           F == [i \in 1 .. N |-> [h \in HtmlState |-> HtmlLine(h, lines[i], i)]]
           After(f) == f = [n \in 0 .. N |-> IF n = 0 THEN NothingRead ELSE HtmlLine(f[n - 1], lines[n], n)]
           g == CHOOSE f : After(f)
<1>1. N \in Nat
  BY LenProperties
<1>l. \A n \in 1 .. N : \A h : Rendered(lines, h, n - 1) => Rendered(lines, HtmlLine(h, lines[n], n), n)
  BY LineRendered
<1> HIDE DEF N
<1>2. PICK f : GoesThrough(F, NothingRead, f, N)
  BY <1>1, SomeGoesThrough
<1>3. ASSUME NEW i \in 0 .. N PROVE f[i] = IF i = 0 THEN NothingRead ELSE F[i][f[i - 1]]
  BY <1>2 DEF GoesThrough, LineStep
<1> DEFINE B == {i \in 0 .. N : Rendered(lines, f[i], i)}
<1>4. 0 \in B
  <2>1. 0 \in 0 .. N
    BY <1>1
  <2>2. f[0] = NothingRead
    BY <1>3, <2>1
  <2>. QED  BY <2>1, <2>2, NothingRendered
<1>5. ASSUME NEW i \in 1 .. N, i - 1 \in B PROVE i \in B /\ f[i] = HtmlLine(f[i - 1], lines[i], i)
  <2>1. Rendered(lines, f[i - 1], i - 1) /\ i # 0 /\ i \in 0 .. N
    BY <1>1, <1>5
  <2>2. f[i - 1] \in HtmlState
    BY <2>1 DEF Rendered
  <2>3. f[i] = HtmlLine(f[i - 1], lines[i], i)
    BY <1>3, <2>1, <2>2
  <2>4. Rendered(lines, HtmlLine(f[i - 1], lines[i], i), i)
    BY <1>l, <2>1
  <2>. QED  BY <2>1, <2>3, <2>4
<1>6. \A i \in 0 .. N : i \in B
  <2> HIDE DEF B
  <2>. QED  BY <1>1, <1>4, <1>5, LineByLine
<1>7. ASSUME NEW i \in 0 .. N PROVE f[i] = IF i = 0 THEN NothingRead ELSE HtmlLine(f[i - 1], lines[i], i)
  <2>1. CASE i = 0
    BY <1>3, <2>1
  <2>2. CASE i # 0
    <3>1. i \in 1 .. N /\ i - 1 \in 0 .. N
      BY <1>1, <2>2
    <3> HIDE DEF B
    <3>. QED  BY <1>5, <1>6, <2>2, <3>1
  <2>. QED  BY <2>1, <2>2
<1>8. f = [i \in 0 .. N |-> f[i]]
  BY <1>2 DEF GoesThrough
<1> HIDE DEF F, B
<1>9. After(f)
  BY <1>7, <1>8
<1> HIDE DEF After
<1>10. After(g)
  BY <1>9, Zenon
<1>11. Html(lines) = FlushList(FlushPara(g[N])).parts
  BY DEF Html, After, g, N
<1> HIDE DEF g
<1>12. \A i \in 0 .. N : g[i] = IF i = 0 THEN NothingRead ELSE HtmlLine(g[i - 1], lines[i], i)
  BY <1>10 DEF After
<1> DEFINE C == {i \in 0 .. N : Rendered(lines, g[i], i)}
<1>13. 0 \in C
  <2>1. 0 \in 0 .. N
    BY <1>1
  <2>2. g[0] = NothingRead
    BY <1>12, <2>1
  <2>. QED  BY <2>1, <2>2, NothingRendered
<1>14. ASSUME NEW i \in 1 .. N, i - 1 \in C PROVE i \in C
  <2>1. Rendered(lines, g[i - 1], i - 1) /\ i # 0 /\ i \in 0 .. N
    BY <1>1, <1>14
  <2>2. g[i] = HtmlLine(g[i - 1], lines[i], i)
    BY <1>12, <2>1
  <2>3. Rendered(lines, HtmlLine(g[i - 1], lines[i], i), i)
    BY <1>l, <2>1
  <2>. QED  BY <2>1, <2>2, <2>3
<1>15. N \in C
  <2>1. N \in 0 .. N
    BY <1>1
  <2> HIDE DEF C
  <2>2. \A i \in 0 .. N : i \in C
    BY <1>1, <1>13, <1>14, LineByLine
  <2>. QED  BY <2>1, <2>2
<1>16. Rendered(lines, g[N], Len(lines))
  BY <1>15 DEF N
<1>. QED  BY <1>11, <1>16, EndRendered

-----------------------------------------------------------------------------
(***************************************************************************)
(* What becomes a template.                                                *)
(***************************************************************************)

Whole(f, out) ==
  /\ out.body # << >> /\ out.endpoint = "html" => PartsKeep(f.lines, out.body) /\ PartsNest(f.lines, out.body)
  /\ out.body # << >> /\ out.endpoint = "pdf" => PagesKeep(f.lines, out.body)
AsNamed(f, out) == f.content \notin {"plain", "zip"} => out.format = out.endpoint

LEMMA ConvertedWhole ==
  ASSUME NEW f \in File, Detected(f) # "unknown", NEW out \in Converted(f, Detected(f))
  PROVE  Whole(f, out) /\ (out.format # "missing" => AsNamed(f, out))
<1> DEFINE fmt == Detected(f)
<1>1. /\ f \in [content : Magic, ext : Format \cup {""}, lines : Seq(LineKind)]
      /\ f.ext = "txt" => f.lines # << >>
  BY FilesAreFiles, TextHasALine
<1>2. /\ f.content \in Magic /\ f.ext \in Format \cup {""} /\ f.lines \in Seq(LineKind)
  BY <1>1
<1>3. /\ fmt \in Format
      /\ f.content \notin {"plain", "zip"} => fmt = f.content
      /\ fmt \in {"md", "txt"} => f.content = "plain" /\ f.ext = fmt
  BY <1>2 DEF Detected, Sniffed, Magic, Format
<1> HIDE DEF fmt
<1>4. out \in Converted(f, fmt)
  BY DEF fmt
<1>5. CASE fmt \in Passthrough
  <2>1. out = [endpoint |-> fmt, format |-> f.content, body |-> << >>]
    BY <1>4, <1>5 DEF Converted, Copy, Passthrough
  <2>. QED  BY <1>3, <2>1 DEF Whole, AsNamed
<1>6. CASE fmt \in {"doc", "rtf", "odt"}
  <2>1. out \in LibreOffice
    BY <1>4, <1>6 DEF Converted, Passthrough
  <2>2. out.body = << >> /\ out.endpoint = "docx" /\ out.format \in {"docx", "missing"}
    BY <2>1 DEF LibreOffice, Made
  <2>. QED  BY <2>2 DEF Whole, AsNamed
<1>7. CASE fmt \in {"png", "jpg"}
  <2>1. out \in Image(f)
    BY <1>4, <1>7 DEF Converted, Passthrough
  <2>2. out.body = << >> /\ out.endpoint = "pdf" /\ out.format = "pdf"
    BY <2>1 DEF Image, Made
  <2>. QED  BY <2>2 DEF Whole, AsNamed
<1>8. CASE fmt = "md"
  <2>1. out \in Markdown(f)
    BY <1>4, <1>8 DEF Converted, Passthrough
  <2>2. out.endpoint = "html" /\ out.format = "html" /\ (out.body = << >> \/ out.body = Html(f.lines))
    BY <2>1 DEF Markdown, Made
  <2>3. PartsKeep(f.lines, Html(f.lines)) /\ PartsNest(f.lines, Html(f.lines))
    BY <1>2, PartsAreKept
  <2>. QED  BY <2>2, <2>3 DEF Whole, AsNamed
<1>9. CASE fmt = "txt"
  <2>1. out \in PlainText(f)
    BY <1>4, <1>9 DEF Converted, Passthrough
  <2>2. out.endpoint = "pdf" /\ out.format = "pdf" /\ (out.body = << >> \/ out.body = Pages(f.lines))
    BY <2>1 DEF PlainText, Made
  <2>3. PagesKeep(f.lines, Pages(f.lines))
    BY <1>1, <1>2, <1>3, <1>9, PagesAreKept
  <2>. QED  BY <2>2, <2>3 DEF Whole, AsNamed
<1>. QED  BY <1>3, <1>5, <1>6, <1>7, <1>8, <1>9 DEF Format, Passthrough

\* What is converted, and what is a template already, is the document.
DocumentInv ==
  /\ document \in File
  /\ stage = "adapting" => Detected(document) # "unknown"
  /\ stage = "uploading" => /\ Whole(document, output)
                            /\ output.format # "missing" => AsNamed(document, output)
  /\ \A t \in templates : Whole(document, t.made) /\ AsNamed(document, t.made)

LEMMA NextDocument == DocumentInv /\ [UploadNext]_uploadVars => DocumentInv'
<1>. SUFFICES ASSUME DocumentInv, [UploadNext]_uploadVars PROVE DocumentInv'
  OBVIOUS
<1>0. /\ document \in File
      /\ \A t \in templates : Whole(document, t.made) /\ AsNamed(document, t.made)
  BY DEF DocumentInv
<1>1. CASE Start
  BY <1>0, <1>1 DEF Start, DocumentInv, Active
<1>2. CASE Adapt
  <2>1. Detected(document) # "unknown" /\ UNCHANGED <<document, templates>>
    BY <1>2 DEF Adapt, DocumentInv
  <2>2. CASE output' \in Converted(document, Detected(document)) /\ stage' = "uploading"
    <3>1. Whole(document, output') /\ (output'.format # "missing" => AsNamed(document, output'))
      BY <1>0, <2>1, <2>2, ConvertedWhole
    <3>. QED  BY <1>0, <2>1, <2>2, <3>1 DEF DocumentInv
  <2>3. CASE stage' = "idle"
    BY <1>0, <2>1, <2>3 DEF DocumentInv
  <2>. QED  BY <1>2, <2>2, <2>3 DEF Adapt, End
<1>3. CASE MakeTemplate
  <2> DEFINE made == [call |-> call, made |-> output]
  <2>1. /\ stage = "uploading" /\ stage' \in {"submitting", "failing"} /\ document' = document
        /\ \/ templates' = templates
           \/ templates' = templates \cup {made} /\ output.format # "missing"
    BY <1>3 DEF MakeTemplate
  <2>2. made.made = output
    OBVIOUS
  <2> HIDE DEF made
  <2>3. \A t \in templates' : Whole(document, t.made) /\ AsNamed(document, t.made)
    BY <1>0, <2>1, <2>2 DEF DocumentInv
  <2>. QED  BY <1>0, <2>1, <2>3 DEF DocumentInv
<1>4. CASE MakeSubmission
  BY <1>0, <1>4 DEF MakeSubmission, DocumentInv
<1>5. CASE Leave \/ TimeOut
  BY <1>0, <1>5 DEF Leave, TimeOut, End, DocumentInv
<1>6. CASE UNCHANGED uploadVars
  BY <1>6 DEF uploadVars, DocumentInv
<1>. QED  BY <1>1, <1>2, <1>3, <1>4, <1>5, <1>6 DEF UploadNext

\* DocuSeal makes its templates from the document: in the format of the endpoint, and
\* where the adapter itself converts a text, however long, with all lines in order and
\* blocks that nest.
THEOREM WholeDocumentSent == UploadSpec => []UploadIsDocument
<1>1. UploadInit => DocumentInv
  BY DEF UploadInit, DocumentInv
<1>2. DocumentInv => UploadIsDocument
  BY DEF DocumentInv, Whole, AsNamed, UploadIsDocument
<1>. QED  BY <1>1, <1>2, NextDocument, PTL DEF UploadSpec

=============================================================================
