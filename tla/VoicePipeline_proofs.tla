------------------------ MODULE VoicePipeline_proofs ------------------------
(***************************************************************************)
(* Theorems about VoicePipeline, for any entities, texts, settings and     *)
(* bounds: types, what the shield lets through and gives back, what the    *)
(* detector keeps, and what the user is told.                              *)
(***************************************************************************)
EXTENDS VoicePipeline, FiniteSetTheorems, SequenceTheorems, WellFoundedInduction, TLAPS

-----------------------------------------------------------------------------
(* The PII session. *)

LEMMA KindOfType == ASSUME NEW e \in Entity PROVE KindOf(e) \in Kind
  BY RegexIsGroups DEF KindOf, Kind

\* A registered entity gets a placeholder with a positive number.
LEMMA RegisterType ==
  ASSUME NEW s \in Session, NEW S \in SUBSET Entity, NEW order \in Orders(S)
  PROVE  /\ Register(s, S, order) \in Session
         /\ \A e \in S : Register(s, S, order)[e] \in Placeholder
         /\ \A e \in Entity \ S : Register(s, S, order)[e] = s[e]
<1> DEFINE Before(e) == {f \in S : KindOf(f) = KindOf(e) /\ order[f] <= order[e]}
           Number(e) == Counter(s, KindOf(e)) + Cardinality(Before(e))
<1>1. ASSUME NEW e \in S PROVE [kind |-> KindOf(e), index |-> Number(e)] \in Placeholder
  <2>1. Counter(s, KindOf(e)) \in Nat
    BY EntityIsFinite, FS_Subset, FS_CardinalityType DEF Counter
  <2>2. IsFiniteSet(S)
    BY EntityIsFinite, FS_Subset
  <2>3. order[e] \in 1 .. Cardinality(S) /\ Cardinality(S) \in Nat
    BY <2>2, FS_CardinalityType DEF Orders
  <2>4. e \in Before(e)
    BY <2>3
  <2>5. IsFiniteSet(Before(e))
    BY <2>2, FS_Subset
  <2>6. Cardinality(Before(e)) \in Nat /\ Cardinality(Before(e)) # 0
    BY <2>4, <2>5, FS_CardinalityType, FS_EmptySet
  <2>7. Number(e) \in Nat \ {0}
    BY <2>1, <2>6
  <2>. HIDE DEF Number
  <2>. QED  BY <2>7, KindOfType DEF Placeholder
<1>2. Register(s, S, order) =
        [e \in Entity |-> IF e \in S THEN [kind |-> KindOf(e), index |-> Number(e)] ELSE s[e]]
  BY DEF Register
<1>. HIDE DEF Number
<1>. QED  BY <1>1, <1>2 DEF Session

LEMMA PlaceholderKnown == \A p \in Placeholder : p # Unknown
<1>1. \A p \in Placeholder : p.kind # ""
  BY DEF Placeholder, Kind
<1>2. Unknown.kind = ""
  BY DEF Unknown
<1>. QED  BY <1>1, <1>2

\* A scan leaves what it has found with placeholders, and the others as they were.
LEMMA RegisteredType ==
  ASSUME NEW s \in Session, NEW F \in SUBSET Entity, NEW r \in Registered(s, F)
  PROVE  /\ r \in Session
         /\ \A e \in F : r[e] # Unknown
<1> DEFINE new == {e \in F : s[e] = Unknown}
<1>1. PICK order \in Orders(new) : r = Register(s, new, order)
  BY DEF Registered
<1>2. /\ r \in Session
      /\ \A e \in new : r[e] \in Placeholder
      /\ \A e \in Entity \ new : r[e] = s[e]
  <2>1. new \in SUBSET Entity  OBVIOUS
  <2>. HIDE DEF new
  <2>. QED  BY <1>1, <2>1, RegisterType
<1>3. ASSUME NEW e \in F PROVE r[e] # Unknown
  <2>1. CASE e \in new
    BY <1>2, <2>1, PlaceholderKnown
  <2>2. CASE e \notin new
    BY <1>2, <2>2
  <2>. QED  BY <2>1, <2>2
<1>. QED  BY <1>2, <1>3

\* What goes out after a scan: nothing it has found in clear, and, if it has found
\* anything, nothing the session knows.
LEMMA AnonymisedType ==
  ASSUME NEW s \in Session, NEW T \in SUBSET Entity, NEW F \in SUBSET T,
         \A e \in F : s[e] # Unknown
  PROVE  /\ Anonymised(s, T, F).clear \subseteq T
         /\ Anonymised(s, T, F).hidden \subseteq Placeholder
         /\ Anonymised(s, T, F).clear \cap F = {}
         /\ F # {} => \A e \in Anonymised(s, T, F).clear : s[e] = Unknown
<1>1. CASE F = {}
  BY <1>1 DEF Anonymised
<1>2. CASE F # {}
  <2>1. Anonymised(s, T, F).clear = {e \in T : s[e] = Unknown}
    BY <1>2 DEF Anonymised
  <2>2. Anonymised(s, T, F).hidden = {s[e] : e \in {f \in T : s[f] # Unknown}}
    BY <1>2 DEF Anonymised
  <2>3. Anonymised(s, T, F).hidden \subseteq Placeholder
    BY <2>2 DEF Session
  <2>. QED  BY <2>1, <2>3
<1>. QED  BY <1>1, <1>2

LEMMA DeanonymisedType ==
  ASSUME NEW s, NEW N \in SUBSET Entity, NEW H
  PROVE  Deanonymised(s, N, H) \subseteq Entity
  BY DEF Deanonymised

\* What the scan of a text finds is in the text.
LEMMA FoundType ==
  ASSUME NEW T \in SUBSET Entity, NEW R
  PROVE  Hits(T) \cup Spans(T, R) \in SUBSET T
  BY DEF Hits, Spans

-----------------------------------------------------------------------------
(* Types. *)

LEMMA InitType == Init => TypeOK
<1>. SUFFICES ASSUME Init PROVE TypeOK  OBVIOUS
<1>1. ControlOK
  BY BoundsAreNumbers DEF Init, ControlOK, Result, PcValue
<1>2. AudioOK
  <2>1. <<>> \in Seq(Nat)
    BY EmptySeq
  <2>2. 0 \in 0 .. MaxFrames
    BY BoundsAreNumbers
  <2>. QED  BY <2>1, <2>2 DEF Init, AudioOK
<1>3. RequestOK
  BY DEF Init, RequestOK, NewSession, Session, NoText, Intent, NotScanned
<1>4. RecordOK
  BY DEF Init, RecordOK, Result
<1>. QED  BY <1>1, <1>2, <1>3, <1>4 DEF TypeOK

LEMMA EndTurnType ==
  ASSUME EndTurn, TypeOK, stream' \in BOOLEAN, session' \in Session
  PROVE  AudioOK' /\ RequestOK' /\ result' \in Result
<1>1. AudioOK'
  BY BoundsAreNumbers, EmptySeq DEF EndTurn, AudioOK
<1>2. RequestOK'
  BY DEF EndTurn, RequestOK, NoText, Intent, NotScanned
<1>3. result' \in Result
  BY DEF EndTurn, Result
<1>. QED  BY <1>1, <1>2, <1>3

\* A turn that is under way has a number.
TurnStarted == pc \notin Down \cup {"prompt"} => turn \in Turn

LEMMA SendType ==
  ASSUME RequestOK, NEW to \in {"extract", "clarify"}, NEW m, m.clear \subseteq Entity, m.hidden \subseteq Placeholder, Send(to, m)
  PROVE  sent' \subseteq Message
  BY DEF Send, RequestOK, Message

\* Scanning leaves a session, what was found, and a message.
LEMMA ScanType ==
  ASSUME RequestOK, NEW reply \in SUBSET Entity,
         found' = [done |-> TRUE, names |-> Hits(text.names) \cup Spans(text.names, reply)],
         session' \in Registered(session, found'.names)
  PROVE  /\ found' \in [done : BOOLEAN, names : SUBSET Entity]
         /\ session' \in Session
         /\ LET m == Anonymised(session', text.names, found'.names)
            IN /\ m.clear \subseteq Entity /\ m.hidden \subseteq Placeholder
               /\ m.clear \cap found'.names = {}
               /\ found'.names # {} => \A e \in m.clear : session'[e] = Unknown
<1>1. text.names \in SUBSET Entity /\ session \in Session
  BY DEF RequestOK
<1>2. found'.names \in SUBSET text.names
  BY <1>1, FoundType
<1>3. session' \in Session /\ \A e \in found'.names : session'[e] # Unknown
  BY <1>1, <1>2, RegisteredType
<1> DEFINE F == found'.names
           r == session'
<1>4. /\ Anonymised(session', text.names, found'.names).clear \subseteq text.names
      /\ Anonymised(session', text.names, found'.names).hidden \subseteq Placeholder
      /\ Anonymised(session', text.names, found'.names).clear \cap found'.names = {}
      /\ found'.names # {} => \A e \in Anonymised(session', text.names, found'.names).clear : session'[e] = Unknown
  <2>1. r \in Session /\ F \in SUBSET text.names /\ \A e \in F : r[e] # Unknown
    BY <1>2, <1>3
  <2>2. /\ Anonymised(r, text.names, F).clear \subseteq text.names
        /\ Anonymised(r, text.names, F).hidden \subseteq Placeholder
        /\ Anonymised(r, text.names, F).clear \cap F = {}
        /\ F # {} => \A e \in Anonymised(r, text.names, F).clear : r[e] = Unknown
    <3>. HIDE DEF F, r
    <3>. QED  BY <1>1, <2>1, AnonymisedType
  <2>. QED  BY <2>2
<1>. QED  BY <1>1, <1>2, <1>3, <1>4

LEMMA NextType == TypeOK /\ TurnStarted /\ [Next]_vars => TypeOK' /\ TurnStarted'
<1>. SUFFICES ASSUME TypeOK, TurnStarted, [Next]_vars PROVE TypeOK' /\ TurnStarted'  OBVIOUS
<1>. ControlOK /\ AudioOK /\ RequestOK /\ RecordOK
  BY DEF TypeOK
<1>a. UNCHANGED audio => AudioOK'
  BY DEF audio, AudioOK
<1>b. UNCHANGED request => RequestOK'
  BY DEF request, RequestOK
<1>c. UNCHANGED record => RecordOK'
  BY DEF record, RecordOK
<1>d. AudioOK' /\ RequestOK' /\ RecordOK' /\ ControlOK' => TypeOK'
  BY DEF TypeOK
<1>e. Die /\ pc \notin Down \cup {"prompt"} => died' \subseteq Turn
  BY DEF Die, ControlOK, TurnStarted
<1>f. NewTurn => turn' \in Turn /\ turn' \in 0 .. MaxTurns
  BY BoundsAreNumbers DEF NewTurn, ControlOK, Turn
<1>1. CASE Line
  <2>1. ControlOK' /\ TurnStarted'
    BY <1>1, <1>f DEF Line, ControlOK, TurnStarted, Goto, PcValue, Down
  <2>2. RequestOK'
    BY <1>1, TextIsTexts DEF Line, RequestOK
  <2>. QED  BY <1>1, <1>a, <1>c, <1>d, <2>1, <2>2 DEF Line
<1>2. CASE Record
  <2>1. turn' \in Turn /\ turn' \in 0 .. MaxTurns
    BY <1>2, <1>f DEF Record
  <2>2. ControlOK' /\ TurnStarted'
    BY <1>2, <2>1 DEF Record, ControlOK, TurnStarted, Goto, PcValue, Down
  <2>3. AudioOK'
    BY <1>2 DEF Record, AudioOK
  <2>. QED  BY <1>2, <1>b, <1>c, <1>d, <2>2, <2>3 DEF Record
<1>3. CASE Callback
  <2>1. AudioOK'
    BY <1>3, BoundsAreNumbers DEF Callback, AudioOK
  <2>. QED  BY <1>3, <1>b, <1>c, <1>d, <2>1 DEF Callback, ControlOK, TurnStarted
<1>4. CASE Stop
  <2>1. died' \subseteq Turn
    BY <1>4, <1>e DEF Stop, ControlOK, Down
  <2>2. ControlOK' /\ TurnStarted'
    BY <1>4, <2>1 DEF Stop, Fail, Die, Goto, ControlOK, TurnStarted, PcValue, Down, Result
  <2>3. AudioOK'
    BY <1>4 DEF Stop, AudioOK
  <2>. QED  BY <1>4, <1>b, <1>c, <1>d, <2>2, <2>3 DEF Stop
<1>5. CASE Frame
  <2>1. Append(current, at) \in Seq(Nat)
    BY AppendProperties DEF AudioOK
  <2>2. speech \o Append(current, at) \in Seq(Nat)
    BY <2>1, ConcatProperties DEF AudioOK
  <2>3. current' \in Seq(Nat) /\ speech' \in Seq(Nat)
    BY <1>5, <2>1, <2>2, EmptySeq DEF Frame, AudioOK
  <2>4. at' \in Nat /\ silence' \in Nat /\ voiced' \subseteq Nat
    <3>1. at' \in Nat
      BY <1>5 DEF Frame, AudioOK
    <3>2. silence' \in Nat
      BY <1>5 DEF Frame, AudioOK
    <3>3. voiced' = voiced \/ voiced' = voiced \cup {at}
      BY <1>5 DEF Frame
    <3>. QED  BY <3>1, <3>2, <3>3 DEF AudioOK
  <2>5. stream' \in BOOLEAN /\ frames' \in 0 .. MaxFrames
    BY <1>5 DEF Frame, AudioOK
  <2>6. AudioOK'
    BY <2>3, <2>4, <2>5 DEF AudioOK
  <2>. QED  BY <1>5, <1>b, <1>c, <1>d, <2>6 DEF Frame, ControlOK, TurnStarted
<1>6. CASE Segmented
  <2>1. AudioOK'
    BY <1>6, ConcatProperties, EmptySeq DEF Segmented, Flush, AudioOK
  <2>2. ControlOK' /\ TurnStarted'
    BY <1>6 DEF Segmented, Fail, Goto, ControlOK, TurnStarted, PcValue, Down, Result
  <2>. QED  BY <1>6, <1>b, <1>c, <1>d, <2>1, <2>2 DEF Segmented
<1>7. CASE Transcribe
  <2>1. AudioOK'
    BY <1>7, EmptySeq, BoundsAreNumbers DEF Transcribe, AudioOK
  <2>2. RequestOK'
    BY <1>7, TextIsTexts DEF Transcribe, RequestOK
  <2>3. died' \subseteq Turn
    BY <1>7, <1>e DEF Transcribe, ControlOK, Down
  <2>4. ControlOK' /\ TurnStarted'
    BY <1>7, <2>3 DEF Transcribe, Fail, Die, Goto, ControlOK, TurnStarted, PcValue, Down, Result
  <2>. QED  BY <1>7, <1>c, <1>d, <2>1, <2>2, <2>4 DEF Transcribe
<1>8. CASE Scan
  <2>1. sent' \subseteq Message /\ session' \in Session /\ found' \in [done : BOOLEAN, names : SUBSET Entity]
    <3>1. CASE UNCHANGED <<session, found, sent>>
      BY <3>1 DEF RequestOK
    <3>2. CASE Send("extract", [clear |-> text.names, hidden |-> {}]) /\ UNCHANGED <<session, found>>
      BY <3>2, SendType DEF RequestOK
    <3>3. ASSUME NEW reply \in SUBSET Entity,
                 found' = [done |-> TRUE, names |-> Hits(text.names) \cup Spans(text.names, reply)],
                 session' \in Registered(session, found'.names),
                 Send("extract", Anonymised(session', text.names, found'.names))
          PROVE  sent' \subseteq Message /\ session' \in Session /\ found' \in [done : BOOLEAN, names : SUBSET Entity]
      BY <3>3, ScanType, SendType
    <3>. QED  BY <1>8, <3>1, <3>2, <3>3 DEF Scan
  <2>2. RequestOK'
    BY <1>8, <2>1 DEF Scan, RequestOK
  <2>3. died' \subseteq Turn
    BY <1>8, <1>e DEF Scan, ControlOK, Down
  <2>4. ControlOK' /\ TurnStarted'
    BY <1>8, <2>3 DEF Scan, Die, Goto, ControlOK, TurnStarted, PcValue, Down
  <2>. QED  BY <1>8, <1>a, <1>c, <1>d, <2>2, <2>4 DEF Scan
<1>9. CASE Chat
  <2>1. RequestOK'
    <3>1. entry' \subseteq Entity
      BY <1>9, DeanonymisedType DEF Chat, RequestOK, Message
    <3>. QED  BY <1>9, <3>1 DEF Chat, RequestOK
  <2>2. died' \subseteq Turn
    BY <1>9, <1>e DEF Chat, ControlOK, Down
  <2>3. ControlOK' /\ TurnStarted'
    BY <1>9, <2>2 DEF Chat, Fail, Die, Goto, ControlOK, TurnStarted, PcValue, Down, Result
  <2>. QED  BY <1>9, <1>a, <1>c, <1>d, <2>1, <2>3 DEF Chat
<1>10. CASE Clarify
  <2>1. sent' \subseteq Message
    <3>. DEFINE out == [clear |-> IF text.intent = "time_entry" THEN text.names \cup entry ELSE entry, hidden |-> {}]
    <3>1. out.clear \subseteq Entity /\ out.hidden \subseteq Placeholder
      BY DEF RequestOK
    <3>2. Send("clarify", out)
      BY <1>10 DEF Clarify
    <3>. HIDE DEF out
    <3>. QED  BY <3>1, <3>2, SendType
  <2>2. RequestOK'
    BY <1>10, <2>1 DEF Clarify, RequestOK
  <2>3. died' \subseteq Turn
    BY <1>10, <1>e DEF Clarify, ControlOK, Down
  <2>4. ControlOK' /\ TurnStarted'
    BY <1>10, <2>3 DEF Clarify, Die, Goto, ControlOK, TurnStarted, PcValue, Down, Result
  <2>. QED  BY <1>10, <1>a, <1>c, <1>d, <2>2, <2>4 DEF Clarify
<1>11. CASE Store
  <2>1. turn \in Turn
    BY <1>11 DEF Store, TurnStarted, Down
  <2>2. [turn |-> turn, names |-> entry, said |-> text.names] \in Row
    BY <2>1 DEF Row, RequestOK
  <2>3. RecordOK'
    BY <1>11, <2>2 DEF Store, RecordOK
  <2>4. died' \subseteq Turn
    BY <1>11, <1>e DEF Store, ControlOK, Down
  <2>5. ControlOK' /\ TurnStarted'
    BY <1>11, <2>4 DEF Store, Die, Goto, ControlOK, TurnStarted, PcValue, Down, Result
  <2>. QED  BY <1>11, <1>a, <1>b, <1>d, <2>3, <2>5 DEF Store
<1>12. CASE Confirm
  <2>1. turn \in Turn
    BY <1>12 DEF Confirm, TurnStarted, Down
  <2>2. RecordOK'
    BY <1>12, <2>1 DEF Confirm, RecordOK
  <2>3. died' \subseteq Turn
    BY <1>12, <1>e DEF Confirm, Unspoken, ControlOK, Down
  <2>4. ControlOK' /\ TurnStarted'
    BY <1>12, <2>3 DEF Confirm, Unspoken, Die, Goto, ControlOK, TurnStarted, PcValue, Down
  <2>. QED  BY <1>12, <1>a, <1>b, <1>d, <2>2, <2>4 DEF Confirm
<1>13. CASE Show
  <2>1. RecordOK'
    BY <1>13 DEF Show, RecordOK, ControlOK
  <2>2. AudioOK' /\ RequestOK' /\ result' \in Result
    <3>1. CASE EndTurn
      BY <1>13, <3>1, EndTurnType DEF Show, AudioOK, RequestOK
    <3>2. CASE UNCHANGED <<frames, at, voiced, current, silence, speech, text, found, sent, entry, result>>
      BY <1>13, <3>2 DEF Show, AudioOK, RequestOK, ControlOK
    <3>. QED  BY <1>13, <3>1, <3>2 DEF Show
  <2>3. ControlOK' /\ TurnStarted'
    BY <1>13, <2>2 DEF Show, Goto, ControlOK, TurnStarted, PcValue, Down
  <2>. QED  BY <1>d, <2>1, <2>2, <2>3
<1>14. CASE Post
  <2>1. turn \in Turn
    BY <1>14 DEF Post, TurnStarted, Down
  <2>2. RecordOK'
    BY <1>14, <2>1 DEF Post, RecordOK
  <2>3. AudioOK' /\ RequestOK' /\ result' \in Result
    BY <1>14, EndTurnType DEF Post, AudioOK, RequestOK
  <2>4. ControlOK' /\ TurnStarted'
    BY <1>14, <2>3 DEF Post, Goto, ControlOK, TurnStarted, PcValue, Down
  <2>. QED  BY <1>d, <2>2, <2>3, <2>4
<1>15. CASE Quit
  <2>1. ControlOK' /\ TurnStarted'
    BY <1>15 DEF Quit, Goto, ControlOK, TurnStarted, PcValue, Down
  <2>. QED  BY <1>15, <1>a, <1>b, <1>c, <1>d, <2>1 DEF Quit
<1>16. CASE Kill
  <2>1. ControlOK' /\ TurnStarted'
    BY <1>16, <1>e DEF Kill, Die, Goto, ControlOK, TurnStarted, PcValue, Down
  <2>. QED  BY <1>16, <1>a, <1>b, <1>c, <1>d, <2>1 DEF Kill
<1>17. CASE Launch
  <2>1. session' \in Session /\ stream' \in BOOLEAN
    BY <1>17 DEF Launch, NewSession, Session
  <2>2. AudioOK' /\ RequestOK' /\ result' \in Result
    BY <1>17, <2>1, EndTurnType DEF Launch
  <2>3. ControlOK' /\ TurnStarted'
    BY <1>17, <2>2 DEF Launch, Goto, ControlOK, TurnStarted, PcValue, Down
  <2>. QED  BY <1>17, <1>c, <1>d, <2>2, <2>3 DEF Launch
<1>18. CASE UNCHANGED vars
  BY <1>18, <1>a, <1>b, <1>c, <1>d DEF TurnStarted, vars, ControlOK
<1>. QED
  BY <1>1, <1>2, <1>3, <1>4, <1>5, <1>6, <1>7, <1>8, <1>9, <1>10, <1>11, <1>12, <1>13, <1>14, <1>15, <1>16,
     <1>17, <1>18 DEF Next

LEMMA Types == Spec => [](TypeOK /\ TurnStarted)
<1>1. Init => TypeOK /\ TurnStarted
  BY InitType DEF Init, TurnStarted
<1>. QED  BY <1>1, NextType, PTL DEF Spec

\* Every variable keeps its type.
THEOREM TypeCorrect == Spec => []TypeOK
  BY Types, PTL

-----------------------------------------------------------------------------
(* What the shield lets through. *)

\* Nothing has been sent before the scan of a turn.
NothingSent == pc \in {"prompt", "recording", "vad", "transcribe", "scan"} => sent = {}

LEMMA ShieldStep ==
  TypeOK /\ ShieldHolds /\ NothingSent /\ [Next]_vars => ShieldHolds' /\ NothingSent'
<1>. SUFFICES ASSUME TypeOK, ShieldHolds, NothingSent, [Next]_vars PROVE ShieldHolds' /\ NothingSent'  OBVIOUS
<1>a. UNCHANGED <<config, session, found, sent>> => ShieldHolds'
  BY DEF ShieldHolds
<1>b. sent' = {} => ShieldHolds' /\ NothingSent'
  BY DEF ShieldHolds, NothingSent
<1>1. CASE Line \/ Record \/ Callback \/ Stop \/ Frame \/ Segmented \/ Transcribe
  <2>1. sent = {} /\ sent' = sent
    BY <1>1 DEF Line, Record, Callback, Stop, Frame, Segmented, Transcribe, request, NothingSent
  <2>. QED  BY <1>b, <2>1
<1>2. CASE Scan
  <2>1. sent = {}
    BY <1>2 DEF Scan, NothingSent
  <2>2. pc' \in {"chat", "dead"} /\ config' = config
    BY <1>2 DEF Scan, Die, Goto
  <2>3. CASE sent' = sent
    BY <1>b, <2>1, <2>3
  <2>4. CASE ~config.shield
    BY <2>2, <2>4 DEF ShieldHolds, NothingSent
  <2>5. ASSUME NEW reply \in SUBSET Entity,
               found' = [done |-> TRUE, names |-> Hits(text.names) \cup Spans(text.names, reply)],
               session' \in Registered(session, found'.names),
               Send("extract", Anonymised(session', text.names, found'.names))
        PROVE  ShieldHolds' /\ NothingSent'
    <3>. DEFINE out == Anonymised(session', text.names, found'.names)
    <3>1. /\ out.clear \cap found'.names = {}
          /\ found'.names # {} => \A e \in out.clear : session'[e] = Unknown
      BY <2>5, ScanType DEF TypeOK
    <3>2. sent' = {[to |-> "extract", clear |-> out.clear, hidden |-> out.hidden]}
      BY <2>1, <2>5 DEF Send
    <3>3. found'.done
      BY <2>5
    <3>. HIDE DEF out
    <3>4. \A m \in sent' : m.clear = out.clear
      BY <3>2
    <3>. QED  BY <2>2, <3>1, <3>3, <3>4 DEF ShieldHolds, NothingSent
  <2>. QED  BY <1>2, <2>3, <2>4, <2>5 DEF Scan
<1>3. CASE Chat \/ Store \/ Confirm
  <2>1. UNCHANGED <<config, session, found, sent>>
    BY <1>3 DEF Chat, Store, Confirm, request
  <2>2. pc' \in {"store", "clarify", "confirm", "show", "dead"}
    BY <1>3 DEF Chat, Store, Confirm, Unspoken, Fail, Die, Goto
  <2>. QED  BY <1>a, <2>1, <2>2 DEF NothingSent
<1>4. CASE Clarify
  <2>1. UNCHANGED <<config, session, found>> /\ pc' \in {"confirm", "dead"}
    BY <1>4 DEF Clarify, Die, Goto
  <2>2. \A m \in sent' : m \in sent \/ m.to = "clarify"
    BY <1>4 DEF Clarify, Send
  <2>. QED  BY <2>1, <2>2 DEF ShieldHolds, NothingSent
<1>5. CASE Show
  <2>1. CASE EndTurn
    BY <1>b, <2>1 DEF EndTurn
  <2>2. CASE ~EndTurn
    <3>1. UNCHANGED <<config, session, found, sent>> /\ pc' = "post"
      BY <1>5, <2>2 DEF Show, Goto
    <3>. QED  BY <1>a, <3>1 DEF NothingSent
  <2>. QED  BY <2>1, <2>2
<1>6. CASE Post \/ Launch
  BY <1>6, <1>b DEF Post, Launch, EndTurn
<1>7. CASE Quit \/ Kill
  <2>1. UNCHANGED <<config, session, found, sent>> /\ pc' \in Down
    BY <1>7 DEF Quit, Kill, Die, Goto, request, Down
  <2>. QED  BY <1>a, <2>1 DEF NothingSent, Down
<1>8. CASE UNCHANGED vars
  BY <1>8, <1>a DEF vars, request, NothingSent
<1>. QED
  BY <1>1, <1>2, <1>3, <1>4, <1>5, <1>6, <1>7, <1>8 DEF Next

\* Under the shield the extractor's message goes out after the scan of its text, with
\* nothing in clear that the scan has found.
THEOREM ShieldKept == Spec => []ShieldHolds
<1>1. Init => ShieldHolds /\ NothingSent
  BY DEF Init, ShieldHolds, NothingSent
<1>2. TypeOK /\ ShieldHolds /\ NothingSent /\ [Next]_vars => ShieldHolds' /\ NothingSent'
  BY ShieldStep
<1>3. Spec => [](TypeOK /\ TurnStarted)
  BY Types
<1>. QED  BY <1>1, <1>2, <1>3, PTL DEF Spec

-----------------------------------------------------------------------------
(* What the detector keeps. *)

\* The frames kept so far are in order, hold every voiced one, begin with one, and
\* come before frame n.
Handed(kept, V, n) ==
  /\ Increasing(kept)
  /\ V \subseteq Elements(kept)
  /\ kept # <<>> => kept[1] \in V
  /\ \A i \in 1 .. Len(kept) : kept[i] < n

LEMMA HandedAppend ==
  ASSUME NEW kept \in Seq(Nat), NEW V, NEW n \in Nat, Handed(kept, V, n)
  PROVE  /\ Handed(Append(kept, n), V \cup {n}, n + 1)
         /\ kept # <<>> => Handed(Append(kept, n), V, n + 1)
<1> DEFINE more == Append(kept, n)
<1>1. /\ more \in Seq(Nat) /\ more # <<>> /\ Len(more) = Len(kept) + 1
      /\ \A i \in 1 .. Len(kept) : more[i] = kept[i]
      /\ more[Len(kept) + 1] = n
  BY AppendProperties
<1>2. Len(kept) \in Nat /\ \A i \in 1 .. Len(kept) : kept[i] \in Nat
  BY LenProperties, ElementOfSeq
<1>3. \A i \in 1 .. Len(kept) : kept[i] < n
  BY DEF Handed
<1>. HIDE DEF more
<1>4. Increasing(more)
  <2>1. SUFFICES ASSUME NEW i \in 1 .. Len(more), NEW j \in 1 .. Len(more), i < j
                 PROVE  more[i] < more[j]
    BY DEF Increasing
  <2>2. i \in 1 .. Len(kept)
    BY <1>1, <1>2, <2>1
  <2>3. CASE j = Len(kept) + 1
    BY <1>1, <1>3, <2>2, <2>3
  <2>4. CASE j \in 1 .. Len(kept)
    BY <1>1, <2>1, <2>2, <2>4 DEF Handed, Increasing
  <2>. QED  BY <1>1, <1>2, <2>3, <2>4
<1>5. Elements(kept) \cup {n} \subseteq Elements(more)
  <2>1. \A i \in 1 .. Len(kept) : kept[i] \in Elements(more)
    BY <1>1, <1>2 DEF Elements
  <2>2. n \in Elements(more)
    BY <1>1, <1>2 DEF Elements
  <2>. QED  BY <2>1, <2>2 DEF Elements
<1>6. more[1] = n \/ (kept # <<>> /\ more[1] = kept[1])
  <2>1. CASE kept = <<>>
    BY <1>1, <2>1, EmptySeq
  <2>2. CASE kept # <<>>
    <3>1. 1 \in 1 .. Len(kept)
      BY <1>2, <2>2, EmptySeq
    <3>. QED  BY <1>1, <2>2, <3>1
  <2>. QED  BY <2>1, <2>2
<1>7. kept # <<>> => more[1] = kept[1]
  <2>1. SUFFICES ASSUME kept # <<>> PROVE more[1] = kept[1]  OBVIOUS
  <2>2. 1 \in 1 .. Len(kept)
    BY <1>2, <2>1, EmptySeq
  <2>. QED  BY <1>1, <2>2
<1>8. \A i \in 1 .. Len(more) : more[i] < n + 1
  <2>1. SUFFICES ASSUME NEW i \in 1 .. Len(more) PROVE more[i] < n + 1  OBVIOUS
  <2>2. CASE i = Len(kept) + 1
    BY <1>1, <2>2
  <2>3. CASE i \in 1 .. Len(kept)
    <3>1. more[i] = kept[i] /\ kept[i] \in Nat /\ kept[i] < n
      BY <1>1, <1>2, <1>3, <2>3
    <3>. QED  BY <3>1
  <2>. QED  BY <1>1, <1>2, <2>2, <2>3
<1>9. V \subseteq Elements(kept) /\ (kept # <<>> => kept[1] \in V)
  BY DEF Handed
<1>. QED  BY <1>4, <1>5, <1>6, <1>7, <1>8, <1>9 DEF Handed, more

LEMMA HandedNothing == \A V, n : V = {} => Handed(<<>>, V, n)
<1>1. Len(<<>>) = 0
  BY EmptySeq
<1>. QED  BY <1>1 DEF Handed, Increasing, Elements

\* The same frames, as far as a later one.
LEMMA HandedOn ==
  ASSUME NEW kept \in Seq(Nat), NEW V, NEW n \in Nat, Handed(kept, V, n)
  PROVE  Handed(kept, V, n + 1)
<1>1. \A i \in 1 .. Len(kept) : kept[i] \in Nat /\ kept[i] < n
  BY ElementOfSeq DEF Handed
<1>2. \A i \in 1 .. Len(kept) : kept[i] < n + 1
  BY <1>1
<1>. QED  BY <1>2 DEF Handed

HandedSoFar == Handed(speech \o current, voiced, at)

LEMMA FrameKeeps == TypeOK /\ HandedSoFar /\ Frame => HandedSoFar'
<1>. SUFFICES ASSUME TypeOK, HandedSoFar, Frame PROVE HandedSoFar'  OBVIOUS
<1> DEFINE kept == speech \o current
<1>1. speech \in Seq(Nat) /\ current \in Seq(Nat) /\ at \in Nat /\ at' = at + 1
  BY DEF TypeOK, AudioOK, Frame
<1>2. kept \in Seq(Nat) /\ (current # <<>> => kept # <<>>)
  BY <1>1, ConcatProperties, ConcatEqualIffEmpty
<1>3. Append(current, at) \in Seq(Nat)
  BY <1>1, AppendProperties
<1>4. speech \o Append(current, at) = Append(kept, at)
  <2>1. Append(current, at) = current \o <<at>> /\ Append(kept, at) = kept \o <<at>>
    BY <1>1, <1>2, AppendIsConcat
  <2>2. <<at>> \in Seq(Nat)
    BY <1>1
  <2>. QED  BY <1>1, <2>1, <2>2, ConcatAssociative
<1>5. Handed(kept, voiced, at)
  BY DEF HandedSoFar
<1>6. \/ voiced' = voiced \cup {at} /\ speech' \o current' = Append(kept, at)
      \/ voiced' = voiced /\ speech' \o current' = kept
      \/ voiced' = voiced /\ current # <<>> /\ speech' \o current' = Append(kept, at)
  <2>1. CASE current' = Append(current, at) /\ speech' = speech
    BY <1>4, <2>1 DEF Frame
  <2>2. CASE speech' = speech /\ current' = current
    BY <2>2 DEF Frame
  <2>3. CASE speech' = speech \o Append(current, at) /\ current' = <<>> /\ current # <<>> /\ voiced' = voiced
    <3>1. speech \o Append(current, at) \in Seq(Nat)
      BY <1>1, <1>3, ConcatProperties
    <3>2. (speech \o Append(current, at)) \o <<>> = speech \o Append(current, at)
      BY <3>1, ConcatEmptySeq
    <3>. QED  BY <1>4, <2>3, <3>2
  <2>. QED  BY <2>1, <2>2, <2>3 DEF Frame
<1>. HIDE DEF kept
<1>7. CASE voiced' = voiced \cup {at} /\ speech' \o current' = Append(kept, at)
  BY <1>1, <1>2, <1>5, <1>7, HandedAppend DEF HandedSoFar
<1>8. CASE voiced' = voiced /\ speech' \o current' = kept
  BY <1>1, <1>2, <1>5, <1>8, HandedOn DEF HandedSoFar
<1>9. CASE voiced' = voiced /\ current # <<>> /\ speech' \o current' = Append(kept, at)
  BY <1>1, <1>2, <1>5, <1>9, HandedAppend DEF HandedSoFar
<1>. QED  BY <1>6, <1>7, <1>8, <1>9

LEMMA KeptStep == TypeOK /\ HandedSoFar /\ [Next]_vars => HandedSoFar'
<1>. SUFFICES ASSUME TypeOK, HandedSoFar, [Next]_vars PROVE HandedSoFar'  OBVIOUS
<1>a. UNCHANGED <<at, voiced, current, speech>> => HandedSoFar'
  BY DEF HandedSoFar
<1>b. at' = 1 /\ voiced' = {} /\ current' = <<>> /\ speech' = <<>> => HandedSoFar'
  <2>1. <<>> \o <<>> = <<>>
    BY EmptySeq, ConcatEmptySeq
  <2>. QED  BY <2>1, HandedNothing DEF HandedSoFar
<1>1. CASE Line \/ Record \/ Callback \/ Stop
  BY <1>1, <1>a DEF Line, Record, Callback, Stop, audio
<1>2. CASE Frame
  BY <1>2, FrameKeeps
<1>3. CASE Segmented
  <2>1. speech \in Seq(Nat) /\ current \in Seq(Nat)
    BY DEF TypeOK, AudioOK
  <2>2. speech \o current \in Seq(Nat)
    BY <2>1, ConcatProperties
  <2>3. (speech \o current) \o <<>> = speech \o current
    BY <2>2, ConcatEmptySeq
  <2>. QED  BY <1>3, <2>3 DEF Segmented, Flush, HandedSoFar
<1>4. CASE Transcribe
  BY <1>4, <1>b DEF Transcribe
<1>5. CASE Scan \/ Chat \/ Clarify \/ Store \/ Confirm
  BY <1>5, <1>a DEF Scan, Chat, Clarify, Store, Confirm, audio
<1>6. CASE Show
  BY <1>6, <1>a, <1>b DEF Show, EndTurn
<1>7. CASE Post \/ Launch
  BY <1>7, <1>b DEF Post, Launch, EndTurn
<1>8. CASE Quit \/ Kill
  BY <1>8, <1>a DEF Quit, Kill, audio
<1>9. CASE UNCHANGED vars
  BY <1>9, <1>a DEF vars, audio
<1>. QED  BY <1>1, <1>2, <1>3, <1>4, <1>5, <1>6, <1>7, <1>8, <1>9 DEF Next

\* Whatever the padding and the length of the recording: no frame with speech is lost,
\* doubled or moved, and no segment begins in silence.
THEOREM SpeechKept == Spec => []VoicedKept
<1>1. Init => HandedSoFar
  <2>1. <<>> \o <<>> = <<>>
    BY EmptySeq, ConcatEmptySeq
  <2>. QED  BY <2>1, HandedNothing DEF Init, HandedSoFar
<1>2. TypeOK /\ HandedSoFar /\ [Next]_vars => HandedSoFar'
  BY KeptStep
<1>3. HandedSoFar => VoicedKept
  BY DEF HandedSoFar, Handed, VoicedKept
<1>4. Spec => [](TypeOK /\ TurnStarted)
  BY Types
<1>. QED  BY <1>1, <1>2, <1>3, <1>4, PTL DEF Spec

-----------------------------------------------------------------------------
(* What the user is told. *)

Resting == Down \cup {"prompt"}
Stored == {r.turn : r \in rows}

\* A turn that has ended: what was read, spoken and posted agrees with the store, or
\* the process ended in it.
Settled(t) ==
  /\ told[t] = "stored" => t \in Stored
  /\ told[t] \in {"error", "clarify"} => t \notin Stored
  /\ t \in spoken \cup posted => told[t] \in {"stored", "clarify"} \/ t \in died
  /\ Aloud /\ t \in posted => t \in spoken
  /\ t \in Stored => told[t] = "stored" \/ t \in died

Untouched(t) == told[t] = "none" /\ t \notin Stored /\ t \notin spoken /\ t \notin posted

\* The turn under way.
UnderWay ==
  /\ told[turn] = IF pc = "post" THEN result ELSE "none"
  /\ pc \notin {"confirm", "show", "post"} => Untouched(turn)
  /\ pc \in {"confirm", "show", "post"} =>
       result \in {"error", "clarify", "stored"} /\ (result = "stored" <=> turn \in Stored)
  /\ pc \in {"confirm", "post"} => result # "error"
  /\ pc = "confirm" => turn \notin spoken
  /\ pc # "post" => turn \notin posted
  /\ pc = "show" /\ result = "error" => turn \notin spoken
  /\ pc \in {"show", "post"} /\ result # "error" /\ Aloud => turn \in spoken

TruthInv ==
  /\ \A t \in Turn : t < turn => Settled(t)
  /\ pc \in Resting /\ turn \in Turn => Settled(turn)
  /\ \A t \in Turn : t > turn => Untouched(t)
  /\ pc \notin Resting => UnderWay

\* A step leaves the marks of turn t as they are.
Same(t) ==
  /\ told'[t] = told[t] /\ (t \in Stored' <=> t \in Stored)
  /\ (t \in spoken' <=> t \in spoken) /\ (t \in posted' <=> t \in posted)
  /\ t \in died => t \in died'

LEMMA SameKeeps ==
  ASSUME Aloud' = Aloud, NEW t \in Turn, Same(t)
  PROVE  (Settled(t) => Settled(t)') /\ (Untouched(t) => Untouched(t)')
  BY DEF Same, Settled, Untouched

LEMMA UntouchedSettled == \A t \in Turn : Untouched(t) => Settled(t)
  BY DEF Untouched, Settled

\* A step marks no turn but the current one.
LEMMA OthersSame ==
  ASSUME TypeOK, [Next]_vars
  PROVE  Aloud' = Aloud /\ \A t \in Turn : t # turn => Same(t)
<1>a. UNCHANGED <<config, record>> /\ died \subseteq died' => Aloud' = Aloud /\ \A t \in Turn : Same(t)
  BY DEF record, Same, Stored, Aloud
<1>b. Die => died \subseteq died'
  BY DEF Die
<1>1. CASE Line \/ Record \/ Callback \/ Stop \/ Frame \/ Segmented
  BY <1>1, <1>a, <1>b DEF Line, Record, Callback, Stop, Frame, Segmented
<1>2. CASE Transcribe \/ Scan \/ Chat \/ Clarify
  BY <1>2, <1>a, <1>b DEF Transcribe, Scan, Chat, Clarify
<1>3. CASE Store
  <2>1. Aloud' = Aloud /\ died \subseteq died' /\ UNCHANGED <<told, spoken, posted>>
    BY <1>3, <1>b DEF Store, Aloud
  <2>2. \A t \in Turn : t # turn => (t \in Stored' <=> t \in Stored)
    BY <1>3 DEF Store, Stored
  <2>. QED  BY <2>1, <2>2 DEF Same
<1>4. CASE Confirm
  <2>1. Aloud' = Aloud /\ died \subseteq died' /\ UNCHANGED <<rows, told, posted>>
    BY <1>4, <1>b DEF Confirm, Unspoken, Aloud
  <2>2. \A t \in Turn : t # turn => (t \in spoken' <=> t \in spoken)
    BY <1>4 DEF Confirm
  <2>. QED  BY <2>1, <2>2 DEF Same, Stored
<1>5. CASE Show
  <2>1. Aloud' = Aloud /\ UNCHANGED <<rows, spoken, posted, died>>
    BY <1>5 DEF Show, Aloud
  <2>2. \A t \in Turn : t # turn => told'[t] = told[t]
    BY <1>5 DEF Show, TypeOK, RecordOK
  <2>. QED  BY <2>1, <2>2 DEF Same, Stored
<1>6. CASE Post
  <2>1. Aloud' = Aloud /\ UNCHANGED <<rows, told, spoken, died>>
    BY <1>6 DEF Post, Aloud
  <2>2. \A t \in Turn : t # turn => (t \in posted' <=> t \in posted)
    BY <1>6 DEF Post
  <2>. QED  BY <2>1, <2>2 DEF Same, Stored
<1>7. CASE Quit \/ Kill \/ Launch
  BY <1>7, <1>a, <1>b DEF Quit, Kill, Launch
<1>8. CASE UNCHANGED vars
  BY <1>8, <1>a DEF vars
<1>. QED  BY <1>1, <1>2, <1>3, <1>4, <1>5, <1>6, <1>7, <1>8 DEF Next

\* A process that ends in a turn settles it.
LEMMA DeathSettles ==
  ASSUME UnderWay, UNCHANGED <<config, turn, record>>, turn \in died'
  PROVE  Settled(turn)'
<1>1. Aloud' = Aloud /\ Stored' = Stored /\ UNCHANGED <<told, spoken, posted, turn>>
  BY DEF record, Aloud, Stored
<1>2. told[turn] = "stored" => turn \in Stored
  BY DEF UnderWay, Untouched
<1>3. told[turn] \in {"error", "clarify"} => turn \notin Stored
  BY DEF UnderWay, Untouched
<1>4. Aloud /\ turn \in posted => turn \in spoken
  BY DEF UnderWay
<1>. QED  BY <1>1, <1>2, <1>3, <1>4 DEF Settled

\* A step within a turn keeps to it, or settles it.
LEMMA UnderWayStep ==
  ASSUME TypeOK, TurnStarted, UnderWay, pc \notin Resting, [Next]_vars
  PROVE  /\ turn' = turn
         /\ pc' \in Resting => Settled(turn)'
         /\ pc' \notin Resting => UnderWay'
<1>. turn \in Turn
  BY DEF TurnStarted, Resting
<1>a. pc # "prompt" /\ pc # "dead" /\ pc # "over"
  BY DEF Resting, Down
<1>b. Aloud' = Aloud
  BY OthersSame
<1>c. CASE Die /\ UNCHANGED <<config, turn, record>>
  BY <1>c, DeathSettles DEF Die, Goto, Resting, Down
<1>d. CASE Fail /\ UNCHANGED <<config, turn, record>> /\ pc \notin {"confirm", "show", "post"}
  <2>1. Untouched(turn)
    BY <1>d DEF UnderWay
  <2>2. turn' = turn /\ Stored' = Stored /\ UNCHANGED <<told, spoken, posted>>
    BY <1>d DEF record, Stored
  <2>. QED  BY <1>d, <2>1, <2>2 DEF Fail, Goto, UnderWay, Untouched, Resting, Down
<1>e. CASE UNCHANGED <<config, turn, record>> /\ {pc, pc'} \cap (Resting \cup {"confirm", "show", "post"}) = {}
  <2>1. Untouched(turn)
    BY <1>e DEF UnderWay
  <2>2. turn' = turn /\ Stored' = Stored /\ UNCHANGED <<told, spoken, posted>>
    BY <1>e DEF record, Stored
  <2>3. Untouched(turn)' /\ pc' \notin Resting \cup {"confirm", "show", "post"}
    BY <1>e, <2>1, <2>2 DEF Untouched
  <2>. QED  BY <2>2, <2>3 DEF UnderWay, Untouched
<1>1. CASE Line \/ Record \/ Quit \/ Launch
  BY <1>1, <1>a DEF Line, Record, Quit, Launch, Down
<1>2. CASE Callback \/ Frame
  BY <1>2, <1>a, <1>e DEF Callback, Frame, Resting, Down
<1>3. CASE Stop \/ Segmented \/ Transcribe
  BY <1>3, <1>c, <1>d, <1>e DEF Stop, Segmented, Transcribe, Goto, Resting, Down
<1>4. CASE Scan \/ Chat
  BY <1>4, <1>c, <1>d, <1>e DEF Scan, Chat, Goto, Resting, Down
<1>5. CASE Clarify
  <2>1. CASE result' = "clarify" /\ pc' = "confirm"
    <3>1. Untouched(turn) /\ turn' = turn /\ Stored' = Stored /\ UNCHANGED <<told, spoken, posted>>
      BY <1>5 DEF Clarify, UnderWay, record, Stored
    <3>. QED  BY <2>1, <3>1 DEF UnderWay, Untouched, Resting, Down
  <2>. QED  BY <1>5, <1>c, <2>1 DEF Clarify, Goto
<1>6. CASE Store
  <2>1. CASE result' = "stored" /\ pc' = "confirm" /\ rows' = rows \cup {[turn |-> turn, names |-> entry, said |-> text.names]}
    <3>1. Untouched(turn) /\ turn' = turn /\ UNCHANGED <<told, spoken, posted>>
      BY <1>6 DEF Store, UnderWay
    <3>2. turn \in Stored'
      <4>. DEFINE new == [turn |-> turn, names |-> entry, said |-> text.names]
      <4>0. new \in rows' /\ new.turn = turn
        BY <2>1
      <4>. HIDE DEF new
      <4>1. PICK r \in rows' : r.turn = turn
        BY <4>0
      <4>. QED  BY <4>1, <3>1 DEF Stored
    <3>. QED  BY <2>1, <3>1, <3>2 DEF UnderWay, Untouched, Resting, Down
  <2>. QED  BY <1>6, <1>c, <2>1 DEF Store, Goto, record
<1>7. CASE Confirm
  <2>1. CASE spoken' = (IF Aloud THEN spoken \cup {turn} ELSE spoken) /\ pc' = "show" /\ result' = result
    <3>1. turn' = turn /\ Stored' = Stored /\ UNCHANGED <<told, posted>> /\ pc = "confirm"
      BY <1>7 DEF Confirm, Stored
    <3>2. Aloud => turn \in spoken'
      BY <2>1
    <3>. QED  BY <1>b, <2>1, <3>1, <3>2 DEF UnderWay, Resting, Down
  <2>. QED  BY <1>7, <1>c, <2>1 DEF Confirm, Unspoken, Goto, record
<1>8. CASE Show
  <2>1. turn' = turn /\ Stored' = Stored /\ UNCHANGED <<spoken, posted, died>> /\ pc = "show"
    BY <1>8 DEF Show, Stored
  <2>2. told'[turn] = result
    BY <1>8 DEF Show, TypeOK, RecordOK
  <2>3. CASE pc' = "prompt"
    BY <1>b, <2>1, <2>2, <2>3 DEF UnderWay, Settled, Resting, Down
  <2>4. CASE pc' = "post" /\ result # "error" /\ result' = result
    BY <1>b, <2>1, <2>2, <2>4 DEF UnderWay, Resting, Down
  <2>. QED  BY <1>8, <2>3, <2>4 DEF Show, Goto
<1>9. CASE Post
  <2>1. turn' = turn /\ Stored' = Stored /\ UNCHANGED <<told, spoken, died>> /\ pc = "post" /\ pc' = "prompt"
    BY <1>9 DEF Post, Goto, Stored
  <2>. QED  BY <1>b, <2>1 DEF UnderWay, Settled, Resting, Down
<1>10. CASE Kill
  BY <1>10, <1>c DEF Kill
<1>11. CASE UNCHANGED vars
  BY <1>11 DEF vars, record, UnderWay, Untouched, Stored, Aloud
<1>. QED  BY <1>1, <1>2, <1>3, <1>4, <1>5, <1>6, <1>7, <1>8, <1>9, <1>10, <1>11 DEF Next

\* A step from the prompt, or of a process that has ended, touches nothing; it may
\* begin the next turn.
LEMMA RestingStep ==
  ASSUME TypeOK, pc \in Resting, [Next]_vars
  PROVE  /\ UNCHANGED <<config, record>> /\ died \subseteq died'
         /\ \/ turn' = turn /\ pc' \in Resting
            \/ turn' = turn + 1 /\ pc' \in {"scan", "recording", "dead"}
<1>. USE DEF Resting, Down
<1>1. CASE Line \/ Record
  BY <1>1 DEF Line, Record, NewTurn, Goto
<1>2. CASE Callback \/ Stop \/ Frame \/ Segmented \/ Transcribe \/ Scan \/ Chat
  BY <1>2 DEF Callback, Stop, Frame, Segmented, Transcribe, Scan, Chat
<1>3. CASE Clarify \/ Store \/ Confirm \/ Show \/ Post \/ Kill
  BY <1>3 DEF Clarify, Store, Confirm, Show, Post, Kill
<1>4. CASE Quit \/ Launch
  BY <1>4 DEF Quit, Launch, Goto
<1>5. CASE UNCHANGED vars
  BY <1>5 DEF vars
<1>. QED  BY <1>1, <1>2, <1>3, <1>4, <1>5 DEF Next

LEMMA TruthStep == TypeOK /\ TurnStarted /\ TruthInv /\ [Next]_vars => TruthInv'
<1>. SUFFICES ASSUME TypeOK, TurnStarted, TruthInv, [Next]_vars PROVE TruthInv'  OBVIOUS
<1>a. turn \in 0 .. MaxTurns /\ MaxTurns \in Nat
  BY BoundsAreNumbers DEF TypeOK, ControlOK
<1>b. Turn \subseteq Int
  BY BoundsAreNumbers DEF Turn
<1>c. Aloud' = Aloud /\ \A t \in Turn : t # turn => Same(t)
  BY OthersSame
<1>1. CASE pc \notin Resting
  <2>1. /\ turn' = turn
        /\ pc' \in Resting => Settled(turn)'
        /\ pc' \notin Resting => UnderWay'
    BY <1>1, UnderWayStep DEF TruthInv
  <2>2. ASSUME NEW t \in Turn, t < turn PROVE Settled(t)'
    BY <1>a, <1>b, <1>c, <2>2, SameKeeps DEF TruthInv
  <2>3. ASSUME NEW t \in Turn, t > turn PROVE Untouched(t)'
    BY <1>a, <1>b, <1>c, <2>3, SameKeeps DEF TruthInv
  <2>. QED  BY <2>1, <2>2, <2>3 DEF TruthInv
<1>2. CASE pc \in Resting
  <2>1. /\ UNCHANGED <<config, record>> /\ died \subseteq died'
        /\ \/ turn' = turn /\ pc' \in Resting
           \/ turn' = turn + 1 /\ pc' \in {"scan", "recording", "dead"}
    BY <1>2, RestingStep
  <2>2. \A t \in Turn : Same(t)
    BY <2>1 DEF Same, record, Stored
  <2>3. \A t \in Turn : t <= turn => Settled(t)'
    <3>1. \A t \in Turn : t < turn => Settled(t)
      BY DEF TruthInv
    <3>2. turn \in Turn => Settled(turn)
      BY <1>2 DEF TruthInv
    <3>3. \A t \in Turn : t <= turn => Settled(t)
      BY <1>a, <1>b, <3>1, <3>2
    <3>. QED  BY <1>c, <2>2, <3>3, SameKeeps
  <2>4. \A t \in Turn : t > turn => Untouched(t)'
    BY <1>c, <2>2, SameKeeps DEF TruthInv
  <2>5. CASE turn' = turn /\ pc' \in Resting
    <3>1. \A t \in Turn : t < turn => t <= turn
      BY <1>a, <1>b
    <3>2. turn <= turn
      BY <1>a
    <3>. QED  BY <2>3, <2>4, <2>5, <3>1, <3>2 DEF TruthInv
  <2>6. CASE turn' = turn + 1 /\ pc' \in {"scan", "recording", "dead"}
    <3>1. \A t \in Turn : (t < turn' => t <= turn) /\ (t > turn' => t > turn)
      BY <1>a, <1>b, <2>6
    <3>2. turn' \in Turn => turn' > turn
      BY <1>a, <2>6
    <3>3. turn' \in Turn
      BY NextType, <2>6, <1>a, <1>b DEF TypeOK, ControlOK, Turn
    <3>4. Untouched(turn)' /\ Settled(turn)'
      <4>1. \A t \in Turn : t = turn' =>
              told'[t] = "none" /\ t \notin Stored' /\ t \notin spoken' /\ t \notin posted'
        BY <2>4, <3>2 DEF Untouched
      <4>. QED  BY <3>3, <4>1 DEF Untouched, Settled
    <3>5. pc' \notin Resting => UnderWay'
      BY <2>6, <3>4 DEF UnderWay, Untouched, Resting, Down
    <3>. QED  BY <2>3, <2>4, <3>1, <3>4, <3>5 DEF TruthInv
  <2>. QED  BY <2>1, <2>5, <2>6
<1>. QED  BY <1>1, <1>2

LEMMA TruthTold == TypeOK /\ TurnStarted /\ TruthInv => ToldTheTruth
<1>. SUFFICES ASSUME TypeOK, TurnStarted, TruthInv PROVE ToldTheTruth  OBVIOUS
<1> DEFINE Now == IF pc \in Down \cup {"prompt"} THEN {} ELSE {turn}
<1>a. turn \in Int /\ Turn \subseteq Int
  BY BoundsAreNumbers DEF TypeOK, ControlOK, Turn
<1>1. ASSUME NEW t \in Turn
      PROVE  /\ told[t] = "stored" => t \in Stored
             /\ told[t] \in {"error", "clarify"} => t \notin Stored
             /\ t \in spoken \cup posted => told[t] \in {"stored", "clarify"} \/ t \in died \cup Now
             /\ Aloud /\ t \in posted => t \in spoken
             /\ t \in Stored => told[t] = "stored" \/ t \in died \cup Now
  <2>1. CASE Settled(t)
    BY <2>1 DEF Settled
  <2>2. CASE Untouched(t)
    BY <2>2 DEF Untouched
  <2>3. CASE t = turn /\ pc \notin Resting
    BY <2>3 DEF TruthInv, UnderWay, Untouched, Resting
  <2>4. t < turn \/ t > turn \/ t = turn
    BY <1>a
  <2>. QED  BY <2>1, <2>2, <2>3, <2>4 DEF TruthInv
<1>2. Stored \subseteq Turn /\ spoken \subseteq Turn /\ posted \subseteq Turn
  BY DEF TypeOK, RecordOK, Row, Stored
<1>. QED  BY <1>1, <1>2 DEF ToldTheTruth, Stored

\* Whatever fails and wherever the process ends, what the user reads, hears and posts
\* agrees with the stores.
THEOREM TruthKept == Spec => []ToldTheTruth
<1>1. Init => TruthInv
  BY BoundsAreNumbers DEF Init, TruthInv, Untouched, Stored, Resting, Turn
<1>2. TypeOK /\ TurnStarted /\ TruthInv /\ [Next]_vars => TruthInv'
  BY TruthStep
<1>3. TypeOK /\ TurnStarted /\ TruthInv => ToldTheTruth
  BY TruthTold
<1>4. Spec => [](TypeOK /\ TurnStarted)
  BY Types
<1>. QED  BY <1>1, <1>2, <1>3, <1>4, PTL DEF Spec

-----------------------------------------------------------------------------
(* What comes back from the shield. *)

\* Every non-empty set of naturals has a least element.
LEMMA LeastNatural ==
  ASSUME NEW S \in SUBSET Nat, S # {}
  PROVE  \E m \in S : \A n \in S : m <= n
<1> DEFINE R == OpToRel(<, Nat)
<1>1. IsWellFoundedOn(R, Nat)
  BY NatLessThanWellFounded
<1>2. R = {p \in Nat \X Nat : p[1] < p[2]}
  BY DEF OpToRel
<1> HIDE DEF R
<1>3. PICK m \in S : \A n \in S : ~ (<<n, m>> \in R)
  BY <1>1, WFMin
<1>4. ASSUME NEW n \in S PROVE m <= n
  <2>1. m \in Nat /\ n \in Nat
    OBVIOUS
  <2>2. <<n, m>> \in R <=> n < m
    BY <1>2, <2>1
  <2>. QED  BY <1>3, <2>1, <2>2
<1>. QED  BY <1>4

\* Without its last digit a number is smaller.
LEMMA Shorter ==
  ASSUME NEW i \in Nat, ~ (i < Radix)
  PROVE  i \div Radix \in Nat /\ i \div Radix < i
<1>1. Radix \in Nat /\ Radix >= 2
  BY RadixIsBase
<1>2. i \div Radix \in Int /\ i % Radix \in 0 .. Radix - 1 /\ i = Radix * (i \div Radix) + (i % Radix)
  BY <1>1
<1> DEFINE q == i \div Radix
           m == i % Radix
<1>3. q \in Int /\ m \in Nat /\ m < Radix /\ i = Radix * q + m
  BY <1>1, <1>2
<1> HIDE DEF q, m
<1>4. q >= 0
  <2>1. ASSUME q < 0 PROVE FALSE
    <3>1. Radix * q <= - Radix
      BY <1>1, <1>3, <2>1
    <3>. QED  BY <1>1, <1>3, <3>1
  <2>. QED  BY <1>3, <2>1
<1>5. q > 0
  BY <1>1, <1>3, <1>4
<1>6. Radix * q >= 2 * q
  BY <1>1, <1>3, <1>4
<1>7. q < i
  BY <1>1, <1>3, <1>5, <1>6
<1>. QED  BY <1>3, <1>4, <1>7 DEF q

\* Leading up to n.
LeadingStep(f, i) == IF i < Radix THEN i ELSE f[i \div Radix]
LeadingUpTo(f, n) == f = [i \in 0 .. n |-> LeadingStep(f, i)]

LEMMA LeadingGoesOn == \A n \in Nat : \E f : LeadingUpTo(f, n)
<1> DEFINE B == {n \in Nat : ~ \E f : LeadingUpTo(f, n)}
<1> SUFFICES ASSUME B # {} PROVE FALSE
  OBVIOUS
<1>1. PICK n \in B : \A b \in B : n <= b
  BY LeastNatural
<1>2. n \in Nat /\ ~ \E f : LeadingUpTo(f, n)
  OBVIOUS
<1>3. CASE n = 0
  <2> DEFINE g == [i \in 0 .. n |-> i]
  <2>1. \A i \in 0 .. n : i < Radix
    BY <1>3, RadixIsBase
  <2>2. g = [i \in 0 .. n |-> LeadingStep(g, i)]
    BY <2>1 DEF LeadingStep
  <2>. QED  BY <1>2, <2>2 DEF LeadingUpTo
<1>4. CASE n # 0
  <2>1. n - 1 \in Nat /\ ~ (n <= n - 1)
    BY <1>2, <1>4
  <2>2. n - 1 \notin B
    BY <1>1, <2>1
  <2>3. PICK f : LeadingUpTo(f, n - 1)
    BY <2>1, <2>2
  <2> DEFINE g == [i \in 0 .. n |-> IF i = n THEN LeadingStep(f, n) ELSE f[i]]
  <2>4. \A i \in 0 .. n - 1 : f[i] = LeadingStep(f, i)
    BY <2>3 DEF LeadingUpTo
  <2>5. \A i \in 0 .. n - 1 : g[i] = f[i]
    BY <1>2
  <2>6. g[n] = LeadingStep(f, n)
    BY <1>2
  <2>7. \A i \in 0 .. n : g[i] = LeadingStep(f, i)
    <3>1. \A i \in 0 .. n : i = n \/ i \in 0 .. n - 1
      BY <1>2
    <3>. QED  BY <2>4, <2>5, <2>6, <3>1
  <2>8. g = [i \in 0 .. n |-> g[i]]
    OBVIOUS
  <2> HIDE DEF g
  <2>9. ASSUME NEW i \in 0 .. n PROVE LeadingStep(g, i) = LeadingStep(f, i)
    <3>1. CASE i < Radix
      BY <3>1 DEF LeadingStep
    <3>2. CASE ~ (i < Radix)
      <4>1. i \in Nat
        OBVIOUS
      <4>2. i \div Radix \in Nat /\ i \div Radix < i
        BY <3>2, <4>1, Shorter
      <4> DEFINE q == i \div Radix
      <4>3. q \in Nat /\ q < i
        BY <4>2
      <4> HIDE DEF q
      <4>4. q \in 0 .. n - 1
        BY <1>2, <4>1, <4>3
      <4>5. g[q] = f[q]
        BY <2>5, <4>4
      <4>. QED  BY <3>2, <4>5, Zenon DEF LeadingStep, q
    <3>. QED  BY <3>1, <3>2
  <2>10. \A i \in 0 .. n : g[i] = LeadingStep(g, i)
    BY <2>7, <2>9
  <2>11. LeadingUpTo(g, n)
    BY <2>8, <2>10 DEF LeadingUpTo
  <2>. QED  BY <1>2, <2>11
<1>. QED  BY <1>3, <1>4

\* Two that go up to different numbers agree as far as both go.
LEMMA LeadingAgrees ==
  ASSUME NEW n \in Nat, NEW m \in Nat, NEW f, NEW g, LeadingUpTo(f, n), LeadingUpTo(g, m)
  PROVE  \A i \in Nat : i <= n /\ i <= m => f[i] = g[i]
<1> DEFINE B == {i \in Nat : i <= n /\ i <= m /\ f[i] # g[i]}
<1> SUFFICES ASSUME B # {} PROVE FALSE
  OBVIOUS
<1>1. PICK i \in B : \A b \in B : i <= b
  BY LeastNatural
<1>2. i \in Nat /\ i <= n /\ i <= m /\ f[i] # g[i]
  OBVIOUS
<1>3. f[i] = LeadingStep(f, i) /\ g[i] = LeadingStep(g, i)
  <2>1. i \in 0 .. n /\ i \in 0 .. m
    BY <1>2
  <2>. QED  BY <2>1 DEF LeadingUpTo
<1>4. CASE i < Radix
  BY <1>2, <1>3, <1>4 DEF LeadingStep
<1>5. CASE ~ (i < Radix)
  <2> DEFINE q == i \div Radix
  <2>1. q \in Nat /\ q < i
    BY <1>2, <1>5, Shorter
  <2>2. f[i] = f[q] /\ g[i] = g[q]
    BY <1>3, <1>5 DEF LeadingStep
  <2> HIDE DEF q
  <2>3. ~ (i <= q) /\ q <= n /\ q <= m
    BY <1>2, <2>1
  <2>4. f[q] = g[q]
    BY <1>1, <2>1, <2>3
  <2>. QED  BY <1>2, <2>2, <2>4
<1>. QED  BY <1>4, <1>5

\* A number of one digit is its own leading digit.
LEMMA LeadingOfDigit == \A i \in Nat : i < Radix => Leading[i] = i
<1> DEFINE upTo(n) == CHOOSE f : LeadingUpTo(f, n)
           g == [i \in Nat |-> upTo(i)[i]]
<1>1. \A n \in Nat : LeadingUpTo(upTo(n), n)
  BY LeadingGoesOn, Zenon
<1> HIDE DEF upTo
<1>2. ASSUME NEW i \in Nat PROVE g[i] = LeadingStep(g, i)
  <2>1. g[i] = LeadingStep(upTo(i), i)
    <3>1. i \in 0 .. i
      OBVIOUS
    <3>2. upTo(i)[i] = LeadingStep(upTo(i), i)
      BY <1>1, <3>1 DEF LeadingUpTo
    <3>. QED  BY <3>2
  <2>2. CASE i < Radix
    BY <2>1, <2>2 DEF LeadingStep
  <2>3. CASE ~ (i < Radix)
    <3> DEFINE q == i \div Radix
    <3>1. q \in Nat /\ q < i
      BY <2>3, Shorter
    <3>2. g[i] = upTo(i)[q]
      BY <2>1, <2>3 DEF LeadingStep
    <3>3. LeadingStep(g, i) = g[q]
      BY <2>3 DEF LeadingStep
    <3> HIDE DEF q
    <3>4. q <= i /\ q <= q
      BY <3>1
    <3>5. upTo(i)[q] = upTo(q)[q]
      BY <1>1, <3>1, <3>4, LeadingAgrees
    <3>6. g[q] = upTo(q)[q]
      BY <3>1
    <3>. QED  BY <3>2, <3>3, <3>5, <3>6
  <2>. QED  BY <2>2, <2>3
<1>3. g = [i \in Nat |-> g[i]]
  OBVIOUS
<1> HIDE DEF g
<1>4. g = [i \in Nat |-> IF i < Radix THEN i ELSE g[i \div Radix]]
  BY <1>2, <1>3 DEF LeadingStep
<1>5. Leading = [i \in Nat |-> IF i < Radix THEN i ELSE Leading[i \div Radix]]
  BY <1>4, Zenon DEF Leading
<1>. QED  BY <1>5

\* No number of a kind is above the kind's count, and no two entities share a
\* placeholder.
WellNumbered(s) ==
  /\ \A e \in Entity : s[e] # Unknown => s[e].index <= Counter(s, s[e].kind)
  /\ \A e, f \in Entity : s[e] # Unknown /\ s[e] = s[f] => e = f

LEMMA SessionFacts ==
  ASSUME NEW s \in Session, NEW e \in Entity
  PROVE  /\ s[e] # Unknown => s[e] \in Placeholder /\ s[e].kind \in Kind /\ s[e].index \in Nat \ {0}
         /\ s[e] = Unknown => s[e].kind = "" /\ s[e].kind \notin Kind
<1>1. s[e] \in Placeholder \cup {Unknown}
  BY DEF Session
<1>2. CASE s[e] = Unknown
  <2>1. Unknown.kind = "" /\ "" \notin Kind
    BY DEF Unknown, Kind
  <2>. QED  BY <1>2, <2>1
<1>3. CASE s[e] # Unknown
  BY <1>1, <1>3 DEF Placeholder
<1>. QED  BY <1>2, <1>3

LEMMA CountersAreNumbers == \A s, k : Counter(s, k) \in Nat
  BY EntityIsFinite, FS_Subset, FS_CardinalityType DEF Counter

\* Registering new entities keeps the numbers of their kinds apart.
LEMMA RegisterNumbers ==
  ASSUME NEW s \in Session, WellNumbered(s), NEW S \in SUBSET Entity, \A e \in S : s[e] = Unknown,
         NEW order \in Orders(S)
  PROVE  WellNumbered(Register(s, S, order))
<1> DEFINE r == Register(s, S, order)
           Prior(e) == {f \in S : KindOf(f) = KindOf(e) /\ order[f] <= order[e]}
           New(k) == {e \in S : KindOf(e) = k}
           Old(k) == {e \in Entity : s[e].kind = k}
<1>1. /\ r \in Session
      /\ \A e \in S : r[e] \in Placeholder
      /\ \A e \in Entity \ S : r[e] = s[e]
  BY RegisterType
<1>2. \A e \in S : r[e].kind = KindOf(e) /\ r[e].index = Counter(s, KindOf(e)) + Cardinality(Prior(e))
  BY DEF Register
<1>3. IsFiniteSet(S) /\ \A e \in S : order[e] \in Nat
  <2>1. IsFiniteSet(S)
    BY EntityIsFinite, FS_Subset
  <2>2. Cardinality(S) \in Nat
    BY <2>1, FS_CardinalityType
  <2>. QED  BY <2>1, <2>2 DEF Orders
<1>4. \A e, f \in S : order[e] = order[f] => e = f
  BY DEF Orders
<1>5. ASSUME NEW k \in Kind PROVE Counter(r, k) = Counter(s, k) + Cardinality(New(k))
  <2>1. {e \in Entity : r[e].kind = k} = Old(k) \cup New(k)
    <3>1. ASSUME NEW e \in S PROVE r[e].kind = k <=> e \in Old(k) \cup New(k)
      <4>1. e \notin Old(k)
        BY SessionFacts
      <4>. QED  BY <1>2, <4>1
    <3>2. ASSUME NEW e \in Entity \ S PROVE r[e].kind = k <=> e \in Old(k) \cup New(k)
      BY <1>1
    <3>. QED  BY <3>1, <3>2
  <2>2. Old(k) \cap New(k) = {}
    BY SessionFacts
  <2>3. IsFiniteSet(Old(k)) /\ IsFiniteSet(New(k))
    BY <1>3, EntityIsFinite, FS_Subset
  <2> HIDE DEF Old, New
  <2>4. Cardinality(Old(k) \cup New(k)) = Cardinality(Old(k)) + Cardinality(New(k)) - Cardinality(Old(k) \cap New(k))
    BY <2>3, FS_Union
  <2>5. Cardinality(Old(k) \cap New(k)) = 0
    BY <2>2, FS_EmptySet
  <2>6. Cardinality(Old(k)) \in Nat /\ Cardinality(New(k)) \in Nat
    BY <2>3, FS_CardinalityType
  <2>7. Counter(r, k) = Cardinality(Old(k) \cup New(k)) /\ Counter(s, k) = Cardinality(Old(k))
    <3> HIDE DEF r
    <3>. QED  BY <2>1 DEF Counter, Old
  <2>. QED  BY <2>4, <2>5, <2>6, <2>7
<1>6. ASSUME NEW e \in S
      PROVE  /\ IsFiniteSet(Prior(e)) /\ Cardinality(Prior(e)) \in Nat /\ Cardinality(Prior(e)) >= 1
             /\ Cardinality(Prior(e)) <= Cardinality(New(KindOf(e)))
             /\ Cardinality(New(KindOf(e))) \in Nat
  <2>1. IsFiniteSet(Prior(e)) /\ IsFiniteSet(New(KindOf(e)))
    BY <1>3, FS_Subset
  <2>2. e \in Prior(e) /\ Prior(e) \in SUBSET New(KindOf(e))
    BY <1>3
  <2> HIDE DEF Prior, New
  <2>3. Cardinality(Prior(e)) \in Nat /\ Cardinality(New(KindOf(e))) \in Nat /\ Cardinality(Prior(e)) # 0
    BY <2>1, <2>2, FS_CardinalityType, FS_EmptySet
  <2>4. Cardinality(Prior(e)) <= Cardinality(New(KindOf(e)))
    BY <2>1, <2>2, FS_Subset
  <2>. QED  BY <2>1, <2>3, <2>4
<1>7. ASSUME NEW e \in S, NEW f \in S, KindOf(e) = KindOf(f), order[e] < order[f]
      PROVE  Cardinality(Prior(e)) < Cardinality(Prior(f))
  <2>1. Prior(e) \in SUBSET Prior(f) /\ f \in Prior(f) /\ f \notin Prior(e)
    BY <1>3, <1>7
  <2>2. IsFiniteSet(Prior(f)) /\ Prior(e) # Prior(f)
    BY <1>6, <2>1
  <2> HIDE DEF Prior
  <2>3. Cardinality(Prior(e)) <= Cardinality(Prior(f)) /\ Cardinality(Prior(e)) # Cardinality(Prior(f))
    BY <2>1, <2>2, FS_Subset
  <2>4. Cardinality(Prior(e)) \in Nat /\ Cardinality(Prior(f)) \in Nat
    BY <1>6
  <2>. QED  BY <2>3, <2>4
<1>8. ASSUME NEW e \in Entity, r[e] # Unknown PROVE r[e].index <= Counter(r, r[e].kind)
  <2>1. r[e].kind \in Kind /\ r[e].index \in Nat
    BY <1>1, <1>8, SessionFacts
  <2>2. Counter(r, r[e].kind) = Counter(s, r[e].kind) + Cardinality(New(r[e].kind))
    BY <1>5, <2>1
  <2>3. Cardinality(New(r[e].kind)) \in Nat
    BY <1>3, FS_Subset, FS_CardinalityType
  <2>4. CASE e \in S
    <3>1. r[e].kind = KindOf(e) /\ r[e].index = Counter(s, KindOf(e)) + Cardinality(Prior(e))
      BY <1>2, <2>4
    <3>2. /\ Cardinality(Prior(e)) <= Cardinality(New(KindOf(e)))
          /\ Cardinality(Prior(e)) \in Nat
      BY <1>6, <2>4
    <3> HIDE DEF r, Prior, New
    <3>. QED  BY <2>2, <2>3, <3>1, <3>2, CountersAreNumbers
  <2>5. CASE e \notin S
    <3>1. r[e] = s[e] /\ s[e].index <= Counter(s, s[e].kind)
      BY <1>1, <1>8, <2>5 DEF WellNumbered
    <3> HIDE DEF r, New
    <3>. QED  BY <2>1, <2>2, <2>3, <3>1, CountersAreNumbers
  <2>. QED  BY <2>4, <2>5
<1>9. ASSUME NEW e \in S, NEW f \in Entity \ S, r[e] = r[f] PROVE FALSE
  <2>1. r[f] = s[f] /\ r[f] \in Placeholder /\ s[f] # Unknown
    BY <1>1, <1>9, PlaceholderKnown
  <2>2. s[f].index <= Counter(s, s[f].kind) /\ s[f].index \in Nat
    BY <2>1, SessionFacts DEF WellNumbered
  <2>3. s[f].kind = KindOf(e) /\ s[f].index = Counter(s, KindOf(e)) + Cardinality(Prior(e))
    BY <1>2, <1>9, <2>1
  <2>4. Cardinality(Prior(e)) \in Nat /\ Cardinality(Prior(e)) >= 1
    BY <1>6
  <2> HIDE DEF r, Prior
  <2>. QED  BY <2>2, <2>3, <2>4, CountersAreNumbers
<1>10. ASSUME NEW e \in S, NEW f \in S, r[e] = r[f] PROVE e = f
  <2>1. KindOf(e) = KindOf(f) /\ Counter(s, KindOf(e)) + Cardinality(Prior(e)) = Counter(s, KindOf(f)) + Cardinality(Prior(f))
    BY <1>2, <1>10
  <2>2. Cardinality(Prior(e)) \in Nat /\ Cardinality(Prior(f)) \in Nat
    BY <1>6
  <2>3. ~ (order[e] < order[f]) /\ ~ (order[f] < order[e])
    <3>1. ~ (Cardinality(Prior(e)) < Cardinality(Prior(f))) /\ ~ (Cardinality(Prior(f)) < Cardinality(Prior(e)))
      <4> HIDE DEF r, Prior
      <4>. QED  BY <2>1, <2>2, CountersAreNumbers
    <3>. QED  BY <1>7, <2>1, <3>1
  <2>. QED  BY <1>3, <1>4, <2>3
<1>11. ASSUME NEW e \in Entity, NEW f \in Entity, r[e] # Unknown, r[e] = r[f] PROVE e = f
  <2>1. CASE e \in S /\ f \in S
    BY <1>10, <1>11, <2>1
  <2>2. CASE e \in S /\ f \notin S
    BY <1>9, <1>11, <2>2
  <2>3. CASE e \notin S /\ f \in S
    BY <1>9, <1>11, <2>3
  <2>4. CASE e \notin S /\ f \notin S
    BY <1>1, <1>11, <2>4 DEF WellNumbered
  <2>. QED  BY <2>1, <2>2, <2>3, <2>4
<1> HIDE DEF r
<1>12. WellNumbered(r)
  BY <1>8, <1>11 DEF WellNumbered
<1>. QED  BY <1>12 DEF r

LEMMA RegisteredNumbers ==
  ASSUME NEW s \in Session, WellNumbered(s), NEW F \in SUBSET Entity, NEW r \in Registered(s, F)
  PROVE  WellNumbered(r)
<1> DEFINE new == {e \in F : s[e] = Unknown}
<1>1. PICK order \in Orders(new) : r = Register(s, new, order)
  BY DEF Registered
<1>2. new \in SUBSET Entity /\ \A e \in new : s[e] = Unknown
  OBVIOUS
<1>. HIDE DEF new
<1>. QED  BY <1>1, <1>2, RegisterNumbers

\* A message of what a text names, under session s.
SaysOnly(m, names, s) ==
  /\ m.clear \subseteq names
  /\ \A p \in m.hidden : \E f \in names : s[f] # Unknown /\ p = s[f]

LEMMA AnonymisedSaysOnly ==
  ASSUME NEW s \in Session, NEW T \in SUBSET Entity, NEW F
  PROVE  SaysOnly(Anonymised(s, T, F), T, s)
<1>1. CASE F = {}
  BY <1>1 DEF Anonymised, SaysOnly
<1>2. CASE F # {}
  <2> DEFINE a == Anonymised(s, T, F)
  <2>1. a.clear = {e \in T : s[e] = Unknown} /\ a.hidden = {s[e] : e \in {f \in T : s[f] # Unknown}}
    BY <1>2 DEF Anonymised
  <2> HIDE DEF a
  <2>2. SaysOnly(a, T, s)
    BY <2>1 DEF SaysOnly
  <2>. QED  BY <2>2 DEF a
<1>. QED  BY <1>1, <1>2

\* As long as no number has two digits, a model that names what it was sent is
\* understood to name what was said.
LEMMA RestoredIsSaid ==
  ASSUME NEW s \in Session, WellNumbered(s), Uncrowded(s), NEW T \in SUBSET Entity,
         NEW c \in SUBSET T, NEW h, \A p \in h : \E f \in T : s[f] # Unknown /\ p = s[f]
  PROVE  Deanonymised(s, c, h) \subseteq T
<1> SUFFICES ASSUME NEW e \in Entity, NEW p \in h, s[e] = [p EXCEPT !.index = Leading[@]]
             PROVE  e \in T
  BY DEF Deanonymised
<1>1. PICK f \in T : s[f] # Unknown /\ p = s[f]
  OBVIOUS
<1>2. /\ s[f] \in Placeholder /\ s[f].kind \in Kind /\ s[f].index \in Nat
      /\ s[f].index <= Counter(s, s[f].kind)
  BY <1>1, SessionFacts DEF WellNumbered
<1>3. Counter(s, s[f].kind) < Radix
  BY <1>2 DEF Uncrowded
<1>4. p.index < Radix /\ p.index \in Nat
  <2>1. Counter(s, s[f].kind) \in Nat /\ Radix \in Nat
    BY CountersAreNumbers, RadixIsBase
  <2>. QED  BY <1>1, <1>2, <1>3, <2>1
<1>5. Leading[p.index] = p.index
  BY <1>4, LeadingOfDigit
<1>6. [p EXCEPT !.index = Leading[@]] = p
  BY <1>1, <1>2, <1>5 DEF Placeholder
<1>7. s[e] = s[f] /\ s[e] # Unknown
  BY <1>1, <1>6
<1>8. e = f
  BY <1>1, <1>7 DEF WellNumbered
<1>. QED  BY <1>8

\* What each place in the loop has of the text: before the scan nothing is sent, the
\* extractor's message says what the text names, and what came back names no more.
Restoring ==
  /\ WellNumbered(session)
  /\ pc \in {"prompt", "recording", "vad", "transcribe", "scan"} => sent = {}
  /\ pc = "chat" => \A m \in sent : SaysOnly(m, text.names, session)
  /\ pc \in {"clarify", "store"} => (Uncrowded(session) => entry \subseteq text.names)

LEMMA NewSessionNumbers == WellNumbered(NewSession)
  BY DEF WellNumbered, NewSession

LEMMA RestoringStep == TypeOK /\ Restoring /\ [Next]_vars => Restoring'
<1>. SUFFICES ASSUME TypeOK, Restoring, [Next]_vars PROVE Restoring'  OBVIOUS
<1>0. session \in Session /\ text.names \in SUBSET Entity /\ WellNumbered(session)
  BY DEF TypeOK, RequestOK, Restoring
\* Steps to places that ask nothing of the turn.
<1>a. ASSUME session' = session, pc' \notin {"prompt", "recording", "vad", "transcribe", "scan", "chat", "clarify", "store"}
      PROVE  Restoring'
  BY <1>a DEF Restoring
<1>b. ASSUME WellNumbered(session'), sent' = {}, pc' \notin {"clarify", "store"} PROVE Restoring'
  BY <1>b DEF Restoring
<1>1. CASE Line \/ Record \/ Callback \/ Stop \/ Frame \/ Segmented \/ Transcribe
  <2>1. sent = {} /\ sent' = sent /\ session' = session
    BY <1>1 DEF Line, Record, Callback, Stop, Frame, Segmented, Transcribe, request, Restoring
  <2>2. pc' \notin {"clarify", "store"}
    BY <1>1 DEF Line, Record, Callback, Stop, Frame, Segmented, Transcribe, Goto, Fail, Die
  <2>. QED  BY <1>0, <1>b, <2>1, <2>2
<1>2. CASE Scan
  <2>1. sent = {} /\ text' = text
    BY <1>2 DEF Scan, Restoring
  <2>2. ASSUME Send("extract", [clear |-> text.names, hidden |-> {}]), session' = session, pc' = "chat"
        PROVE  Restoring'
    <3>1. \A m \in sent' : m.clear = text.names /\ m.hidden = {}
      BY <2>1, <2>2 DEF Send
    <3>. QED  BY <1>0, <2>1, <2>2, <3>1 DEF Restoring, SaysOnly
  <2>3. ASSUME NEW reply \in SUBSET Entity,
               found' = [done |-> TRUE, names |-> Hits(text.names) \cup Spans(text.names, reply)],
               session' \in Registered(session, found'.names),
               Send("extract", Anonymised(session', text.names, found'.names)), pc' = "chat"
        PROVE  Restoring'
    <3> DEFINE F == found'.names
               r == session'
               out == Anonymised(r, text.names, F)
    <3>1. F \in SUBSET text.names
      BY <1>0, <2>3, FoundType
    <3>2. r \in Session /\ WellNumbered(r)
      <4>1. r \in Registered(session, F) /\ F \in SUBSET Entity
        BY <1>0, <2>3, <3>1
      <4> HIDE DEF r, F
      <4>. QED  BY <1>0, <4>1, RegisteredType, RegisteredNumbers
    <3>3. SaysOnly(out, text.names, r)
      <4> HIDE DEF r, F
      <4>. QED  BY <1>0, <3>2, AnonymisedSaysOnly
    <3>4. sent' = {[to |-> "extract", clear |-> out.clear, hidden |-> out.hidden]}
      BY <2>1, <2>3 DEF Send
    <3> HIDE DEF out
    <3>5. \A m \in sent' : m.clear = out.clear /\ m.hidden = out.hidden
      BY <3>4
    <3>. QED  BY <2>1, <2>3, <3>2, <3>3, <3>5 DEF Restoring, SaysOnly
  <2>4. ASSUME Die, session' = session PROVE Restoring'
    BY <1>a, <2>4 DEF Die, Goto
  <2>. QED  BY <1>2, <2>2, <2>3, <2>4 DEF Scan, Goto
<1>3. CASE Chat
  <2>1. session' = session /\ text' = text /\ config' = config
    BY <1>3 DEF Chat
  <2>2. ASSUME NEW m \in sent, NEW c \in SUBSET m.clear, NEW h \in SUBSET m.hidden,
               entry' = IF config.shield THEN Deanonymised(session, c, h) ELSE c,
               pc' = "store" \/ pc' = "clarify"
        PROVE  Restoring'
    <3>1. SaysOnly(m, text.names, session)
      BY <1>3 DEF Chat, Restoring
    <3>2. c \in SUBSET text.names /\ \A p \in h : \E f \in text.names : session[f] # Unknown /\ p = session[f]
      BY <3>1 DEF SaysOnly
    <3>3. Uncrowded(session) => entry' \subseteq text.names
      <4>1. CASE config.shield
        BY <1>0, <2>2, <3>2, <4>1, RestoredIsSaid
      <4>2. CASE ~config.shield
        BY <2>2, <3>2, <4>2
      <4>. QED  BY <4>1, <4>2
    <3>. QED  BY <1>0, <2>1, <2>2, <3>3 DEF Restoring
  <2>3. ASSUME Fail \/ Die PROVE Restoring'
    BY <1>a, <2>1, <2>3 DEF Fail, Die, Goto
  <2>. QED  BY <1>3, <2>2, <2>3 DEF Chat, Goto
<1>4. CASE Clarify \/ Store \/ Confirm \/ Quit \/ Kill
  <2>1. CASE Quit
    <3>1. sent' = {} /\ session' = session /\ pc' = "over"
      BY <2>1 DEF Quit, Goto, request, Restoring
    <3>. QED  BY <1>0, <1>b, <3>1
  <2>2. CASE ~ Quit
    <3>1. session' = session /\ pc' \in {"confirm", "dead", "show"}
      BY <1>4, <2>2 DEF Clarify, Store, Confirm, Kill, Goto, Die, Unspoken, request
    <3>. QED  BY <1>a, <3>1
  <2>. QED  BY <2>1, <2>2
<1>5. CASE Show
  <2>1. session' = session
    BY <1>5 DEF Show
  <2>2. CASE EndTurn
    <3>1. sent' = {} /\ pc' \in {"prompt", "post"}
      BY <1>5, <2>2 DEF Show, EndTurn, Goto
    <3>. QED  BY <1>0, <1>b, <2>1, <3>1
  <2>3. CASE ~EndTurn
    <3>1. pc' = "post"
      BY <1>5, <2>3 DEF Show, Goto
    <3>. QED  BY <1>a, <2>1, <3>1
  <2>. QED  BY <2>2, <2>3
<1>6. CASE Post \/ Launch
  <2>1. sent' = {} /\ pc' = "prompt" /\ (session' = session \/ session' = NewSession)
    BY <1>6 DEF Post, Launch, EndTurn, Goto
  <2>. QED  BY <1>0, <1>b, <2>1, NewSessionNumbers
<1>7. CASE UNCHANGED vars
  BY <1>7 DEF vars, request, Restoring
<1>. QED
  BY <1>1, <1>2, <1>3, <1>4, <1>5, <1>6, <1>7 DEF Next

\* What is stored under the shield names what was said, for as long as no kind of
\* placeholder has reached a number of two digits.
THEOREM NamesComeBack == Spec => NamesRestored
<1>1. Init => Restoring
  BY NewSessionNumbers DEF Init, Restoring
<1>2. TypeOK /\ Restoring /\ [Next]_vars => Restoring'
  BY RestoringStep
<1>3. Restoring /\ [Next]_vars => [\A r \in rows' \ rows : Uncrowded(session) => r.names \subseteq r.said]_vars
  <2> SUFFICES ASSUME Restoring, Next, NEW r \in rows' \ rows, Uncrowded(session)
               PROVE  r.names \subseteq r.said
    OBVIOUS
  <2>1. CASE Store
    <3>1. r = [turn |-> turn, names |-> entry, said |-> text.names] /\ pc = "store"
      BY <2>1 DEF Store
    <3>. QED  BY <3>1 DEF Restoring
  <2>2. CASE ~Store
    <3>1. rows' = rows
      BY <2>2 DEF Next, Line, Record, Callback, Stop, Frame, Segmented, Transcribe, Scan, Chat, Clarify,
                  Confirm, Show, Post, Quit, Kill, Launch, record
    <3>. QED  BY <3>1
  <2>. QED  BY <2>1, <2>2
<1>4. Spec => [](TypeOK /\ TurnStarted)
  BY Types
<1>. QED  BY <1>1, <1>2, <1>3, <1>4, PTL DEF Spec, NamesRestored

=============================================================================
