--------------------------- MODULE VoicePipeline ---------------------------
(***************************************************************************)
(* The client's main loop in its text and voice modes: main.py, the        *)
(* recorder, the voice activity detector, the router, the extractor, the   *)
(* stores, the speaker and the webhook, around one PII session per process.*)
(* A turn is a line or a recording.  Any exception main.py does not catch  *)
(* ends the process, and so may the system at any point.                   *)
(***************************************************************************)
EXTENDS PiiSession, Sequences

CONSTANTS
  Config,     \* the settings the client may run with
  Text,       \* what may be said or typed: the entities named and the intent
  Padding,    \* silent frames that close a segment
  MinSpeech,  \* frames an utterance needs
  MaxFrames,  \* bound: frames of a recording
  MaxTurns    \* bound: turns, over all processes

Intent == {"time_entry", "task_delegation"}

ASSUME ConfigIsSettings ==
  Config \subseteq [voice : BOOLEAN, tts : BOOLEAN, webhook : BOOLEAN, shield : BOOLEAN]
ASSUME TextIsTexts == Text \subseteq [names : SUBSET Entity, intent : Intent]
ASSUME BoundsAreNumbers ==
  Padding \in Nat /\ MinSpeech \in Nat /\ MaxFrames \in Nat /\ MaxTurns \in Nat

VARIABLES
  config,    \* the settings
  pc,        \* where the process is
  turn,      \* the number of the turn
  stream,    \* is the microphone's stream open?
  frames,    \* frames recorded
  at,        \* the frame the detector is at
  voiced,    \* the frames it has found to be speech
  current,   \* the open segment
  silence,   \* silent frames at the end of it
  speech,    \* the closed segments, joined
  session,   \* the PII session
  text,      \* the transcript
  found,     \* what the shield has found in it
  sent,      \* what the cloud model has been sent in this turn
  entry,     \* the names in what was extracted
  result,    \* what the router has returned
  rows,      \* the stores
  told,      \* told[t]: what the user has read about turn t
  spoken,    \* turns confirmed aloud
  posted,    \* turns posted to the webhook
  died       \* turns in which the process ended

audio == <<stream, frames, at, voiced, current, silence, speech>>
request == <<session, text, found, sent, entry>>
record == <<rows, told, spoken, posted>>
vars == <<config, pc, turn, audio, request, result, record, died>>

Turn == 1 .. MaxTurns
Result == {"none", "error", "clarify", "stored"}
Down == {"dead", "over"}
PcValue == Down \cup {"prompt", "recording", "vad", "transcribe", "scan", "chat", "clarify",
                      "store", "confirm", "show", "post"}
NoText == [names |-> {}, intent |-> "time_entry"]
NotScanned == [done |-> FALSE, names |-> {}]
Message == [to : {"extract", "clarify"}, clear : SUBSET Entity, hidden : SUBSET Placeholder]
Row == [turn : Turn, names : SUBSET Entity, said : SUBSET Entity]

ControlOK == config \in Config /\ pc \in PcValue /\ turn \in 0 .. MaxTurns /\ result \in Result /\ died \subseteq Turn
AudioOK ==
  /\ stream \in BOOLEAN /\ frames \in 0 .. MaxFrames /\ at \in Nat /\ silence \in Nat
  /\ voiced \subseteq Nat /\ current \in Seq(Nat) /\ speech \in Seq(Nat)
RequestOK ==
  /\ session \in Session /\ text \in [names : SUBSET Entity, intent : Intent]
  /\ found \in [done : BOOLEAN, names : SUBSET Entity] /\ sent \subseteq Message /\ entry \subseteq Entity
RecordOK == rows \subseteq Row /\ told \in [Turn -> Result] /\ spoken \subseteq Turn /\ posted \subseteq Turn

\* The type of every variable: recorder and detector, router, what the turns leave.
TypeOK == ControlOK /\ AudioOK /\ RequestOK /\ RecordOK

Init ==
  /\ config \in Config /\ pc = "prompt" /\ turn = 0
  /\ stream = FALSE /\ frames = 0 /\ at = 1 /\ voiced = {} /\ current = <<>> /\ silence = 0 /\ speech = <<>>
  /\ session = NewSession /\ text = NoText /\ found = NotScanned /\ sent = {} /\ entry = {} /\ result = "none"
  /\ rows = {} /\ told = [t \in Turn |-> "none"] /\ spoken = {} /\ posted = {} /\ died = {}

Goto(p) == pc' = p
Fail == Goto("show") /\ result' = "error"           \* a ParseError or VoicePipelineError
Die == Goto("dead") /\ died' = died \cup {turn}       \* any other exception

NewTurn == turn < MaxTurns /\ turn' = turn + 1

----------------------------------------------------------------------------
\* Recorder: AudioCapture and run_once.

\* run_pipe and run_repl read a line; empty ones are skipped.
Line ==
  /\ pc = "prompt" /\ ~config.voice /\ NewTurn
  /\ \E x \in Text : text' = x
  /\ Goto("scan")
  /\ UNCHANGED <<config, audio, session, found, sent, entry, result, record, died>>

\* start: the stream is assigned before it is started.
Record ==
  /\ pc = "prompt" /\ config.voice /\ NewTurn
  /\ \/ ~stream /\ stream' = TRUE /\ Goto("recording") /\ UNCHANGED died
     \/ stream' \in {stream, TRUE} /\ Goto("dead") /\ died' = died \cup {turn'}
  /\ UNCHANGED <<config, frames, at, voiced, current, silence, speech, request, result, record>>

\* _callback, in the audio thread.
Callback ==
  /\ pc = "recording" /\ frames < MaxFrames
  /\ frames' = frames + 1
  /\ UNCHANGED <<config, pc, turn, stream, at, voiced, current, silence, speech, request, result, record, died>>

\* stop: at Enter; or at Ctrl+C, or with a stream that fails, which ends the process.
Stop ==
  /\ pc = "recording"
  /\ \/ /\ stream' = FALSE
        /\ IF frames < MinSpeech THEN Fail ELSE Goto("vad") /\ UNCHANGED result
        /\ UNCHANGED died
     \/ stream' \in BOOLEAN /\ Die /\ UNCHANGED result
  /\ UNCHANGED <<config, turn, frames, at, voiced, current, silence, speech, request, record>>

----------------------------------------------------------------------------
\* Voice activity detector: extract_speech.

\* One frame: speech, or silence after speech, or silence before any.
Frame ==
  /\ pc = "vad" /\ at <= frames
  /\ at' = at + 1
  /\ \/ /\ voiced' = voiced \cup {at}
        /\ current' = Append(current, at) /\ silence' = 0
        /\ UNCHANGED speech
     \/ /\ current = <<>>
        /\ UNCHANGED <<voiced, current, silence, speech>>
     \/ /\ current # <<>> /\ silence + 1 < Padding
        /\ current' = Append(current, at) /\ silence' = silence + 1
        /\ UNCHANGED <<voiced, speech>>
     \/ /\ current # <<>> /\ silence + 1 >= Padding
        /\ speech' = speech \o Append(current, at)
        /\ current' = <<>> /\ silence' = 0
        /\ UNCHANGED voiced
  /\ UNCHANGED <<config, pc, turn, stream, frames, request, result, record, died>>

\* A bug: what is still open at the end of the recording is lost.
Flush_Drops == speech

\* The segment still open at the end counts too.
Flush == speech \o current

\* The end of the recording, and the length check of _process.
Segmented ==
  /\ pc = "vad" /\ at > frames
  /\ speech' = Flush /\ current' = <<>>
  /\ IF Len(speech') < MinSpeech THEN Fail ELSE Goto("transcribe") /\ UNCHANGED result
  /\ UNCHANGED <<config, turn, stream, frames, at, voiced, silence, request, record, died>>

\* transcribe: a text, nothing, or an exception of the service.  The recording is gone.
Transcribe ==
  /\ pc = "transcribe"
  /\ frames' = 0 /\ at' = 1 /\ voiced' = {} /\ current' = <<>> /\ silence' = 0 /\ speech' = <<>>
  /\ \/ (\E x \in Text : text' = x) /\ Goto("scan") /\ UNCHANGED <<result, died>>
     \/ Fail /\ UNCHANGED <<text, died>>
     \/ Die /\ UNCHANGED <<text, result>>
  /\ UNCHANGED <<config, turn, stream, session, found, sent, entry, record>>

----------------------------------------------------------------------------
\* Router and extractor.

Send(to, m) == sent' = sent \cup {[to |-> to, clear |-> m.clear, hidden |-> m.hidden]}

\* anonymize, then the message of extract_time_entry or extract_delegation.  A
\* detector that fails ends the process before anything is sent.
Scan ==
  /\ pc = "scan"
  /\ \/ /\ ~config.shield
        /\ Send("extract", [clear |-> text.names, hidden |-> {}])
        /\ Goto("chat") /\ UNCHANGED <<session, found, died>>
     \/ /\ config.shield
        /\ \E reply \in SUBSET Entity : found' = [done |-> TRUE, names |-> Hits(text.names) \cup Spans(text.names, reply)]
        /\ session' \in Registered(session, found'.names)
        /\ Send("extract", Anonymised(session', text.names, found'.names))
        /\ Goto("chat") /\ UNCHANGED died
     \/ config.shield /\ Die /\ UNCHANGED <<session, found, sent>>
  /\ UNCHANGED <<config, turn, audio, text, entry, result, record>>

\* The model's answer names what it was sent; it may lack confidence or the key
\* field, or be no JSON, or no object, or not come.
Chat ==
  /\ pc = "chat"
  /\ \/ /\ \E m \in sent : \E c \in SUBSET m.clear : \E h \in SUBSET m.hidden :
             entry' = IF config.shield THEN Deanonymised(session, c, h) ELSE c
        /\ Goto("store") \/ Goto("clarify")
        /\ UNCHANGED <<result, died>>
     \/ Fail /\ UNCHANGED <<entry, died>>
     \/ Die /\ UNCHANGED <<entry, result>>
  /\ UNCHANGED <<config, turn, audio, session, text, found, sent, record>>

\* clarify sends the cloud model the entry with its raw transcript, or the names of
\* the delegation.
Clarify ==
  /\ pc = "clarify"
  /\ Send("clarify", [clear |-> IF text.intent = "time_entry" THEN text.names \cup entry ELSE entry, hidden |-> {}])
  /\ \/ result' = "clarify" /\ Goto("confirm") /\ UNCHANGED died
     \/ Die /\ UNCHANGED result
  /\ UNCHANGED <<config, turn, audio, session, text, found, entry, record>>

\* add of either store: one INSERT.
Store ==
  /\ pc = "store"
  /\ \/ /\ rows' = rows \cup {[turn |-> turn, names |-> entry, said |-> text.names]}
        /\ result' = "stored" /\ Goto("confirm") /\ UNCHANGED died
     \/ Die /\ UNCHANGED <<rows, result>>
  /\ UNCHANGED <<config, turn, audio, request, told, spoken, posted>>

----------------------------------------------------------------------------
\* What the user and the webhook get.

Aloud == config.voice /\ config.tts

\* A bug: main.py prints every exception as an error.
Unspoken_Told == Fail /\ UNCHANGED died

\* A SpeakerError, which main.py does not catch.
Unspoken == Die /\ UNCHANGED result

\* _confirm: speaks in voice mode, unless --no-tts.
Confirm ==
  /\ pc = "confirm"
  /\ \/ /\ spoken' = IF Aloud THEN spoken \cup {turn} ELSE spoken
        /\ Goto("show") /\ UNCHANGED <<result, died>>
     \/ Aloud /\ Unspoken /\ UNCHANGED spoken
  /\ UNCHANGED <<config, turn, audio, request, rows, told, posted>>

\* The locals of the turn are gone.
EndTurn ==
  /\ frames' = 0 /\ at' = 1 /\ voiced' = {} /\ current' = <<>> /\ silence' = 0 /\ speech' = <<>>
  /\ text' = NoText /\ found' = NotScanned /\ sent' = {} /\ entry' = {} /\ result' = "none"

\* The line the user reads.
Show ==
  /\ pc = "show"
  /\ told' = [told EXCEPT ![turn] = result]
  /\ IF config.voice /\ config.webhook /\ result # "error"
     THEN Goto("post") /\ UNCHANGED <<frames, at, voiced, current, silence, speech, text, found, sent, entry, result>>
     ELSE Goto("prompt") /\ EndTurn
  /\ UNCHANGED <<config, turn, stream, session, rows, spoken, posted, died>>

\* webhook.post never raises.
Post ==
  /\ pc = "post"
  /\ posted' \in {posted, posted \cup {turn}}
  /\ Goto("prompt") /\ EndTurn
  /\ UNCHANGED <<config, turn, stream, session, rows, told, spoken, died>>

----------------------------------------------------------------------------
\* The process.

\* End of input; in voice mode the day's summary is spoken first.
Quit ==
  /\ pc = "prompt"
  /\ Goto("over")
  /\ UNCHANGED <<config, turn, audio, request, result, record, died>>

Kill ==
  /\ pc \notin Down \cup {"prompt"}
  /\ Die
  /\ UNCHANGED <<config, turn, audio, request, result, record>>

\* A new process: a new recorder and a new session over the same stores.
Launch ==
  /\ pc \in Down /\ turn < MaxTurns
  /\ Goto("prompt") /\ EndTurn
  /\ stream' = FALSE /\ session' = NewSession
  /\ UNCHANGED <<config, turn, record, died>>

Next ==
  \/ Line \/ Record \/ Callback \/ Stop \/ Frame \/ Segmented \/ Transcribe
  \/ Scan \/ Chat \/ Clarify \/ Store \/ Confirm \/ Show \/ Post
  \/ Quit \/ Kill \/ Launch

Spec == Init /\ [][Next]_vars

----------------------------------------------------------------------------

\* What the extractor is asked goes to the cloud model only after the shield has
\* scanned it, and names in clear nothing that scan has found, nothing an earlier
\* scan of this process has found if this one has found anything.
ShieldHolds ==
  \A m \in sent : m.to = "extract" /\ config.shield =>
    /\ found.done
    /\ m.clear \cap found.names = {}
    /\ found.names # {} => \A e \in m.clear : session[e] = Unknown

\* Under the shield no name its scan has found reaches the cloud model, in whatever
\* message.
RawStaysHome ==
  \A m \in sent : config.shield => m.clear \cap found.names = {}

\* What a process stores under the shield names what was said and nothing else, as
\* long as no kind of placeholder has reached a number of two digits.
NamesRestored ==
  [][\A r \in rows' \ rows : Uncrowded(session) => r.names \subseteq r.said]_vars

\* The speaker and the webhook never report what is not in the store, the webhook
\* never goes ahead of the speaker, and a row the user was not told of is that of the
\* current turn or of one in which the process ended.
ToldTheTruth ==
  LET Stored == {r.turn : r \in rows}
      Now == IF pc \in Down \cup {"prompt"} THEN {} ELSE {turn}
  IN /\ \A t \in Turn : told[t] = "stored" => t \in Stored
     /\ \A t \in Turn : told[t] \in {"error", "clarify"} => t \notin Stored
     /\ \A t \in spoken \cup posted : told[t] \in {"stored", "clarify"} \/ t \in died \cup Now
     /\ Aloud => posted \subseteq spoken
     /\ Stored \subseteq {t \in Turn : told[t] = "stored"} \cup died \cup Now

Increasing(s) == \A i, j \in 1 .. Len(s) : i < j => s[i] < s[j]
Elements(s) == {s[i] : i \in 1 .. Len(s)}

\* The detector hands on every frame with speech, each once and in order, and begins
\* no segment in silence.
VoicedKept ==
  LET kept == speech \o current
  IN /\ Increasing(kept)
     /\ voiced \subseteq Elements(kept)
     /\ kept # <<>> => kept[1] \in voiced

=============================================================================
