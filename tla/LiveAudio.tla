------------------------------- MODULE LiveAudio -------------------------------
(***************************************************************************)
(* Live audio of one class: the tabs that can publish it, the WebSocket    *)
(* handlers that take its frames, the speech provider, and the recording   *)
(* and LIVE transcript rows that the handlers write.                       *)
(*                                                                         *)
(* A handler takes one frame at a time, in several transactions: the       *)
(* received watermark, then the provider's answer, one transaction per     *)
(* final utterance, the processed watermark, the ACK.  A socket that broke *)
(* leaves its handler running while the tab connects again.                *)
(*                                                                         *)
(* Sequences are one higher than in the code: 0 stands for -1 and null.    *)
(* Utterances are named by the frame in which they begin.                  *)
(***************************************************************************)
EXTENDS Naturals, Sequences, FiniteSets

CONSTANTS
    Tab,         \* tabs of the professor, each with its client_stream_id
    Socket,      \* handlers that can run at the same time
    MaxFrame,    \* bound: frames one tab captures
    Window,      \* frames the tab can keep (10 in the code)
    MaxBreak     \* bound: lost connections, reloads and restarts

Frame == 1 .. MaxFrame
NoFrame == 0

ASSUME AudioBounds == MaxFrame \in Nat /\ Window \in Nat \ {0} /\ MaxBreak \in Nat

VARIABLES
    session,     \* LectureSession.status
    recording,   \* the SessionRecording row
    version,     \* status of the LIVE TranscriptVersion
    segments,    \* its TranscriptSegments in order of sequence, by utterance
    missing,     \* frames inside a SEQUENCE_GAP
    dropped,     \* utterances inside a final BACKPRESSURE_DROP gap
    marks,       \* reasons of the empty gaps that a refused resume leaves
    handler,     \* every running session_audio_websocket
    tab,         \* every LiveAudioPublisher
    taken,       \* history: how often a frame was taken as new
    understood,  \* history: frames the provider answered for
    persisted,   \* history: utterances persist_final committed for
    breaks       \* connections lost so far

rows == <<session, recording, version, segments, missing, dropped, marks>>
history == <<taken, understood, persisted>>
vars == <<rows, handler, tab, history, breaks>>

-----------------------------------------------------------------------------
(* Types *)

Watermark == 0 .. MaxFrame
NoTab == "none"
Recording == [status : {"none", "CAPTURING", "UPLOAD_PENDING"}, stream : Tab \cup {NoTab},
              received : Watermark, processed : Watermark]

(* wire is the frame the tab has sent and the handler has not read; finals  *)
(* are the utterances of the answer that still have to be persisted.        *)
Handler == [at : {"none", "started", "loop", "handed", "answered"}, tab : Tab \cup {NoTab},
            resume : Watermark, wire : Watermark, frame : Watermark, finals : SUBSET Frame]
NoHandler == [at |-> "none", tab |-> NoTab, resume |-> 0, wire |-> 0, frame |-> 0, finals |-> {}]

(* next and received survive a reload in sessionStorage.  mic says that the *)
(* microphone is being captured.                                            *)
Publisher == [at : {"off", "connecting", "ready", "blocked"}, socket : Socket \cup {"none"},
              next : 1 .. MaxFrame + 1, received : Watermark, frames : SUBSET Frame,
              sent : Watermark, mic : BOOLEAN]

TypeOK ==
    /\ session \in {"LIVE", "PROCESSING", "COMPLETED"}
    /\ recording \in Recording /\ recording.processed <= recording.received
    /\ version \in {"FINALIZING", "FINALIZED", "EMPTY"}
    /\ segments \in Seq(Frame)
    /\ missing \subseteq Frame /\ dropped \subseteq Frame
    /\ marks \subseteq {"SEQUENCE_GAP", "SERVER_STATE_LOST"}
    /\ handler \in [Socket -> Handler]
    /\ tab \in [Tab -> Publisher]
    /\ taken \in [Frame -> Nat]
    /\ understood \subseteq Frame /\ persisted \subseteq Frame
    /\ breaks \in 0 .. MaxBreak

Init ==
    /\ session = "LIVE" /\ version = "FINALIZING"
    /\ recording = [status |-> "none", stream |-> NoTab, received |-> 0, processed |-> 0]
    /\ segments = <<>> /\ missing = {} /\ dropped = {} /\ marks = {}
    /\ handler = [k \in Socket |-> NoHandler]
    /\ tab = [t \in Tab |-> [at |-> "off", socket |-> "none", next |-> 1, received |-> 0,
                             frames |-> {}, sent |-> 0, mic |-> FALSE]]
    /\ taken = [f \in Frame |-> 0] /\ understood = {} /\ persisted = {}
    /\ breaks = 0

Lower(a, b) == IF a < b THEN a ELSE b
Least(S) == CHOOSE x \in S : \A y \in S : x <= y
Owns(k) == handler[k].tab # NoTab /\ tab[handler[k].tab].socket = k

-----------------------------------------------------------------------------
(* LiveAudioPublisher *)

(* start and openSocket with a ticket, which is issued and consumed only    *)
(* while the class is LIVE.  The professor may start a blocked tab again.   *)
Connect(t, k) ==
    /\ tab[t].at \in {"off", "blocked"} /\ handler[k].at = "none" /\ session = "LIVE"
    /\ tab' = [tab EXCEPT ![t].at = "connecting", ![t].socket = k, ![t].sent = NoFrame]
    /\ handler' = [handler EXCEPT ![k] =
                    [NoHandler EXCEPT !.at = "started", !.tab = t, !.resume = tab[t].received]]
    /\ UNCHANGED <<rows, history, breaks>>

(* capture: a full window loses its oldest frame, the one in flight too.    *)
Kept(frames) == IF Cardinality(frames) > Window THEN frames \ {Least(frames)} ELSE frames

(* The microphone runs from the first audio.ready until the publisher stops *)
(* or is blocked; reconnecting does not pause it.                           *)
Capture(t) ==
    /\ tab[t].mic /\ tab[t].next <= MaxFrame
    /\ tab' = [tab EXCEPT ![t].next = @ + 1, ![t].frames = Kept(@ \cup {tab[t].next})]
    /\ UNCHANGED <<rows, handler, history, breaks>>

(* flushFrames with maxInFlight = 1.                                        *)
SendFrame(t) ==
    LET pending == {f \in tab[t].frames : f > tab[t].received} IN
    /\ tab[t].at = "ready" /\ tab[t].sent = NoFrame /\ pending # {}
    /\ tab' = [tab EXCEPT ![t].sent = Least(pending)]
    /\ handler' = [handler EXCEPT ![tab[t].socket].wire = Least(pending)]
    /\ UNCHANGED <<rows, history, breaks>>

(* receiveControl: audio.ready, audio.ack and audio.stopped set the client's *)
(* watermark to the server's and drop the frames it covers.                 *)
Confirmed(p, received) ==
    [p EXCEPT !.received = received, !.frames = {f \in @ : f > received},
              !.sent = IF @ <= received THEN NoFrame ELSE @]

Off(p) == [p EXCEPT !.at = IF @ = "blocked" THEN @ ELSE "off", !.socket = "none", !.sent = NoFrame]
Silent(p) == [Off(p) EXCEPT !.mic = FALSE]

(* The socket breaks; what the handler does next reaches nobody.            *)
Break(t) ==
    /\ tab[t].socket # "none" /\ breaks < MaxBreak
    /\ tab' = [tab EXCEPT ![t] = Off(@)]
    /\ breaks' = breaks + 1
    /\ UNCHANGED <<rows, handler, history>>

(* The page is loaded again: frames in memory are gone, and so is a block.  *)
Reload(t) ==
    /\ breaks < MaxBreak
    /\ tab' = [tab EXCEPT ![t] = [Silent(@) EXCEPT !.at = "off", !.frames = {}]]
    /\ breaks' = breaks + 1
    /\ UNCHANGED <<rows, handler, history>>

-----------------------------------------------------------------------------
(* session_audio_websocket *)

Close(k) == handler' = [handler EXCEPT ![k] = NoHandler]

(* A message after which the publisher gives up and the server closes:      *)
(* audio.resume_rejected and AUDIO_PUBLISHER_CONFLICT.                      *)
Refuse(k) ==
    /\ Close(k)
    /\ tab' = IF Owns(k)
              THEN [tab EXCEPT ![handler[k].tab] = [Silent(@) EXCEPT !.at = "blocked"]] ELSE tab

(* claim_publisher, in the order of its checks; what it raises and whether  *)
(* the handler records a gap for it.                                        *)
Claimable(h) ==
    IF session # "LIVE" THEN "closing"
    ELSE IF recording.status = "none"
    THEN IF h.resume = 0 THEN "new" ELSE "rejected"
    ELSE IF recording.stream # h.tab THEN "conflict"
    ELSE IF recording.status # "CAPTURING" THEN "closing"
    ELSE IF h.resume # recording.received THEN "rejected"
    ELSE IF recording.processed < recording.received THEN "state_lost"
    ELSE "resumed"

Ready(k) ==
    /\ handler' = [handler EXCEPT ![k].at = "loop"]
    /\ tab' = IF Owns(k)
              THEN [tab EXCEPT ![handler[k].tab] =
                        [Confirmed(@, recording'.received) EXCEPT !.at = "ready", !.mic = TRUE]] ELSE tab

Claim(k) ==
    /\ handler[k].at = "started"
    /\ \/ /\ Claimable(handler[k]) = "new"
          /\ recording' = [status |-> "CAPTURING", stream |-> handler[k].tab,
                           received |-> 0, processed |-> 0]
          /\ Ready(k)
       \/ /\ Claimable(handler[k]) = "resumed"
          /\ UNCHANGED recording
          /\ Ready(k)
    /\ UNCHANGED <<session, version, segments, missing, dropped, marks, history, breaks>>

(* record_resume_rejection: a gap of no length, if there is a recording.    *)
RefuseClaim(k) ==
    /\ handler[k].at = "started"
    /\ Claimable(handler[k]) \in {"closing", "conflict", "rejected", "state_lost"}
    /\ marks' = IF recording.status = "none" THEN marks
                ELSE marks \cup
                    (CASE Claimable(handler[k]) = "rejected" -> {"SEQUENCE_GAP"}
                       [] Claimable(handler[k]) = "state_lost" -> {"SERVER_STATE_LOST"}
                       [] OTHER -> {})
    /\ Refuse(k)
    /\ UNCHANGED <<session, recording, version, segments, missing, dropped, history, breaks>>

Capturing == session = "LIVE" /\ recording.status = "CAPTURING"

(* audio.ack: the handler goes on to the next frame, or ends if the socket  *)
(* it would write to is gone.                                               *)
Ack(k, received) ==
    IF Owns(k)
    THEN /\ handler' = [handler EXCEPT ![k].at = "loop", ![k].wire = 0, ![k].frame = 0]
         /\ tab' = [tab EXCEPT ![handler[k].tab] = Confirmed(@, received)]
    ELSE Close(k) /\ UNCHANGED tab

(* Bug: one lost frame is not a gap.                                        *)
SkippedBeyondOne(f) == IF recording.received = 0 THEN {} ELSE recording.received + 2 .. f - 1

(* accept_frame for a new frame: the watermark moves before the provider    *)
(* hears it, and frames it skips become a gap, but not before the first.    *)
Skipped(f) == IF recording.received = 0 THEN {} ELSE recording.received + 1 .. f - 1

(* Bug: a frame is a duplicate once it is processed, not once it is taken.  *)
Unprocessed(f) == f > recording.processed

Fresh(f) == f > recording.received

Accept(k) ==
    LET f == handler[k].wire IN
    /\ handler[k].at = "loop" /\ f # NoFrame /\ Capturing /\ Fresh(f)
    /\ missing' = missing \cup Skipped(f)
    /\ recording' = [recording EXCEPT !.received = f]
    /\ taken' = [taken EXCEPT ![f] = @ + 1]
    /\ handler' = [handler EXCEPT ![k].at = "handed", ![k].frame = f, ![k].wire = 0]
    /\ UNCHANGED <<session, version, segments, dropped, marks, tab, understood, persisted, breaks>>

(* accept_frame for a frame at or below the watermark: ACK and no more.     *)
Duplicate(k) ==
    LET f == handler[k].wire IN
    /\ handler[k].at = "loop" /\ f # NoFrame /\ Capturing /\ ~Fresh(f)
    /\ Ack(k, recording.received)
    /\ UNCHANGED <<rows, history, breaks>>

(* LiveAudioSessionClosingError from accept_frame.                          *)
RefuseFrame(k) ==
    /\ handler[k].at = "loop" /\ handler[k].wire # NoFrame /\ ~Capturing
    /\ Refuse(k)
    /\ UNCHANGED <<rows, history, breaks>>

(* The provider times out or fails: STT_UNAVAILABLE, and the ACK of the     *)
(* frame with the processed watermark where it was.                         *)
ProviderFails(k) ==
    /\ handler[k].at = "handed"
    /\ Ack(k, handler[k].frame)
    /\ UNCHANGED <<rows, history, breaks>>

(* The provider answers.  A final may come for the utterance of this frame  *)
(* or of the one before, and may come again.                                *)
ProviderAnswers(k) ==
    /\ handler[k].at = "handed"
    /\ \E finals \in SUBSET ({handler[k].frame - 1, handler[k].frame} \cap Frame) :
        handler' = [handler EXCEPT ![k].at = "answered", ![k].finals = finals]
    /\ understood' = understood \cup {handler[k].frame}
    /\ UNCHANGED <<rows, tab, taken, persisted, breaks>>

(* Bug: a final is not looked up by its utterance.                          *)
AlwaysNew(u) == TRUE

(* persist_final: a late final becomes a gap while the class is PROCESSING; *)
(* a new one becomes the next segment, unless its utterance has one.        *)
IsNew(u) == \A i \in DOMAIN segments : segments[i] # u

Persist(k) ==
    LET u == Least(handler[k].finals) IN
    /\ handler[k].at = "answered" /\ handler[k].finals # {} /\ session # "COMPLETED"
    /\ handler' = [handler EXCEPT ![k].finals = @ \ {u}]
    /\ dropped' = IF recording.status # "CAPTURING" /\ session = "PROCESSING"
                  THEN dropped \cup {u} ELSE dropped
    /\ segments' = IF recording.status = "CAPTURING" /\ version = "FINALIZING" /\ IsNew(u)
                   THEN Append(segments, u) ELSE segments
    /\ persisted' = persisted \cup {u}
    /\ UNCHANGED <<session, recording, version, missing, marks, tab, taken, understood, breaks>>

(* persist_final once the class is COMPLETED: the error ends the handler.   *)
PersistTooLate(k) ==
    /\ handler[k].at = "answered" /\ handler[k].finals # {} /\ session = "COMPLETED"
    /\ Close(k)
    /\ tab' = IF Owns(k) THEN [tab EXCEPT ![handler[k].tab] = Off(@)] ELSE tab
    /\ UNCHANGED <<rows, history, breaks>>

(* mark_processed and the ACK; it looks at nothing but the recording.       *)
Processed(f) ==
    IF f > recording.processed THEN Lower(f, recording.received) ELSE recording.processed

MarkProcessed(k) ==
    /\ handler[k].at = "answered" /\ handler[k].finals = {}
    /\ recording' = [recording EXCEPT !.processed = Processed(handler[k].frame)]
    /\ Ack(k, recording.received)
    /\ UNCHANGED <<session, version, segments, missing, dropped, marks, history, breaks>>

(* audio.stop after the frames sent before it: the answer carries the       *)
(* received watermark, and the tab may start again.                         *)
Stop(t) ==
    LET k == tab[t].socket IN
    /\ tab[t].at = "ready" /\ handler[k].at = "loop" /\ handler[k].wire = NoFrame
    /\ tab' = [tab EXCEPT ![t] = Silent(Confirmed(@, recording.received))]
    /\ Close(k)
    /\ UNCHANGED <<rows, history, breaks>>

(* A handler that waits for a message reads that its socket is closed.      *)
Disconnected(k) ==
    /\ handler[k].at = "loop" /\ ~Owns(k)
    /\ Close(k)
    /\ UNCHANGED <<rows, tab, history, breaks>>

-----------------------------------------------------------------------------
(* The class, and the server *)

(* SessionService.end *)
End ==
    /\ session = "LIVE"
    /\ session' = "PROCESSING"
    /\ version' = IF segments = <<>> THEN "EMPTY" ELSE "FINALIZED"
    /\ recording' = IF recording.status = "CAPTURING"
                    THEN [recording EXCEPT !.status = "UPLOAD_PENDING"] ELSE recording
    /\ UNCHANGED <<segments, missing, dropped, marks, handler, tab, history, breaks>>

(* Post-processing ends, see SessionPostprocessing.                         *)
Complete ==
    /\ session = "PROCESSING"
    /\ session' = "COMPLETED"
    /\ UNCHANGED <<recording, version, segments, missing, dropped, marks, handler, tab,
                   history, breaks>>

Restart ==
    /\ breaks < MaxBreak
    /\ breaks' = breaks + 1
    /\ handler' = [k \in Socket |-> NoHandler]
    /\ tab' = [t \in Tab |-> Off(tab[t])]
    /\ UNCHANGED <<rows, history>>

-----------------------------------------------------------------------------
(* Specification *)

Next ==
    \/ \E t \in Tab :
        (\E k \in Socket : Connect(t, k)) \/ Capture(t) \/ SendFrame(t) \/ Break(t)
            \/ Reload(t) \/ Stop(t)
    \/ \E k \in Socket :
        \/ Claim(k) \/ RefuseClaim(k) \/ Accept(k) \/ Duplicate(k) \/ RefuseFrame(k)
        \/ ProviderFails(k) \/ ProviderAnswers(k) \/ Persist(k) \/ PersistTooLate(k)
        \/ MarkProcessed(k) \/ Disconnected(k)
    \/ End \/ Complete \/ Restart

Spec == Init /\ [][Next]_vars

-----------------------------------------------------------------------------
(* Properties *)

(* No frame goes to the provider twice, although a tab that reconnects      *)
(* sends again what an old handler of its may be taking at that moment.     *)
FrameTakenOnce == \A f \in Frame : taken[f] <= 1

(* From the first frame taken, every frame up to the received watermark was *)
(* taken or lies in a gap: sound never disappears from the time line.       *)
SkippedSoundHasGap ==
    \A f \in 1 .. recording.received :
        (\E g \in 1 .. f : taken[g] > 0) => taken[f] > 0 \/ f \in missing

(* A final that persist_final committed for is one segment, or, when the    *)
(* class had ended before, a gap; a repeated final adds no segment, and a   *)
(* transcript that was closed as EMPTY or FINALIZED stays as it was closed. *)
FinalsKeptOnce ==
    /\ \A u \in persisted : u \in dropped \/ \E i \in DOMAIN segments : segments[i] = u
    /\ \A i, j \in DOMAIN segments : segments[i] = segments[j] => i = j
    /\ version = "EMPTY" => segments = <<>>

(* mark_processed's docstring: "Advance only after a provider accepted the  *)
(* frame" (services/live_audio.py, line 245).                               *)
ProcessedWasAccepted ==
    \A f \in 1 .. recording.processed : taken[f] > 0 => f \in understood
=============================================================================
