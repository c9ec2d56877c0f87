---------------------------- MODULE LiveClass_proofs ----------------------------
(***************************************************************************)
(* The two channels of a live class.  AudioInv is an inductive invariant   *)
(* of LiveAudio, for any number of tabs, handlers and frames and any       *)
(* window: from it follow that a frame is taken once, that skipped sound   *)
(* has a gap, and that finals are kept.  EventsInv is one of               *)
(* RealtimeEvents, for any number of writers, browsers and events and any  *)
(* limits: members are told only of what committed, no page goes back to   *)
(* an older version of the class, and nothing is dropped on the way.       *)
(***************************************************************************)
EXTENDS LiveAudio, SequenceTheorems, FiniteSetTheorems, WellFoundedInduction, TLAPS

-----------------------------------------------------------------------------
(* Live audio *)

(* TypeOK in the parts that an action can leave alone. *)
RowsTyped ==
    /\ session \in {"LIVE", "PROCESSING", "COMPLETED"}
    /\ recording \in Recording /\ recording.processed <= recording.received
    /\ version \in {"FINALIZING", "FINALIZED", "EMPTY"}
    /\ segments \in Seq(Frame)
    /\ missing \subseteq Frame /\ dropped \subseteq Frame
    /\ marks \subseteq {"SEQUENCE_GAP", "SERVER_STATE_LOST"}

HandlersTyped == handler \in [Socket -> Handler]

TabsTyped == tab \in [Tab -> Publisher]

HistoryTyped ==
    /\ taken \in [Frame -> Nat]
    /\ understood \subseteq Frame /\ persisted \subseteq Frame
    /\ breaks \in 0 .. MaxBreak

LEMMA TypeParts == TypeOK <=> RowsTyped /\ HandlersTyped /\ TabsTyped /\ HistoryTyped
BY DEF TypeOK, RowsTyped, HandlersTyped, TabsTyped, HistoryTyped

Working(k) == handler[k].at \in {"loop", "handed", "answered"}

(* A handler works for a recording that exists, and computes a real frame.  *)
HandlersFit ==
    \A k \in Socket :
        /\ Working(k) => recording.status # "none"
        /\ handler[k].at \in {"handed", "answered"} => handler[k].frame # NoFrame

(* The recording is captured while the class is LIVE and its transcript     *)
(* open, and only then.                                                     *)
RecordingFits ==
    /\ recording.status = "none" => recording.received = 0
    /\ recording.status = "CAPTURING" => session = "LIVE"
    /\ session = "LIVE" => version = "FINALIZING" /\ recording.status \in {"none", "CAPTURING"}

(* The received watermark is never behind a frame that was taken. *)
TakenBelow == \A f \in Frame : taken[f] > 0 => f <= recording.received

AudioInv ==
    /\ TypeOK /\ HandlersFit /\ RecordingFits /\ TakenBelow
    /\ FrameTakenOnce /\ SkippedSoundHasGap /\ FinalsKeptOnce

-----------------------------------------------------------------------------
(* Operators *)

LEMMA LeastOf ==
    ASSUME NEW S \in SUBSET Frame, S # {}
    PROVE  Least(S) \in S /\ \A y \in S : Least(S) <= y
<1>1. S \in SUBSET Nat
  BY AudioBounds DEF Frame
<1>2. \E x \in S : \A y \in S : ~ (<<y, x>> \in OpToRel(<, Nat))
  BY <1>1, NatLessThanWellFounded, WFMin
<1>3. \A x, y \in Nat : y < x => <<y, x>> \in OpToRel(<, Nat)
  BY DEF OpToRel
<1>4. \E x \in S : \A y \in S : x <= y
  <2>1. PICK x \in S : \A y \in S : ~ (<<y, x>> \in OpToRel(<, Nat))
    BY <1>2
  <2>2. ASSUME NEW y \in S PROVE x <= y
    <3>1. ~ (y < x)
      BY <1>1, <1>3, <2>1
    <3>2. x \in Nat /\ y \in Nat
      BY <1>1
    <3> QED BY <3>1, <3>2
  <2> QED BY <2>2
<1> QED BY <1>4 DEF Least

LEMMA NoHandlerTyped == NoHandler \in Handler /\ NoHandler.at = "none"
BY AudioBounds DEF NoHandler, Handler, Watermark

LEMMA OffTyped ==
    ASSUME NEW p \in Publisher
    PROVE  Off(p) \in Publisher /\ Silent(p) \in Publisher
<1> DEFINE at == IF p.at = "blocked" THEN "blocked" ELSE "off"
<1>1. Off(p) \in Publisher
  <2>1. 0 \in Watermark
    BY AudioBounds DEF Watermark
  <2>2. Off(p) = [p EXCEPT !.at = at, !.socket = "none", !.sent = 0]
    BY DEF Off, NoFrame, Publisher
  <2>3. at \in {"off", "connecting", "ready", "blocked"}
    OBVIOUS
  <2> HIDE DEF Watermark, Frame, at
  <2> QED BY <2>1, <2>2, <2>3 DEF Publisher
<1>2. Silent(p) \in Publisher
  BY <1>1 DEF Silent, Publisher
<1> QED BY <1>1, <1>2

LEMMA ConfirmedTyped ==
    ASSUME NEW p \in Publisher, NEW r \in Watermark
    PROVE  Confirmed(p, r) \in Publisher
<1>1. 0 \in Watermark /\ {f \in p.frames : f > r} \in SUBSET Frame
  BY AudioBounds DEF Watermark, Publisher
<1>2. (IF p.sent <= r THEN NoFrame ELSE p.sent) \in Watermark
  BY <1>1 DEF Publisher, NoFrame
<1> HIDE DEF Watermark, Frame
<1> QED BY <1>1, <1>2 DEF Confirmed, Publisher

(* A handler that is closed keeps the others as they are. *)
LEMMA CloseTyped ==
    ASSUME HandlersTyped, HandlersFit, NEW k \in Socket, Close(k), UNCHANGED recording
    PROVE  HandlersTyped' /\ HandlersFit'
BY NoHandlerTyped DEF HandlersTyped, HandlersFit, Close, Working

LEMMA RefuseTyped ==
    ASSUME HandlersTyped, HandlersFit, TabsTyped, NEW k \in Socket, Refuse(k), UNCHANGED recording
    PROVE  HandlersTyped' /\ HandlersFit' /\ TabsTyped'
<1>1. HandlersTyped' /\ HandlersFit'
  BY CloseTyped DEF Refuse
<1>2. TabsTyped'
  <2>1. ASSUME NEW p \in Publisher PROVE [Silent(p) EXCEPT !.at = "blocked"] \in Publisher
    BY <2>1, OffTyped DEF Publisher
  <2>2. handler[k].tab \in Tab \cup {NoTab}
    BY DEF HandlersTyped, Handler
  <2> QED BY <2>1, <2>2 DEF TabsTyped, Refuse, Owns
<1> QED BY <1>1, <1>2

(* The status of a recording that exists may change, but it stays. *)
LEMMA AckTyped ==
    ASSUME HandlersTyped, HandlersFit, TabsTyped, NEW k \in Socket, NEW r \in Watermark,
           Ack(k, r), Working(k), recording'.status = recording.status
    PROVE  HandlersTyped' /\ HandlersFit' /\ TabsTyped'
<1>1. CASE Owns(k)
  <2>1. HandlersTyped'
    BY <1>1, AudioBounds DEF HandlersTyped, Handler, Ack, Watermark
  <2>2. HandlersFit'
    <3>1. handler[k] \in Handler
      BY DEF HandlersTyped
    <3>2. handler'[k].at = "loop"
      BY <1>1, <3>1 DEF HandlersTyped, Handler, Ack
    <3>3. \A j \in Socket : j # k => handler'[j] = handler[j]
      BY <1>1 DEF HandlersTyped, Ack
    <3> QED BY <3>2, <3>3 DEF HandlersFit, Working
  <2>3. handler[k].tab \in Tab \cup {NoTab}
    BY DEF HandlersTyped, Handler
  <2>4. TabsTyped'
    BY <1>1, <2>3, ConfirmedTyped DEF TabsTyped, Ack, Owns
  <2> QED BY <2>1, <2>2, <2>4
<1>2. CASE ~Owns(k)
  BY <1>2, NoHandlerTyped DEF HandlersTyped, HandlersFit, TabsTyped, Ack, Close, Working
<1> QED BY <1>1, <1>2

LEMMA ReadyTyped ==
    ASSUME HandlersTyped, HandlersFit, TabsTyped, NEW k \in Socket, Ready(k),
           handler[k].at = "started", recording' \in Recording, recording'.status # "none"
    PROVE  HandlersTyped' /\ HandlersFit' /\ TabsTyped'
<1>1. HandlersTyped'
  BY DEF HandlersTyped, Handler, Ready
<1>2. HandlersFit'
  BY DEF HandlersTyped, HandlersFit, Ready, Working
<1>3. TabsTyped'
  <2>1. recording'.received \in Watermark
    BY DEF Recording
  <2>2. ASSUME NEW p \in Publisher
        PROVE  [Confirmed(p, recording'.received) EXCEPT !.at = "ready", !.mic = TRUE] \in Publisher
    BY <2>1, <2>2, ConfirmedTyped DEF Publisher
  <2>3. handler[k].tab \in Tab \cup {NoTab}
    BY DEF HandlersTyped, Handler
  <2> QED BY <2>2, <2>3 DEF TabsTyped, Ready, Owns
<1> QED BY <1>1, <1>2, <1>3

(* What an action that leaves the rows alone must show. *)
LEMMA RowsStay ==
    ASSUME AudioInv, HandlersTyped', TabsTyped', HandlersFit', UNCHANGED <<rows, taken, persisted>>,
           understood' \subseteq Frame, breaks' \in 0 .. MaxBreak
    PROVE  AudioInv'
<1>1. TypeOK'
  BY DEF AudioInv, TypeOK, HandlersTyped, TabsTyped, rows
<1> QED BY <1>1 DEF AudioInv, RecordingFits, TakenBelow, FrameTakenOnce, SkippedSoundHasGap,
                    FinalsKeptOnce, rows

LEMMA InitHolds == Init => AudioInv
<1> SUFFICES ASSUME Init PROVE AudioInv
  OBVIOUS
<1>1. RowsTyped
  BY AudioBounds DEF Init, RowsTyped, Recording, Watermark
<1>2. HandlersTyped
  BY NoHandlerTyped DEF Init, HandlersTyped
<1>3. TabsTyped
  BY AudioBounds DEF Init, TabsTyped, Publisher, Watermark
<1>4. HistoryTyped
  BY AudioBounds DEF Init, HistoryTyped
<1>5. HandlersFit /\ RecordingFits
  BY NoHandlerTyped DEF Init, HandlersFit, RecordingFits, Working
<1>6. TakenBelow /\ FrameTakenOnce /\ SkippedSoundHasGap
  BY DEF Init, TakenBelow, FrameTakenOnce, SkippedSoundHasGap
<1>7. FinalsKeptOnce
  BY DEF Init, FinalsKeptOnce
<1> QED BY <1>1, <1>2, <1>3, <1>4, <1>5, <1>6, <1>7, TypeParts DEF AudioInv

-----------------------------------------------------------------------------
(* Actions of a tab *)

LEMMA ConnectStep ==
    ASSUME AudioInv, NEW t \in Tab, NEW k \in Socket, Connect(t, k)
    PROVE  AudioInv'
<1> DEFINE h == [NoHandler EXCEPT !.at = "started", !.tab = t, !.resume = tab[t].received]
<1>1. HandlersTyped /\ HandlersFit /\ TabsTyped /\ HistoryTyped
  BY TypeParts DEF AudioInv
<1>2. tab[t].received \in Watermark
  BY <1>1 DEF TabsTyped, Publisher
<1>3. h \in Handler /\ h.at = "started"
  <2> HIDE DEF Watermark, Frame, NoHandler
  <2> QED BY <1>2, NoHandlerTyped DEF Handler
<1>4. handler' = [handler EXCEPT ![k] = h]
  BY DEF Connect
<1> HIDE DEF h
<1>5. HandlersTyped' /\ HandlersFit'
  BY <1>1, <1>3, <1>4 DEF HandlersTyped, HandlersFit, Working, Connect, rows
<1>6. TabsTyped'
  <2>1. 0 \in Watermark
    BY AudioBounds DEF Watermark
  <2>2. tab' = [tab EXCEPT ![t] = [@ EXCEPT !.at = "connecting", !.socket = k, !.sent = 0]]
    BY <1>1 DEF TabsTyped, Publisher, Connect, NoFrame
  <2> HIDE DEF Watermark, Frame
  <2> QED BY <1>1, <2>1, <2>2 DEF TabsTyped, Publisher
<1> QED BY <1>1, <1>5, <1>6, RowsStay DEF Connect, history, HistoryTyped

LEMMA CaptureStep ==
    ASSUME AudioInv, NEW t \in Tab, Capture(t)
    PROVE  AudioInv'
<1>1. HandlersTyped /\ HandlersFit /\ TabsTyped /\ HistoryTyped
  BY TypeParts DEF AudioInv
<1>2. HandlersTyped' /\ HandlersFit'
  BY <1>1 DEF HandlersTyped, HandlersFit, Working, Capture, rows
<1>3. TabsTyped'
  <2>1. tab[t] \in Publisher /\ tab[t].next \in Frame /\ tab[t].next + 1 \in 1 .. MaxFrame + 1
    BY <1>1, AudioBounds DEF TabsTyped, Publisher, Capture, Frame
  <2>2. Kept(tab[t].frames \cup {tab[t].next}) \in SUBSET Frame
    BY <2>1 DEF Kept, Publisher
  <2>3. tab' = [tab EXCEPT ![t] = [@ EXCEPT !.next = tab[t].next + 1,
                                       !.frames = Kept(tab[t].frames \cup {tab[t].next})]]
    BY <1>1 DEF Capture, TabsTyped, Publisher
  <2> HIDE DEF Frame
  <2> QED BY <1>1, <2>1, <2>2, <2>3 DEF TabsTyped, Publisher
<1> QED BY <1>1, <1>2, <1>3, RowsStay DEF Capture, history, HistoryTyped

LEMMA SendFrameStep ==
    ASSUME AudioInv, NEW t \in Tab, SendFrame(t)
    PROVE  AudioInv'
<1> DEFINE pending == {f \in tab[t].frames : f > tab[t].received}
           first == Least(pending)
<1>1. HandlersTyped /\ HandlersFit /\ TabsTyped /\ HistoryTyped
  BY TypeParts DEF AudioInv
<1>2. pending \in SUBSET Frame /\ pending # {}
  BY <1>1 DEF TabsTyped, Publisher, SendFrame
<1>3. first \in Watermark
  <2>1. first \in Frame
    BY <1>2, LeastOf
  <2> QED BY <2>1 DEF Frame, Watermark
<1>4. /\ tab' = [tab EXCEPT ![t].sent = first]
      /\ handler' = [handler EXCEPT ![tab[t].socket].wire = first]
      /\ UNCHANGED <<rows, history, breaks>>
  BY DEF SendFrame
<1> HIDE DEF first
<1>5. HandlersTyped'
  BY <1>1, <1>3, <1>4 DEF HandlersTyped, Handler
<1>6. \A k \in Socket : handler'[k].at = handler[k].at /\ handler'[k].frame = handler[k].frame
  BY <1>1, <1>4 DEF HandlersTyped, Handler
<1>7. HandlersFit'
  BY <1>1, <1>4, <1>6 DEF HandlersFit, Working, rows
<1>8. TabsTyped'
  BY <1>1, <1>3, <1>4 DEF TabsTyped, Publisher
<1> QED BY <1>1, <1>4, <1>5, <1>7, <1>8, RowsStay DEF history, HistoryTyped

LEMMA BreakStep ==
    ASSUME AudioInv, NEW t \in Tab, Break(t)
    PROVE  AudioInv'
<1>1. HandlersTyped /\ HandlersFit /\ TabsTyped /\ HistoryTyped
  BY TypeParts DEF AudioInv
<1>2. HandlersTyped' /\ HandlersFit'
  BY <1>1 DEF HandlersTyped, HandlersFit, Working, Break, rows
<1>3. TabsTyped'
  BY <1>1, OffTyped DEF TabsTyped, Break
<1>4. breaks' \in 0 .. MaxBreak
  BY <1>1, AudioBounds DEF HistoryTyped, Break
<1> QED BY <1>1, <1>2, <1>3, <1>4, RowsStay DEF Break, history, HistoryTyped

LEMMA ReloadStep ==
    ASSUME AudioInv, NEW t \in Tab, Reload(t)
    PROVE  AudioInv'
<1>1. HandlersTyped /\ HandlersFit /\ TabsTyped /\ HistoryTyped
  BY TypeParts DEF AudioInv
<1>2. HandlersTyped' /\ HandlersFit'
  BY <1>1 DEF HandlersTyped, HandlersFit, Working, Reload, rows
<1>3. TabsTyped'
  <2>1. ASSUME NEW p \in Publisher
        PROVE  [Silent(p) EXCEPT !.at = "off", !.frames = {}] \in Publisher
    BY <2>1, OffTyped DEF Publisher
  <2> QED BY <1>1, <2>1 DEF TabsTyped, Reload
<1>4. breaks' \in 0 .. MaxBreak
  BY <1>1, AudioBounds DEF HistoryTyped, Reload
<1> QED BY <1>1, <1>2, <1>3, <1>4, RowsStay DEF Reload, history, HistoryTyped

LEMMA StopStep ==
    ASSUME AudioInv, NEW t \in Tab, Stop(t)
    PROVE  AudioInv'
<1> DEFINE k == tab[t].socket
<1>1. RowsTyped /\ HandlersTyped /\ HandlersFit /\ TabsTyped /\ HistoryTyped
  BY TypeParts DEF AudioInv
<1>2. /\ tab' = [tab EXCEPT ![t] = Silent(Confirmed(@, recording.received))]
      /\ handler' = [handler EXCEPT ![k] = NoHandler]
      /\ UNCHANGED <<rows, history, breaks>>
  BY DEF Stop, Close
<1> HIDE DEF k
<1>3. HandlersTyped' /\ HandlersFit'
  BY <1>1, <1>2, NoHandlerTyped DEF HandlersTyped, HandlersFit, Working, rows
<1>4. recording.received \in Watermark
  BY <1>1 DEF RowsTyped, Recording
<1>5. TabsTyped'
  BY <1>1, <1>2, <1>4, ConfirmedTyped, OffTyped DEF TabsTyped
<1> QED BY <1>1, <1>2, <1>3, <1>5, RowsStay DEF history, HistoryTyped

-----------------------------------------------------------------------------
(* Actions of a handler *)

LEMMA ClaimStep ==
    ASSUME AudioInv, NEW k \in Socket, Claim(k)
    PROVE  AudioInv'
<1> DEFINE fresh == [status |-> "CAPTURING", stream |-> handler[k].tab, received |-> 0, processed |-> 0]
<1>1. RowsTyped /\ HandlersTyped /\ HandlersFit /\ TabsTyped /\ HistoryTyped
  BY TypeParts DEF AudioInv
<1>2. /\ handler[k].at = "started" /\ session = "LIVE" /\ Ready(k)
      /\ UNCHANGED <<session, version, segments, missing, dropped, marks, history, breaks>>
      /\ \/ recording.status = "none" /\ recording' = fresh
         \/ recording.status = "CAPTURING" /\ recording' = recording
  BY DEF Claim, Claimable
<1>3. fresh \in Recording /\ fresh.received = 0 /\ fresh.processed = 0 /\ fresh.status = "CAPTURING"
  <2>1. handler[k].tab \in Tab \cup {NoTab}
    BY <1>1 DEF HandlersTyped, Handler
  <2> QED BY <2>1, AudioBounds DEF Recording, Watermark
<1> HIDE DEF fresh
<1>4. /\ recording' \in Recording /\ recording'.status = "CAPTURING"
      /\ recording'.received = recording.received /\ recording'.processed <= recording'.received
  BY <1>1, <1>2, <1>3 DEF AudioInv, RecordingFits, RowsTyped
<1>5. HandlersTyped' /\ HandlersFit' /\ TabsTyped'
  BY <1>1, <1>2, <1>4, ReadyTyped
<1>6. RowsTyped' /\ HistoryTyped'
  BY <1>1, <1>2, <1>4 DEF RowsTyped, HistoryTyped, history
<1>7. RecordingFits' /\ TakenBelow' /\ FrameTakenOnce' /\ SkippedSoundHasGap'
  BY <1>2, <1>4 DEF AudioInv, RecordingFits, TakenBelow, FrameTakenOnce, SkippedSoundHasGap, history
<1>8. FinalsKeptOnce'
  BY <1>2 DEF AudioInv, FinalsKeptOnce, history
<1> QED BY <1>5, <1>6, <1>7, <1>8 DEF AudioInv, TypeOK, RowsTyped, HandlersTyped, TabsTyped, HistoryTyped

LEMMA RefuseClaimStep ==
    ASSUME AudioInv, NEW k \in Socket, RefuseClaim(k)
    PROVE  AudioInv'
<1>1. RowsTyped /\ HandlersTyped /\ HandlersFit /\ TabsTyped /\ HistoryTyped
  BY TypeParts DEF AudioInv
<1>2. HandlersTyped' /\ HandlersFit' /\ TabsTyped'
  BY <1>1, RefuseTyped DEF RefuseClaim
<1>3. marks' \subseteq {"SEQUENCE_GAP", "SERVER_STATE_LOST"}
  BY <1>1 DEF RowsTyped, RefuseClaim
<1>4. RowsTyped' /\ HistoryTyped'
  BY <1>1, <1>3 DEF RowsTyped, HistoryTyped, RefuseClaim, history
<1>5. /\ RecordingFits' /\ TakenBelow' /\ FrameTakenOnce' /\ SkippedSoundHasGap'
      /\ FinalsKeptOnce'
  BY DEF AudioInv, RefuseClaim, RecordingFits, TakenBelow, FrameTakenOnce, SkippedSoundHasGap,
         FinalsKeptOnce, history
<1> QED BY <1>2, <1>4, <1>5 DEF AudioInv, TypeOK, RowsTyped, HandlersTyped, TabsTyped, HistoryTyped

(* The heart of it: a new frame is above the watermark, so it was never     *)
(* taken, and what lies between was either before the first frame or is now *)
(* a gap.                                                                   *)
LEMMA AcceptStep ==
    ASSUME AudioInv, NEW k \in Socket, Accept(k)
    PROVE  AudioInv'
<1> DEFINE f == handler[k].wire
<1>1. RowsTyped /\ HandlersTyped /\ HandlersFit /\ TabsTyped /\ HistoryTyped
  BY TypeParts DEF AudioInv
<1>2. /\ f # 0 /\ session = "LIVE" /\ recording.status = "CAPTURING" /\ f > recording.received
      /\ missing' = missing \cup Skipped(f)
      /\ recording' = [recording EXCEPT !.received = f]
      /\ taken' = [taken EXCEPT ![f] = @ + 1]
      /\ handler' = [handler EXCEPT ![k].at = "handed", ![k].frame = f, ![k].wire = 0]
      /\ UNCHANGED <<session, version, segments, dropped, marks, tab, understood, persisted, breaks>>
  BY DEF Accept, Capturing, Fresh, NoFrame
<1>3. f \in Frame /\ f \in Watermark
  BY <1>1, <1>2 DEF HandlersTyped, Handler, Watermark, Frame
<1>4. /\ recording.received \in Nat /\ recording.processed \in Nat
      /\ recording.processed <= recording.received
  BY <1>1, AudioBounds DEF RowsTyped, Recording, Watermark
<1>5. HandlersTyped'
  BY <1>1, <1>2, <1>3, AudioBounds DEF HandlersTyped, Handler, Watermark
<1>6. /\ handler'[k].at = "handed" /\ handler'[k].frame = f
      /\ \A j \in Socket : j # k => handler'[j] = handler[j]
  BY <1>1, <1>2 DEF HandlersTyped, Handler
<1> HIDE DEF f
<1>7. /\ recording' \in Recording /\ recording'.received = f
      /\ recording'.status = "CAPTURING" /\ recording'.processed = recording.processed
  BY <1>1, <1>2, <1>3 DEF RowsTyped, Recording
<1>8. HandlersFit'
  BY <1>1, <1>2, <1>6, <1>7 DEF HandlersFit, Working, NoFrame
<1>9. Skipped(f) \subseteq Frame
  BY <1>3, <1>4, AudioBounds DEF Skipped, Frame
<1>10. RowsTyped' /\ TabsTyped'
  BY <1>1, <1>2, <1>3, <1>4, <1>7, <1>9 DEF RowsTyped, TabsTyped, Frame
<1>11. taken[f] = 0
  BY <1>1, <1>2, <1>3, <1>4 DEF AudioInv, TakenBelow, HistoryTyped, Frame
<1>12. /\ taken' \in [Frame -> Nat] /\ taken'[f] = 1
       /\ \A g \in Frame : g # f => taken'[g] = taken[g]
  BY <1>1, <1>2, <1>3, <1>11 DEF HistoryTyped
<1>13. HistoryTyped'
  BY <1>1, <1>2, <1>12 DEF HistoryTyped
<1>14. RecordingFits' /\ FrameTakenOnce'
  BY <1>2, <1>7, <1>12 DEF AudioInv, RecordingFits, FrameTakenOnce
<1>15. TakenBelow'
  BY <1>2, <1>3, <1>4, <1>7, <1>12 DEF AudioInv, TakenBelow, Frame
<1>16. SkippedSoundHasGap'
  <2> SUFFICES ASSUME NEW e \in 1 .. f, NEW g \in 1 .. e, taken'[g] > 0
               PROVE  taken'[e] > 0 \/ e \in missing'
    BY <1>7 DEF SkippedSoundHasGap
  <2>1. e \in Frame /\ g \in Frame /\ e \in Nat /\ g \in Nat /\ g <= e /\ e <= f /\ f \in Nat
    BY <1>3, AudioBounds DEF Frame
  <2>2. CASE e = f
    BY <1>12, <2>2
  <2>3. CASE e # f /\ e <= recording.received
    <3>1. taken[g] > 0 /\ e \in 1 .. recording.received
      BY <1>4, <1>12, <2>1, <2>3
    <3>2. taken[e] > 0 \/ e \in missing
      BY <3>1 DEF AudioInv, SkippedSoundHasGap
    <3> QED BY <1>2, <1>12, <2>1, <2>3, <3>2
  <2>4. CASE e # f /\ e > recording.received
    <3>1. taken[g] > 0
      BY <1>12, <2>1, <2>4
    <3>2. recording.received # 0
      BY <1>4, <2>1, <3>1 DEF AudioInv, TakenBelow, Frame
    <3>3. e \in Skipped(f)
      BY <1>4, <2>1, <2>4, <3>2 DEF Skipped
    <3> QED BY <1>2, <3>3
  <2> QED BY <1>4, <2>1, <2>2, <2>3, <2>4
<1>17. FinalsKeptOnce'
  BY <1>2 DEF AudioInv, FinalsKeptOnce
<1> QED BY <1>5, <1>8, <1>10, <1>13, <1>14, <1>15, <1>16, <1>17
        DEF AudioInv, TypeOK, RowsTyped, HandlersTyped, TabsTyped, HistoryTyped

LEMMA AnswerStep ==
    ASSUME AudioInv, NEW k \in Socket, Duplicate(k) \/ ProviderFails(k)
    PROVE  AudioInv'
<1>1. RowsTyped /\ HandlersTyped /\ HandlersFit /\ TabsTyped /\ HistoryTyped
  BY TypeParts DEF AudioInv
<1>2. Working(k) /\ UNCHANGED <<rows, history, breaks>>
  BY DEF Duplicate, ProviderFails, Working
<1>3. PICK r \in Watermark : Ack(k, r)
  BY <1>1 DEF Duplicate, ProviderFails, RowsTyped, Recording, HandlersTyped, Handler
<1>4. HandlersTyped' /\ HandlersFit' /\ TabsTyped'
  BY <1>1, <1>2, <1>3, AckTyped DEF rows
<1> QED BY <1>1, <1>2, <1>4, RowsStay DEF history, HistoryTyped

LEMMA RefuseFrameStep ==
    ASSUME AudioInv, NEW k \in Socket, RefuseFrame(k)
    PROVE  AudioInv'
<1>1. HandlersTyped /\ HandlersFit /\ TabsTyped /\ HistoryTyped
  BY TypeParts DEF AudioInv
<1>2. HandlersTyped' /\ HandlersFit' /\ TabsTyped'
  BY <1>1, RefuseTyped DEF RefuseFrame, rows
<1> QED BY <1>1, <1>2, RowsStay DEF RefuseFrame, history, HistoryTyped

LEMMA ProviderAnswersStep ==
    ASSUME AudioInv, NEW k \in Socket, ProviderAnswers(k)
    PROVE  AudioInv'
<1>1. HandlersTyped /\ HandlersFit /\ TabsTyped /\ HistoryTyped
  BY TypeParts DEF AudioInv
<1>2. PICK finals \in SUBSET Frame :
        handler' = [handler EXCEPT ![k].at = "answered", ![k].finals = finals]
  BY DEF ProviderAnswers
<1>3. handler[k].frame \in Frame
  BY <1>1, AudioBounds DEF HandlersTyped, HandlersFit, Handler, ProviderAnswers, Watermark, Frame, NoFrame
<1>4. HandlersTyped'
  BY <1>1, <1>2 DEF HandlersTyped, Handler
<1>5. /\ handler'[k].frame = handler[k].frame
      /\ \A j \in Socket : j # k => handler'[j] = handler[j]
  BY <1>1, <1>2 DEF HandlersTyped, Handler
<1>6. HandlersFit'
  BY <1>1, <1>5 DEF HandlersFit, Working, ProviderAnswers, rows
<1>7. TabsTyped' /\ understood' \subseteq Frame
  BY <1>1, <1>3 DEF TabsTyped, ProviderAnswers, HistoryTyped
<1> QED BY <1>1, <1>4, <1>6, <1>7, RowsStay DEF ProviderAnswers, HistoryTyped

(* Persisting: while the class is LIVE a working handler has a recording    *)
(* that is being captured, so its final becomes a segment.                  *)
LEMMA PersistStep ==
    ASSUME AudioInv, NEW k \in Socket, Persist(k)
    PROVE  AudioInv'
<1> DEFINE u == Least(handler[k].finals)
           rest == handler[k].finals \ {u}
           appends == recording.status = "CAPTURING" /\ version = "FINALIZING" /\ IsNew(u)
<1>1. RowsTyped /\ HandlersTyped /\ HandlersFit /\ TabsTyped /\ HistoryTyped /\ RecordingFits
  BY TypeParts DEF AudioInv
<1>2. u \in Frame
  BY <1>1, LeastOf DEF HandlersTyped, Handler, Persist
<1>3. /\ handler[k].at = "answered" /\ session # "COMPLETED"
      /\ handler' = [handler EXCEPT ![k].finals = rest]
      /\ dropped' = IF recording.status # "CAPTURING" /\ session = "PROCESSING"
                    THEN dropped \cup {u} ELSE dropped
      /\ segments' = IF appends THEN Append(segments, u) ELSE segments
      /\ persisted' = persisted \cup {u}
      /\ UNCHANGED <<session, recording, version, missing, marks, tab, taken, understood, breaks>>
  BY DEF Persist
<1>4. rest \in SUBSET Frame
  BY <1>1 DEF HandlersTyped, Handler
<1> HIDE DEF u, rest, appends
<1>5. HandlersTyped'
  BY <1>1, <1>3, <1>4 DEF HandlersTyped, Handler
<1>6. \A j \in Socket : handler'[j].at = handler[j].at /\ handler'[j].frame = handler[j].frame
  BY <1>1, <1>3 DEF HandlersTyped, Handler
<1>7. HandlersFit' /\ TabsTyped'
  BY <1>1, <1>3, <1>6 DEF HandlersFit, Working, TabsTyped
<1>8. RowsTyped' /\ HistoryTyped'
  BY <1>1, <1>2, <1>3 DEF RowsTyped, HistoryTyped
<1>9. RecordingFits' /\ TakenBelow' /\ FrameTakenOnce' /\ SkippedSoundHasGap'
  BY <1>3 DEF AudioInv, RecordingFits, TakenBelow, FrameTakenOnce, SkippedSoundHasGap
<1>10. FinalsKeptOnce'
  <2>1. segments \in Seq(Frame) /\ \A i, j \in DOMAIN segments : segments[i] = segments[j] => i = j
    BY <1>1 DEF AudioInv, RowsTyped, FinalsKeptOnce
  <2>2. \A i \in DOMAIN segments : i \in DOMAIN segments' /\ segments'[i] = segments[i]
    BY <1>2, <1>3, <2>1
  <2>3. \A v \in persisted : v \in dropped' \/ \E i \in DOMAIN segments' : segments'[i] = v
    BY <1>3, <2>2 DEF AudioInv, FinalsKeptOnce
  <2>4. u \in dropped' \/ \E i \in DOMAIN segments' : segments'[i] = u
    <3>1. CASE recording.status # "CAPTURING"
      <4>1. session = "PROCESSING"
        BY <1>1, <1>3, <3>1 DEF RowsTyped, RecordingFits, HandlersFit, Working
      <4> QED BY <1>3, <3>1, <4>1
    <3>2. CASE recording.status = "CAPTURING" /\ ~IsNew(u)
      <4>1. ~appends
        BY <3>2 DEF appends
      <4> QED BY <1>3, <3>2, <4>1 DEF IsNew
    <3>3. CASE recording.status = "CAPTURING" /\ IsNew(u)
      <4>1. appends
        BY <1>1, <3>3 DEF appends, RecordingFits
      <4>2. segments' = Append(segments, u)
        BY <1>3, <4>1
      <4>3. Len(segments) + 1 \in DOMAIN segments' /\ segments'[Len(segments) + 1] = u
        BY <1>2, <2>1, <4>2
      <4> QED BY <4>3
    <3> QED BY <3>1, <3>2, <3>3
  <2>5. \A i, j \in DOMAIN segments' : segments'[i] = segments'[j] => i = j
    <3>1. CASE appends
      <4>1. \A i \in DOMAIN segments : segments[i] # u
        BY <3>1 DEF appends, IsNew
      <4>2. segments' = Append(segments, u)
        BY <1>3, <3>1
      <4>3. DOMAIN segments' = 1 .. Len(segments) + 1 /\ DOMAIN segments = 1 .. Len(segments)
        BY <1>2, <2>1, <4>2
      <4>4. Len(segments) \in Nat /\ segments'[Len(segments) + 1] = u
        BY <1>2, <2>1, <4>2
      <4> QED BY <2>1, <2>2, <4>1, <4>3, <4>4
    <3>2. CASE ~appends
      BY <1>3, <2>1, <3>2
    <3> QED BY <3>1, <3>2
  <2>6. version' = "EMPTY" => segments' = <<>>
    BY <1>3 DEF AudioInv, FinalsKeptOnce, appends
  <2> QED BY <1>3, <2>3, <2>4, <2>5, <2>6 DEF FinalsKeptOnce
<1> QED BY <1>5, <1>7, <1>8, <1>9, <1>10
        DEF AudioInv, TypeOK, RowsTyped, HandlersTyped, TabsTyped, HistoryTyped

LEMMA CloseStep ==
    ASSUME AudioInv, NEW k \in Socket, PersistTooLate(k) \/ Disconnected(k)
    PROVE  AudioInv'
<1>1. HandlersTyped /\ HandlersFit /\ TabsTyped /\ HistoryTyped
  BY TypeParts DEF AudioInv
<1>2. Close(k) /\ UNCHANGED <<rows, history, breaks>>
  BY DEF PersistTooLate, Disconnected
<1>3. HandlersTyped' /\ HandlersFit'
  BY <1>1, <1>2, CloseTyped DEF rows
<1>4. TabsTyped'
  <2>1. handler[k].tab \in Tab \cup {NoTab}
    BY <1>1 DEF HandlersTyped, Handler
  <2> QED BY <1>1, <2>1, OffTyped DEF TabsTyped, PersistTooLate, Disconnected, Owns
<1> QED BY <1>1, <1>2, <1>3, <1>4, RowsStay DEF history, HistoryTyped

LEMMA MarkProcessedStep ==
    ASSUME AudioInv, NEW k \in Socket, MarkProcessed(k)
    PROVE  AudioInv'
<1> DEFINE upto == Processed(handler[k].frame)
<1>1. RowsTyped /\ HandlersTyped /\ HandlersFit /\ TabsTyped /\ HistoryTyped
  BY TypeParts DEF AudioInv
<1>2. /\ handler[k].at = "answered" /\ recording' = [recording EXCEPT !.processed = upto]
      /\ Ack(k, recording.received)
      /\ UNCHANGED <<session, version, segments, missing, dropped, marks, history, breaks>>
  BY DEF MarkProcessed
<1>3. upto \in Watermark /\ upto <= recording.received
  BY <1>1, AudioBounds
     DEF Processed, Lower, RowsTyped, Recording, HandlersTyped, Handler, Watermark
<1> HIDE DEF upto
<1>4. /\ recording' \in Recording /\ recording'.processed = upto
      /\ recording'.received = recording.received /\ recording'.status = recording.status
  BY <1>1, <1>2, <1>3 DEF RowsTyped, Recording
<1>5. recording.received \in Watermark /\ Working(k)
  BY <1>1, <1>2 DEF RowsTyped, Recording, Working
<1>6. HandlersTyped' /\ HandlersFit' /\ TabsTyped'
  BY <1>1, <1>2, <1>4, <1>5, AckTyped
<1>7. RowsTyped' /\ HistoryTyped'
  BY <1>1, <1>2, <1>3, <1>4 DEF RowsTyped, HistoryTyped, history
<1>8. RecordingFits' /\ TakenBelow' /\ FrameTakenOnce' /\ SkippedSoundHasGap'
  BY <1>2, <1>4 DEF AudioInv, RecordingFits, TakenBelow, FrameTakenOnce, SkippedSoundHasGap, history
<1>9. FinalsKeptOnce'
  BY <1>2 DEF AudioInv, FinalsKeptOnce, history
<1> QED BY <1>6, <1>7, <1>8, <1>9
        DEF AudioInv, TypeOK, RowsTyped, HandlersTyped, TabsTyped, HistoryTyped

-----------------------------------------------------------------------------
(* The class, the server, and the specification *)

LEMMA EndStep ==
    ASSUME AudioInv, End
    PROVE  AudioInv'
<1>1. RowsTyped /\ HandlersTyped /\ HandlersFit /\ TabsTyped /\ HistoryTyped /\ RecordingFits
  BY TypeParts DEF AudioInv
<1>2. /\ recording' \in Recording /\ recording'.status # "CAPTURING"
      /\ recording'.status = "none" <=> recording.status = "none"
      /\ recording'.received = recording.received /\ recording'.processed = recording.processed
  BY <1>1 DEF RowsTyped, Recording, End
<1>3. /\ session = "LIVE" /\ session' = "PROCESSING"
      /\ version' = IF segments = <<>> THEN "EMPTY" ELSE "FINALIZED"
      /\ UNCHANGED <<segments, missing, dropped, marks, handler, tab, history, breaks>>
  BY DEF End
<1>4. RowsTyped' /\ HandlersTyped' /\ TabsTyped' /\ HistoryTyped'
  BY <1>1, <1>2, <1>3 DEF RowsTyped, HandlersTyped, TabsTyped, HistoryTyped, history
<1>5. HandlersFit' /\ RecordingFits' /\ TakenBelow' /\ FrameTakenOnce' /\ SkippedSoundHasGap'
  BY <1>1, <1>2, <1>3
     DEF AudioInv, HandlersFit, Working, RecordingFits, TakenBelow, FrameTakenOnce,
         SkippedSoundHasGap, history
<1>6. FinalsKeptOnce'
  BY <1>3 DEF AudioInv, FinalsKeptOnce, history
<1> QED BY <1>4, <1>5, <1>6
        DEF AudioInv, TypeOK, RowsTyped, HandlersTyped, TabsTyped, HistoryTyped

LEMMA CompleteStep ==
    ASSUME AudioInv, Complete
    PROVE  AudioInv'
<1>1. TypeOK'
  BY DEF AudioInv, TypeOK, Complete, history
<1>2. HandlersFit' /\ RecordingFits'
  BY DEF AudioInv, HandlersFit, Working, RecordingFits, Complete
<1>3. TakenBelow' /\ FrameTakenOnce' /\ SkippedSoundHasGap' /\ FinalsKeptOnce'
  BY DEF AudioInv, TakenBelow, FrameTakenOnce, SkippedSoundHasGap, FinalsKeptOnce, Complete, history
<1> QED BY <1>1, <1>2, <1>3 DEF AudioInv

LEMMA RestartStep ==
    ASSUME AudioInv, Restart
    PROVE  AudioInv'
<1>1. HandlersTyped /\ HandlersFit /\ TabsTyped /\ HistoryTyped
  BY TypeParts DEF AudioInv
<1>2. HandlersTyped' /\ HandlersFit'
  BY NoHandlerTyped DEF HandlersTyped, HandlersFit, Working, Restart
<1>3. TabsTyped'
  BY <1>1, OffTyped DEF TabsTyped, Restart
<1>4. breaks' \in 0 .. MaxBreak
  BY <1>1, AudioBounds DEF HistoryTyped, Restart
<1> QED BY <1>1, <1>2, <1>3, <1>4, RowsStay DEF Restart, history, HistoryTyped

LEMMA NextHolds == AudioInv /\ [Next]_vars => AudioInv'
<1> SUFFICES ASSUME AudioInv, [Next]_vars PROVE AudioInv'
  OBVIOUS
<1>1. CASE UNCHANGED vars
  <2>1. TypeOK'
    BY <1>1 DEF AudioInv, TypeOK, vars, rows, history
  <2>2. HandlersFit' /\ RecordingFits'
    BY <1>1 DEF AudioInv, HandlersFit, Working, RecordingFits, vars, rows
  <2>3. TakenBelow' /\ FrameTakenOnce' /\ SkippedSoundHasGap' /\ FinalsKeptOnce'
    BY <1>1 DEF AudioInv, TakenBelow, FrameTakenOnce, SkippedSoundHasGap, FinalsKeptOnce,
                vars, rows, history
  <2> QED BY <2>1, <2>2, <2>3 DEF AudioInv
<1>2. ASSUME NEW t \in Tab,
             (\E k \in Socket : Connect(t, k)) \/ Capture(t) \/ SendFrame(t) \/ Break(t)
               \/ Reload(t) \/ Stop(t)
      PROVE  AudioInv'
  BY <1>2, ConnectStep, CaptureStep, SendFrameStep, BreakStep, ReloadStep, StopStep
<1>3. ASSUME NEW k \in Socket,
             \/ Claim(k) \/ RefuseClaim(k) \/ Accept(k) \/ Duplicate(k) \/ RefuseFrame(k)
             \/ ProviderFails(k) \/ ProviderAnswers(k) \/ Persist(k) \/ PersistTooLate(k)
             \/ MarkProcessed(k) \/ Disconnected(k)
      PROVE  AudioInv'
  BY <1>3, ClaimStep, RefuseClaimStep, AcceptStep, AnswerStep, RefuseFrameStep,
     ProviderAnswersStep, PersistStep, CloseStep, MarkProcessedStep
<1>4. CASE End \/ Complete \/ Restart
  BY <1>4, EndStep, CompleteStep, RestartStep
<1> QED BY <1>1, <1>2, <1>3, <1>4 DEF Next

LEMMA AudioInvariant == Spec => []AudioInv
BY InitHolds, NextHolds, PTL DEF Spec

(* Rows, handlers and tabs keep their types; the processed watermark never  *)
(* overtakes the received one.                                              *)
THEOREM TypeCorrect == Spec => []TypeOK
<1>1. AudioInv => TypeOK
  BY DEF AudioInv
<1> QED BY <1>1, AudioInvariant, PTL

(* However many tabs send, break, reload and reconnect, a frame is taken as *)
(* new at most once.                                                        *)
THEOREM FramesTakenOnce == Spec => []FrameTakenOnce
<1>1. AudioInv => FrameTakenOnce
  BY DEF AudioInv
<1> QED BY <1>1, AudioInvariant, PTL

(* Every frame between the first taken and the received watermark was taken *)
(* or lies in a recorded gap.                                               *)
THEOREM SoundIsAccountedFor == Spec => []SkippedSoundHasGap
<1>1. AudioInv => SkippedSoundHasGap
  BY DEF AudioInv
<1> QED BY <1>1, AudioInvariant, PTL

(* A final that was persisted is one segment, or a gap of an ended class.   *)
THEOREM FinalsAreKept == Spec => []FinalsKeptOnce
<1>1. AudioInv => FinalsKeptOnce
  BY DEF AudioInv
<1> QED BY <1>1, AudioInvariant, PTL

-----------------------------------------------------------------------------
(* Realtime events.  No read of the Session takes back what an event        *)
(* brought: what a browser is sent was committed, an event that was         *)
(* committed carries no later version than the Session row, and a read that *)
(* is still under way began after every event the page took.                *)

CONSTANTS Writer, Client, MaxEvent, Internal, Updates, BatchSize, QueueSize, ReplayLimit,
          MaxConnect, MaxRestart
VARIABLES sessionVersion, clock, began, outbox, batch, client, restarts

(* The version of RealtimeEvents is the Session row's; that of LiveAudio is *)
(* the transcript's.                                                        *)
Events == INSTANCE RealtimeEvents WITH version <- sessionVersion

(* The versions in the outbox: one update is open at a time, with the next  *)
(* version.                                                                 *)
VersionsFit ==
    /\ \A e \in Updates : outbox[e].state = "open" => outbox[e].version = sessionVersion + 1
    /\ \A e, f \in Updates : outbox[e].state = "open" /\ outbox[f].state = "open" => e = f
    /\ \A e \in Events!Event \ Updates : outbox[e].version = 0
    /\ \A e \in Events!Committed : outbox[e].version <= sessionVersion

(* What a page was told, or is about to be told, is committed, and a read   *)
(* of the Session under way is as new as the updates it took.               *)
PageTyped(b) == b \in Events!Browser /\ Len(b.queue) <= QueueSize
PageFits(b) ==
    /\ b.seen \cup b.covered \cup b.reading \cup b.replay \subseteq Events!Committed
    /\ \A i \in 1 .. Len(b.queue) : b.queue[i] \in Events!Committed
    /\ b.cursor # Events!NoEvent => b.cursor \in b.seen
    /\ \A v \in b.get, e \in b.seen \cap Updates : outbox[e].version <= v

(* What EventsStay asks of a page that a step turns into p. *)
Stays(b, p) ==
    \A e \in b.seen \cap Updates :
        b.view >= outbox[e].version => p.view >= outbox[e].version \/ p.late # b.late

(* p differs from b in its connection or its late answers at most. *)
SamePage(b, p) ==
    /\ p.seen = b.seen /\ p.covered = b.covered /\ p.cursor = b.cursor
    /\ p.reading = b.reading /\ p.get = b.get /\ p.view = b.view

EventsInv ==
    /\ Events!TypeOK /\ VersionsFit /\ batch \subseteq Events!Committed
    /\ \A c \in Client : PageFits(client[c])

(* RealtimeEvents takes Cardinality from an instance of its own. *)
LEMMA SameCardinality ==
    ASSUME NEW S PROVE Events!Cardinality(S) = Cardinality(S)
BY DEF Events!Cardinality, Cardinality

LEMMA EventFacts ==
    ASSUME Events!EventBounds
    PROVE  /\ MaxEvent \in Nat /\ MaxConnect \in Nat /\ MaxRestart \in Nat /\ QueueSize \in Nat
           /\ Internal \subseteq Events!Event /\ Updates \subseteq Events!Event
           /\ Events!NoEvent \notin Events!Event
           /\ \A e \in Events!Event : e \in Nat
           /\ \A S : S \subseteq Events!Event => Events!Cardinality(S) \in Nat
<1>1. MaxEvent \in Nat /\ Events!Event = 1 .. MaxEvent
  BY DEF Events!EventBounds, Events!Event
<1>2. IsFiniteSet(Events!Event)
  BY <1>1, FS_Interval
<1>3. \A S : S \subseteq Events!Event => Events!Cardinality(S) \in Nat
  BY <1>2, FS_Subset, FS_CardinalityType, SameCardinality
<1> QED
  BY <1>1, <1>3 DEF Events!EventBounds, Events!NoEvent

LEMMA PagesGood ==
    ASSUME EventsInv, NEW c \in Client
    PROVE  PageTyped(client[c]) /\ PageFits(client[c])
BY DEF EventsInv, Events!TypeOK, PageTyped

(* A page moves: nothing is written. *)
LEMMA PagesMove ==
    ASSUME EventsInv, UNCHANGED <<sessionVersion, clock, began, outbox>>, batch' \subseteq batch,
           restarts' \in 0 .. MaxRestart, DOMAIN client' = Client, client' = [c \in Client |-> client'[c]],
           \A c \in Client : PageTyped(client'[c]) /\ PageFits(client'[c])
    PROVE  EventsInv'
<1>1. UNCHANGED Events!Committed /\ VersionsFit'
  BY DEF Events!Committed, EventsInv, VersionsFit
<1>2. Events!TypeOK'
  <2>1. client' \in [Client -> Events!Browser]
    BY DEF PageTyped
  <2> QED
    BY <2>1 DEF EventsInv, Events!TypeOK, PageTyped
<1>3. \A c \in Client : PageFits(client[c])'
  BY <1>1 DEF PageFits
<1> QED
  BY <1>1, <1>2, <1>3 DEF EventsInv

LEMMA OnePageMoves ==
    ASSUME EventsInv, UNCHANGED <<sessionVersion, clock, began, outbox, batch, restarts>>,
           NEW c \in Client, NEW b, client' = [client EXCEPT ![c] = b],
           PageTyped(b), PageFits(b), Stays(client[c], b)
    PROVE  EventsInv' /\ \A d \in Client : Stays(client[d], client'[d])
<1>1. client \in [Client -> Events!Browser] /\ restarts \in 0 .. MaxRestart
  BY DEF EventsInv, Events!TypeOK
<1>2. \A d \in Client : client'[d] = IF d = c THEN b ELSE client[d]
  BY <1>1
<1>3. \A d \in Client : PageTyped(client'[d]) /\ PageFits(client'[d])
  BY <1>2, PagesGood
<1>4. EventsInv'
  BY <1>1, <1>3, PagesMove
<1> QED
  BY <1>2, <1>4 DEF Stays

(* A transaction moves, or the publisher claims: pages change in the        *)
(* answers they wait for at most.                                           *)
LEMMA RowsMove ==
    ASSUME Events!EventBounds, EventsInv, UNCHANGED restarts,
           client' \in [Client -> Events!Browser],
           \A c \in Client :
              /\ SamePage(client[c], client'[c])
              /\ client'[c].replay = client[c].replay /\ client'[c].queue = client[c].queue,
           sessionVersion' \in Nat,
           clock' \in Events!Time, began' \in [Writer -> Events!Time],
           outbox' \in [Events!Event -> Events!Row],
           \A e \in Events!Event : outbox[e].state # "none" => outbox'[e].version = outbox[e].version,
           VersionsFit', Events!Committed \subseteq Events!Committed', batch' \subseteq Events!Committed'
    PROVE  EventsInv' /\ \A c \in Client : Stays(client[c], client'[c])
<1>1. Events!TypeOK'
  BY DEF EventsInv, Events!TypeOK, Events!Committed
<1>2. \A e \in Events!Committed : outbox'[e].version = outbox[e].version
  BY DEF Events!Committed
<1>3. \A c \in Client : PageFits(client[c])'
  BY <1>2 DEF EventsInv, PageFits, SamePage
<1> QED
  BY <1>1, <1>3 DEF EventsInv, SamePage, Stays

LEMMA PagesStay ==
    ASSUME EventsInv, client' = client
    PROVE  /\ client' \in [Client -> Events!Browser]
           /\ \A c \in Client :
                /\ SamePage(client[c], client'[c])
                /\ client'[c].replay = client[c].replay /\ client'[c].queue = client[c].queue
BY DEF EventsInv, Events!TypeOK, SamePage

-----------------------------------------------------------------------------
(* What happens to one page *)

LEMMA PutKeeps ==
    ASSUME Events!EventBounds, NEW b, PageTyped(b), PageFits(b), NEW e \in Events!Committed
    PROVE  LET p == Events!Put(b, e)
           IN  PageTyped(p) /\ PageFits(p) /\ Stays(b, p)
<1>1. b \in Events!Browser /\ b.queue \in Seq(Events!Event) /\ Len(b.queue) \in Nat
      /\ e \in Events!Event /\ QueueSize \in Nat
  BY EventFacts DEF PageTyped, Events!Browser, Events!Committed
<1>2. CASE Len(b.queue) < QueueSize
  <2> DEFINE q == Append(b.queue, e)
             p == [b EXCEPT !.queue = q]
  <2>1. /\ q \in Seq(Events!Event) /\ Len(q) = Len(b.queue) + 1
        /\ \A i \in 1 .. Len(q) : q[i] \in Events!Committed
    <3>1. /\ q \in Seq(Events!Event) /\ Len(q) = Len(b.queue) + 1
          /\ \A i \in 1 .. Len(b.queue) : q[i] = b.queue[i]
          /\ q[Len(b.queue) + 1] = e
      BY <1>1, AppendProperties
    <3> QED
      BY <1>1, <3>1 DEF PageFits
  <2> HIDE DEF q
  <2>2. p \in Events!Browser /\ SamePage(b, p) /\ p.queue = q /\ p.replay = b.replay
    BY <1>1, <2>1 DEF Events!Browser, SamePage
  <2>3. Events!Put(b, e) = p
    BY <1>2 DEF Events!Put, q
  <2> HIDE DEF p
  <2> QED
    BY <1>1, <1>2, <2>1, <2>2, <2>3 DEF PageTyped, PageFits, SamePage, Stays
<1>3. CASE ~(Len(b.queue) < QueueSize)
  <2> DEFINE p == [b EXCEPT !.resync = TRUE]
  <2>1. p \in Events!Browser /\ SamePage(b, p) /\ p.queue = b.queue /\ p.replay = b.replay
    BY <1>1 DEF Events!Browser, SamePage
  <2>2. Events!Put(b, e) = p
    BY <1>3 DEF Events!Put
  <2> HIDE DEF p
  <2> QED
    BY <2>1, <2>2 DEF PageTyped, PageFits, SamePage, Stays
<1> QED
  BY <1>2, <1>3

(* A page that takes an event keeps the newer version, and reads again.     *)
LEMMA ReceivedKeeps ==
    ASSUME Events!EventBounds, EventsInv, NEW b, PageTyped(b), PageFits(b), NEW e \in Events!Committed
    PROVE  LET p == Events!Received(b, e)
           IN  /\ PageTyped(p) /\ PageFits(p) /\ Stays(b, p)
               /\ p.queue = b.queue /\ p.replay = b.replay
<1>1. /\ b \in Events!Browser /\ b.view \in Nat /\ e \in Events!Event /\ outbox[e].version \in Nat
      /\ \A f \in Events!Committed : outbox[f].version \in Nat /\ outbox[f].version <= sessionVersion
      /\ sessionVersion \in Nat
  BY DEF PageTyped, Events!Browser, Events!Committed, EventsInv, Events!TypeOK, Events!Row, VersionsFit
<1>2. CASE e \in b.seen
  BY <1>1, <1>2 DEF Events!Received, Stays
<1>3. CASE e \notin b.seen
  <2> DEFINE v == Events!NewerView(b, e)
             g == IF e \in Updates THEN {sessionVersion} ELSE b.get
             p == [b EXCEPT !.seen = b.seen \cup {e}, !.cursor = e, !.view = v, !.get = g]
  <2>1. v \in Nat /\ v >= b.view /\ g \in SUBSET Nat
    BY <1>1 DEF Events!NewerView, Events!Browser
  <2>2. Events!Received(b, e) = p
    BY <1>3 DEF Events!Received
  <2>3. \A x \in g, f \in (b.seen \cup {e}) \cap Updates : outbox[f].version <= x
    BY <1>1 DEF PageFits
  <2> HIDE DEF v, g
  <2>4. p \in Events!Browser /\ p.queue = b.queue /\ p.covered = b.covered /\ p.replay = b.replay
        /\ p.reading = b.reading /\ p.get = g
        /\ p.seen = b.seen \cup {e} /\ p.cursor = e /\ p.view = v
    BY <1>1, <2>1 DEF Events!Browser
  <2> HIDE DEF p
  <2>5. PageTyped(p) /\ PageFits(p)
    BY <1>1, <2>3, <2>4 DEF PageTyped, PageFits
  <2>6. Stays(b, p)
    BY <1>1, <2>1, <2>4 DEF Stays, PageFits
  <2> QED
    BY <2>2, <2>4, <2>5, <2>6
<1> QED
  BY <1>2, <1>3

LEMMA ReplayKeeps ==
    ASSUME NEW b, PageTyped(b), PageFits(b)
    PROVE  LET p == Events!Replay(b)
           IN  PageTyped(p) /\ PageFits(p) /\ Stays(b, p)
<1>1. b \in Events!Browser
  BY DEF PageTyped
<1> DEFINE R == Events!RowsAfter(b.cursor) \cap Events!Public
<1>2. R \subseteq Events!Committed /\ R \subseteq Events!Event
  BY DEF Events!RowsAfter, Events!Committed
<1> HIDE DEF R
<1>3. ASSUME NEW p, p \in {[b EXCEPT !.at = "replayed"],
                           [b EXCEPT !.at = "replayed", !.resync = TRUE],
                           [b EXCEPT !.at = "replayed", !.replay = R]}
      PROVE  /\ p \in Events!Browser /\ SamePage(b, p)
             /\ p.queue = b.queue /\ p.replay \in {b.replay, R}
  <2>1. CASE p = [b EXCEPT !.at = "replayed"]
    BY <1>1, <2>1 DEF Events!Browser, SamePage
  <2>2. CASE p = [b EXCEPT !.at = "replayed", !.resync = TRUE]
    BY <1>1, <2>2 DEF Events!Browser, SamePage
  <2>3. CASE p = [b EXCEPT !.at = "replayed", !.replay = R]
    BY <1>1, <1>2, <2>3 DEF Events!Browser, SamePage
  <2> QED
    BY <1>3, <2>1, <2>2, <2>3
<1>4. Events!Replay(b) \in {[b EXCEPT !.at = "replayed"],
                            [b EXCEPT !.at = "replayed", !.resync = TRUE],
                            [b EXCEPT !.at = "replayed", !.replay = R]}
  BY DEF Events!Replay, R
<1> QED
  BY <1>2, <1>3, <1>4 DEF PageTyped, PageFits, SamePage, Stays

LEMMA ClosedKeeps ==
    ASSUME Events!EventBounds, NEW b, PageTyped(b), PageFits(b)
    PROVE  LET p == Events!Closed(b)
           IN  PageTyped(p) /\ PageFits(p) /\ Stays(b, p)
<1>1. b \in Events!Browser /\ <<>> \in Seq(Events!Event) /\ Len(<<>>) = 0 /\ 0 <= QueueSize
  BY EventFacts, EmptySeq DEF PageTyped
<1> DEFINE p == Events!Closed(b)
<1>2. p \in Events!Browser /\ SamePage(b, p) /\ p.queue = <<>> /\ p.replay = {}
  BY <1>1 DEF Events!Browser, Events!Closed, SamePage
<1>3. Events!Closed(b) = p
  OBVIOUS
<1> HIDE DEF p
<1> QED
  BY <1>1, <1>2, <1>3 DEF PageTyped, PageFits, SamePage, Stays

-----------------------------------------------------------------------------
(* The writing transactions and the claim *)

LEMMA EventsInit == Events!EventBounds /\ Events!Init => EventsInv
<1> SUFFICES ASSUME Events!EventBounds, Events!Init PROVE EventsInv
  OBVIOUS
<1>1. Events!TypeOK
  <2>1. <<>> \in Seq(Events!Event) /\ Len(<<>>) = 0
    BY EmptySeq
  <2> QED
    BY <2>1, EventFacts
    DEF Events!Init, Events!TypeOK, Events!Browser, Events!Row, Events!NoRow, Events!Time, Events!NoEvent
<1>2. Events!Committed = {} /\ \A e \in Events!Event : outbox[e] = Events!NoRow
  BY DEF Events!Init, Events!Committed, Events!NoRow
<1>3. VersionsFit /\ batch = {}
  BY <1>2, EventFacts DEF VersionsFit, Events!NoRow, Events!Init
<1>4. \A c \in Client : PageFits(client[c])
  BY EmptySeq DEF Events!Init, PageFits, Events!NoEvent
<1> QED
  BY <1>1, <1>2, <1>3, <1>4 DEF EventsInv

LEMMA BeginStep ==
    ASSUME Events!EventBounds, EventsInv, NEW w \in Writer, Events!Begin(w)
    PROVE  EventsInv' /\ \A c \in Client : Stays(client[c], client'[c])
<1>1. clock' \in Events!Time /\ began' \in [Writer -> Events!Time]
  BY EventFacts DEF Events!Begin, EventsInv, Events!TypeOK, Events!Time
<1>2. UNCHANGED <<sessionVersion, outbox, batch, client, restarts>>
  BY DEF Events!Begin
<1>3. /\ sessionVersion \in Nat /\ outbox \in [Events!Event -> Events!Row]
      /\ batch \subseteq Events!Committed /\ VersionsFit
  BY DEF EventsInv, Events!TypeOK
<1>4. UNCHANGED Events!Committed /\ VersionsFit'
  BY <1>2, <1>3 DEF Events!Committed, VersionsFit
<1> QED
  BY <1>1, <1>2, <1>3, <1>4, PagesStay, RowsMove

LEMMA EnqueueStep ==
    ASSUME Events!EventBounds, EventsInv, NEW w \in Writer, NEW e \in Events!Event, Events!Enqueue(w, e)
    PROVE  EventsInv' /\ \A c \in Client : Stays(client[c], client'[c])
<1> DEFINE due == Events!Cardinality({f \in Events!Event : outbox[f].state # "none"}) + 1
           v == IF e \in Updates THEN sessionVersion + 1 ELSE 0
           x == [state |-> "open", created |-> began[w], by |-> w, due |-> due, version |-> v]
<1>1. /\ outbox' = [outbox EXCEPT ![e] = x] /\ outbox[e].state = "none"
      /\ e \in Updates => \A f \in Updates : outbox[f].state # "open"
      /\ UNCHANGED <<sessionVersion, clock, began, batch, client, restarts>>
  BY DEF Events!Enqueue
<1>2. /\ sessionVersion \in Nat /\ outbox \in [Events!Event -> Events!Row] /\ began[w] \in Events!Time
      /\ batch \subseteq Events!Committed /\ VersionsFit /\ clock \in Events!Time
      /\ began \in [Writer -> Events!Time]
  BY DEF EventsInv, Events!TypeOK
<1>3. due \in Nat /\ v \in Nat
  <2>1. {f \in Events!Event : outbox[f].state # "none"} \subseteq Events!Event
    OBVIOUS
  <2>2. Events!Cardinality({f \in Events!Event : outbox[f].state # "none"}) \in Nat
    BY <2>1, EventFacts
  <2> QED BY <1>2, <2>2
<1> HIDE DEF due
<1>4. x \in Events!Row /\ x.state = "open" /\ x.version = v
  BY <1>2, <1>3 DEF Events!Row
<1> HIDE DEF x
<1>5. outbox' \in [Events!Event -> Events!Row] /\ outbox'[e] = x
      /\ \A f \in Events!Event : f # e => outbox'[f] = outbox[f]
  BY <1>1, <1>2, <1>4
<1>6. Events!Committed' = Events!Committed /\ e \notin Events!Committed
  BY <1>1, <1>4, <1>5 DEF Events!Committed
<1>7. VersionsFit'
  <2>1. \A f \in Updates : outbox'[f].state = "open" => outbox'[f].version = sessionVersion' + 1
    BY <1>1, <1>2, <1>4, <1>5, EventFacts DEF VersionsFit
  <2>2. \A f, g \in Updates : outbox'[f].state = "open" /\ outbox'[g].state = "open" => f = g
    BY <1>1, <1>2, <1>4, <1>5, EventFacts DEF VersionsFit
  <2>3. \A f \in Events!Event \ Updates : outbox'[f].version = 0
    BY <1>2, <1>4, <1>5 DEF VersionsFit
  <2>4. \A f \in Events!Committed' : outbox'[f].version <= sessionVersion'
    BY <1>1, <1>2, <1>5, <1>6 DEF VersionsFit, Events!Committed
  <2> QED BY <2>1, <2>2, <2>3, <2>4 DEF VersionsFit
<1>8. \A f \in Events!Event : outbox[f].state # "none" => outbox'[f].version = outbox[f].version
  BY <1>1, <1>5
<1> QED
  BY <1>1, <1>2, <1>5, <1>6, <1>7, <1>8, PagesStay, RowsMove

(* The rows of a transaction end together. *)
LEMMA EndedRows ==
    ASSUME Events!TypeOK, NEW w \in Writer, NEW outcome \in {"new", "rolledback"},
           outbox' = Events!Ended(w, outcome)
    PROVE  /\ outbox' \in [Events!Event -> Events!Row]
           /\ \A e \in Events!Written(w) : e \in Events!Event /\ outbox[e].state = "open"
           /\ \A e \in Events!Event : outbox'[e].version = outbox[e].version
           /\ \A e \in Events!Written(w) : outbox'[e].state = outcome
           /\ \A e \in Events!Event \ Events!Written(w) : outbox'[e] = outbox[e]
           /\ Events!Committed \subseteq Events!Committed'
<1>1. outbox \in [Events!Event -> Events!Row]
  BY DEF Events!TypeOK
<1>2. \A e \in Events!Written(w) : e \in Events!Event /\ outbox[e].state = "open"
  BY DEF Events!Written
<1>3. \A e \in Events!Event :
          outbox'[e] = IF e \in Events!Written(w)
                       THEN [outbox[e] EXCEPT !.state = outcome, !.by = "none"] ELSE outbox[e]
  BY DEF Events!Ended
<1>4. \A e \in Events!Event : outbox[e] \in Events!Row
  BY <1>1
<1>5. ASSUME NEW x \in Events!Row
      PROVE  LET y == [x EXCEPT !.state = outcome, !.by = "none"]
             IN  y \in Events!Row /\ y.state = outcome /\ y.version = x.version
  BY DEF Events!Row
<1>6. \A e \in Events!Event : /\ outbox'[e] \in Events!Row
                              /\ outbox'[e].version = outbox[e].version
                              /\ e \in Events!Written(w) => outbox'[e].state = outcome
  BY <1>3, <1>4, <1>5
<1>7. outbox' \in [Events!Event -> Events!Row]
  BY <1>6 DEF Events!Ended
<1>8. Events!Committed \subseteq Events!Committed'
  BY <1>2, <1>3 DEF Events!Committed
<1> QED
  BY <1>2, <1>3, <1>6, <1>7, <1>8

LEMMA CommitStep ==
    ASSUME Events!EventBounds, EventsInv, NEW w \in Writer, Events!Commit(w)
    PROVE  EventsInv' /\ \A c \in Client : Stays(client[c], client'[c])
<1> DEFINE W == Events!Written(w)
<1>1. /\ outbox' = Events!Ended(w, "new") /\ began' = [began EXCEPT ![w] = 0]
      /\ sessionVersion' = IF W \cap Updates # {} THEN sessionVersion + 1 ELSE sessionVersion
      /\ UNCHANGED <<clock, batch, restarts>>
      /\ \/ client' = client
         \/ \E c \in Client :
               client' = [client EXCEPT ![c] =
                             [client[c] EXCEPT !.late = client[c].late \cup {sessionVersion + 1}]]
  <2>1. client \in [Client -> Events!Browser]
    BY DEF EventsInv, Events!TypeOK
  <2> QED
    BY <2>1 DEF Events!Commit
<1>2. /\ sessionVersion \in Nat /\ batch \subseteq Events!Committed /\ VersionsFit
      /\ clock \in Events!Time /\ began' \in [Writer -> Events!Time] /\ Events!TypeOK
      /\ outbox \in [Events!Event -> Events!Row]
  BY <1>1, EventFacts DEF EventsInv, Events!TypeOK, Events!Time
<1>3. /\ outbox' \in [Events!Event -> Events!Row]
      /\ \A e \in W : e \in Events!Event /\ outbox[e].state = "open"
      /\ \A e \in Events!Event : outbox'[e].version = outbox[e].version
      /\ \A e \in W : outbox'[e].state = "new"
      /\ \A e \in Events!Event \ W : outbox'[e] = outbox[e]
      /\ Events!Committed \subseteq Events!Committed'
  BY <1>1, <1>2, EndedRows
<1> HIDE DEF W
<1>4. \A e \in Events!Event : outbox[e].version \in Nat
  BY <1>2 DEF Events!Row
<1>5. VersionsFit'
  <2>1. \A e \in Updates : outbox'[e].state = "open" =>
            e \notin W /\ outbox'[e] = outbox[e] /\ W \cap Updates = {}
    BY <1>2, <1>3, EventFacts DEF VersionsFit
  <2>2. \A e \in Events!Committed' : e \in Events!Committed \/ e \in W
    BY <1>3 DEF Events!Committed
  <2>3. \A e \in W : e \in Updates => outbox'[e].version = sessionVersion + 1
    BY <1>2, <1>3 DEF VersionsFit
  <2>4. \A e \in W : e \notin Updates => outbox'[e].version = 0
    BY <1>2, <1>3 DEF VersionsFit
  <2>5. \A e \in Events!Committed : e \in Events!Event /\ outbox'[e].version <= sessionVersion
    BY <1>2, <1>3 DEF VersionsFit, Events!Committed
  <2>6. \A e \in Events!Committed' : outbox'[e].version <= sessionVersion'
    BY <1>1, <1>2, <1>3, <1>4, <2>2, <2>3, <2>4, <2>5
  <2> QED
    BY <1>1, <1>2, <1>3, <2>1, <2>6, EventFacts DEF VersionsFit
<1>6. sessionVersion' \in Nat
  BY <1>1, <1>2
<1>7. /\ client' \in [Client -> Events!Browser]
      /\ \A c \in Client :
            /\ SamePage(client[c], client'[c])
            /\ client'[c].replay = client[c].replay /\ client'[c].queue = client[c].queue
  <2>1. CASE client' = client
    BY <2>1, PagesStay
  <2>2. ASSUME NEW d \in Client,
               client' = [client EXCEPT ![d] =
                             [client[d] EXCEPT !.late = client[d].late \cup {sessionVersion + 1}]]
        PROVE  <1>7
    <3> DEFINE p == [client[d] EXCEPT !.late = client[d].late \cup {sessionVersion + 1}]
    <3>1. client \in [Client -> Events!Browser] /\ sessionVersion + 1 \in Nat
      BY <1>2 DEF Events!TypeOK
    <3>2. /\ p \in Events!Browser /\ SamePage(client[d], p)
          /\ p.replay = client[d].replay /\ p.queue = client[d].queue
      BY <3>1 DEF Events!Browser, SamePage
    <3> HIDE DEF p
    <3>3. client' = [client EXCEPT ![d] = p]
      BY <2>2 DEF p
    <3> QED
      BY <3>1, <3>2, <3>3 DEF SamePage
  <2> QED
    BY <1>1, <2>1, <2>2
<1> QED
  BY <1>1, <1>2, <1>3, <1>5, <1>6, <1>7, RowsMove

LEMMA RollbackStep ==
    ASSUME Events!EventBounds, EventsInv, NEW w \in Writer, Events!Rollback(w)
    PROVE  EventsInv' /\ \A c \in Client : Stays(client[c], client'[c])
<1> DEFINE W == Events!Written(w)
<1>1. /\ outbox' = Events!Ended(w, "rolledback") /\ began' = [began EXCEPT ![w] = 0]
      /\ UNCHANGED <<sessionVersion, clock, batch, client, restarts>>
  BY DEF Events!Rollback
<1>2. /\ sessionVersion \in Nat /\ batch \subseteq Events!Committed /\ VersionsFit
      /\ clock \in Events!Time /\ began' \in [Writer -> Events!Time] /\ Events!TypeOK
  BY <1>1, EventFacts DEF EventsInv, Events!TypeOK, Events!Time
<1>3. /\ outbox' \in [Events!Event -> Events!Row]
      /\ \A e \in W : e \in Events!Event /\ outbox[e].state = "open"
      /\ \A e \in Events!Event : outbox'[e].version = outbox[e].version
      /\ \A e \in W : outbox'[e].state = "rolledback"
      /\ \A e \in Events!Event \ W : outbox'[e] = outbox[e]
      /\ Events!Committed \subseteq Events!Committed'
  BY <1>1, <1>2, EndedRows
<1> HIDE DEF W
<1>4. Events!Committed' \subseteq Events!Committed
  BY <1>3 DEF Events!Committed
<1>5. VersionsFit'
  <2>1. \A e \in Updates : outbox'[e].state = "open" => outbox'[e] = outbox[e]
    BY <1>3, EventFacts
  <2> QED
    BY <1>1, <1>2, <1>3, <1>4, <2>1, EventFacts DEF VersionsFit, Events!Committed
<1> QED
  BY <1>1, <1>2, <1>3, <1>5, PagesStay, RowsMove

LEMMA ClaimEventsStep ==
    ASSUME Events!EventBounds, EventsInv, Events!Claim
    PROVE  EventsInv' /\ \A c \in Client : Stays(client[c], client'[c])
<1>1. /\ batch' \subseteq Events!Unpublished
      /\ outbox' = [e \in Events!Event |->
                       IF e \in batch' THEN [outbox[e] EXCEPT !.state = "claimed"] ELSE outbox[e]]
      /\ UNCHANGED <<sessionVersion, clock, began, client, restarts>>
  BY DEF Events!Claim
<1>2. /\ sessionVersion \in Nat /\ VersionsFit /\ outbox \in [Events!Event -> Events!Row]
      /\ clock \in Events!Time /\ began \in [Writer -> Events!Time]
  BY DEF EventsInv, Events!TypeOK
<1>3. ASSUME NEW x \in Events!Row
      PROVE  LET y == [x EXCEPT !.state = "claimed"]
             IN  y \in Events!Row /\ y.state = "claimed" /\ y.version = x.version
  BY DEF Events!Row
<1>4. \A e \in Events!Event : outbox[e] \in Events!Row
  BY <1>2
<1>5. \A e \in Events!Event :
          /\ outbox'[e] \in Events!Row /\ outbox'[e].version = outbox[e].version
          /\ e \in batch' => outbox[e].state = "new" /\ outbox'[e].state = "claimed"
          /\ e \notin batch' => outbox'[e] = outbox[e]
  BY <1>1, <1>3, <1>4 DEF Events!Unpublished
<1>6. outbox' \in [Events!Event -> Events!Row]
  BY <1>1, <1>5
<1>7. Events!Committed' = Events!Committed /\ batch' \subseteq Events!Committed'
  <2>1. batch' \subseteq Events!Event
    BY <1>1 DEF Events!Unpublished
  <2> QED
    BY <1>5, <2>1 DEF Events!Committed
<1>8. VersionsFit'
  <2>1. \A e \in Events!Event : outbox'[e].state = "open" => outbox[e].state = "open"
    BY <1>5
  <2> QED
    BY <1>1, <1>2, <1>5, <1>7, <2>1, EventFacts DEF VersionsFit, Events!Committed
<1> QED
  BY <1>1, <1>2, <1>5, <1>6, <1>7, <1>8, PagesStay, RowsMove

-----------------------------------------------------------------------------
(* The publisher hands out a row, and the server restarts *)

LEMMA FanOutStep ==
    ASSUME Events!EventBounds, EventsInv, NEW e \in Events!Event, Events!FanOut(e)
    PROVE  EventsInv' /\ \A c \in Client : Stays(client[c], client'[c])
<1>1. /\ e \in batch /\ batch' \subseteq batch
      /\ client' = [c \in Client |->
                       IF e \in Events!Public /\ client[c].at = "open"
                       THEN Events!Put(client[c], e) ELSE client[c]]
      /\ UNCHANGED <<sessionVersion, clock, began, outbox, restarts>>
  BY DEF Events!FanOut
<1>2. e \in Events!Committed /\ restarts \in 0 .. MaxRestart /\ client \in [Client -> Events!Browser]
  BY <1>1 DEF EventsInv, Events!TypeOK
<1>3. \A c \in Client : PageTyped(client'[c]) /\ PageFits(client'[c])
                        /\ Stays(client[c], client'[c])
  <2> SUFFICES ASSUME NEW c \in Client
               PROVE  PageTyped(client'[c]) /\ PageFits(client'[c]) /\ Stays(client[c], client'[c])
    OBVIOUS
  <2>1. CASE client'[c] = client[c]
    BY <2>1, PagesGood DEF Stays
  <2>2. CASE client'[c] = Events!Put(client[c], e)
    BY <1>2, <2>2, PagesGood, PutKeeps
  <2> QED
    BY <1>1, <2>1, <2>2
<1>4. EventsInv'
  BY <1>1, <1>2, <1>3, PagesMove
<1> QED
  BY <1>3, <1>4

LEMMA RestartEventsStep ==
    ASSUME Events!EventBounds, EventsInv, Events!Restart
    PROVE  EventsInv' /\ \A c \in Client : Stays(client[c], client'[c])
<1>1. /\ restarts < MaxRestart /\ restarts' = restarts + 1 /\ batch' = {}
      /\ UNCHANGED <<sessionVersion, clock, began, outbox>>
  BY DEF Events!Restart
<1>2. restarts' \in 0 .. MaxRestart /\ client \in [Client -> Events!Browser]
  BY <1>1, EventFacts DEF EventsInv, Events!TypeOK
<1>3. \A c \in Client :
          PageTyped(client'[c]) /\ PageFits(client'[c]) /\ Stays(client[c], client'[c])
  <2> SUFFICES ASSUME NEW c \in Client
               PROVE  PageTyped(client'[c]) /\ PageFits(client'[c]) /\ Stays(client[c], client'[c])
    OBVIOUS
  <2> DEFINE b == client[c]
             q == Events!Closed(b)
             p == [q EXCEPT !.get = {}, !.reading = {}, !.late = {}]
  <2>1. PageTyped(q) /\ PageFits(q) /\ q.seen = b.seen /\ q.view = b.view
    <3>1. b \in Events!Browser
      BY <1>2
    <3> QED
      BY <3>1, PagesGood, ClosedKeeps DEF Events!Closed, Events!Browser
  <2>2. client'[c] = p
    BY DEF Events!Restart
  <2> HIDE DEF q
  <2>3. /\ p \in Events!Browser /\ p.queue = q.queue /\ p.seen = q.seen /\ p.covered = q.covered
        /\ p.replay = q.replay /\ p.cursor = q.cursor /\ p.view = q.view
        /\ p.get = {} /\ p.reading = {}
    BY <2>1 DEF PageTyped, Events!Browser
  <2> HIDE DEF p
  <2> QED
    BY <2>1, <2>2, <2>3 DEF PageTyped, PageFits, Stays
<1>4. DOMAIN client' = Client /\ client' = [c \in Client |-> client'[c]]
  <2> DEFINE f == [c \in Client |-> [Events!Closed(client[c]) EXCEPT
                                       !.get = {}, !.reading = {}, !.late = {}]]
  <2>1. client' = f
    BY DEF Events!Restart
  <2>2. DOMAIN f = Client /\ f = [c \in Client |-> f[c]]
    OBVIOUS
  <2> QED
    BY <2>1, <2>2
<1>5. EventsInv'
  BY <1>1, <1>2, <1>3, <1>4, PagesMove
<1> QED
  BY <1>3, <1>5

-----------------------------------------------------------------------------
(* The handler of one connection, and its browser *)

LEMMA IssueTicketStep ==
    ASSUME Events!EventBounds, EventsInv, NEW c \in Client, Events!IssueTicket(c)
    PROVE  EventsInv' /\ \A d \in Client : Stays(client[d], client'[d])
<1> DEFINE b == client[c]
           p == [b EXCEPT !.at = "ticket", !.connects = b.connects + 1]
<1>1. b \in Events!Browser /\ PageTyped(b) /\ PageFits(b) /\ client \in [Client -> Events!Browser]
  BY PagesGood DEF EventsInv, Events!TypeOK
<1>2. /\ b.connects < MaxConnect /\ client' = [client EXCEPT ![c] = p]
      /\ UNCHANGED <<sessionVersion, clock, began, outbox, batch, restarts>>
  BY <1>1 DEF Events!IssueTicket
<1> HIDE DEF b
<1>3. p \in Events!Browser /\ SamePage(b, p) /\ p.queue = b.queue /\ p.replay = b.replay
  <2>1. b.connects \in 0 .. MaxConnect
    BY <1>1 DEF Events!Browser
  <2>2. b.connects + 1 \in 0 .. MaxConnect
    BY <1>2, <2>1, EventFacts
  <2> QED
    BY <1>1, <2>2 DEF Events!Browser, SamePage
<1> HIDE DEF p
<1>4. PageTyped(p) /\ PageFits(p) /\ Stays(b, p)
  BY <1>1, <1>3 DEF PageTyped, PageFits, SamePage, Stays
<1> QED
  BY <1>2, <1>4, OnePageMoves DEF b

LEMMA AcceptPageStep ==
    ASSUME Events!EventBounds, EventsInv, NEW c \in Client, Events!Accept(c)
    PROVE  EventsInv' /\ \A d \in Client : Stays(client[d], client'[d])
<1> DEFINE p == Events!Replay(client[c])
<1>1. /\ client' = [client EXCEPT ![c] = p]
      /\ UNCHANGED <<sessionVersion, clock, began, outbox, batch, restarts>>
  BY DEF Events!Accept
<1>2. PageTyped(client[c]) /\ PageFits(client[c])
  BY PagesGood
<1>3. PageTyped(p) /\ PageFits(p) /\ Stays(client[c], p)
  BY <1>2, ReplayKeeps
<1> HIDE DEF p
<1> QED
  BY <1>1, <1>3, OnePageMoves

LEMMA RegisterStep ==
    ASSUME Events!EventBounds, EventsInv, NEW c \in Client, Events!Register(c)
    PROVE  EventsInv' /\ \A d \in Client : Stays(client[d], client'[d])
<1> DEFINE b == client[c]
           p == [b EXCEPT !.at = "open"]
<1>1. b \in Events!Browser /\ PageTyped(b) /\ PageFits(b) /\ client \in [Client -> Events!Browser]
  BY PagesGood DEF EventsInv, Events!TypeOK
<1>2. /\ client' = [client EXCEPT ![c] = p]
      /\ UNCHANGED <<sessionVersion, clock, began, outbox, batch, restarts>>
  BY <1>1 DEF Events!Register
<1> HIDE DEF b
<1>3. p \in Events!Browser /\ SamePage(b, p) /\ p.queue = b.queue /\ p.replay = b.replay
  BY <1>1 DEF Events!Browser, SamePage
<1> HIDE DEF p
<1>4. PageTyped(p) /\ PageFits(p) /\ Stays(b, p)
  BY <1>1, <1>3 DEF PageTyped, PageFits, SamePage, Stays
<1> QED
  BY <1>2, <1>4, OnePageMoves DEF b

LEMMA SendReplayedStep ==
    ASSUME Events!EventBounds, EventsInv, NEW c \in Client, NEW e \in Events!Event,
           Events!SendReplayed(c, e)
    PROVE  EventsInv' /\ \A d \in Client : Stays(client[d], client'[d])
<1> DEFINE b == client[c]
           q == Events!Received(b, e)
           p == [q EXCEPT !.replay = q.replay \ {e}]
<1>1. PageTyped(b) /\ PageFits(b)
  BY PagesGood
<1>2. /\ e \in b.replay /\ client' = [client EXCEPT ![c] = p]
      /\ UNCHANGED <<sessionVersion, clock, began, outbox, batch, restarts>>
  <2>1. client \in [Client -> Events!Browser]
    BY DEF EventsInv, Events!TypeOK
  <2> QED
    BY <2>1 DEF Events!SendReplayed
<1>3. e \in Events!Committed
  BY <1>1, <1>2 DEF PageFits
<1>4. PageTyped(q) /\ PageFits(q) /\ Stays(b, q)
  BY <1>1, <1>3, ReceivedKeeps
<1> HIDE DEF b, q
<1>5. /\ p \in Events!Browser /\ SamePage(q, p) /\ p.late = q.late
      /\ p.queue = q.queue /\ p.replay \subseteq q.replay
  BY <1>4 DEF Events!Browser, PageTyped, SamePage
<1> HIDE DEF p
<1>6. PageTyped(p) /\ PageFits(p) /\ Stays(b, p)
  BY <1>4, <1>5 DEF PageTyped, PageFits, SamePage, Stays
<1> QED
  BY <1>2, <1>6, OnePageMoves DEF b

(* A read of the Session that the page asks for now is as new as the        *)
(* updates it took.                                                         *)
LEMMA ReadIsNew ==
    ASSUME EventsInv, NEW c \in Client
    PROVE  \A e \in client[c].seen \cap Updates : outbox[e].version <= sessionVersion
BY PagesGood DEF EventsInv, VersionsFit, PageFits

LEMMA SendResyncStep ==
    ASSUME Events!EventBounds, EventsInv, NEW c \in Client, Events!SendResync(c)
    PROVE  EventsInv' /\ \A d \in Client : Stays(client[d], client'[d])
<1> DEFINE b == client[c]
           r == Events!Segments \cap Events!Committed
           p == [b EXCEPT !.resync = FALSE, !.cursor = Events!NoEvent,
                          !.reading = r, !.get = {sessionVersion}]
<1>1. /\ b \in Events!Browser /\ PageTyped(b) /\ PageFits(b) /\ client \in [Client -> Events!Browser]
      /\ sessionVersion \in Nat /\ r \subseteq Events!Segments /\ r \subseteq Events!Committed
      /\ \A e \in b.seen \cap Updates : outbox[e].version <= sessionVersion
  BY PagesGood, ReadIsNew DEF EventsInv, Events!TypeOK, Events!Committed
<1>2. /\ client' = [client EXCEPT ![c] = p]
      /\ UNCHANGED <<sessionVersion, clock, began, outbox, batch, restarts>>
  BY <1>1 DEF Events!SendResync
<1> HIDE DEF b, r
<1>3. /\ p \in Events!Browser /\ p.queue = b.queue /\ p.seen = b.seen /\ p.covered = b.covered
      /\ p.reading = r /\ p.get = {sessionVersion} /\ p.replay = b.replay
      /\ p.cursor = Events!NoEvent /\ p.view = b.view
  BY <1>1 DEF Events!Browser
<1> HIDE DEF p
<1>4. PageTyped(p) /\ PageFits(p) /\ Stays(b, p)
  BY <1>1, <1>3 DEF PageTyped, PageFits, Stays
<1> QED
  BY <1>2, <1>4, OnePageMoves DEF b

LEMMA SendQueuedStep ==
    ASSUME Events!EventBounds, EventsInv, NEW c \in Client, Events!SendQueued(c)
    PROVE  EventsInv' /\ \A d \in Client : Stays(client[d], client'[d])
<1> DEFINE b == client[c]
           e == Head(b.queue)
           q == Events!Received(b, e)
           rest == Tail(b.queue)
           p == [q EXCEPT !.queue = rest]
<1>1. /\ PageTyped(b) /\ PageFits(b)
      /\ b.queue \in Seq(Events!Event)
  BY PagesGood DEF PageTyped, Events!Browser
<1>2. /\ b.queue # <<>>
      /\ client' = [client EXCEPT ![c] = [Events!Received(client[c], Head(client[c].queue))
                        EXCEPT !.queue = Tail(Events!Received(client[c], Head(client[c].queue)).queue)]]
      /\ UNCHANGED <<sessionVersion, clock, began, outbox, batch, restarts>>
  <2>1. client \in [Client -> Events!Browser]
    BY DEF EventsInv, Events!TypeOK
  <2> QED
    BY <2>1 DEF Events!SendQueued
<1>3. /\ rest \in Seq(Events!Event) /\ Len(rest) = Len(b.queue) - 1 /\ Len(b.queue) \in Nat \ {0}
      /\ \A i \in 1 .. Len(rest) : rest[i] = b.queue[i + 1]
      /\ e = b.queue[1]
  BY <1>1, <1>2, HeadTailProperties, LenProperties
<1> HIDE DEF rest, e
<1>4. e \in Events!Committed /\ \A i \in 1 .. Len(rest) : rest[i] \in Events!Committed
  <2>1. \A i \in 1 .. Len(b.queue) : b.queue[i] \in Events!Committed
    BY <1>1 DEF PageFits
  <2>2. \A i \in 1 .. Len(rest) : i + 1 \in 1 .. Len(b.queue)
    BY <1>3
  <2> HIDE DEF b
  <2> QED
    BY <1>3, <2>1, <2>2
<1>5. PageTyped(q) /\ PageFits(q) /\ Stays(b, q) /\ q.queue = b.queue
  BY <1>1, <1>4, ReceivedKeeps
<1>6. client' = [client EXCEPT ![c] = p]
  BY <1>2, <1>5 DEF rest, e
<1> HIDE DEF b, q
<1>7. /\ p \in Events!Browser /\ SamePage(q, p) /\ p.late = q.late
      /\ p.queue = rest /\ p.replay = q.replay
  BY <1>3, <1>5 DEF Events!Browser, PageTyped, SamePage
<1> HIDE DEF p
<1>8. PageTyped(p) /\ PageFits(p) /\ Stays(b, p)
  BY <1>3, <1>4, <1>5, <1>7, EventFacts DEF PageTyped, PageFits, SamePage, Stays
<1> QED
  BY <1>2, <1>6, <1>8, OnePageMoves DEF b

LEMMA DisconnectStep ==
    ASSUME Events!EventBounds, EventsInv, NEW c \in Client, Events!Disconnect(c)
    PROVE  EventsInv' /\ \A d \in Client : Stays(client[d], client'[d])
<1> DEFINE p == Events!Closed(client[c])
<1>1. /\ client' = [client EXCEPT ![c] = p]
      /\ UNCHANGED <<sessionVersion, clock, began, outbox, batch, restarts>>
  BY DEF Events!Disconnect
<1>2. PageTyped(client[c]) /\ PageFits(client[c])
  BY PagesGood
<1>3. PageTyped(p) /\ PageFits(p) /\ Stays(client[c], p)
  BY <1>2, ClosedKeeps
<1> HIDE DEF p
<1> QED
  BY <1>1, <1>3, OnePageMoves

-----------------------------------------------------------------------------
(* The REST reads of a page *)

LEMMA LoadStep ==
    ASSUME Events!EventBounds, EventsInv, NEW c \in Client, Events!Load(c)
    PROVE  EventsInv' /\ \A d \in Client : Stays(client[d], client'[d])
<1> DEFINE b == client[c]
           r == Events!Segments \cap Events!Committed
           p == [b EXCEPT !.loaded = TRUE, !.view = sessionVersion, !.reading = r]
<1>1. /\ b \in Events!Browser /\ PageTyped(b) /\ PageFits(b) /\ client \in [Client -> Events!Browser]
      /\ sessionVersion \in Nat /\ r \subseteq Events!Segments /\ r \subseteq Events!Committed
      /\ \A e \in b.seen \cap Updates : outbox[e].version <= sessionVersion
      /\ \A e \in b.seen : outbox[e].version \in Nat
  BY PagesGood, ReadIsNew DEF EventsInv, Events!TypeOK, Events!Committed, Events!Row, Events!Browser
<1>2. /\ client' = [client EXCEPT ![c] = p]
      /\ UNCHANGED <<sessionVersion, clock, began, outbox, batch, restarts>>
  BY <1>1 DEF Events!Load
<1> HIDE DEF b, r
<1>3. /\ p \in Events!Browser /\ p.queue = b.queue /\ p.seen = b.seen /\ p.covered = b.covered
      /\ p.reading = r /\ p.get = b.get /\ p.replay = b.replay /\ p.cursor = b.cursor
      /\ p.view = sessionVersion
  BY <1>1 DEF Events!Browser
<1> HIDE DEF p
<1>4. PageTyped(p) /\ PageFits(p) /\ Stays(b, p)
  BY <1>1, <1>3 DEF PageTyped, PageFits, Stays
<1> QED
  BY <1>2, <1>4, OnePageMoves DEF b

LEMMA PollStep ==
    ASSUME Events!EventBounds, EventsInv, NEW c \in Client, Events!Poll(c)
    PROVE  EventsInv' /\ \A d \in Client : Stays(client[d], client'[d])
<1> DEFINE b == client[c]
           p == [b EXCEPT !.get = {sessionVersion}]
<1>1. /\ b \in Events!Browser /\ PageTyped(b) /\ PageFits(b) /\ client \in [Client -> Events!Browser]
      /\ sessionVersion \in Nat
      /\ \A e \in b.seen \cap Updates : outbox[e].version <= sessionVersion
  BY PagesGood, ReadIsNew DEF EventsInv, Events!TypeOK
<1>2. /\ client' = [client EXCEPT ![c] = p]
      /\ UNCHANGED <<sessionVersion, clock, began, outbox, batch, restarts>>
  BY <1>1 DEF Events!Poll
<1> HIDE DEF b
<1>3. /\ p \in Events!Browser /\ p.queue = b.queue /\ p.seen = b.seen /\ p.covered = b.covered
      /\ p.reading = b.reading /\ p.get = {sessionVersion} /\ p.replay = b.replay
      /\ p.cursor = b.cursor /\ p.view = b.view
  BY <1>1 DEF Events!Browser
<1> HIDE DEF p
<1>4. PageTyped(p) /\ PageFits(p) /\ Stays(b, p)
  BY <1>1, <1>3 DEF PageTyped, PageFits, Stays
<1> QED
  BY <1>2, <1>4, OnePageMoves DEF b

(* The answer is not compared with the cache.  It need not be: the read     *)
(* began after every update that the page took.                             *)
LEMMA ArriveStep ==
    ASSUME Events!EventBounds, EventsInv, NEW c \in Client, Events!Arrive(c)
    PROVE  EventsInv' /\ \A d \in Client : Stays(client[d], client'[d])
<1> DEFINE b == client[c]
<1>1. PICK v \in b.get :
        /\ client' = [client EXCEPT ![c] = [b EXCEPT !.view = v, !.get = b.get \ {v}]]
        /\ UNCHANGED <<sessionVersion, clock, began, outbox, batch, restarts>>
  BY DEF Events!Arrive, EventsInv, Events!TypeOK
<1> DEFINE p == [b EXCEPT !.view = v, !.get = b.get \ {v}]
<1>2. /\ b \in Events!Browser /\ PageTyped(b) /\ PageFits(b) /\ v \in Nat
      /\ \A e \in b.seen : outbox[e].version \in Nat
  BY PagesGood DEF EventsInv, Events!TypeOK, Events!Row, Events!Browser
<1>3. client' = [client EXCEPT ![c] = p]
  BY <1>1
<1> HIDE DEF b
<1>4. /\ p \in Events!Browser /\ p.queue = b.queue /\ p.seen = b.seen /\ p.covered = b.covered
      /\ p.reading = b.reading /\ p.get \subseteq b.get /\ p.replay = b.replay
      /\ p.cursor = b.cursor /\ p.view = v
  BY <1>2 DEF Events!Browser
<1> HIDE DEF p
<1>5. PageTyped(p) /\ PageFits(p)
  BY <1>2, <1>4 DEF PageTyped, PageFits
<1>6. Stays(b, p)
  BY <1>1, <1>2, <1>4 DEF PageFits, Stays, b
<1> QED
  BY <1>1, <1>3, <1>5, <1>6, OnePageMoves DEF b

LEMMA ArriveTimelineStep ==
    ASSUME Events!EventBounds, EventsInv, NEW c \in Client, Events!ArriveTimeline(c)
    PROVE  EventsInv' /\ \A d \in Client : Stays(client[d], client'[d])
<1> DEFINE b == client[c]
           p == [b EXCEPT !.covered = b.covered \cup b.reading, !.reading = {}]
<1>1. b \in Events!Browser /\ PageTyped(b) /\ PageFits(b) /\ client \in [Client -> Events!Browser]
  BY PagesGood DEF EventsInv, Events!TypeOK
<1>2. /\ client' = [client EXCEPT ![c] = p]
      /\ UNCHANGED <<sessionVersion, clock, began, outbox, batch, restarts>>
  BY <1>1 DEF Events!ArriveTimeline
<1> HIDE DEF b
<1>3. /\ p \in Events!Browser /\ p.queue = b.queue /\ p.seen = b.seen
      /\ p.covered = b.covered \cup b.reading /\ p.reading = {} /\ p.get = b.get
      /\ p.replay = b.replay /\ p.cursor = b.cursor /\ p.view = b.view
  <2> DEFINE k == b.covered \cup b.reading
  <2>1. k \in SUBSET Events!Event /\ {} \in SUBSET Events!Segments
    BY <1>1 DEF Events!Browser, Events!Segments
  <2> HIDE DEF k
  <2>2. p = [b EXCEPT !.covered = k, !.reading = {}]
    BY DEF k
  <2> HIDE DEF p
  <2>3. /\ p \in Events!Browser /\ p.queue = b.queue /\ p.seen = b.seen
        /\ p.covered = k /\ p.reading = {} /\ p.get = b.get
        /\ p.replay = b.replay /\ p.cursor = b.cursor /\ p.view = b.view
    BY <1>1, <2>1, <2>2 DEF Events!Browser
  <2> QED
    BY <2>3 DEF k
<1> HIDE DEF p
<1>4. PageTyped(p) /\ PageFits(p) /\ Stays(b, p)
  BY <1>1, <1>3 DEF PageTyped, PageFits, Stays
<1> QED
  BY <1>2, <1>4, OnePageMoves DEF b

LEMMA ReadRecordStep ==
    ASSUME Events!EventBounds, EventsInv, NEW c \in Client, Events!ReadRecord(c)
    PROVE  EventsInv' /\ \A d \in Client : Stays(client[d], client'[d])
<1> DEFINE b == client[c]
           p == [b EXCEPT !.late = b.late \cup {sessionVersion}]
<1>1. /\ b \in Events!Browser /\ PageTyped(b) /\ PageFits(b) /\ client \in [Client -> Events!Browser]
      /\ sessionVersion \in Nat
  BY PagesGood DEF EventsInv, Events!TypeOK
<1>2. /\ client' = [client EXCEPT ![c] = p]
      /\ UNCHANGED <<sessionVersion, clock, began, outbox, batch, restarts>>
  BY <1>1 DEF Events!ReadRecord
<1> HIDE DEF b
<1>3. p \in Events!Browser /\ SamePage(b, p) /\ p.queue = b.queue /\ p.replay = b.replay
  BY <1>1 DEF Events!Browser, SamePage
<1> HIDE DEF p
<1>4. PageTyped(p) /\ PageFits(p) /\ Stays(b, p)
  BY <1>1, <1>3 DEF PageTyped, PageFits, SamePage, Stays
<1> QED
  BY <1>2, <1>4, OnePageMoves DEF b

LEMMA ArriveLateStep ==
    ASSUME Events!EventBounds, EventsInv, NEW c \in Client, Events!ArriveLate(c)
    PROVE  EventsInv' /\ \A d \in Client : Stays(client[d], client'[d])
<1> DEFINE b == client[c]
<1>1. PICK v \in b.late :
        /\ client' = [client EXCEPT ![c] = [b EXCEPT !.view = v, !.late = b.late \ {v}]]
        /\ UNCHANGED <<sessionVersion, clock, began, outbox, batch, restarts>>
  BY DEF Events!ArriveLate, EventsInv, Events!TypeOK
<1> DEFINE p == [b EXCEPT !.view = v, !.late = b.late \ {v}]
<1>2. b \in Events!Browser /\ PageTyped(b) /\ PageFits(b) /\ v \in Nat
  BY PagesGood DEF EventsInv, Events!TypeOK, Events!Browser
<1>3. client' = [client EXCEPT ![c] = p]
  BY <1>1
<1>4. /\ p \in Events!Browser /\ p.queue = b.queue /\ p.seen = b.seen /\ p.covered = b.covered
      /\ p.reading = b.reading /\ p.get = b.get /\ p.replay = b.replay
      /\ p.cursor = b.cursor /\ p.late # b.late
  BY <1>2 DEF Events!Browser
<1> HIDE DEF b, p
<1>5. PageTyped(p) /\ PageFits(p) /\ Stays(b, p)
  BY <1>2, <1>4 DEF PageTyped, PageFits, Stays
<1> QED
  BY <1>1, <1>3, <1>5, OnePageMoves DEF b

-----------------------------------------------------------------------------
(* The theorems *)

LEMMA EventsStep ==
    ASSUME Events!EventBounds, EventsInv, [Events!Next]_(Events!vars)
    PROVE  EventsInv' /\ \A c \in Client : Stays(client[c], client'[c])
<1>1. CASE UNCHANGED Events!vars
  <2>1. UNCHANGED <<sessionVersion, clock, began, outbox, batch, client, restarts>>
    BY <1>1 DEF Events!vars
  <2>2. sessionVersion \in Nat /\ clock \in Events!Time /\ began \in [Writer -> Events!Time]
        /\ outbox \in [Events!Event -> Events!Row] /\ VersionsFit /\ batch \subseteq Events!Committed
    BY DEF EventsInv, Events!TypeOK
  <2>3. VersionsFit' /\ Events!Committed' = Events!Committed
    BY <2>1, <2>2 DEF VersionsFit, Events!Committed
  <2> QED
    BY <2>1, <2>2, <2>3, PagesStay, RowsMove
<1>2. ASSUME NEW w \in Writer,
             \/ Events!Begin(w) \/ (\E e \in Events!Event : Events!Enqueue(w, e))
             \/ Events!Commit(w) \/ Events!Rollback(w)
      PROVE  EventsInv' /\ \A c \in Client : Stays(client[c], client'[c])
  BY <1>2, BeginStep, EnqueueStep, CommitStep, RollbackStep
<1>3. ASSUME NEW c \in Client,
             \/ Events!IssueTicket(c) \/ Events!Accept(c) \/ Events!Register(c)
             \/ Events!Send(c) \/ Events!Disconnect(c) \/ Events!Load(c) \/ Events!Poll(c)
             \/ Events!Arrive(c) \/ Events!ArriveTimeline(c)
             \/ Events!ReadRecord(c) \/ Events!ArriveLate(c)
      PROVE  EventsInv' /\ \A d \in Client : Stays(client[d], client'[d])
  <2>1. CASE Events!Send(c)
    BY <2>1, SendReplayedStep, SendResyncStep, SendQueuedStep DEF Events!Send
  <2> QED
    BY <1>3, <2>1, IssueTicketStep, AcceptPageStep, RegisterStep, DisconnectStep, LoadStep,
       PollStep, ArriveStep, ArriveTimelineStep, ReadRecordStep, ArriveLateStep
<1> QED
  BY <1>1, <1>2, <1>3, ClaimEventsStep, FanOutStep, RestartEventsStep DEF Events!Next

(* The versions of the outbox rows, and what every browser was told, are as *)
(* one open update at a time leaves them: in every reachable state.         *)
LEMMA EventsInvariant ==
    ASSUME Events!EventBounds PROVE Events!Spec => []EventsInv
<1>1. Events!Init => EventsInv
  BY EventsInit
<1>2. EventsInv /\ [Events!Next]_(Events!vars) => EventsInv'
  BY EventsStep
<1> QED
  BY <1>1, <1>2, PTL DEF Events!Spec

(* Every field of the outbox rows, the hub's queues and the browsers stays  *)
(* in its range; no queue grows beyond QueueSize (realtime.py, publish).    *)
THEOREM EventsTypeCorrect ==
    ASSUME Events!EventBounds PROVE Events!Spec => []Events!TypeOK
<1>1. EventsInv => Events!TypeOK
  BY DEF EventsInv
<1> QED
  BY <1>1, EventsInvariant, PTL

(* The publisher, the replay and the queues hold only rows of transactions  *)
(* that committed, and so does every browser: outbox rows are claimed and   *)
(* replayed by their state after the writer's transaction ended.            *)
THEOREM TellsWhatCommitted ==
    ASSUME Events!EventBounds PROVE Events!Spec => []Events!ToldIsCommitted
<1>1. EventsInv => Events!ToldIsCommitted
  <2> SUFFICES ASSUME EventsInv PROVE Events!ToldIsCommitted
    OBVIOUS
  <2>1. ASSUME NEW c \in Client
        PROVE  /\ Events!Heard(c) \cup client[c].reading \cup client[c].replay
                      \cup {client[c].queue[i] : i \in DOMAIN client[c].queue} \subseteq Events!Committed
               /\ client[c].cursor # Events!NoEvent => client[c].cursor \in client[c].seen
    <3>1. PageFits(client[c]) /\ client[c].queue \in Seq(Events!Event)
      BY PagesGood DEF PageTyped, Events!Browser
    <3>2. DOMAIN client[c].queue = 1 .. Len(client[c].queue)
      BY <3>1, LenProperties
    <3> QED
      BY <3>1, <3>2 DEF PageFits, Events!Heard
  <2> QED
    BY <2>1 DEF EventsInv, Events!ToldIsCommitted
<1> QED
  BY <1>1, EventsInvariant, PTL

(* Once an update event brought a page a Session as new as itself, no read  *)
(* of the Session that was under way takes it back, whenever its answer     *)
(* arrives: the event cancelled the read (invalidateQueries after           *)
(* applySessionUpdatedEvent).  Only an answer that no event cancels can.    *)
THEOREM UpdatesStay ==
    ASSUME Events!EventBounds PROVE Events!Spec => Events!EventsStay
<1>1. EventsInv /\ [Events!Next]_(Events!vars) =>
        [\A c \in Client : \A e \in client[c].seen \cap Updates :
            client[c].view >= outbox[e].version =>
                client'[c].view >= outbox[e].version
                    \/ client'[c].late # client[c].late]_(Events!vars)
  BY EventsStep DEF Stays
<1> QED
  BY <1>1, EventsInvariant, PTL DEF Events!Spec, Events!EventsStay

-----------------------------------------------------------------------------
(* Nothing is dropped on the way.  The steps of the outbox, of the server   *)
(* and of other pages leave a page alone; those of its own connection and   *)
(* the publisher each hand an event over.                                   *)

Reaches(c, e) ==
    Events!OnItsWay(c, e)' \/ e \in Events!Heard(c)' \/ client'[c].at = "down"

(* A page whose connection nothing happens to. *)
SameWait(b, p) ==
    /\ p.at = b.at /\ p.cursor = b.cursor /\ p.replay = b.replay /\ p.queue = b.queue
    /\ p.resync = b.resync

SameAnswers(b, p) == p.reading = b.reading /\ p.get = b.get

(* An answer that will bring e to the page. *)
InAnswer(b, e) ==
    \/ e \in b.reading
    \/ e \in Updates /\ \E v \in b.get : outbox[e].version <= v

LEMMA PageWaits ==
    ASSUME EventsInv, NEW c \in Client, NEW e \in Events!Committed, Events!OnItsWay(c, e),
           SameWait(client[c], client'[c]),
           InAnswer(client[c], e) => SameAnswers(client[c], client'[c]),
           \A f \in Events!Committed :
              /\ f \in Events!Committed' /\ outbox'[f].created = outbox[f].created
              /\ outbox'[f].version = outbox[f].version,
           /\ client[c].at = "open" /\ e \in Events!Unpublished \cup batch
           => e \in Events!Unpublished' \cup batch'
    PROVE  Events!OnItsWay(c, e)'
<1>1. PageFits(client[c])
  BY PagesGood
<1>2. CASE /\ client[c].at = "ticket" /\ client[c].cursor # Events!NoEvent
           /\ e \in Events!RowsAfter(client[c].cursor)
  <2>1. Events!CreatedBefore(client[c].cursor, e)
    BY <1>2 DEF Events!RowsAfter
  <2>2. client[c].cursor \in Events!Committed
    BY <1>1, <1>2 DEF PageFits
  <2>3. e \in Events!Committed' /\ Events!CreatedBefore(client[c].cursor, e)'
    BY <2>1, <2>2 DEF Events!CreatedBefore, SameWait
  <2>4. (e \in Events!RowsAfter(client[c].cursor))'
    BY <2>3 DEF Events!RowsAfter, Events!CreatedBefore
  <2> QED
    BY <1>2, <2>4 DEF Events!OnItsWay, Events!NoEvent, SameWait
<1>3. CASE ~(/\ client[c].at = "ticket" /\ client[c].cursor # Events!NoEvent
             /\ e \in Events!RowsAfter(client[c].cursor))
  BY <1>3 DEF Events!OnItsWay, SameWait, InAnswer, SameAnswers
<1> QED BY <1>2, <1>3

(* Rows that are committed stay so, with the time they were created at. *)
LEMMA CommittedRowsStay ==
    ASSUME Events!EventBounds, EventsInv, NEW f \in Events!Committed,
           \/ \E w \in Writer : \/ Events!Begin(w) \/ Events!Commit(w) \/ Events!Rollback(w)
                                \/ \E g \in Events!Event : Events!Enqueue(w, g)
           \/ Events!Claim \/ UNCHANGED outbox
    PROVE  /\ f \in Events!Committed' /\ outbox'[f].created = outbox[f].created
           /\ outbox'[f].version = outbox[f].version
<1>1. /\ f \in Events!Event /\ outbox[f].state \in {"new", "claimed"}
      /\ outbox \in [Events!Event -> Events!Row]
  BY DEF Events!Committed, EventsInv, Events!TypeOK
<1>2. CASE Events!Claim
  BY <1>1, <1>2 DEF Events!Claim, Events!Committed, Events!Row
<1>3. ASSUME NEW w \in Writer, Events!Commit(w) \/ Events!Rollback(w)
      PROVE  outbox'[f] = outbox[f]
  BY <1>1, <1>3 DEF Events!Commit, Events!Rollback, Events!Ended, Events!Written
<1>4. ASSUME NEW w \in Writer, NEW g \in Events!Event, Events!Enqueue(w, g)
      PROVE  outbox'[f] = outbox[f]
  BY <1>1, <1>4 DEF Events!Enqueue
<1>5. ASSUME NEW w \in Writer, Events!Begin(w)
      PROVE  outbox'[f] = outbox[f]
  BY <1>5 DEF Events!Begin
<1> QED
  BY <1>1, <1>2, <1>3, <1>4, <1>5 DEF Events!Committed

LEMMA OutboxKeeps ==
    ASSUME Events!EventBounds, EventsInv,
           NEW c \in Client, NEW e \in Events!Committed, Events!OnItsWay(c, e),
           \/ \E w \in Writer : \/ Events!Begin(w) \/ Events!Commit(w) \/ Events!Rollback(w)
                                \/ \E g \in Events!Event : Events!Enqueue(w, g)
           \/ Events!Claim
    PROVE  Events!OnItsWay(c, e)'
<1>1. SameWait(client[c], client'[c]) /\ SameAnswers(client[c], client'[c])
  <2>1. client \in [Client -> Events!Browser]
    BY DEF EventsInv, Events!TypeOK
  <2>2. CASE client' = client
    BY <2>2 DEF SameWait, SameAnswers
  <2>3. ASSUME NEW d \in Client, NEW v,
               client' = [client EXCEPT ![d].late = client[d].late \cup {v}]
        PROVE  SameWait(client[c], client'[c]) /\ SameAnswers(client[c], client'[c])
    BY <2>1, <2>3 DEF SameWait, SameAnswers, Events!Browser
  <2>4. ASSUME NEW w \in Writer, Events!Commit(w)
        PROVE  SameWait(client[c], client'[c]) /\ SameAnswers(client[c], client'[c])
    <3>1. CASE client' = client
      BY <2>2, <3>1
    <3>2. CASE client' # client
      <4>1. PICK d \in Client :
                client' = [client EXCEPT ![d].late = client[d].late \cup {sessionVersion + 1}]
        BY <2>1, <2>4, <3>2 DEF Events!Commit
      <4> QED
        BY <4>1, <2>3
    <3> QED
      BY <3>1, <3>2
  <2> QED
    BY <2>2, <2>4 DEF Events!Begin, Events!Rollback, Events!Enqueue, Events!Claim
<1>2. e \in Events!Event /\ outbox \in [Events!Event -> Events!Row]
      /\ outbox[e].state \in {"new", "claimed"}
  BY DEF Events!Committed, EventsInv, Events!TypeOK
<1>3. CASE Events!Claim
  <2>1. e \in Events!Unpublished \cup batch => e \in Events!Unpublished' \cup batch'
    BY <1>2, <1>3 DEF Events!Claim, Events!Unpublished
  <2> QED
    BY <1>1, <1>2, <1>3, <2>1, CommittedRowsStay, PageWaits
<1>4. ASSUME NEW w \in Writer,
             \/ Events!Begin(w) \/ Events!Commit(w) \/ Events!Rollback(w)
             \/ \E g \in Events!Event : Events!Enqueue(w, g)
      PROVE  Events!OnItsWay(c, e)'
  <2>1. batch' = batch
    BY <1>4 DEF Events!Begin, Events!Commit, Events!Rollback, Events!Enqueue
  <2>2. outbox'[e] = outbox[e]
    <3>1. CASE Events!Begin(w)
      BY <3>1 DEF Events!Begin
    <3>2. CASE Events!Commit(w) \/ Events!Rollback(w)
      BY <1>2, <3>2 DEF Events!Commit, Events!Rollback, Events!Ended, Events!Written
    <3>3. CASE \E g \in Events!Event : Events!Enqueue(w, g)
      BY <1>2, <3>3 DEF Events!Enqueue
    <3> QED BY <1>4, <3>1, <3>2, <3>3
  <2>3. e \in Events!Unpublished \cup batch => e \in Events!Unpublished' \cup batch'
    BY <1>2, <2>1, <2>2 DEF Events!Unpublished
  <2> QED
    BY <1>1, <1>2, <1>4, <2>3, CommittedRowsStay, PageWaits
<1> QED BY <1>3, <1>4

(* The publisher puts its row in the queue of a registered page, or flags   *)
(* the page.                                                                *)
LEMMA FanOutKeeps ==
    ASSUME Events!EventBounds, EventsInv, NEW g \in Events!Event, Events!FanOut(g),
           NEW c \in Client, NEW e \in Events!Committed \cap Events!Public, Events!OnItsWay(c, e)
    PROVE  Events!OnItsWay(c, e)'
<1> DEFINE b == client[c]
<1>1. /\ g \in batch /\ batch' = batch \ {g} /\ outbox' = outbox
      /\ client'[c] = IF g \in Events!Public /\ b.at = "open" THEN Events!Put(b, g) ELSE b
  BY DEF Events!FanOut
<1>2. b \in Events!Browser /\ b.queue \in Seq(Events!Event) /\ e \in Events!Event
  BY PagesGood DEF PageTyped, Events!Browser, Events!Committed
<1>3. \A f \in Events!Committed :
          /\ f \in Events!Committed' /\ outbox'[f].created = outbox[f].created
          /\ outbox'[f].version = outbox[f].version
  BY <1>1 DEF Events!Committed
<1>4. CASE b.at # "open"
  BY <1>1, <1>2, <1>3, <1>4, PageWaits DEF SameWait, SameAnswers
<1>5. CASE b.at = "open" /\ g \notin Events!Public
  <2>1. e \in Events!Unpublished \cup batch => e \in Events!Unpublished' \cup batch'
    BY <1>1, <1>5 DEF Events!Unpublished
  <2> QED
    BY <1>1, <1>2, <1>3, <1>5, <2>1, PageWaits DEF SameWait, SameAnswers
<1>6. CASE b.at = "open" /\ g \in Events!Public /\ Len(b.queue) < QueueSize
  <2> DEFINE q == Append(b.queue, g)
  <2>1. /\ DOMAIN b.queue = 1 .. Len(b.queue) /\ DOMAIN q = 1 .. Len(b.queue) + 1
        /\ \A i \in 1 .. Len(b.queue) : q[i] = b.queue[i]
        /\ q[Len(b.queue) + 1] = g /\ Len(b.queue) \in Nat
    BY <1>2, AppendProperties, LenProperties
  <2>2. g = e => \E i \in DOMAIN q : q[i] = e
    BY <2>1
  <2>3. (\E i \in DOMAIN b.queue : b.queue[i] = e) => \E i \in DOMAIN q : q[i] = e
    BY <2>1
  <2> HIDE DEF q
  <2>4. /\ client'[c].at = "open" /\ client'[c].replay = b.replay
        /\ client'[c].resync = b.resync /\ client'[c].queue = q
        /\ client'[c].reading = b.reading /\ client'[c].get = b.get
    BY <1>1, <1>2, <1>6 DEF Events!Put, Events!Browser, q
  <2>5. e \in Events!Unpublished \cup batch => g = e \/ e \in Events!Unpublished' \cup batch'
    BY <1>1 DEF Events!Unpublished
  <2> QED
    BY <1>1, <1>6, <2>2, <2>3, <2>4, <2>5 DEF Events!OnItsWay
<1>7. CASE b.at = "open" /\ g \in Events!Public /\ ~(Len(b.queue) < QueueSize)
  <2>1. client'[c].at = "open" /\ client'[c].resync
    BY <1>1, <1>2, <1>7 DEF Events!Put, Events!Browser
  <2> QED BY <2>1 DEF Events!OnItsWay
<1> QED BY <1>4, <1>5, <1>6, <1>7

(* A page that takes an event has heard it, and all it had heard before. *)
LEMMA ReceivedHears ==
    ASSUME NEW b \in Events!Browser, NEW e
    PROVE  LET p == Events!Received(b, e)
           IN  /\ p \in [at : {b.at}, cursor : {b.cursor, e}, seen : {b.seen \cup {e}},
                         covered : {b.covered}, loaded : {b.loaded}, view : {p.view},
                         get : {b.get, {sessionVersion}}, reading : {b.reading}, late : {b.late},
                         replay : {b.replay}, queue : {b.queue}, resync : {b.resync},
                         connects : {b.connects}]
<1>1. CASE e \in b.seen
  BY <1>1 DEF Events!Received, Events!Browser
<1>2. CASE e \notin b.seen
  BY <1>2 DEF Events!Received, Events!Browser
<1> QED BY <1>1, <1>2

LEMMA AnswerWaits ==
    ASSUME UNCHANGED outbox, NEW c \in Client, NEW e, InAnswer(client[c], e),
           client'[c].reading = client[c].reading, client'[c].get = client[c].get
    PROVE  Events!OnItsWay(c, e)'
BY DEF InAnswer, Events!OnItsWay

(* The steps of the page's own connection. *)
LEMMA OpeningKeeps ==
    ASSUME Events!EventBounds, EventsInv,
           NEW c \in Client, NEW e \in Events!Committed \cap Events!Public, Events!OnItsWay(c, e),
           Events!IssueTicket(c) \/ Events!Accept(c) \/ Events!Register(c)
    PROVE  Events!OnItsWay(c, e)'
<1> DEFINE b == client[c]
<1>1. b \in Events!Browser /\ client \in [Client -> Events!Browser]
  BY DEF EventsInv, Events!TypeOK
<1>2. CASE ~InAnswer(b, e) /\ Events!IssueTicket(c)
  BY <1>2 DEF Events!IssueTicket, Events!OnItsWay, InAnswer
<1>3. CASE ~InAnswer(b, e) /\ Events!Accept(c)
  <2>1. /\ b.at = "ticket" /\ b.cursor # Events!NoEvent
        /\ e \in Events!RowsAfter(b.cursor) \cap Events!Public
        /\ client'[c] = Events!Replay(b)
    BY <1>1, <1>3 DEF Events!Accept, Events!OnItsWay, InAnswer
  <2>2. \/ Events!Replay(b) = [b EXCEPT !.at = "replayed", !.resync = TRUE]
        \/ Events!Replay(b) = [b EXCEPT !.at = "replayed",
                                        !.replay = Events!RowsAfter(b.cursor) \cap Events!Public]
    BY <2>1 DEF Events!Replay
  <2>3. client'[c].at = "replayed" /\ (client'[c].resync \/ e \in client'[c].replay)
    <3>1. CASE Events!Replay(b) = [b EXCEPT !.at = "replayed", !.resync = TRUE]
      BY <1>1, <2>1, <3>1 DEF Events!Browser
    <3>2. CASE Events!Replay(b) = [b EXCEPT !.at = "replayed",
                                            !.replay = Events!RowsAfter(b.cursor) \cap Events!Public]
      BY <1>1, <2>1, <3>2 DEF Events!Browser
    <3> QED
      BY <2>2, <3>1, <3>2
  <2> QED BY <2>3 DEF Events!OnItsWay
<1>4. CASE ~InAnswer(b, e) /\ Events!Register(c)
  <2>1. b.at = "replayed" /\ client'[c] = [b EXCEPT !.at = "open"]
    BY <1>1, <1>4 DEF Events!Register
  <2>2. e \in b.replay \/ b.resync
    BY <1>4, <2>1 DEF Events!OnItsWay, InAnswer
  <2>3. client'[c].at = "open" /\ (client'[c].resync \/ e \in client'[c].replay)
    BY <1>1, <2>1, <2>2 DEF Events!Browser
  <2> QED BY <2>3 DEF Events!OnItsWay
<1>5. CASE InAnswer(b, e)
  <2>1. UNCHANGED outbox
    BY DEF Events!IssueTicket, Events!Accept, Events!Register
  <2>2. client'[c].reading = b.reading /\ client'[c].get = b.get
    <3>1. CASE Events!Accept(c)
      <4>1. Events!Replay(b).reading = b.reading /\ Events!Replay(b).get = b.get
        BY <1>1 DEF Events!Replay, Events!Browser
      <4> QED
        BY <1>1, <3>1, <4>1 DEF Events!Accept
    <3> QED
      BY <1>1, <3>1 DEF Events!IssueTicket, Events!Register, Events!Browser
  <2> QED
    BY <1>5, <2>1, <2>2, AnswerWaits
<1> QED BY <1>2, <1>3, <1>4, <1>5

LEMMA SendingKeeps ==
    ASSUME Events!EventBounds, EventsInv,
           NEW c \in Client, NEW e \in Events!Committed \cap Events!Public, Events!OnItsWay(c, e),
           Events!Send(c)
    PROVE  Reaches(c, e)
<1> DEFINE b == client[c]
<1>1. /\ b \in Events!Browser /\ client \in [Client -> Events!Browser]
      /\ b.queue \in Seq(Events!Event)
  BY DEF EventsInv, Events!TypeOK, Events!Browser
<1>2. b.at = "open" /\ batch' = batch /\ outbox' = outbox
  BY DEF Events!Send, Events!SendReplayed, Events!SendResync, Events!SendQueued
<1>3. Events!Unpublished' = Events!Unpublished /\ Events!Committed' = Events!Committed
  BY <1>2 DEF Events!Unpublished, Events!Committed
<1>4. e \in Updates => outbox[e].version <= sessionVersion
  BY DEF EventsInv, VersionsFit
<1>5. ASSUME NEW g \in Events!Event, Events!SendReplayed(c, g)
      PROVE  Reaches(c, e)
  <2> DEFINE q == Events!Received(b, g)
  <2>1. client'[c] = [q EXCEPT !.replay = q.replay \ {g}]
    BY <1>1, <1>5 DEF Events!SendReplayed
  <2>2. /\ client'[c].at = "open" /\ client'[c].replay = b.replay \ {g}
        /\ client'[c].resync = b.resync /\ client'[c].queue = b.queue
        /\ g \in client'[c].seen /\ client'[c].reading = b.reading
        /\ client'[c].get \in {b.get, {sessionVersion}}
    BY <1>1, <1>2, <2>1, ReceivedHears
  <2> QED
    BY <1>2, <1>3, <1>4, <2>2 DEF Reaches, Events!OnItsWay, Events!Heard
<1>6. CASE Events!SendResync(c)
  <2>1. /\ client'[c].reading = Events!Segments \cap Events!Committed
        /\ client'[c].get = {sessionVersion}
    BY <1>1, <1>6 DEF Events!SendResync, Events!Browser
  <2>2. e \in Updates \/ e \in Events!Segments
    BY DEF Events!Segments, Events!Committed
  <2> QED BY <1>2, <1>4, <2>1, <2>2 DEF Reaches, Events!OnItsWay
<1>7. CASE Events!SendQueued(c)
  <2> DEFINE g == Head(b.queue)
             q == Events!Received(b, g)
  <2>1. b.replay = {} /\ ~b.resync /\ b.queue # <<>>
        /\ client'[c] = [q EXCEPT !.queue = Tail(q.queue)]
    BY <1>1, <1>7 DEF Events!SendQueued
  <2>2. /\ client'[c].at = "open" /\ client'[c].queue = Tail(b.queue)
        /\ g \in client'[c].seen /\ client'[c].reading = b.reading
        /\ client'[c].get \in {b.get, {sessionVersion}}
    BY <1>1, <1>2, <2>1, ReceivedHears
  <2>3. /\ DOMAIN b.queue = 1 .. Len(b.queue) /\ DOMAIN Tail(b.queue) = 1 .. Len(b.queue) - 1
        /\ g = b.queue[1] /\ Len(b.queue) \in Nat \ {0}
        /\ \A i \in 1 .. Len(b.queue) - 1 : Tail(b.queue)[i] = b.queue[i + 1]
    BY <1>1, <2>1, HeadTailProperties, LenProperties
  <2>4. ASSUME NEW i \in DOMAIN b.queue, b.queue[i] = e, g # e
        PROVE  \E k \in DOMAIN Tail(b.queue) : Tail(b.queue)[k] = e
    <3>1. i # 1 /\ i \in 1 .. Len(b.queue)
      BY <2>3, <2>4
    <3>2. i - 1 \in 1 .. Len(b.queue) - 1
      BY <2>3, <3>1
    <3>3. Tail(b.queue)[i - 1] = b.queue[i]
      BY <2>3, <3>1, <3>2
    <3> QED BY <2>3, <2>4, <3>2, <3>3
  <2> HIDE DEF g
  <2> QED
    BY <1>2, <1>3, <1>4, <2>1, <2>2, <2>4 DEF Reaches, Events!OnItsWay, Events!Heard
<1> QED BY <1>5, <1>6, <1>7 DEF Events!Send

(* The page's reads: its connection does not move, and an answer under way  *)
(* stays so until it arrives or is asked for again.                         *)
LEMMA ReadsOnly ==
    ASSUME EventsInv, NEW c \in Client,
           \/ Events!Load(c) \/ Events!Poll(c) \/ Events!Arrive(c) \/ Events!ArriveTimeline(c)
           \/ Events!ReadRecord(c) \/ Events!ArriveLate(c)
    PROVE  /\ UNCHANGED <<outbox, batch>> /\ SameWait(client[c], client'[c])
           /\ \/ client'[c].get = client[c].get \/ client[c].get = {}
              \/ client'[c].view \in client[c].get
                 /\ client'[c].get = client[c].get \ {client'[c].view}
           /\ \/ client'[c].reading = client[c].reading
              \/ client'[c].reading = Events!Segments \cap Events!Committed
              \/ client[c].reading \subseteq client'[c].covered
<1> DEFINE b == client[c]
<1>1. b \in Events!Browser /\ client \in [Client -> Events!Browser]
  BY DEF EventsInv, Events!TypeOK
<1>2. CASE Events!Load(c)
  BY <1>1, <1>2 DEF Events!Load, SameWait, Events!Browser
<1>3. CASE Events!Poll(c)
  BY <1>1, <1>3 DEF Events!Poll, SameWait, Events!Browser
<1>4. CASE Events!Arrive(c)
  <2>1. PICK v \in b.get :
            client' = [client EXCEPT ![c] = [b EXCEPT !.view = v, !.get = b.get \ {v}]]
    BY <1>1, <1>4 DEF Events!Arrive
  <2> QED
    BY <1>1, <1>4, <2>1 DEF Events!Arrive, SameWait, Events!Browser
<1>5. CASE Events!ArriveTimeline(c)
  BY <1>1, <1>5 DEF Events!ArriveTimeline, SameWait, Events!Browser
<1>6. CASE Events!ReadRecord(c)
  BY <1>1, <1>6 DEF Events!ReadRecord, SameWait, Events!Browser
<1>7. CASE Events!ArriveLate(c)
  <2>1. PICK v \in b.late :
            client' = [client EXCEPT ![c] = [b EXCEPT !.view = v, !.late = b.late \ {v}]]
    BY <1>1, <1>7 DEF Events!ArriveLate
  <2> QED
    BY <1>1, <1>7, <2>1 DEF Events!ArriveLate, SameWait, Events!Browser
<1> QED
  BY <1>2, <1>3, <1>4, <1>5, <1>6, <1>7

LEMMA ReadingKeeps ==
    ASSUME EventsInv, NEW c \in Client, NEW e \in Events!Committed \cap Events!Public,
           Events!OnItsWay(c, e),
           \/ Events!Load(c) \/ Events!Poll(c) \/ Events!Arrive(c) \/ Events!ArriveTimeline(c)
           \/ Events!ReadRecord(c) \/ Events!ArriveLate(c)
    PROVE  Reaches(c, e)
<1> DEFINE b == client[c]
           p == client'[c]
<1>1. /\ UNCHANGED <<outbox, batch>> /\ SameWait(b, p)
      /\ \/ p.get = b.get \/ b.get = {}
         \/ p.view \in b.get /\ p.get = b.get \ {p.view}
      /\ \/ p.reading = b.reading \/ p.reading = Events!Segments \cap Events!Committed
         \/ b.reading \subseteq p.covered
  BY ReadsOnly, ZenonT(30)
<1>2. UNCHANGED <<Events!Unpublished, Events!Committed>>
  BY <1>1 DEF Events!Unpublished, Events!Committed
<1>3. /\ b.reading \subseteq Events!Segments \cap Events!Committed
      /\ e \in Events!Event /\ Updates \cap Events!Segments = {}
  BY PagesGood DEF PageTyped, PageFits, Events!Browser, Events!Committed, Events!Segments
<1> HIDE DEF b, p
<1>4. CASE e \in b.reading
  <2>1. e \in p.reading \/ e \in p.covered
    BY <1>1, <1>3, <1>4
  <2> QED
    BY <2>1 DEF p, Reaches, Events!OnItsWay, Events!Heard
<1>5. CASE e \in Updates /\ \E v \in b.get : outbox[e].version <= v
  <2>1. (\E v \in p.get : outbox[e].version <= v) \/ outbox[e].version <= p.view
    BY <1>1, <1>5
  <2>2. CASE \E v \in p.get : outbox[e].version <= v
    BY <1>1, <1>5, <2>2 DEF p, Reaches, Events!OnItsWay
  <2>3. CASE outbox[e].version <= p.view
    BY <1>1, <1>2, <1>5, <2>3 DEF p, Reaches, Events!Heard
  <2> QED
    BY <2>1, <2>2, <2>3
<1>6. CASE ~InAnswer(b, e)
  <2>1. \A f \in Events!Committed :
            /\ f \in Events!Committed' /\ outbox'[f].created = outbox[f].created
            /\ outbox'[f].version = outbox[f].version
    BY <1>1, <1>2
  <2>2. Events!OnItsWay(c, e)'
    BY <1>1, <1>2, <1>6, <2>1, PageWaits DEF b, p
  <2> QED
    BY <2>2 DEF Reaches
<1> QED
  BY <1>4, <1>5, <1>6 DEF InAnswer

LEMMA NoStepDrops ==
    ASSUME Events!EventBounds, EventsInv, [Events!Next]_(Events!vars),
           NEW c \in Client, NEW e \in Events!Committed \cap Events!Public, Events!OnItsWay(c, e)
    PROVE  Reaches(c, e)
<1>1. client \in [Client -> Events!Browser] /\ e \in Events!Event
  BY DEF EventsInv, Events!TypeOK, Events!Committed
<1>2. ASSUME client'[c] = client[c], UNCHANGED <<outbox, batch>> PROVE Reaches(c, e)
  <2>1. UNCHANGED Events!Unpublished
    BY <1>2 DEF Events!Unpublished
  <2> QED
    BY <1>1, <1>2, <2>1, CommittedRowsStay, PageWaits DEF Reaches, SameWait, SameAnswers
<1>3. CASE UNCHANGED Events!vars
  BY <1>2, <1>3 DEF Events!vars
<1>4. ASSUME NEW w \in Writer,
             \/ Events!Begin(w) \/ (\E g \in Events!Event : Events!Enqueue(w, g))
             \/ Events!Commit(w) \/ Events!Rollback(w)
      PROVE  Reaches(c, e)
  BY <1>4, OutboxKeeps DEF Reaches
<1>5. CASE Events!Claim
  BY <1>5, OutboxKeeps DEF Reaches
<1>6. CASE \E g \in Events!Event : Events!FanOut(g)
  BY <1>6, FanOutKeeps DEF Reaches
<1>7. ASSUME NEW d \in Client,
             \/ Events!IssueTicket(d) \/ Events!Accept(d) \/ Events!Register(d)
             \/ Events!Send(d) \/ Events!Disconnect(d) \/ Events!Load(d) \/ Events!Poll(d)
             \/ Events!Arrive(d) \/ Events!ArriveTimeline(d)
             \/ Events!ReadRecord(d) \/ Events!ArriveLate(d)
      PROVE  Reaches(c, e)
  <2>1. CASE d # c
    <3>1. client'[c] = client[c] /\ UNCHANGED <<outbox, batch>>
      BY <1>1, <1>7, <2>1
      DEF Events!IssueTicket, Events!Accept, Events!Register, Events!Send, Events!SendReplayed,
          Events!SendResync, Events!SendQueued, Events!Disconnect, Events!Load, Events!Poll,
          Events!Arrive, Events!ArriveTimeline, Events!ReadRecord, Events!ArriveLate
    <3> QED BY <1>2, <3>1
  <2>2. CASE Events!Disconnect(c)
    BY <1>1, <2>2 DEF Events!Disconnect, Events!Closed, Events!Browser, Reaches
  <2> QED
    BY <1>7, <2>1, <2>2, OpeningKeeps, SendingKeeps, ReadingKeeps DEF Reaches
<1>8. CASE Events!Restart
  BY <1>1, <1>8 DEF Events!Restart, Events!Closed, Events!Browser, Reaches
<1> QED BY <1>3, <1>4, <1>5, <1>6, <1>7, <1>8 DEF Events!Next

(* An event that is on its way to a connection is handed from the outbox to *)
(* the publisher, the queue or the replay, and to the page, or a resync     *)
(* takes its place: no step loses it while the connection lasts             *)
(* (publish_available, RealtimeHub.publish, _replay).                       *)
THEOREM NothingIsDropped ==
    ASSUME Events!EventBounds PROVE Events!Spec => Events!NoneDropped
<1>1. EventsInv /\ [Events!Next]_(Events!vars) =>
        [\A c \in Client, e \in Events!Committed \cap Events!Public :
            Events!OnItsWay(c, e) =>
                Events!OnItsWay(c, e)' \/ e \in Events!Heard(c)' \/ client'[c].at = "down"]_(Events!vars)
  BY NoStepDrops DEF Reaches
<1> QED
  BY <1>1, EventsInvariant, PTL DEF Events!Spec, Events!NoneDropped
=============================================================================
