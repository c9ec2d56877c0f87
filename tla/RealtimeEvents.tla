---------------------------- MODULE RealtimeEvents ----------------------------
(***************************************************************************)
(* The public events of one class, from the transaction that writes them   *)
(* to the browser of a member.                                             *)
(*                                                                         *)
(* An event is a row of outbox_events, written in the transaction of the   *)
(* change it announces.  The publisher claims committed rows in a          *)
(* transaction of its own and then hands them to a hub in the memory of    *)
(* the API process, which appends them to the queue of every registered    *)
(* connection.  A browser that reconnects shows the cursor of the last     *)
(* event it took, and the server replays the rows after it.  Beside the    *)
(* events the page reads by REST: an answer carries what was committed when *)
(* the server read it and arrives at a later step.                         *)
(*                                                                         *)
(* Row ids are random UUIDs.  An event is its id, a number that says how   *)
(* ids compare; which event takes which id is arbitrary.                   *)
(***************************************************************************)
EXTENDS Naturals, Sequences, FiniteSets

CONSTANTS
    Writer,      \* transactions that can be open at the same time
    Client,      \* browsers that show the class
    MaxEvent,    \* bound: rows of outbox_events
    Internal,    \* events that project_event keeps to the server
    Updates,     \* session.updated events; the others carry a transcript segment
    BatchSize,   \* rows one claim takes (100 in the code)
    QueueSize,   \* events a connection can hold (100 in the code)
    ReplayLimit, \* rows one replay returns (500 in the code)
    MaxConnect,  \* bound: connections one browser opens
    MaxRestart   \* bound: restarts of the API process

Event == 1 .. MaxEvent
Segments == Event \ Updates
NoEvent == 0

ASSUME EventBounds ==
    /\ MaxEvent \in Nat /\ MaxConnect \in Nat /\ MaxRestart \in Nat
    /\ BatchSize \in Nat \ {0} /\ QueueSize \in Nat \ {0} /\ ReplayLimit \in Nat
    /\ Internal \subseteq Event /\ Updates \subseteq Event

VARIABLES
    version,     \* LectureSession.version, as committed
    clock,       \* the database's time, which passes when a transaction begins
    began,       \* now() of every open transaction, 0 when there is none
    outbox,      \* the rows of outbox_events
    batch,       \* rows the publisher has claimed and not fanned out yet
    client,      \* every browser, with its connection and the server's end of it
    restarts     \* restarts that happened

vars == <<version, clock, began, outbox, batch, client, restarts>>

-----------------------------------------------------------------------------
(* Types *)

Time == 0 .. MaxEvent

(* A row: uncommitted, committed and unpublished, published_at set, or      *)
(* rolled back.  created is created_at, whose default now() is the time its *)
(* transaction began; due is available_at, the application's time of writing.*)
Row == [state : {"none", "open", "new", "claimed", "rolledback"},
        created : Time, due : Nat, by : Writer \cup {"none"}, version : Nat]
NoRow == [state |-> "none", created |-> 0, due |-> 0, by |-> "none", version |-> 0]

(* replay is what the server still has to send from its replay; queue and   *)
(* resync are the RealtimeConnection's.  loaded says the page has its       *)
(* Session, seen which events it received, covered which segments came with *)
(* a read of the timeline.  view is the version of the cached Session.      *)
(*                                                                          *)
(* Answers under way: get is the version that the Session query will bring  *)
(* (at most one), reading the segments that the timeline's will, and late   *)
(* the versions in answers that no event cancels.                           *)
Browser == [at : {"down", "ticket", "replayed", "open"}, cursor : Event \cup {NoEvent},
            seen : SUBSET Event, covered : SUBSET Event, loaded : BOOLEAN, view : Nat,
            get : SUBSET Nat, reading : SUBSET Segments, late : SUBSET Nat,
            replay : SUBSET Event, queue : Seq(Event), resync : BOOLEAN, connects : 0 .. MaxConnect]

TypeOK ==
    /\ version \in Nat
    /\ clock \in Time
    /\ began \in [Writer -> Time]
    /\ outbox \in [Event -> Row]
    /\ batch \subseteq Event
    /\ client \in [Client -> Browser]
    /\ \A c \in Client : Len(client[c].queue) <= QueueSize
    /\ restarts \in 0 .. MaxRestart

Init ==
    /\ version = 0
    /\ clock = 0
    /\ began = [w \in Writer |-> 0]
    /\ outbox = [e \in Event |-> NoRow]
    /\ batch = {}
    /\ client = [c \in Client |->
                    [at |-> "down", cursor |-> NoEvent, seen |-> {}, covered |-> {},
                     loaded |-> FALSE, view |-> 0, get |-> {}, reading |-> {},
                     late |-> {}, replay |-> {},
                     queue |-> <<>>, resync |-> FALSE, connects |-> 0]]
    /\ restarts = 0

Unpublished == {e \in Event : outbox[e].state = "new"}
Committed == {e \in Event : outbox[e].state \in {"new", "claimed"}}
Public == Event \ Internal
(* What a page was told: an event, a segment in a timeline it read, or a    *)
(* Session as new as the update.                                            *)
Heard(c) ==
    client[c].seen \cup client[c].covered
        \cup {e \in Updates \cap Committed : outbox[e].version <= client[c].view}

(* The order of replay_after: created_at, then id.                          *)
CreatedBefore(e, f) ==
    \/ outbox[e].created < outbox[f].created
    \/ outbox[e].created = outbox[f].created /\ e < f

-----------------------------------------------------------------------------
(* Transactions that write events *)

Begin(w) ==
    /\ began[w] = 0 /\ clock < MaxEvent
    /\ clock' = clock + 1
    /\ began' = [began EXCEPT ![w] = clock + 1]
    /\ UNCHANGED <<version, outbox, batch, client, restarts>>

(* OutboxRepository.enqueue inside the caller's transaction.  A             *)
(* session.updated event carries the next version of the Session row, which *)
(* its transaction holds locked until it ends.                              *)
Enqueue(w, e) ==
    /\ began[w] # 0
    /\ outbox[e].state = "none"
    /\ e \in Updates => \A f \in Updates : outbox[f].state # "open"
    /\ outbox' = [outbox EXCEPT ![e] =
                    [state |-> "open", created |-> began[w], by |-> w,
                     due |-> Cardinality({f \in Event : outbox[f].state # "none"}) + 1,
                     version |-> IF e \in Updates THEN version + 1 ELSE 0]]
    /\ UNCHANGED <<version, clock, began, batch, client, restarts>>

Written(w) == {e \in Event : outbox[e].state = "open" /\ outbox[e].by = w}

Ended(w, outcome) ==
    [e \in Event |->
        IF e \in Written(w)
        THEN [outbox[e] EXCEPT !.state = outcome, !.by = "none"] ELSE outbox[e]]

(* A change of the Session that a page itself asked for (rename, start,     *)
(* end) is answered with the new Session.                                   *)
Commit(w) ==
    /\ Written(w) # {}
    /\ outbox' = Ended(w, "new")
    /\ version' = IF Written(w) \cap Updates # {} THEN version + 1 ELSE version
    /\ began' = [began EXCEPT ![w] = 0]
    /\ \/ UNCHANGED client
       \/ \E c \in Client :
            /\ Written(w) \cap Updates # {} /\ client[c].loaded
            /\ client' = [client EXCEPT ![c].late = @ \cup {version + 1}]
    /\ UNCHANGED <<clock, batch, restarts>>

Rollback(w) ==
    /\ Written(w) # {}
    /\ outbox' = Ended(w, "rolledback")
    /\ began' = [began EXCEPT ![w] = 0]
    /\ UNCHANGED <<version, clock, batch, client, restarts>>

-----------------------------------------------------------------------------
(* RealtimeOutboxPublisher *)

(* publish_available, first half: claim_available takes the oldest rows by  *)
(* available_at and commits published_at.                                   *)
Claim ==
    /\ batch = {} /\ Unpublished # {}
    /\ batch' = {e \in Unpublished :
                    Cardinality({f \in Unpublished : outbox[f].due < outbox[e].due}) < BatchSize}
    /\ outbox' = [e \in Event |->
                    IF e \in batch' THEN [outbox[e] EXCEPT !.state = "claimed"] ELSE outbox[e]]
    /\ UNCHANGED <<version, clock, began, client, restarts>>

(* Bug: the queue has no maxsize.                                           *)
PutUnbounded(r, e) == [r EXCEPT !.queue = Append(@, e)]

(* Bug: an event that finds the queue full is dropped and nothing is said.  *)
PutOrDrop(r, e) ==
    IF Len(r.queue) < QueueSize THEN [r EXCEPT !.queue = Append(@, e)] ELSE r

(* RealtimeHub.publish for one connection: a full queue drops the event and *)
(* flags the connection.                                                    *)
Put(r, e) ==
    IF Len(r.queue) < QueueSize
    THEN [r EXCEPT !.queue = Append(@, e)] ELSE [r EXCEPT !.resync = TRUE]

(* publish_available, second half: the next row of the batch is projected   *)
(* and put in the queue of every connection that is registered.             *)
FanOut(e) ==
    /\ e \in batch /\ \A f \in batch : outbox[e].due <= outbox[f].due
    /\ batch' = batch \ {e}
    /\ client' = [c \in Client |->
                    IF e \in Public /\ client[c].at = "open"
                    THEN Put(client[c], e) ELSE client[c]]
    /\ UNCHANGED <<version, clock, began, outbox, restarts>>

-----------------------------------------------------------------------------
(* session_event_websocket *)

(* RealtimeSessionClient.connect, once the page has its Session: a ticket   *)
(* that holds the client's cursor.                                          *)
IssueTicket(c) ==
    /\ client[c].at = "down" /\ client[c].loaded /\ client[c].connects < MaxConnect
    /\ client' = [client EXCEPT ![c].at = "ticket", ![c].connects = @ + 1]
    /\ UNCHANGED <<version, clock, began, outbox, batch, restarts>>

(* replay_after, in a transaction of its own.  Its limit counts the rows    *)
(* that the projection will drop.                                           *)
RowsAfter(e) == {f \in Committed : CreatedBefore(e, f)}

(* Bug: a replay that is too long is cut at the limit.                      *)
ReplayPart(r) ==
    IF r.cursor = NoEvent THEN [r EXCEPT !.at = "replayed"]
    ELSE [r EXCEPT !.at = "replayed", !.replay =
            {e \in RowsAfter(r.cursor) \cap Public :
                Cardinality({f \in RowsAfter(r.cursor) : CreatedBefore(f, e)}) < ReplayLimit}]

Replay(r) ==
    IF r.cursor = NoEvent THEN [r EXCEPT !.at = "replayed"]
    ELSE IF Cardinality(RowsAfter(r.cursor)) > ReplayLimit
    THEN [r EXCEPT !.at = "replayed", !.resync = TRUE]
    ELSE [r EXCEPT !.at = "replayed", !.replay = RowsAfter(r.cursor) \cap Public]

(* The ticket is consumed, the socket accepted and _replay runs.            *)
Accept(c) ==
    /\ client[c].at = "ticket"
    /\ client' = [client EXCEPT ![c] = Replay(@)]
    /\ UNCHANGED <<version, clock, began, outbox, batch, restarts>>

(* RealtimeHub.add, after the replay was read.                              *)
Register(c) ==
    /\ client[c].at = "replayed"
    /\ client' = [client EXCEPT ![c].at = "open"]
    /\ UNCHANGED <<version, clock, began, outbox, batch, restarts>>

(* applySessionUpdatedEvent *)
NewerView(r, e) == IF outbox[e].version > r.view THEN outbox[e].version ELSE r.view

(* Bug: the read of the Session that is under way is left to arrive.        *)
KeepReading(r, e) ==
    IF e \in r.seen THEN r
    ELSE [r EXCEPT !.seen = @ \cup {e}, !.cursor = e, !.view = NewerView(r, e)]

(* RealtimeSessionClient.receive: an event seen before is ignored, cursor   *)
(* included.  After an update the page invalidates the Session query, which *)
(* cancels a read under way and asks again.                                 *)
Received(r, e) ==
    IF e \in r.seen THEN r
    ELSE [r EXCEPT !.seen = @ \cup {e}, !.cursor = e, !.view = NewerView(r, e),
                   !.get = IF e \in Updates THEN {version} ELSE @]

(* The replay is sent before anything the hub queued.                       *)
SendReplayed(c, e) ==
    /\ client[c].at = "open" /\ e \in client[c].replay
    /\ \A f \in client[c].replay : f = e \/ CreatedBefore(e, f)
    /\ client' = [client EXCEPT ![c] = [Received(client[c], e) EXCEPT !.replay = @ \ {e}]]
    /\ UNCHANGED <<version, clock, began, outbox, batch, restarts>>

(* resync.required drops the cursor, cancels the reads under way and asks   *)
(* for the canonical state.                                                 *)
SendResync(c) ==
    /\ client[c].at = "open" /\ client[c].replay = {} /\ client[c].resync
    /\ client' = [client EXCEPT ![c].resync = FALSE, ![c].cursor = NoEvent,
                                ![c].reading = Segments \cap Committed, ![c].get = {version}]
    /\ UNCHANGED <<version, clock, began, outbox, batch, restarts>>

SendQueued(c) ==
    /\ client[c].at = "open" /\ client[c].replay = {} /\ ~client[c].resync
    /\ client[c].queue # <<>>
    /\ client' = [client EXCEPT ![c] =
                    [Received(client[c], Head(client[c].queue)) EXCEPT !.queue = Tail(@)]]
    /\ UNCHANGED <<version, clock, began, outbox, batch, restarts>>

Closed(r) == [r EXCEPT !.at = "down", !.replay = {}, !.queue = <<>>, !.resync = FALSE]

Disconnect(c) ==
    /\ client[c].at # "down"
    /\ client' = [client EXCEPT ![c] = Closed(@)]
    /\ UNCHANGED <<version, clock, began, outbox, batch, restarts>>

-----------------------------------------------------------------------------
(* REST reads of the page *)

(* The page opens: its first read of the Session arrives before it connects *)
(* or shows anything, and its timeline is asked for.                        *)
Load(c) ==
    /\ ~client[c].loaded
    /\ client' = [client EXCEPT ![c].loaded = TRUE, ![c].view = version,
                                ![c].reading = Segments \cap Committed]
    /\ UNCHANGED <<version, clock, began, outbox, batch, restarts>>

(* refetchInterval of the Session query: nothing is asked while a read is   *)
(* under way.                                                               *)
Poll(c) ==
    /\ client[c].loaded /\ client[c].get = {}
    /\ client' = [client EXCEPT ![c].get = {version}]
    /\ UNCHANGED <<version, clock, began, outbox, batch, restarts>>

(* The answer is put in the cache, whatever version is there.               *)
Arrive(c) ==
    /\ \E v \in client[c].get :
        client' = [client EXCEPT ![c].view = v, ![c].get = @ \ {v}]
    /\ UNCHANGED <<version, clock, began, outbox, batch, restarts>>

ArriveTimeline(c) ==
    /\ client[c].reading # {}
    /\ client' = [client EXCEPT ![c].covered = @ \cup client[c].reading, ![c].reading = {}]
    /\ UNCHANGED <<version, clock, began, outbox, batch, restarts>>

(* The first read of the record manifest, which holds the Session as well.  *)
(* An invalidation cancels a read only when an earlier one brought data.    *)
ReadRecord(c) ==
    /\ client[c].loaded
    /\ client' = [client EXCEPT ![c].late = @ \cup {version}]
    /\ UNCHANGED <<version, clock, began, outbox, batch, restarts>>

(* It, or the answer to a change of the page's own, arrives.                *)
ArriveLate(c) ==
    /\ \E v \in client[c].late :
        client' = [client EXCEPT ![c].view = v, ![c].late = @ \ {v}]
    /\ UNCHANGED <<version, clock, began, outbox, batch, restarts>>

(* The API process stops and starts: hub, batch and answers under way were  *)
(* in its memory.                                                           *)
Restart ==
    /\ restarts < MaxRestart
    /\ restarts' = restarts + 1
    /\ batch' = {}
    /\ client' = [c \in Client |->
                    [Closed(client[c]) EXCEPT !.get = {}, !.reading = {}, !.late = {}]]
    /\ UNCHANGED <<version, clock, began, outbox>>

-----------------------------------------------------------------------------
(* Specification *)

Send(c) == (\E e \in Event : SendReplayed(c, e)) \/ SendResync(c) \/ SendQueued(c)

Next ==
    \/ \E w \in Writer :
        Begin(w) \/ (\E e \in Event : Enqueue(w, e)) \/ Commit(w) \/ Rollback(w)
    \/ Claim
    \/ \E e \in Event : FanOut(e)
    \/ \E c \in Client :
        \/ IssueTicket(c) \/ Accept(c) \/ Register(c) \/ Send(c) \/ Disconnect(c)
        \/ Load(c) \/ Poll(c) \/ Arrive(c) \/ ArriveTimeline(c)
        \/ ReadRecord(c) \/ ArriveLate(c)
    \/ Restart

(* The publisher is a task of the API process and every connection has a    *)
(* handler that runs until its socket closes.  A read is answered as long   *)
(* as the process runs.  Writers, browsers and disconnections promise       *)
(* nothing.                                                                 *)
Fairness ==
    /\ WF_vars(Claim) /\ WF_vars(\E e \in Event : FanOut(e))
    /\ \A c \in Client :
        /\ WF_vars(Accept(c)) /\ WF_vars(Register(c)) /\ WF_vars(Send(c))
        /\ WF_vars(Arrive(c)) /\ WF_vars(ArriveTimeline(c))

Spec == Init /\ [][Next]_vars
FairSpec == Spec /\ Fairness

-----------------------------------------------------------------------------
(* Properties *)

(* A member is told only of what was committed, and holds no cursor that a  *)
(* replay would not know: events that wait in the publisher, in a queue or  *)
(* in a replay are rows of transactions that did commit.                    *)
ToldIsCommitted ==
    /\ batch \subseteq Committed
    /\ \A c \in Client :
        /\ Heard(c) \cup client[c].reading \cup client[c].replay
            \cup {client[c].queue[i] : i \in DOMAIN client[c].queue} \subseteq Committed
        /\ client[c].cursor # NoEvent => client[c].cursor \in client[c].seen

(* What an update event brought to a page stays: no answer to a read of the *)
(* Session that began before the event puts an older Session in the cache,  *)
(* although answers are not compared with what is there.  Only answers that *)
(* no event cancels can.                                                    *)
EventsStay ==
    [][\A c \in Client : \A e \in client[c].seen \cap Updates :
            client[c].view >= outbox[e].version =>
                client'[c].view >= outbox[e].version \/ client'[c].late # client[c].late]_vars

(* The stronger form does not hold of the pages: an answer that no event    *)
(* cancels takes the cached Session back to an older version.               *)
ViewNeverRegresses ==
    [][\A c \in Client : client'[c].view >= client[c].view]_vars

(* Every public event that commits while a browser is registered on the hub *)
(* reaches it, as an event or through a resync when its queue overflowed,   *)
(* unless the connection ends first.                                        *)
RegisteredHears ==
    \A c \in Client, e \in Public :
        (outbox[e].state = "new" /\ client[c].at = "open")
            ~> (e \in Heard(c) \/ client[c].at # "open")

(* A browser that reconnects with a cursor gets every public event after    *)
(* it, replayed or covered by a resync: never a part of them.               *)
ReconnectHears ==
    \A c \in Client, e \in Public :
        (client[c].at = "ticket" /\ client[c].cursor # NoEvent
            /\ e \in RowsAfter(client[c].cursor))
            ~> (e \in Heard(c) \/ client[c].at = "down")

(* What the two rest on, step by step.  A public event is on its way to a   *)
(* connection while the replay will find it, while it waits in the replay   *)
(* or for a resync, and for a registered one while it waits in the outbox,  *)
(* in the publisher's batch or in the queue.  It is on its way, too, in the *)
(* answer to a read that will arrive.                                       *)
OnItsWay(c, e) ==
    \/ /\ client[c].at = "ticket" /\ client[c].cursor # NoEvent
       /\ e \in RowsAfter(client[c].cursor)
    \/ /\ client[c].at \in {"replayed", "open"}
       /\ e \in client[c].replay \/ client[c].resync
    \/ /\ client[c].at = "open"
       /\ \/ e \in Unpublished \cup batch
          \/ \E i \in DOMAIN client[c].queue : client[c].queue[i] = e
    \/ e \in client[c].reading
    \/ e \in Updates /\ \E v \in client[c].get : outbox[e].version <= v

(* No step between the outbox and the page drops it: it stays on its way    *)
(* until it is heard or the connection ends.                                *)
NoneDropped ==
    [][\A c \in Client, e \in Committed \cap Public :
            OnItsWay(c, e) =>
                OnItsWay(c, e)' \/ e \in Heard(c)' \/ client'[c].at = "down"]_vars

(* What claim_available's docstring says of rows that are claimed once,     *)
(* "delivery remains recoverable through replay" (repositories/outbox.py,   *)
(* line 52): an event a browser with a cursor has not heard is on its way,  *)
(* or comes after its cursor.                                               *)
DeliveryRecoverable ==
    \A c \in Client, e \in Committed \cap Public :
        (client[c].at = "open" /\ client[c].cursor # NoEvent) =>
            \/ e \in Heard(c) \cup client[c].reading \cup client[c].replay
            \/ e \in batch \cup Unpublished
            \/ \E i \in DOMAIN client[c].queue : client[c].queue[i] = e
            \/ client[c].resync \/ client[c].get # {}
            \/ e \in RowsAfter(client[c].cursor)
=============================================================================
