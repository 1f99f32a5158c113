-------------------------- MODULE WebSocketManager --------------------------
(***************************************************************************)
(* The fan-out to the browsers: backend/app/websocket/ws_manager.py, with  *)
(* on_event(), _replay_events() and the /ws endpoint of                    *)
(* backend/app/main.py.                                                    *)
(*                                                                         *)
(* Threads emit; the event loop sends.  An event that a thread emits is    *)
(* observed by a store, then appended to the ingress under a thread lock,  *)
(* which a callback on the loop drains into the broadcast queue.  The      *)
(* broadcast task sends one event at a time to every client, under an      *)
(* asyncio lock that a connecting client holds while the stores are        *)
(* replayed to it.  The loop is one thread: its tasks change hands only    *)
(* where they await, and a callback runs to its end.                       *)
(*                                                                         *)
(* Each source is one emitting thread with a store of its own (the timer's *)
(* console lines, the reader's snapshots), and <<s, n>> is its n-th event. *)
(* bind_loop() has run before any thread emits, so that _loop and _queue   *)
(* are never None here.                                                    *)
(***************************************************************************)
EXTENDS Naturals, Sequences, FiniteSets

CONSTANTS
    Sources,     \* threads that emit
    Clients,     \* WebSocket objects: a browser that comes back is a new one
    QueueMax,    \* _QUEUE_MAX
    MaxEvents    \* bound: events of each source

Caster == "broadcaster"

ASSUME FanOutAssumption ==
  QueueMax \in Nat \ {0} /\ MaxEvents \in [Sources -> Nat] /\ Caster \notin Clients

Event == UNION {{s} \X (1..MaxEvents[s]) : s \in Sources}

VARIABLES
    stored,          \* per source: how many events its store has observed
    producer,        \* per source: where its thread is
    ingress,         \* _ingress
    drainScheduled,  \* _drain_scheduled
    dropped,         \* _dropped_events
    callbacks,       \* drains that the loop has been asked for and has not run
    loopRuns,        \* does the event loop run?
    queue,           \* _queue
    broadcaster,     \* where _broadcast_loop() is
    current,         \* <<event>> it is broadcasting, or <<>>
    toSend,          \* the clients of its copy that have not had it
    dead,            \* those to which sending failed
    sendLock,        \* _send_lock: holder, then waiters, first come first served
    clients,         \* _clients
    endpoint,        \* per client: where websocket_endpoint() is
    replay,          \* per client: <<s, n>> for the store of s as of event n
    open,            \* clients whose own end is still open
    replayed, live,  \* history: what each open client was sent
    submitted,       \* history: the events that were appended to the ingress
    broadcasts       \* history: the events that were taken to be broadcast

producers == <<stored, producer>>
inbox == <<ingress, drainScheduled, dropped, callbacks, submitted>>
caster == <<broadcaster, current, toSend, dead>>
peers == <<clients, endpoint, replay, replayed>>
vars == <<producers, inbox, queue, broadcasts, caster, sendLock, peers, open,
          live, loopRuns>>

(* Every variable holds a value of its kind; neither the ingress nor the   *)
(* queue outgrows _QUEUE_MAX (ws_manager.py:27-29) and, a flag guarding    *)
(* the callback, no two drains are on their way at once.                   *)
TypeOK ==
  /\ stored \in [Sources -> Nat] /\ \A s \in Sources : stored[s] <= MaxEvents[s]
  /\ producer \in [Sources -> {"idle", "check", "submit", "schedule", "discard"}]
  /\ ingress \in Seq(Event) /\ Len(ingress) <= QueueMax
  /\ queue \in Seq(Event) /\ Len(queue) <= QueueMax
  /\ drainScheduled \in BOOLEAN /\ loopRuns \in BOOLEAN
  /\ dropped \in Nat /\ callbacks \in 0..1
  /\ broadcaster \in {"get", "acquire", "send", "cancelled"}
  /\ current \in {<<>>} \cup {<<e>> : e \in Event}
  /\ toSend \subseteq Clients /\ dead \subseteq Clients
  /\ sendLock \in Seq(Clients \cup {Caster})
  /\ clients \subseteq Clients /\ open \subseteq Clients
  /\ endpoint \in [Clients -> {"none", "acquire", "replay", "receive", "done"}]
  /\ replay \in [Clients -> SUBSET Event] /\ replayed \in [Clients -> SUBSET Event]
  /\ live \in [Clients -> Seq(Event)] /\ broadcasts \in Seq(Event) /\ submitted \in Seq(Event)

Init ==
  /\ stored = [s \in Sources |-> 0] /\ producer = [s \in Sources |-> "idle"]
  /\ ingress = <<>> /\ drainScheduled = FALSE /\ dropped = 0 /\ callbacks = 0
  /\ submitted = <<>> /\ loopRuns = TRUE /\ queue = <<>> /\ broadcasts = <<>>
  /\ broadcaster = "get" /\ current = <<>> /\ toSend = {} /\ dead = {}
  /\ sendLock = <<>> /\ clients = {} /\ open = {}
  /\ endpoint = [c \in Clients |-> "none"]
  /\ replay = [c \in Clients |-> {}] /\ replayed = [c \in Clients |-> {}]
  /\ live = [c \in Clients |-> <<>>]

Elements(seq) == {seq[i] : i \in 1..Len(seq)}

-----------------------------------------------------------------------------
(* Threads that emit.                                                       *)

At(s, from, to) == producer[s] = from /\ producer' = [producer EXCEPT ![s] = to]

\* on_event(): the store observes the event first.
Observe(s) ==
  /\ stored[s] < MaxEvents[s]
  /\ At(s, "idle", "check")
  /\ stored' = [stored EXCEPT ![s] = @ + 1]
  /\ UNCHANGED <<inbox, queue, broadcasts, caster, sendLock, peers, open, live, loopRuns>>

(* Mutant: clients that are being replayed to do not count.               *)
NoListeners_Served == \A c \in clients : endpoint[c] # "receive"

NoListeners == clients = {}

\* The look at _clients, without any lock.
Check(s) ==
  /\ At(s, "check", IF NoListeners THEN "idle" ELSE "submit")
  /\ UNCHANGED <<stored, inbox, queue, broadcasts, caster, sendLock, peers, open, live, loopRuns>>

(* Mutant: off by one.                                                     *)
Excess_Late(seq, max) == IF Len(seq) > max + 1 THEN Len(seq) - max ELSE 0

\* How many of the oldest events make room for one more.
Excess(seq, max) == IF Len(seq) > max THEN Len(seq) - max ELSE 0

\* Only the newest max of seq stay: the others are dropped and counted.
CountDropped(seq, max) == dropped' = dropped + Excess(seq, max)

(* Mutant: the newest are dropped.                                         *)
Newest_Oldest(seq, max) == SubSeq(seq, 1, Len(seq) - Excess(seq, max))

Newest(seq, max) == SubSeq(seq, Excess(seq, max) + 1, Len(seq))

\* The region under _ingress_lock: append, and see whether a drain is due.
Submit(s) ==
  LET all == Append(ingress, <<s, stored[s]>>)
  IN /\ At(s, "submit", IF drainScheduled THEN "idle" ELSE "schedule")
     /\ ingress' = Newest(all, QueueMax)
     /\ CountDropped(all, QueueMax)
     /\ drainScheduled' = TRUE
     /\ submitted' = Append(submitted, <<s, stored[s]>>)
     /\ UNCHANGED <<stored, callbacks, queue, broadcasts, caster, sendLock, peers,
                    open, live, loopRuns>>

\* call_soon_threadsafe(), which raises once the loop is closed.
Schedule(s) ==
  /\ At(s, "schedule", IF loopRuns THEN "idle" ELSE "discard")
  /\ callbacks' = IF loopRuns THEN callbacks + 1 ELSE callbacks
  /\ UNCHANGED <<stored, ingress, drainScheduled, dropped, submitted, queue, broadcasts,
                 caster, sendLock, peers, open, live, loopRuns>>

\* The handler of that error, under _ingress_lock.
Discard(s) ==
  /\ At(s, "discard", "idle")
  /\ ingress' = <<>> /\ drainScheduled' = FALSE
  /\ CountDropped(ingress, 0)
  /\ UNCHANGED <<stored, callbacks, submitted, queue, broadcasts, caster, sendLock, peers,
                 open, live, loopRuns>>

-----------------------------------------------------------------------------
(* The drain and the broadcast task, on the loop.                           *)

(* Mutant: the drain forgets the flag.                                     *)
ScheduledAfterDrain_Kept == drainScheduled

ScheduledAfterDrain == FALSE

\* _drain_ingress().  After the lock it touches only what the loop owns and
\* a counter, and no task runs before it ends: one step.
Drain ==
  LET all == queue \o ingress
  IN /\ loopRuns /\ callbacks > 0
     /\ callbacks' = callbacks - 1
     /\ ingress' = <<>> /\ drainScheduled' = ScheduledAfterDrain
     /\ queue' = Newest(all, QueueMax)
     /\ CountDropped(all, QueueMax)
     /\ UNCHANGED <<producers, submitted, broadcasts, caster, sendLock, peers, open, live, loopRuns>>

\* queue.get() returns, and broadcast() asks for the send lock.
Get ==
  /\ loopRuns /\ broadcaster = "get" /\ queue # <<>>
  /\ broadcaster' = "acquire" /\ current' = <<Head(queue)>> /\ queue' = Tail(queue)
  /\ broadcasts' = Append(broadcasts, Head(queue))
  /\ sendLock' = Append(sendLock, Caster)
  /\ UNCHANGED <<producers, inbox, toSend, dead, peers, open, live, loopRuns>>

Holds(w) == sendLock # <<>> /\ Head(sendLock) = w

\* w, the holder or a waiter, is out of the lock.
Release(w) ==
  IF w \notin Elements(sendLock) THEN sendLock
  ELSE LET place == CHOOSE i \in 1..Len(sendLock) : sendLock[i] = w
       IN SubSeq(sendLock, 1, place - 1) \o SubSeq(sendLock, place + 1, Len(sendLock))

\* It has the lock, and copies the clients.
StartSending ==
  /\ loopRuns /\ broadcaster = "acquire" /\ Holds(Caster)
  /\ broadcaster' = "send" /\ toSend' = clients
  /\ UNCHANGED <<producers, inbox, queue, broadcasts, current, dead, sendLock, peers,
                 open, live, loopRuns>>

\* One send_json(): for a client that has gone it raises or goes nowhere.
SendLive(c) ==
  /\ loopRuns /\ broadcaster = "send" /\ c \in toSend
  /\ toSend' = toSend \ {c}
  /\ IF c \in open
     THEN live' = [live EXCEPT ![c] = Append(@, current[1])] /\ UNCHANGED dead
     ELSE dead' \in {dead, dead \cup {c}} /\ UNCHANGED live
  /\ UNCHANGED <<producers, inbox, queue, broadcasts, broadcaster, current, sendLock,
                 peers, open, loopRuns>>

\* The dead are disconnected, the lock is released.
FinishSending ==
  /\ loopRuns /\ broadcaster = "send" /\ toSend = {}
  /\ clients' = clients \ dead /\ dead' = {}
  /\ broadcaster' = "get" /\ current' = <<>> /\ sendLock' = Release(Caster)
  /\ UNCHANGED <<producers, inbox, queue, broadcasts, toSend, endpoint, replay, replayed,
                 open, live, loopRuns>>

\* close(): the task is cancelled wherever it awaits, and releases the lock.
Close ==
  /\ loopRuns /\ broadcaster # "cancelled"
  /\ broadcaster' = "cancelled" /\ toSend' = {} /\ dead' = {}
  /\ sendLock' = Release(Caster)
  /\ UNCHANGED <<producers, inbox, queue, broadcasts, current, peers, open, live, loopRuns>>

\* The lifespan is over.
LoopCloses ==
  /\ loopRuns /\ broadcaster = "cancelled"
  /\ loopRuns' = FALSE
  /\ UNCHANGED <<producers, inbox, queue, broadcasts, caster, sendLock, peers, open, live>>

-----------------------------------------------------------------------------
(* Clients.                                                                 *)

\* websocket_endpoint(): connect() accepts, and asks for the send lock.
Accept(c) ==
  /\ loopRuns /\ endpoint[c] = "none"
  /\ endpoint' = [endpoint EXCEPT ![c] = "acquire"]
  /\ open' = open \cup {c}
  /\ sendLock' = Append(sendLock, c)
  /\ UNCHANGED <<producers, inbox, queue, broadcasts, caster, clients, replay, replayed,
                 live, loopRuns>>

\* _replay_events(): what the stores hold.
ReplayEvents == {<<s, stored[s]>> : s \in {t \in Sources : stored[t] > 0}}

\* After the last message of the replay the lock is released.
AfterReplay(c) ==
  IF replay'[c] = {}
  THEN endpoint' = [endpoint EXCEPT ![c] = "receive"] /\ sendLock' = Release(c)
  ELSE endpoint' = [endpoint EXCEPT ![c] = "replay"] /\ UNCHANGED sendLock

(* Mutant: connect() does not wait for the send lock.                      *)
MayConnect_Unlocked(c) == TRUE

MayConnect(c) == Holds(c)

\* The client is entered first; then replay() looks at the stores.
Enter(c) ==
  /\ loopRuns /\ endpoint[c] = "acquire" /\ MayConnect(c)
  /\ clients' = clients \cup {c}
  /\ replay' = [replay EXCEPT ![c] = ReplayEvents]
  /\ AfterReplay(c)
  /\ UNCHANGED <<producers, inbox, queue, broadcasts, caster, replayed, open, live, loopRuns>>

SendReplay(c) ==
  /\ loopRuns /\ endpoint[c] = "replay"
  /\ \E m \in replay[c] :
       /\ replay' = [replay EXCEPT ![c] = @ \ {m}]
       /\ replayed' = IF c \in open THEN [replayed EXCEPT ![c] = @ \cup {m}] ELSE replayed
  /\ AfterReplay(c)
  /\ UNCHANGED <<producers, inbox, queue, broadcasts, caster, clients, open, live, loopRuns>>

\* Sending raises: the client is disconnected and the rest is not sent.
ReplayFails(c) ==
  /\ loopRuns /\ endpoint[c] = "replay" /\ c \notin open
  /\ clients' = clients \ {c}
  /\ endpoint' = [endpoint EXCEPT ![c] = "receive"] /\ sendLock' = Release(c)
  /\ UNCHANGED <<producers, inbox, queue, broadcasts, caster, replay, replayed, open,
                 live, loopRuns>>

\* receive_text() raises.
Disconnect(c) ==
  /\ loopRuns /\ endpoint[c] = "receive" /\ c \notin open
  /\ clients' = clients \ {c}
  /\ endpoint' = [endpoint EXCEPT ![c] = "done"]
  /\ UNCHANGED <<producers, inbox, queue, broadcasts, caster, sendLock, replay, replayed,
                 open, live, loopRuns>>

\* The browser goes away, at any time, with what it was sent.
Leave(c) ==
  /\ c \in open
  /\ open' = open \ {c}
  /\ live' = [live EXCEPT ![c] = <<>>]
  /\ replayed' = [replayed EXCEPT ![c] = {}]
  /\ UNCHANGED <<producers, inbox, queue, broadcasts, caster, sendLock, clients, endpoint,
                 replay, loopRuns>>

-----------------------------------------------------------------------------
Emit(s) == Observe(s) \/ Check(s) \/ Submit(s) \/ Schedule(s) \/ Discard(s)
Broadcast == Get \/ StartSending \/ FinishSending \/ \E c \in Clients : SendLive(c)
Serve(c) == Enter(c) \/ SendReplay(c) \/ Disconnect(c)

Next ==
  \/ \E s \in Sources : Emit(s)
  \/ Drain \/ Broadcast \/ Close \/ LoopCloses
  \/ \E c \in Clients : Accept(c) \/ Serve(c) \/ ReplayFails(c) \/ Leave(c)

Spec == Init /\ [][Next]_vars

\* A thread that has an event in hand runs on, and while the loop runs it
\* serves what is ready; a send ends, since the server pings its clients and
\* drops a silent one.  Which thread or task comes first is left open.
FairSpec ==
  /\ Spec
  /\ WF_vars(\E s \in Sources : Check(s) \/ Submit(s) \/ Schedule(s) \/ Discard(s))
  /\ WF_vars(Drain \/ Broadcast \/ \E c \in Clients : Serve(c))

-----------------------------------------------------------------------------
(* From the lock of the ingress to the broadcast task this is one feed: in *)
(* order, each event once, bounded, and _dropped_events counts exactly     *)
(* what the two bounded queues and the shutdown gave up.                   *)
Feed == INSTANCE LossyFeed WITH
          Capacity <- 2 * QueueMax, waiting <- queue \o ingress,
          offered <- submitted, delivered <- broadcasts

FeedSpec == Feed!Spec

Lost == Elements(submitted) \ Elements(ingress \o queue \o broadcasts)

OnItsWay(e, c) ==
  \/ e \in Elements(ingress) \cup Elements(queue)
  \/ e \in Elements(current) /\ (broadcaster # "send" \/ c \in toSend)
  \/ /\ e[2] = stored[e[1]]
     /\ producer[e[1]] \in {"check", "submit"}

(* Whatever a store holds, a client that is entered and has not gone has   *)
(* been replayed, or will be, or has had live, or it is on its way to it,  *)
(* or it was dropped and counted: storing before the unlocked look at      *)
(* _clients, and entering a client before the stores are read, leave no    *)
(* gap between.                                                            *)
NoGap ==
  \A c \in clients \cap open : \A s \in Sources : \A n \in 1..stored[s] :
    \/ \E k \in n..MaxEvents[s] : <<s, k>> \in replay[c] \cup replayed[c]
    \/ <<s, n>> \in Elements(live[c]) \cup Lost
    \/ OnItsWay(<<s, n>>, c)

(* A client gets no live event before its replay is complete, each live    *)
(* event once, and those of one source in the order they were emitted      *)
(* (connect(), ws_manager.py:34-36 and 76-79).                             *)
LiveInOrder ==
  \A c \in Clients :
    /\ live[c] # <<>> /\ c \in clients => replay[c] = {}
    /\ \A i, j \in 1..Len(live[c]) :
         i < j => /\ live[c][i] # live[c][j]
                  /\ live[c][i][1] = live[c][j][1] => live[c][i][2] < live[c][j][2]

Forgotten(c) == c \in open \/ c \notin clients

(* When emitting pauses, every event that was appended leaves the ingress  *)
(* and the queue while the broadcast task runs, whoever schedules the      *)
(* drain and however clients connect and go; and every client that has     *)
(* gone is forgotten while the loop runs.                                  *)
EventsGetOut ==
  []<>(/\ ingress \o queue = <<>> \/ broadcaster = "cancelled"
       /\ (\A c \in Clients : Forgotten(c)) \/ ~loopRuns)
=============================================================================
