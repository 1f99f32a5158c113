------------------------------ MODULE TcpBridge ------------------------------
(***************************************************************************)
(* The raw TCP bridge: backend/app/serial/tcp_bridge.py, with the lock of  *)
(* SerialWorker that write_raw() shares with the serial reader.            *)
(*                                                                         *)
(* The accept thread enters each client with a bounded queue of its own    *)
(* and starts two threads for it: one reads from its socket and writes to  *)
(* the tty, one takes chunks from its queue and sends them.  The serial    *)
(* reader publishes a chunk, once it is in the raw log, to a copy of the   *)
(* clients.  close() runs beside all of them.  A thread that polls with a  *)
(* timeout and finds nothing comes back to the same place: no step.        *)
(*                                                                         *)
(* One reader publishes; a second one that outlived its session is in      *)
(* SerialWorker.  main.py starts and closes the bridge once.  Chunks are   *)
(* numbers, what a client types is one anonymous chunk at a time, and the  *)
(* text of _last_error is left out.                                        *)
(***************************************************************************)
EXTENDS Naturals, Sequences, FiniteSetsExt

CONSTANTS
    Clients,     \* sockets of clients: the connections of one run
    Typists,     \* bound: those of them that type
    QueueMax,    \* size of each client's queue
    MaxChunks    \* bound: chunks that are published

ASSUME BridgeAssumption ==
  /\ QueueMax \in Nat \ {0} /\ MaxChunks \in Nat
  /\ IsFiniteSet(Clients) /\ Typists \subseteq Clients

Chunks == 1..MaxChunks
None == "none"
Reader == "serial reader"

VARIABLES
    stop,        \* _stop
    server,      \* is _server listening?
    clients,     \* keys of _clients
    queue,       \* per client: its Queue
    dropped,     \* _dropped_output_chunks
    peer,        \* per client: "away", "here" or "gone"
    socket,      \* per client: is our end "new", "open" or "closed"?
    acceptor,    \* where _accept_loop() is
    accepted,    \* the client it has accepted, or None
    input,       \* per client: where _client_loop() is
    output,      \* per client: where _client_writer_loop() is
    workerLock,  \* who holds SerialWorker._lock
    publisher,   \* where publish() is
    published,   \* chunks that are in the raw log and were published
    toServe,     \* the clients of its copy that have not been served
    serving,     \* the client it is serving, or None
    closer,      \* where close() is
    offered,     \* history, per client: chunks put into its queue
    taken,       \* history, per client: chunks its writer took from it
    evicted      \* history, per client: how many chunks publish() took from it

bridge == <<stop, server>>
registry == <<clients, socket>>
threads == <<input, output>>
accepting == <<acceptor, accepted>>
publishing == <<publisher, published, toServe, serving, dropped>>
feeds == <<queue, offered, taken, evicted>>
vars == <<bridge, registry, threads, accepting, publishing, closer, feeds, peer, workerLock>>

(* Every variable holds a value of its kind; no queue outgrows its size.   *)
TypeOK ==
  /\ stop \in BOOLEAN /\ server \in BOOLEAN
  /\ clients \subseteq Clients
  /\ queue \in [Clients -> Seq(Chunks)] /\ \A c \in Clients : Len(queue[c]) <= QueueMax
  /\ dropped \in Nat
  /\ peer \in [Clients -> {"away", "here", "gone"}]
  /\ socket \in [Clients -> {"new", "open", "closed"}]
  /\ acceptor \in {"none", "check", "accept", "register", "done"}
  /\ accepted \in Clients \cup {None}
  /\ input \in [Clients -> {"none", "recv", "write", "done"}]
  /\ output \in [Clients -> {"none", "get", "send", "done"}]
  /\ workerLock \in Clients \cup {None}
  /\ publisher \in {"idle", "next", "evict", "again"}
  /\ published \in 0..MaxChunks
  /\ toServe \subseteq Clients /\ serving \in Clients \cup {None}
  /\ closer \in {"none", "running", "server", "clear", "join", "closed"}
  /\ offered \in [Clients -> Seq(Chunks)] /\ taken \in [Clients -> Seq(Chunks)]
  /\ evicted \in [Clients -> Nat]

Init ==
  /\ stop = FALSE /\ server = FALSE
  /\ clients = {} /\ socket = [c \in Clients |-> "new"]
  /\ queue = [c \in Clients |-> <<>>]
  /\ offered = [c \in Clients |-> <<>>] /\ taken = [c \in Clients |-> <<>>]
  /\ evicted = [c \in Clients |-> 0]
  /\ peer = [c \in Clients |-> "away"]
  /\ acceptor = "none" /\ accepted = None
  /\ input = [c \in Clients |-> "none"] /\ output = [c \in Clients |-> "none"]
  /\ workerLock = None
  /\ publisher = "idle" /\ published = 0 /\ toServe = {} /\ serving = None /\ dropped = 0
  /\ closer = "none"

-----------------------------------------------------------------------------
(* start() and the accept thread.                                           *)

\* The address may be taken: lifespan() records that and goes on without.
Start ==
  /\ closer = "none" /\ closer' = "running"
  /\ \/ server' = TRUE /\ acceptor' = "check"
     \/ UNCHANGED <<server, acceptor>>
  /\ UNCHANGED <<stop, registry, threads, accepted, publishing, feeds, peer, workerLock>>

\* The condition of the loop, and the look at _server.
CheckStop ==
  /\ acceptor = "check"
  /\ acceptor' = IF stop \/ ~server THEN "done" ELSE "accept"
  /\ UNCHANGED <<bridge, registry, threads, accepted, publishing, closer, feeds, peer, workerLock>>

\* accept() returns a client that dials, as long as the socket listens: a new
\* socket, so that which of the unused names it gets makes no difference.
Accept(c) ==
  /\ acceptor = "accept" /\ server /\ peer[c] = "away"
  /\ c = CHOOSE d \in Clients : peer[d] = "away"
  /\ acceptor' = "register" /\ accepted' = c
  /\ peer' = [peer EXCEPT ![c] = "here"]
  /\ socket' = [socket EXCEPT ![c] = "open"]
  /\ UNCHANGED <<bridge, clients, threads, publishing, closer, feeds, workerLock>>

AcceptTimesOut ==
  /\ acceptor = "accept" /\ acceptor' = "check"
  /\ UNCHANGED <<bridge, registry, threads, accepted, publishing, closer, feeds, peer, workerLock>>

\* accept() raises.
AcceptFails ==
  /\ acceptor = "accept" /\ acceptor' = "done"
  /\ UNCHANGED <<bridge, registry, threads, accepted, publishing, closer, feeds, peer, workerLock>>

\* The client is entered and its two threads start.
Register ==
  /\ acceptor = "register" /\ acceptor' = "check" /\ accepted' = None
  /\ clients' = clients \cup {accepted}
  /\ input' = [input EXCEPT ![accepted] = "recv"]
  /\ output' = [output EXCEPT ![accepted] = "get"]
  /\ UNCHANGED <<bridge, socket, publishing, closer, feeds, peer, workerLock>>

-----------------------------------------------------------------------------
(* The two threads of a client.                                             *)

\* _drop_client()
Drop(c) ==
  /\ clients' = clients \ {c}
  /\ socket' = [socket EXCEPT ![c] = "closed"]

\* recv() returns what the client typed, also when close() has begun, and
\* write_raw() takes the worker's lock: until it is free, the thread waits ...
Receive(c) ==
  /\ c \in Typists /\ peer[c] = "here"
  /\ input[c] = "recv" /\ socket[c] = "open" /\ workerLock = None
  /\ input' = [input EXCEPT ![c] = "write"] /\ workerLock' = c
  /\ UNCHANGED <<bridge, registry, output, accepting, publishing, closer, feeds, peer>>

(* Mutant: write_raw() keeps the lock when it raises.                      *)
LockAfterError_Kept(c) == c

LockAfterError(c) == None

\* ... and holds it until the tty has taken all, and the loop looks at the
\* stop event; or write_raw() raises.
WriteEnds(c) ==
  /\ input[c] = "write"
  /\ \/ /\ ~stop /\ input' = [input EXCEPT ![c] = "recv"]
        /\ workerLock' = None /\ UNCHANGED registry
     \/ /\ input' = [input EXCEPT ![c] = "done"]
        /\ workerLock' = LockAfterError(c) /\ Drop(c)
  /\ UNCHANGED <<bridge, output, accepting, publishing, closer, feeds, peer>>

(* Mutant: the loop of a client does not look at the stop event.           *)
MustEnd_NotStop(c) == peer[c] = "gone" \/ socket[c] = "closed"

MustEnd(c) == stop \/ peer[c] = "gone" \/ socket[c] = "closed"

\* The loop ends at the stop event, at the end of the stream, or as recv()
\* raises; however it ends, the client is dropped.
InputEnds(c) ==
  /\ input[c] = "recv" /\ MustEnd(c)
  /\ input' = [input EXCEPT ![c] = "done"]
  /\ Drop(c)
  /\ UNCHANGED <<bridge, output, accepting, publishing, closer, feeds, peer, workerLock>>

\* get() returns a chunk, also when close() has begun.
Take(c) ==
  /\ output[c] = "get" /\ queue[c] # <<>>
  /\ output' = [output EXCEPT ![c] = "send"]
  /\ queue' = [queue EXCEPT ![c] = Tail(@)]
  /\ taken' = [taken EXCEPT ![c] = Append(@, Head(queue[c]))]
  /\ UNCHANGED <<bridge, registry, input, accepting, publishing, closer, offered, evicted, peer,
                 workerLock>>

\* sendall() succeeds, or raises: also for a client that does not read for
\* half a second.  Then the client is dropped.
Send(c) ==
  /\ output[c] = "send"
  /\ \/ /\ socket[c] = "open" /\ UNCHANGED registry
        /\ output' = [output EXCEPT ![c] = IF stop THEN "done" ELSE "get"]
     \/ output' = [output EXCEPT ![c] = "done"] /\ Drop(c)
  /\ UNCHANGED <<bridge, input, accepting, publishing, closer, feeds, peer, workerLock>>

\* Only the stop event ends a writer whose queue stays empty.
OutputEnds(c) ==
  /\ output[c] = "get" /\ stop
  /\ output' = [output EXCEPT ![c] = "done"]
  /\ UNCHANGED <<bridge, registry, input, accepting, publishing, closer, feeds, peer, workerLock>>

-----------------------------------------------------------------------------
(* publish(), on the serial reader.                                         *)

\* The reader has a chunk, needs the worker's lock to log it, and then copies
\* the clients.
Log ==
  /\ publisher = "idle" /\ published < MaxChunks /\ workerLock = None /\ ~stop
  /\ publisher' = "next" /\ published' = published + 1 /\ toServe' = clients
  /\ UNCHANGED <<bridge, registry, threads, accepting, serving, dropped, closer,
                 feeds, peer, workerLock>>

(* Mutant: off by one.                                                     *)
Full_OffByOne(c) == Len(queue[c]) > QueueMax

Full(c) == Len(queue[c]) = QueueMax

Enqueue(c) ==
  /\ queue' = [queue EXCEPT ![c] = Append(@, published)]
  /\ offered' = [offered EXCEPT ![c] = Append(@, published)]
  /\ UNCHANGED <<taken, evicted>>

\* put_nowait() for the next client of the copy.
Put(c) ==
  /\ publisher = "next" /\ c \in toServe
  /\ toServe' = toServe \ {c}
  /\ IF Full(c) THEN publisher' = "evict" /\ serving' = c /\ UNCHANGED feeds
                ELSE Enqueue(c) /\ UNCHANGED <<publisher, serving>>
  /\ UNCHANGED <<bridge, registry, threads, accepting, published, dropped,
                 closer, peer, workerLock>>

PublishEnds ==
  /\ publisher = "next" /\ toServe = {} /\ publisher' = "idle"
  /\ UNCHANGED <<bridge, registry, threads, accepting, published, toServe, serving, dropped,
                 closer, feeds, peer, workerLock>>

(* Mutant: the newest chunk that waits makes room for the new one.         *)
Rest_Newest(seq) == IF seq = <<>> THEN <<>> ELSE SubSeq(seq, 1, Len(seq) - 1)

\* What get_nowait() leaves, unless the writer has emptied the queue meanwhile.
Rest(seq) == IF seq = <<>> THEN <<>> ELSE Tail(seq)

Evict ==
  /\ publisher = "evict" /\ publisher' = "again"
  /\ queue' = [queue EXCEPT ![serving] = Rest(@)]
  /\ evicted' = [evicted EXCEPT ![serving] = @ + (IF queue[serving] = <<>> THEN 0 ELSE 1)]
  /\ UNCHANGED <<bridge, registry, threads, accepting, published, toServe, serving, dropped,
                 closer, offered, taken, peer, workerLock>>

(* Mutant: the drop is not counted.                                        *)
Counted_Not == dropped

Counted == dropped + 1

\* Nobody else puts, so that there is room; and the drop is counted.
PutAgain ==
  /\ publisher = "again" /\ publisher' = "next" /\ serving' = None
  /\ Enqueue(serving) /\ dropped' = Counted
  /\ UNCHANGED <<bridge, registry, threads, accepting, published, toServe,
                 closer, peer, workerLock>>

-----------------------------------------------------------------------------
(* close()                                                                  *)

\* lifespan() has closed the worker before: its reader has ended.
SetStop ==
  /\ publisher = "idle"
  /\ closer = "running" /\ closer' = "server" /\ stop' = TRUE
  /\ UNCHANGED <<server, registry, threads, accepting, publishing, feeds, peer, workerLock>>

CloseServer ==
  /\ closer = "server" /\ closer' = "clear" /\ server' = FALSE
  /\ UNCHANGED <<stop, registry, threads, accepting, publishing, feeds, peer, workerLock>>

\* The clients are removed, under the lock, and their sockets closed after it.
Clear ==
  /\ closer = "clear" /\ closer' = "join"
  /\ clients' = {}
  /\ socket' = [c \in Clients |-> IF c \in clients THEN "closed" ELSE socket[c]]
  /\ UNCHANGED <<bridge, threads, accepting, publishing, feeds, peer, workerLock>>

\* The accept thread wakes up every half second: two seconds are enough.
Join ==
  /\ closer = "join" /\ acceptor \in {"none", "done"} /\ closer' = "closed"
  /\ UNCHANGED <<bridge, registry, threads, accepting, publishing, feeds, peer, workerLock>>

-----------------------------------------------------------------------------
(* The other end, external.                                                 *)

HangUp(c) ==
  /\ peer[c] = "here"
  /\ peer' = [peer EXCEPT ![c] = "gone"]
  /\ UNCHANGED <<bridge, registry, threads, accepting, publishing, closer, feeds, workerLock>>

-----------------------------------------------------------------------------
Acceptor == CheckStop \/ (\E c \in Clients : Accept(c)) \/ Register
Publish == (\E c \in Clients : Put(c)) \/ PublishEnds \/ Evict \/ PutAgain
Closer == CloseServer \/ Clear \/ Join
Input(c) == InputEnds(c) \/ WriteEnds(c)
Output(c) == Take(c) \/ Send(c) \/ OutputEnds(c)

Next ==
  \/ Start \/ Acceptor \/ AcceptTimesOut \/ AcceptFails
  \/ \E c \in Clients : Receive(c) \/ Input(c) \/ Output(c) \/ HangUp(c)
  \/ Log \/ Publish
  \/ SetStop \/ Closer

Spec == Init /\ [][Next]_vars

\* Every thread runs on; accept(), recv() and get() time out; and the tty takes
\* what is written to it: nothing bounds that write, for pyserial is opened
\* without a write_timeout.  publish(), close() and the writers have an end of
\* work, and it is left open which of them comes first.
FairSpec ==
  /\ Spec
  /\ WF_vars(Acceptor \/ AcceptTimesOut)
  /\ WF_vars(Publish \/ Closer \/ \E c \in Clients : Output(c))
  /\ \A c \in Clients : WF_vars(Input(c))

-----------------------------------------------------------------------------
(* The queue of each client is a lossy feed: the client gets the chunks in *)
(* the order in which they were logged, none twice, and to make room       *)
(* publish() takes the oldest that waits, never another and never the new  *)
(* one (tcp_bridge.py:94-95): each chunk is taken by the writer, waits, or *)
(* is one of those publish() took.  For every client, Feed(c)!Init and     *)
(* Feed(c)!OldestNext at every step, in the form that TLC can check.       *)
Feed(c) == INSTANCE LossyFeed WITH
             Event <- Chunks, Capacity <- QueueMax, offered <- offered[c],
             waiting <- queue[c], delivered <- taken[c], dropped <- evicted[c]

FeedSpec ==
  /\ \A c \in Clients : Feed(c)!Init
  /\ [][\A c \in Clients : Feed(c)!OldestNext \/ UNCHANGED Feed(c)!feedVars]_feeds

Lost(c) == Len(offered[c]) - Len(taken[c]) - Len(queue[c])

(* status() never reports fewer dropped chunks than were dropped, but for  *)
(* the one that publish() is about to count.                               *)
DropsCounted ==
  MapThenSumSet(Lost, Clients) <= dropped + (IF publisher = "again" THEN 1 ELSE 0)

Quiet ==
  /\ clients = {} /\ acceptor \in {"none", "done"}
  /\ \A c \in Clients : /\ socket[c] # "open"
                        /\ input[c] \in {"none", "done"} /\ output[c] \in {"none", "done"}

(* After close() nothing of the bridge stays: no client is entered, no     *)
(* socket open, no thread running, also of a client that was accepted      *)
(* while close() ran; and before that, a client that hangs up is removed.  *)
ClientsGo ==
  []<>(/\ closer = "closed" => Quiet
       /\ \A c \in Clients : peer[c] = "gone" => c \notin clients /\ socket[c] = "closed")

(* Whatever the clients do, the serial reader gets rid of its chunk and    *)
(* gets the lock for the next one, if the tty takes what is written to it. *)
LoggingGoesOn == []<>(publisher = "idle" /\ workerLock = None)
=============================================================================
