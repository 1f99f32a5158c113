---------------------------- MODULE ConsolePath ----------------------------
(***************************************************************************)
(* The way of a console line to the browsers:                              *)
(* backend/app/services/console_batcher.py and console_ring.py, on_event() *)
(* of backend/app/main.py, and the requests of                             *)
(* backend/app/api/serial_api.py that end and start sessions.              *)
(*                                                                         *)
(* Lines are numbered in the order they are fed.  Three kinds of threads   *)
(* meet here: the reader, which feeds lines; timers, each named by the     *)
(* line that started it; and the request, which is flusher 0.  A flush     *)
(* takes the batch under the batcher's lock and emits it outside: to the   *)
(* ring, which new clients are sent, then to the clients that are there.   *)
(*                                                                         *)
(* One request runs at a time and the reader ends with its session: what   *)
(* happens otherwise is in SerialWorker.  Bytes are lines already, the     *)
(* statistics of the batcher are left out, and so are the parser and its   *)
(* store, which on_event() and dispatch_line() serve beside these.         *)
(***************************************************************************)
EXTENDS Naturals, SequencesExt

CONSTANTS
    RingMax,        \* CONSOLE_RING_MAX
    MaxLines,       \* bound: lines that are fed
    MaxSessions     \* bound: sessions that are started

ASSUME ConsoleAssumption ==
    RingMax \in Nat /\ MaxLines \in Nat /\ MaxSessions \in Nat

None == 0
Request == 0
Lines == 1..MaxLines
Flushers == 0..MaxLines
Sessions == 1..MaxSessions

VARIABLES
    session,    \* the session whose reader feeds lines, or None
    started,    \* number of sessions started
    released,   \* SerialWorker._released
    pending,    \* ConsoleBatcher._pending
    timer,      \* ConsoleBatcher._flush_timer
    flushPc,    \* where each flusher is
    batch,      \* the lines it has taken
    ring,       \* ConsoleRing._lines
    reqPc,      \* where the request is
    reqOp,      \* and what it is
    src,        \* history: src[n] is the session line n came from
    live,       \* history: lines handed to the WebSocket manager, in order
    fresh,      \* history: the session that the last /open started
    raced       \* history: has anything overtaken a flush that was emitting?

worker == <<session, started, released>>
batcher == <<pending, timer>>
flushes == <<flushPc, batch>>
request == <<reqPc, reqOp>>
vars == <<worker, batcher, flushes, ring, request, src, live, fresh, raced>>

FlushPcs == {"none", "armed", "woken", "ring", "send"}
Ops == {"open", "close", "release", "reacquire", "shutdown"}

(* Every variable holds a value of its kind.                               *)
TypeOK ==
    /\ session \in {None} \cup Sessions /\ started \in 0..MaxSessions
    /\ released \in BOOLEAN
    /\ pending \in Seq(Lines)
    /\ timer \in Flushers
    /\ flushPc \in [Flushers -> FlushPcs]
    /\ batch \in [Flushers -> Seq(Lines)]
    /\ ring \in Seq(Lines) /\ Len(ring) <= RingMax
    /\ reqPc \in {"idle", "drain", "closed", "flush", "start", "down"}
    /\ reqOp \in Ops
    /\ src \in Seq(Sessions) /\ Len(src) <= MaxLines
    /\ live \in Seq(Lines)
    /\ fresh \in {None} \cup Sessions
    /\ raced \in BOOLEAN

Init ==
    /\ session = None /\ started = 0 /\ released = FALSE
    /\ pending = <<>> /\ timer = None
    /\ flushPc = [t \in Flushers |-> "none"]
    /\ batch = [t \in Flushers |-> <<>>]
    /\ ring = <<>>
    /\ reqPc = "idle" /\ reqOp = "close"
    /\ src = <<>> /\ live = <<>> /\ fresh = None /\ raced = FALSE

Emitting(t) == flushPc[t] \in {"ring", "send"}
SomeEmitting == \E t \in Flushers : Emitting(t)

Running == reqPc # "down"

----------------------------------------------------------------------------
(* The batcher.                                                            *)

Queued(n) == Append(pending, n)

NeedsTimer == timer = None

(* feed(): the line joins the batch; the first one starts the timer.       *)
Feed(s) ==
    /\ Len(src) < MaxLines
    /\ LET n == Len(src) + 1 IN
         /\ src' = Append(src, s)
         /\ pending' = Queued(n)
         /\ IF NeedsTimer
            THEN timer' = n /\ flushPc' = [flushPc EXCEPT ![n] = "armed"]
            ELSE UNCHANGED <<timer, flushPc>>
    /\ UNCHANGED <<batch, ring, live, raced>>

(* Mutant: the batcher forgets its timer and leaves it running.            *)
Cancelled_Not(pcs) == pcs

(* cancel() stops a timer that has not woken up.                           *)
Cancelled(pcs) ==
    IF timer # None /\ pcs[timer] = "armed" THEN [pcs EXCEPT ![timer] = "none"] ELSE pcs

(* Mutant: the batcher keeps the timer that is over.                       *)
TimerAfterFlush_Kept == timer

TimerAfterFlush == None

(* Mutant: the lines stay in the batcher.                                  *)
Remaining_Kept == pending

Remaining == <<>>

(* Mutant: the clients are served before the ring.                         *)
AfterTake_Send == "send"

AfterTake == IF pending = <<>> THEN "none" ELSE "ring"

(* flush(), the region under the lock: a timer that was cancelled too late *)
(* takes whatever there is.                                                *)
TakeBatch(t) ==
    /\ Running
    /\ flushPc[t] = "woken"
    /\ flushPc' = Cancelled([flushPc EXCEPT ![t] = AfterTake])
    /\ batch' = [batch EXCEPT ![t] = pending]
    /\ pending' = Remaining
    /\ timer' = TimerAfterFlush
    /\ raced' = (raced \/ (pending # <<>> /\ SomeEmitting))
    /\ UNCHANGED <<worker, ring, request, src, live, fresh>>

(* A ring that is full drops its oldest lines.                             *)
Kept(seq) == IF Len(seq) > RingMax THEN SubSeq(seq, Len(seq) - RingMax + 1, Len(seq)) ELSE seq

(* on_event(), outside the lock: the ring first ...                        *)
Observe(t) ==
    /\ Running
    /\ flushPc[t] = "ring"
    /\ ring' = Kept(ring \o batch[t])
    /\ flushPc' = [flushPc EXCEPT ![t] = "send"]
    /\ UNCHANGED <<worker, batcher, batch, request, src, live, fresh, raced>>

(* ... then the clients.                                                   *)
Send(t) ==
    /\ Running
    /\ flushPc[t] = "send"
    /\ live' = live \o batch[t]
    /\ batch' = [batch EXCEPT ![t] = <<>>]
    /\ flushPc' = [flushPc EXCEPT ![t] = "none"]
    /\ UNCHANGED <<worker, batcher, ring, request, src, fresh, raced>>

(* The 50 ms of a timer that was not cancelled are over.                   *)
TimerWakes(t) ==
    /\ Running
    /\ flushPc[t] = "armed"
    /\ flushPc' = [flushPc EXCEPT ![t] = "woken"]
    /\ UNCHANGED <<worker, batcher, batch, ring, request, src, live, fresh, raced>>

----------------------------------------------------------------------------
(* The reader and the requests.                                            *)

ReadLine ==
    /\ Running
    /\ session # None
    /\ Feed(session)
    /\ UNCHANGED <<worker, request, fresh>>

(* What the worker asks for before it does anything.                       *)
Accepted(op) ==
    CASE op = "release"   -> session # None
      [] op = "reacquire" -> released
      [] OTHER            -> TRUE

(* Every request begins with worker.close(): the reader is stopped.        *)
EndSession(op) ==
    /\ Running
    /\ reqPc = "idle" /\ Accepted(op)
    /\ reqOp' = op
    /\ reqPc' = IF session # None THEN "drain" ELSE "closed"
    /\ session' = None
    /\ released' = FALSE
    /\ UNCHANGED <<started, batcher, flushes, ring, src, live, fresh, raced>>

(* The unfinished line of the session, when there is one, is fed too.      *)
DrainLine ==
    /\ Running
    /\ reqPc = "drain"
    /\ reqPc' = "closed"
    /\ \/ Feed(started)
       \/ UNCHANGED <<batcher, flushes, ring, src, live, raced>>
    /\ UNCHANGED <<worker, reqOp, fresh>>

(* /close and /release are done: what the batcher holds is left to its     *)
(* timer.                                                                  *)
Return ==
    /\ Running
    /\ reqPc = "closed" /\ reqOp \in {"close", "release"}
    /\ released' = (reqOp = "release")
    /\ reqPc' = "idle"
    /\ UNCHANGED <<session, started, batcher, flushes, ring, reqOp, src, live, fresh, raced>>

Flushes(op) == op \in {"open", "shutdown"}

(* /open and the end of the process call flush() themselves.               *)
CallFlush ==
    /\ Running
    /\ reqPc = "closed" /\ Flushes(reqOp)
    /\ reqPc' = "flush"
    /\ flushPc' = [flushPc EXCEPT ![Request] = "woken"]
    /\ UNCHANGED <<worker, batcher, batch, ring, reqOp, src, live, fresh, raced>>

Flushed == IF Flushes(reqOp) THEN reqPc = "flush" /\ flushPc[Request] = "none"
                             ELSE reqPc = "closed"

RingAtOpen == <<>>

(* Then /open empties the ring ...                                         *)
ClearRing ==
    /\ Running
    /\ reqOp = "open" /\ Flushed
    /\ ring' = RingAtOpen
    /\ reqPc' = "start"
    /\ raced' = (raced \/ SomeEmitting)
    /\ UNCHANGED <<worker, batcher, flushes, reqOp, src, live, fresh>>

(* ... and starts a session, as /reacquire does, which keeps the ring.     *)
MayStart == reqPc = "start" \/ (reqOp = "reacquire" /\ reqPc = "closed")

StartSession ==
    /\ Running
    /\ MayStart /\ started < MaxSessions
    /\ started' = started + 1
    /\ session' = started'
    /\ fresh' = IF reqOp = "open" THEN started' ELSE fresh
    /\ reqPc' = "idle"
    /\ UNCHANGED <<released, batcher, flushes, ring, reqOp, src, live, raced>>

StartFails ==
    /\ Running
    /\ MayStart
    /\ released' = (reqOp = "reacquire")
    /\ reqPc' = "idle"
    /\ UNCHANGED <<session, started, batcher, flushes, ring, reqOp, src, live, fresh, raced>>

(* The end of the process: reset() drops what is left, and nothing runs    *)
(* after it.                                                               *)
Reset ==
    /\ Running
    /\ reqOp = "shutdown" /\ Flushed
    /\ pending' = <<>> /\ timer' = None
    /\ flushPc' = Cancelled(flushPc)
    /\ reqPc' = "down"
    /\ UNCHANGED <<worker, batch, ring, reqOp, src, live, fresh, raced>>

RequestStep == DrainLine \/ Return \/ CallFlush \/ ClearRing \/ StartSession \/ StartFails \/ Reset

FlushStep(t) == TimerWakes(t) \/ TakeBatch(t) \/ Observe(t) \/ Send(t)

Next ==
    \/ ReadLine
    \/ \E op \in Ops : EndSession(op)
    \/ RequestStep
    \/ \E t \in Flushers : FlushStep(t)

(* Threads that can go on do so; nobody has to send a line or a request.   *)
Fairness == WF_vars(RequestStep) /\ \A t \in Flushers : WF_vars(FlushStep(t))

Spec == Init /\ [][Next]_vars

FairSpec == Spec /\ Fairness

----------------------------------------------------------------------------
(* Properties.                                                             *)

Distinct(seq) == \A i, j \in DOMAIN seq : seq[i] = seq[j] => i = j
Disjoint(seq1, seq2) == ToSet(seq1) \cap ToSet(seq2) = {}

(* Until the process ends, a line that was fed is with the batcher, in a   *)
(* batch on its way, or with the clients ...                               *)
NoLineLost ==
    reqPc # "down" =>
        DOMAIN src = ToSet(pending) \cup ToSet(live) \cup UNION {ToSet(batch[t]) : t \in Flushers}

(* ... and in one of these places only, once.                              *)
EachLineOnce ==
    /\ Distinct(pending) /\ Distinct(live) /\ Disjoint(pending, live)
    /\ \A t \in Flushers :
          /\ Distinct(batch[t]) /\ Disjoint(batch[t], pending) /\ Disjoint(batch[t], live)
          /\ \A u \in Flushers \ {t} : Disjoint(batch[t], batch[u])

(* However timers, feeds and requests interleave, no line is lost or sent  *)
(* twice.                                                                  *)
LinesKept == NoLineLost /\ EachLineOnce

(* Lines never wait in the batcher without a timer that is going to take   *)
(* them (feed() starts one only when there is none).                       *)
BatchWaits ==
    pending # <<>> => timer # None /\ flushPc[timer] \in {"armed", "woken"}

(* A timer the batcher does not know of has woken up: a cancelled one does *)
(* not flush later batches before their time, but for the one that was     *)
(* cancelled too late.                                                     *)
NoStrayTimer == \A t \in Flushers : flushPc[t] = "armed" => t = timer

(* The batcher and its timers know of each other.                          *)
TimersRight == BatchWaits /\ NoStrayTimer

(* "Stores first": what the clients of this session have been sent, a new  *)
(* client finds in the ring, while the ring is not full.                   *)
ReplayComplete ==
    session # None /\ Len(ring) < RingMax =>
        \A n \in ToSet(live) : src[n] >= fresh => n \in ToSet(ring)

(* The ring holds the last lines that the clients have been sent, in that  *)
(* order, and none from before the last /open, unless a flush was          *)
(* overtaken.                                                              *)
ReplayIsLive ==
    session # None /\ ~SomeEmitting /\ ~raced =>
        IsSuffix(ring, live) /\ \A n \in ToSet(ring) : src[n] >= fresh

(* The clients get the lines in the order the board sent them, unless a    *)
(* flush was overtaken.                                                    *)
LiveInOrder == ~raced => \A i, j \in DOMAIN live : i < j => live[i] < live[j]

(* A client sees the same lines in the same order whether it was there or  *)
(* is sent the ring, unless a flush was overtaken.                         *)
ReplayFaithful == ReplayComplete /\ ReplayIsLive /\ LiveInOrder

(* A line that was fed is with the clients in the end, unless the process  *)
(* ends.                                                                   *)
LineGetsOut ==
    \A n \in Lines : n \in DOMAIN src ~> n \in ToSet(live) \/ reqPc = "down"
=============================================================================
