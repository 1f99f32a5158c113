# A verification project for pi4_AP

`pi4_AP` is the software of a Raspberry-Pi-class *node* that is wired to the
serial console of one device under test (DUT), an OpenWrt access point. The
node's backend (Python, FastAPI) logs the console byte for byte, parses what the
DUT prints, and feeds a browser dashboard (React) and an optional TCP bridge. Its
design rule, repeated through code and docs, is the **P0 principle**: raw bytes
reach the log file before anything else happens to them, and nothing downstream
(WebSocket, bridge, parser, browser) may slow that down or lose it.

Paths below are relative to the repository (`src/`), and "serial_worker.py" stands for
`backend/app/serial/serial_worker.py`.

## 1. Inventory

| component | code | state | operations |
|---|---|---|---|
| Serial worker | serial_worker.py 63-376 | tty, reader thread, stop event, `_released`, `_last_error`, `_pending` | `open`, `close`, `release`, `reacquire`, `_read_loop` |
| Raw log | serial_worker.py 377-493 | log handle, segment counters, files on disk, time of last fsync | start a session, write with rotation, force sync, close, prune |
| Command capture | serial_worker.py 218-280 | capture gate, the collector of the capture under way | `send`, `write_raw`, `capture_command` |
| TCP bridge | `backend/app/serial/tcp_bridge.py` | clients with a bounded queue and two threads each | start, accept, publish, the two threads of a client, close |
| Console path | `services/console_batcher.py`, `services/console_ring.py`, `api/serial_api.py`, `main.py` | batch, timer, ring | `feed`, `flush`, `reset`, timer, `observe`, `clear`, `/open` |
| Parser and snapshots | `parser/sysmon_parser.py`, `services/snapshot_store.py` | sections read so far, current snapshot, history | `feed`, `reset`, deltas, `observe`, `clear` |
| WebSocket fan-out | `websocket/ws_manager.py`, `main.py` | ingress, one broadcast queue, send lock, clients | `emit_from_thread`, drain, `broadcast`, `connect` with replay, `disconnect`, `close` |
| Wi-Fi commands | `api/wifi_api.py`, `services/wifi*.py` | last scan | refresh, capabilities, survey |
| Browser | `frontend/src/api/websocket.ts`, `monitoring/useDutMonitor.ts` | socket, base of the deltas, snapshot, history, session key | connect/reconnect, apply deltas, backfill, status polls |

How they interact:

* REST handlers are synchronous functions, so FastAPI runs them in a pool of
  threads: **two requests overlap freely**. The worker protects itself with one
  plain lock, but a lifecycle request takes it several times.
* The reader thread of a session reads the tty, and for each chunk calls, in this
  order, the raw log (P0), the bridge (`on_raw`) and the line dispatcher (`on_line`),
  which feeds the batcher and the parser.
* The batcher emits from whichever thread flushes it: the reader, a timer thread, or
  a REST handler. What it emits goes to the ring (for replay) and through
  `emit_from_thread` to the asyncio loop, which owns the WebSocket clients.
* Everything downstream of the log is allowed to drop: bounded queues that drop
  their oldest item, in the bridge and in the WebSocket fan-out.

What is hard to get right, and to test: lifecycle requests that overlap, a
reader that outlives the two seconds `close()` waits for it, the tty closed under a
blocking read, failures in the middle of a multi-step request, rotation and
pruning of logs under a coarse or stepping clock, timers that fire into a reset,
a sentinel protocol over a console that echoes, and bounded queues at their limit.
`PROJECT.json` lists each hazard at its line.

What makes each component correct, in a sentence each:

* *Serial worker*: no chunk reaches anyone before the log has it; at most one reader
  runs; a session has its own log or says why not; a released port is really free.
* *Raw log*: the files hold the bytes as they came, split without a gap; a loss of
  power costs bytes of the open segment only; the directory stays bounded, and what
  is pruned is the oldest.
* *Command capture*: a caller gets all that its own command printed, once it is over,
  and nothing of another capture that somebody waits for; whatever fails, the channel comes free.
* *Console path*: every line goes out once, in order until a flush overtakes another; what
  a new client is sent is then what the others have seen in this session.
* *TCP bridge*, *WebSocket fan-out*: bounded, oldest dropped first and counted, nothing
  stuck, nobody left behind after close.
* *Parser and snapshots*: three folds of the same deltas agree, the history has the last tests,
  and nothing of the previous device is in parser or store after `/open`.
* *Browser*: once all is quiet it shows what the node has, over one connection.

## 2. Plan

| order | modules | status |
|---|---|---|
| 1 | `SerialWorker`, `SerialWorkerProofs` | done |
| 2 | `RawLog`, `RawLogProofs` | done |
| 3 | `ConsolePath`, `ConsolePathProofs` | done |
| 4 | `CaptureCommand`, `CaptureCommandProofs` | done |
| 5 | `LossyFeed` (abstract): "in order, none twice, each delivered, waiting or counted as dropped, bounded"; for one queue also "only the oldest is dropped" | done |
| 6 | `WebSocketManager`, implements `LossyFeed`; `WebSocketManagerProofs` | done |
| 7 | `TcpBridge`, every client of which implements `LossyFeed`; `TcpBridgeProofs` | done |
| 8 | `Snapshots`, `SnapshotsProofs` | done |
| 9 | `DutMonitor`, `DutMonitorProofs` | done |
| 10 | `LineAssembler`: splitting and capping of lines as functions, against a reference definition | next |
| 11 | `CaptureLog` (abstract): "what is read is appended to the log of its session, in order; a session may end, or fail aloud", implemented by `SerialWorker` | next |

`DutMonitor` composes with the others through what they promise: the node's store as `Snapshots` has
it, a fan-out that loses its oldest as `LossyFeed` has it, and a connection that starts with the replay
as `WebSocketManager` has it. "Done" means
that every action the plan gives the module is there, its properties are checked, and those that are
not liveness are theorems.

## 3. The modules and the code

**`SerialWorker`** — `serial_worker.py` without segments and captures. A session is a number;
`serial`, `thread` and `logFp` hold the session whose tty object, reader or log the worker
refers to, so the module can tell a stale reference from a current one. A region under
`self._lock` is one step. Outside the lock there is one step per access to shared
state: the loop's test of `_stop_event`, its read of `_serial`, the read from the tty, the
log write, the forced sync, the bridge, the three steps in which `_dispatch_lines` takes and
replaces `_pending`, and the two of `_flush_pending_line`. A request is begun by
`OpenCall`, `CloseCall`, `ReleaseCall` or `ReacquireCall` and then goes through `close()`
(`StopReader`, `JoinReader`, `TakePending`, `FlushPending`, `CloseLog`, `ClearReleased`) and what
its operation adds (`StartSession` and its two failures, `MarkReleased`, `Restore`). `Overlap`
lets several requests run at once; `Faults` names what may fail.

**`RawLog`** — the log code (lines 377-493) at the level of files and bytes. Files have their
data, how much of it is synced, and a modification time; `Rotate` and `OpenSegment` are
separate steps, since the power (`PowerFails`) may fail between any two calls to the file
system; short writes make `WritePiece` take any length. Pruning (`Prune`) either removes all it has
to or is ended by an error of `glob()`, `stat()` or `unlink()` after some of it, the oldest first
(`PrunedPartly`; the code returns and tells nobody, lines 480-483); `missed` counts the prunings
in a row that ended so. `MinStep` says whether two
writes may share a modification time, `SecondLength` how many ticks share a name's time stamp,
and the fault `clockBack` lets the clock come up earlier after a loss of power. Pruning goes by
modification time and then by name (`NameBefore`), and no two files tie.
A failure of a write ends the reader (`Stop`), as `SerialWorker` has it.

**`ConsolePath`** — the batcher, its timers, the ring and the requests that end and start
sessions. A flush takes the batch in one step (the region under `_state_lock`) and emits it in
two (`Observe` into the ring, `Send` to the clients), as `on_event` does outside the lock. A
timer is named after the line that started it, and `Request` is the flusher that `/open`
and the shutdown are. `Cancelled` only stops a timer that has not woken up, which is all
`Timer.cancel()` does. The history variable `raced` records whether another flush, or
`/open`'s emptying of the ring, has overtaken one that was emitting: what is promised about
order holds until then.

**`CaptureCommand`** — `capture_command`, `write_raw` and the collecting part of
`_dispatch_lines`, against a model of a shell behind a serial line (external: it runs
lines one after the other, and with the fault `echo` it echoes what is typed). `send()` and the bridge
type without the gate, beside a capture, whole lines or parts of them, and the write of a capture may
fail half way: what is typed next, by anybody, goes on where the line was left (`half`). A line
that reads like the command is left out of the result, as line 277 has it, also when it is output
(`Alike` says which lines do). Assumed of the board: output ends with a newline, and no command
reads what is typed after it; a message of its own is like output of something typed besides.

**`LossyFeed`** — abstract: what is offered, what waits, what was delivered, and how many were dropped.
Its three steps are `Offer` (which may give up waiting events, never the new one), `Lose` and `Deliver`. It
does not say whose queue is how long nor which thread does what. `OldestNext` is the narrower promise of a
feed that is a single queue: what is offered joins behind those that wait, and only the oldest is lost.

**`WebSocketManager`** — `ws_manager.py` with `on_event`, `_replay_events` and the endpoint `/ws`. An
emitting thread goes through `Observe` (the store), `Check` (the unlocked look at `_clients`), `Submit` (the
region under `_ingress_lock`), `Schedule` (`call_soon_threadsafe`) and, when the loop is closed,
`Discard`. The event loop is one thread: `Drain` is a callback and one step; a task changes hands only where it
awaits, so `broadcast()` is `Get`, `StartSending`, one `SendLive` per client and `FinishSending`, and a
connection is `Accept`, `Enter`, `SendReplay` or `ReplayFails`, `Disconnect`. `sendLock` is the asyncio lock with its waiters
first come, first served. `Close` cancels the broadcast task wherever it is and
`LoopCloses` ends the lifespan; `Leave` is the browser, which may go at any time. The queue from
`submitted` to `broadcasts` implements `LossyFeed` with a capacity of twice `_QUEUE_MAX` (`FeedSpec`).

**`TcpBridge`** — the accept thread (`CheckStop`, `Accept`, `AcceptTimesOut`, `AcceptFails`,
`Register`), the two threads of each client (`Receive`, `WriteEnds`, `InputEnds`; `Take`, `Send`, `OutputEnds`),
`publish()` on the serial reader (`Log`, `Put`, `Evict`, `PutAgain`, `PublishEnds`), and `close()`
(`SetStop`, `CloseServer`, `Clear`, `Join`). `workerLock` is the lock of `SerialWorker`: `write_raw()` holds it
while the tty takes what a client typed, and the reader needs it to log the next chunk. Each
client's queue implements `LossyFeed` with `OldestNext`; the history variable `evicted` counts the
chunks `publish()` took from it, apart from the bridge's own counter `dropped`. `Typists` are the
clients that type.

**`Snapshots`** — `sysmon_parser.py`, `snapshot_store.py` and the requests that start and end
sessions. A line is one of the kinds the parser tells apart, with a value named after the board that printed it;
`Emits` decides between a whole snapshot, a delta and nothing; the store folds in two steps
(`ObserveRead` without the lock, `ObserveWrite` under it). `viewer` is the fold of a client that
misses nothing. `tests` is what was printed, a group for each run of tests in a row that share a
count, and in it every test of another Test Time, since the parser tells them apart and the store does
not. `/open` is `OpenBegins`, `Reset`, `Clear`, `OpenEnds`,
each a step of its own; a reader that outlives `join()` (`late`) goes on feeding beside
them and beside the next reader. `CloseSession`, `Reacquire` and `Flush` are the other requests.

**`DutMonitor`** — `websocket.ts` and `useDutMonitor.ts`. The node prints parts of tests (`PrintTest`, `PrintPart`),
and broadcasts or loses events. `/open` (`OpenSession`) clears the store and then opens the port, `/reacquire`
(`ResumeSession`) only opens it; either may fail, with `opened_at` as it was (no tty) or null (no
log), which `Turn` says. `turns` counts both calls, so each opening has an `openedAt` of its own. The
page has one socket after the other (`Opens`, `Receive`, `Closes`, `Retry`, `Leave`), polls the status
(`PollArrives`, `PollFails`) and asks for the history (`FillAnswered`, `FillArrives`, or `FillFails`, after
which nobody asks again). Polls are made all the time, so what may arrive is anything `opened_at` has been (`openings`);
answers for the history arrive in any order. Four history variables say what the promise
depends on: `lost` (an event was lost on this connection), `spoilt` (something was applied which
newer data had overtaken), `owed` (no history has been answered since the charts were dropped and the
connection opened), `outdated` (`/open` has cleared the store since the charts were dropped).

`PROJECT.json` maps every definition to its lines. Definitions with an underscore and a
comment "Mutant: ..." are faulty variants of the definition that follows them; nothing
uses them, and each one put in the place of its original breaks the property it is
listed with.

## 4. The runs

| run | shows | bounds |
|---|---|---|
| `serial_worker_faults` | one request at a time, any fault but a slow reader: nothing is passed on before it is logged (`RawFirst`), the status tells the truth, a session has its log, one reader and, released, no port (`SessionSafe`), logs hold whole prefixes in order (`LogFaithful`), the bridge gets them in order, and a lost reader is reported | 2 callers, 3 sessions, 3 chunks |
| `serial_worker_live` | with a device that does not fail while it is read: closing raises no alarm and drops no line (`ClosesCleanly`); requests return; chunks are logged or missed aloud | 2 callers, 2 sessions, 2 chunks |
| `raw_log_prune` | when no two writes share a modification time: the open log is counted and safe from pruning, what is on the disk is the tail of what came without a gap (`SegmentsRetained`), and pruning removes no more than it must, with every error (also one that ends a pruning) and losses of power | segments of 2, cap 3, 6 bytes, 1 pruning in a row ended by an error |
| `raw_log_names` | when modification times tie, sessions share a second and the clock steps back: the directory is bounded, by one segment more for each pruning in a row that an error ended (`DiskBound`), closed segments are durable and due syncs happen (`DurableInTime`), what is synced stays | segments of 2, cap 2, 7 bytes, 1 pruning in a row ended by an error |
| `console` | every line goes out once and none is left behind (`LinesKept`, `LineGetsOut`), timers are those of lines that wait (`TimersRight`), and the ring is what the clients have seen until a flush is overtaken (`ReplayFaithful`) | ring of 2, 3 lines, 2 sessions |
| `capture` | who succeeds has its own whole output, its command is over, and no other capture that somebody waits for has lines in it (`CaptureRight`); only the holder of the gate collects; callers are answered and the gate comes free whatever fails | 2 callers, 2 captures, 1 line of output each (of which one reads like its command), 1 line or part typed besides |
| `web_socket` | from the ingress to the broadcast it is a lossy feed that counts its losses (`FeedSpec`); a client has been, or will be, given everything the stores hold or it was dropped (`NoGap`); no event twice live, none before the replay (`LiveInOrder`; what was replayed may come live too, ws_manager.py:76-82); nothing is left in the queues and no client that went is kept (`EventsGetOut`) | 2 sources with 2 and 1 events, 2 clients, queues of 1 |
| `tcp_bridge` | each client's queue is a feed that loses its oldest (`FeedSpec`); the counter never says less than was lost; after `close()` no client, socket or thread stays (`ClientsGo`); whatever clients do, the serial reader gets its lock again (`LoggingGoesOn`) | 2 clients of which one types, queues of 2, 3 chunks |
| `snapshots` | parser, store and client agree on the snapshot (`FoldsAgree`); the history has every test as it ended, but of tests in a row with one count only the last (`HistoryComplete`); nothing of another board is left in parser and store (`NothingLingers`) | 1 core, 1 key, 1 radio, 2 values (alike: symmetry), 3 headers of which two share a count, a wait of 2 lines, history of 2, 4 lines, 3 boards, 2 sessions |
| `dut_monitor` | once all is quiet the page shows what the node has and only that (`ShowsNode`); it has a socket or a timer for the next, never both or neither (`OneSocket`) | one call of `/open` or `/reacquire` with 2 tests before and 1 after, or two such calls with 1 test each; 2 parts, 1 event in the fan-out and 1 in the connection, 2 backfills |

Why the bounds are enough: every mistake we know of in these protocols needs a session
before and a session after the one at hand (three sessions), a chunk unfinished in one and
completed in another (two or three chunks), two requests (each can take the place of any
other), a file that fills and one that is pruned (three segments), a batch in flight, one
pending and one in the ring (three lines), a command that is late for the next one
(two captures), a queue that is full under one event or chunk more (two chunks wait in the bridge's, one event
in the fan-out's), an opening that fails after one that did not and before another, a client beside
another, a header and a metric before and after a change of board (four lines), a reader that comes late over two
changes of board (three boards), and a
backfill that is overtaken by another. The mutants show that each property can fail within its bounds.
Runs stop at their bounds: the configurations that can stop for good for that
reason, or because the process ends or the caller leaves, say `CHECK_DEADLOCK FALSE`
(`console`, `capture`, `web_socket`, `tcp_bridge`, `snapshots`, `dut_monitor`); in
`SerialWorker` and `RawLog` deadlock is checked. That the fan-outs do not wait for each other
forever is what `EventsGetOut`, `ClientsGo` and `LoggingGoesOn` say.

**Fairness.** Weak fairness of each thread that can take a step: the operating system runs
threads, `read()` returns within its timeout of a second, `join()` within two, timers
after 50 ms, a capture after its timeout, and the event a caller waits for is not withdrawn. In
`WebSocketManager` a thread that has an event in hand runs on, and the loop, while it runs,
serves what is ready: a send ends, since the server pings its clients and drops a silent
one. In `TcpBridge` the threads run, `accept()`, `recv()` and `get()` time out after half a second, and
the tty takes what is written to it. This last one is an assumption about the device, not the code:
pyserial is opened without a `write_timeout`, so a tty that takes nothing (flow control) would hold
the lock, and logging, for as long as it likes.
Nothing is assumed about requests, lines or faults ever coming; strong fairness is not used.

### Disagreements between the code and what it says

Each of these is a run in which TLC finds the counterexample; `PROJECT.json` quotes the line it
disagrees with.

| run | what happens |
|---|---|
| `overlap_loses_log` | two overlapping requests close the log of the session one of them just started |
| `echo_ends_capture` | the echo of the typed command contains the sentinel and ends the capture without output |

The passing runs say under which conditions the other properties hold. Each condition is there
because TLC finds a counterexample without it:

| condition | without it |
|---|---|
| requests do not overlap (`Overlap = FALSE`) | the run `overlap_loses_log` |
| a reader ends within `join(timeout=2.0)` (`PunctualReader`) | the old reader writes into the next session's log |
| writes differ in modification time (`MinStep = 1` in `raw_log_prune`) | ties put a later segment before an earlier one, and pruning leaves a gap |
| sessions differ in the second of their name (`SecondLength = 1` there) | a session can take a name of which a later segment is still on the disk: names no longer tell what came first, and its rotation fails (serial_worker.py:458) |
| no flush was overtaken (`raced` in `ReplayFaithful`) | the ring has another order than the clients (`console_ring.py:17-19` calls it "byte-identical"), or a line of the session before `/open` emptied it |
| nobody gave up or failed half way before, nor typed besides (`loose` in `CaptureRight`, for the lines of that job only) | the late output of one command, or that of what `send()` or the bridge type, is returned with that of the next |
| the line of a capture was not begun by others (`spoilt` there) | what was left of a line, half-written or typed without its end, is glued to the command: the board runs something else |
| output does not read like the command (`Alike`) | it is taken for the echo and dropped (serial_worker.py:277) |
| no reader outlived `join()` (`late` in `Snapshots`) | it undoes `clear()`: `_current` is read outside the lock and written back (snapshot_store.py:73), with items of any board since its own session (`Beside`) |
| no pruning was ended by an error (`missed` in `DiskBound`; a segment for each) | what is over the cap stays until a pruning goes through (serial_worker.py:480-483) |
| tests in a row differ in their count (groups of `tests` in `Snapshots`) | the later of two with one count and another Test Time takes the earlier one's entry of the history (snapshot_store.py:83, whose comment says "One entry per Test Time") |
| no event of this connection was lost (`lost` in `ShowsNode`) | deltas are folded onto the base of an earlier test (websocket.ts:163) until the next whole snapshot |
| no answer or event was overtaken (`spoilt` in `ShowsNode`) | a late backfill brings back older history, or that of the previous board (useDutMonitor.ts:172; the comment at 249-250 says charts are dropped "instead of letting them linger") |
| the last question for the history was answered (`owed` in `ShowsNode`) | `getSnapshots()` failed, nobody asks again (useDutMonitor.ts:183-185), and the charts miss what was stored before the connection |
| the port is open, or the store was not cleared since the charts were dropped (`outdated` in `ShowsNode`) | `/open` clears the store and then cannot open the tty (serial_api.py:70-77): `opened_at` has not changed, so the page keeps its old charts until an opening that succeeds |

## 5. The proofs

For every value of the constants (any number of callers, sessions, chunks, lines, any sizes and faults),
checked by TLAPS:

**`SerialWorkerProofs`.** `TypeCorrect`, and two results with no assumption at all, on overlap or
faults: `RawLogFirst` and `StatusIsTruthful`. `RawFirst` is not inductive: a reader past the log write,
a line put together, and a line taken by a request hold chunks too, and `RawFirstInv` says of each that
it is logged. The other theorems assume `Serialized` and `PunctualReader`, the two conditions that are
needed (section 4). They rest on `SerializedInv`: one request runs (`OneCall`); what it knows at each
step of close() and open() (`CallFacts`: once it has joined, no reader runs, no tty is held, and so on);
a running reader is the thread of the current session or is being joined (`ReaderInv`); sessions that
have not been opened are untouched (`SessionInv`); a log that is open is that of the session (`LogInv`).
From it follow `ReadersDoNotCompete`, `SessionsAreLogged`, `ReleasedPortIsFree` and
`LogsAreNotInterleaved`; `LogsAreInOrder`, `NoChunkIsLost` and `LostReadersAreReported` add an invariant
of their own each, since they relate the history to the one reader that may be holding the newest chunk.
`SessionsAreSafe` and `LogsAreFaithful` put them together into the two properties of the runs,
`SessionSafe` and `LogFaithful`.

What goes on from the log is a second half. `DownstreamKeepsOrder` needs to know where the unfinished
line is, since `_dispatch_lines` takes and replaces `_pending` outside the lock: `FlowInv` says that it
is in one place at a time (with the worker, in the hand of the reader, or of the request that flushes
it), and that what the bridge and the console have, continued with it, increases. `SessionsCloseCleanly`
has two halves: `ConsoleComplete` rests on `OwnInv` (chunks and the unfinished line belong to the
session of the reader that has them, so a logged chunk is with the console or in a place from which it
gets there), and `QuietClose` on `QuietInv` (without a fault of the device only `close()` takes the tty
away, and it has set the stop event by then).

**`RawLogProofs`.** `RawLogTyped` and `OpenLogIsCounted` (whatever fails, however the clock runs: the
open log is never pruned, the counter is its size, no file outgrows a segment), `ClosedLogsAreDurable`
(if fsync does not fail) and `DueSyncsHappen`, together `LogsAreDurable` (the property `DurableInTime`).
The invariant `LogInv` says of every file that its data is no longer than a segment and its synced part
no longer than its data, of the open log that it is the file at `logPath` and as long as the counter
says, and that nothing is open between the two steps of a rotation. `ClosedIsDurable` is inductive with
it.

`SyncedDataStays` (an action property) goes through the actions with `LogInv`. `DiskIsBounded` and
`PrunesNoMoreThanNeeded` are about a sum over the directory. The sum is counted instead of added up: a
file has one *place* for each of its bytes, and the size of a set of files is the number of their
places, so the library's facts about cardinality do for sums. The pruning order is shown to be strict
and total (`Key`: time, suffix and part as numbers), so pruning stops somewhere definite: what it keeps
fits, and with the next log it would not. `DiskInv` then says that between two prunings only the open
segment grows, and that an error which ends one costs a segment more until one goes through. All
three hold however the clock runs and whatever fails, prunings included.

`TailIsRetained` assumes `MinStep = 1` and a clock that is not set back; `SegmentsAreRetained` assumes
besides `SecondLength = 1`. Each of the three is needed: TLC violates `RetainedIsTail` with `MinStep =
0`, and `SegmentsJoin` when seconds are shared or with `clockBack`. `TailInv` says that of two files
with bytes the one with the later bytes has the later modification time, that the open log has the
latest bytes, and that the reader's rest of a chunk comes next: so what goes by modification time is
what came first. `JoinInv` says of two neighbouring segments of a session that the earlier is synced in
full and the later begins with the next byte, also while a rotation is between its two steps.

**`ConsolePathProofs`.** `ConsoleTyped` and the properties below, for rings of any size (zero too).
`TimerInv` says who may be asleep: a line beyond the last has started no timer, the batcher's timer is
armed or awake, nobody else is armed, and the request flushes only where it says so. `BatchesHaveTimers`
and `TimersAreKnown` follow. `PlaceInv` adds that a flusher holds lines only while it emits them; with
it `NoLineLost` and `EachLineOnce` are inductive: a line that is fed has the next number, so it is
nowhere yet, and each step of a flush moves a batch from one place to the next. `OrderInv` says that
while nothing was overtaken one flusher emits at a time and the lines increase across clients, batch and
batcher (`LinesGoOutInOrder`). `ReplayMissesNothing` needs `ReplayInv`: what the ring was shown (lines
with the clients, and in batches between the ring and the clients) is in it, and this holds not only
during a session but through the release and the reacquire in which the ring is kept; a ring that is not
full after a batch has dropped nothing. `RingIsLive` is the other direction: while nothing was overtaken
the ring ends what the clients were sent, or, between the two halves of an emission, what they are being
sent (`FollowInv`), and no line on its way is older than the last `/open` (`FreshInv`: the flush of
`/open` leaves the batcher empty, nothing feeds until the session starts, and no flush is under way that
has not been noticed). `LinesAreSafe` (`LinesKept`), `TimersAreSafe` (`TimersRight`) and
`ReplayIsFaithful` (`ReplayFaithful`) are the properties of the run.

**`CaptureCommandProofs`.** `CaptureTyped` and `HolderCollects` hold whatever fails: `GateInv` ties the
gate to the step its holder is at, so lines are collected for nobody else. `CaptureCorrect` assumes that
the board does not echo, which the run `echo_ends_capture` shows to be needed. Its invariant sorts
what is under way by job. `LooseInv`: lines on the console, lines the board has yet to finish and what
it has the beginning of are of the capture that waits or of jobs nobody waits for. `OwnInv`: what that
capture's command prints comes in order, through lines taken, on their way, and still to be printed.
`WholeInv`: unless others had begun its line or the port was closed, all of it is in one of these
three. `TakenInv`: who succeeded has taken such a stream up to its sentinel.

**`WebSocketManagerProofs`.** `FanOutTyped` includes that there is at most one drain on its way
(`DrainInv`: one thread is about to ask for it or one callback is scheduled, never both, and the flag is
set then) and that the asyncio lock has one holder, the head of its queue (`LockInv`). `LiveOrdered`
rests on `PipeInv` (events of a source keep their order through ingress, queue and broadcast) and
`LiveInv` (a client has had a part of what was broadcast, but for the broadcast under way).
`NothingMissed` is `NoGap`: it says for every event of a store where it is, including the moment between
store and ingress in which a client may enter, which the replay covers. `FanOutIsFeed` is the
refinement: every step of threads, drain, broadcast loop and `close()` is a step of `LossyFeed` or a
stutter, so `_dropped_events` counts exactly what was lost.

**`TcpBridgeProofs`.** `BridgeTyped` says that the second `put_nowait()` of `publish()` always finds
room: nobody else puts. `ClientsGetFeeds` is the refinement of each client's queue to `LossyFeed` with `OldestNext`.
`DropsAreCounted` compares the counter with the losses of all clients together, again as a number of
places; it needs that the connections of one run are finitely many (`BridgeAssumption`).

**`SnapshotsProofs`.** `SnapshotsTyped`. `NothingOlder` (`NothingLingers`): between the steps of `/open`
the parts that were cleared stay clear, unless a reader is late (`LingerInv`). The attempt to prove it
for any number of boards showed that the property had been false for three boards, which TLC confirmed:
a late reader of an earlier session can bring back not only its own board but any since. `Beside` now
says so, and the run has three boards. `FoldContract` is the lemma all three implementations share:
whoever shows the snapshot before, and folds what `_build_snapshot_delta()` found, shows the one after,
and where nothing was emitted nothing has changed. (The history is compared with the last test of
each group of `tests`, `Lasts`.) With it `FoldsShow` and `HistoryShows` follow from
`FoldInv`, which says of every moment of a line's way how far parser, store, client and history are
apart.

**`DutMonitorProofs`.** `MonitorTyped` (with the fact that no chart has the same test twice in a row)
and `OneConnection`. `MonitorShows` (`ShowsNode`) is about a page that reads a stream of events while
answers to backfills are under way. Reading a queue of events is a fold, and induction over a recursive
definition is out of reach; so a reading is given by two functions, the base of the socket after `k`
events and the history after `k` of them, constrained step by step and quantified universally (`Folds`,
`Draws`). `WatchInv` says that from what the page shows, or from an answer that is still to come and
that nothing will overtake (`Pending`; while `owed`, one that may never come), every reading of what is under way ends in what the node has,
and that its newest entry is the node's or is going to be (`Newest`). `StreamInv` says that on a
connection that has lost nothing every reading of what is under way leaves the newest test as the base;
`KnownInv` that nothing is newer than the node; and `KeyInv` that `opened_at` is that of the last opening
whenever the port is open, and that a page whose charts are older than the last clearing of the store does not know that
opening yet - so failed openings leave nothing behind once one succeeds.

**How the type proofs are laid out.** In `TcpBridgeProofs` and `WebSocketManagerProofs` the type
invariant is equal to a conjunction of parts, one for each group of variables that the actions leave
alone together (`TypeParts`); a step keeps the parts of what it does not touch (`PartsKept`), and the
lemma of an action looks at the others only. `WebSocketManagerProofs` needs `DrainInv` along with the
types: that there is never more than one callback is true only because the flag goes with one drain.

**What the assumptions on constants are.** They bound nothing that the code leaves open: sizes and
bounds are natural numbers (positive where the code's constants are), the marks for "nobody", "nothing"
and the broadcaster are not callers, snapshots or clients, `Clients` of the bridge is finite. TLC
evaluates each of them in the runs.

**Only model-checked.** The liveness properties `CallsReturn`, `ReadIsLogged`, `LineGetsOut`,
`CapturesReturn`, `EventsGetOut`, `ClientsGo` and `LoggingGoesOn`: liveness under fairness and `ENABLED`
are out of this prover's reach. Every other property of a passing run is a theorem. Two are stated with
care for what the provers can do: the ring's part of `ReplayFaithful` speaks of a suffix of `live`
instead of filtering it (a filter is a recursive function, on which nothing can be proved; with the two
other parts it says the same, as TLC confirms), and sums are numbers of places in the proofs while the
properties themselves still add up (`Size`, `MapThenSumSet`).

## 6. What is not modelled

* How bytes become lines, and the cap on a line: `SerialWorker` has chunks that end a line or do
  not; planned as `LineAssembler`.
* The Wi-Fi commands (`api/wifi_api.py`, `services/wifi*.py`): text parsers, and two results that a
  request assigns to a variable when it is done. What they run on the DUT is `capture_command()`.
* The REST reads (`status`, `ports`, log download): they change no state. What `status()`
  tells is in `StatusTruthful` and `DropsCounted`.
* The user interface: rendering of the state `DutMonitor` has; of the monitor itself, identity, console
  lines and client counts, which come the same ways as the snapshots.
* Regular expressions, JSON and the fields of a snapshot: `Snapshots` has the kinds of lines there
  are, so a line that matches the wrong expression is out of its reach.
* `opened_at` has whole seconds (serial_worker.py:144), so two sessions may share one and the page
  does not notice the change; in `DutMonitor` sessions differ.
* Overlapping requests in modules other than `SerialWorker`: that they break the worker is
  shown there; in the others requests come one at a time.
* The statistics (`bytes_written`, batch counts, `efficiency_report()`), the configuration and logging,
  the acceptance scripts, the tests and the built frontend.
