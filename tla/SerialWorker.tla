---------------------------- MODULE SerialWorker ----------------------------
(***************************************************************************)
(* The serial session of a node: backend/app/serial/serial_worker.py.      *)
(*                                                                         *)
(* REST handlers (Callers) run open, close, release and reacquire in       *)
(* threads of a pool; every open that succeeds starts a session: a tty, a  *)
(* raw log file and a reader thread.  The three carry the number of the    *)
(* session, so `serial', `thread' and `logFp' hold a session or None.      *)
(*                                                                         *)
(* A region under self._lock is one step.  What the code does outside the  *)
(* lock (reading _serial and _stop_event in the loop, _pending, the        *)
(* callbacks) is one step per access of shared state.                      *)
(*                                                                         *)
(* Data: the unit of data is a chunk, what one read() returns, named by    *)
(* its number in the order of reading; a chunk ends a console line or does *)
(* not.  Segments, sizes and pruning are in RawLog, capture_command in     *)
(* CaptureCommand.                                                         *)
(***************************************************************************)
EXTENDS Naturals, Sequences

CONSTANTS
    Callers,        \* the threads that serve lifecycle requests
    MaxSessions,    \* bound: sessions that are started
    MaxChunks,      \* bound: chunks that are read
    Overlap,        \* may two lifecycle requests run at the same time?
    Faults          \* what may go wrong besides opening the tty

FaultKinds == {"ttyClose", "ttyRead", "logCreate", "logWrite", "logSync", "slowReader"}

ASSUME BoundsAssumption == MaxSessions \in Nat \ {0} /\ MaxChunks \in Nat
ASSUME OverlapAssumption == Overlap \in BOOLEAN
ASSUME FaultsAssumption == Faults \subseteq FaultKinds

None == 0
Sessions == 1..MaxSessions
SessionOrNone == 0..MaxSessions
Chunks == 1..MaxChunks

VARIABLES
    serial,     \* self._serial: the session whose tty object the worker holds
    ttyOpen,    \* the sessions whose tty object is open
    thread,     \* self._thread
    stop,       \* self._stop_event
    released,   \* self._released
    lastError,  \* self._last_error: "none", "read" or "write"
    pending,    \* self._pending: the chunks of the unfinished console line
    logFp,      \* self._log_fp: the session whose raw log is open
    readerPc,   \* the reader thread of each session: where it is,
    readerTty,  \* the tty object in its `ser',
    readerChunk,\* the chunk it read last,
    readerBuf,  \* and the console line it has put together
    callPc,     \* the request of each caller: where it is,
    callOp,     \* what was asked for,
    callThread, \* the thread it joins,
    callLine,   \* and the unfinished line it flushes
    opened,     \* history: number of sessions started
    read,       \* history: read[n] is the session chunk n came from
    rawLog,     \* history: what was written to the raw logs, in order
    bridge,     \* history: chunks handed to on_raw, in order
    console     \* history: chunks handed to on_line, in order

workerVars == <<serial, ttyOpen, thread, stop, released, lastError, pending, logFp>>
historyVars == <<opened, read, rawLog, bridge, console>>
readerVars == <<readerPc, readerTty, readerChunk, readerBuf>>
callVars == <<callPc, callOp, callThread, callLine>>
vars == <<workerVars, readerVars, callVars, historyVars>>

ReaderPcs == {"check", "take", "read", "failed", "report", "log", "sync",
              "publish", "assemble", "emit", "deliver", "done"}
CallPcs == {"idle", "stop", "join", "take", "flush", "closelog", "clear",
            "start", "mark", "restore"}
Holding == {"log", "sync", "publish", "assemble"}
Reading == Holding \cup {"read"}
Ops == {"open", "close", "release", "reacquire"}

Entries == [n : Chunks, src : Sessions, file : Sessions]

WorkerTypeOK ==
    /\ serial \in SessionOrNone
    /\ ttyOpen \subseteq Sessions
    /\ thread \in SessionOrNone
    /\ stop \in BOOLEAN
    /\ released \in BOOLEAN
    /\ lastError \in {"none", "read", "write"}
    /\ pending \in Seq(Chunks)
    /\ logFp \in SessionOrNone

ReaderTypeOK ==
    /\ readerPc \in [Sessions -> ReaderPcs]
    /\ readerTty \in [Sessions -> SessionOrNone]
    /\ readerChunk \in [Sessions -> 0..MaxChunks]
    /\ readerBuf \in [Sessions -> Seq(Chunks)]
    /\ \A r \in Sessions :
          \* in the middle of a round it has a tty, and a chunk once it read
          /\ readerPc[r] \in Reading => readerTty[r] \in Sessions
          /\ readerPc[r] \in Holding => readerChunk[r] \in Chunks

CallTypeOK ==
    /\ callPc \in [Callers -> CallPcs]
    /\ callOp \in [Callers -> Ops]
    /\ callThread \in [Callers -> SessionOrNone]
    /\ callLine \in [Callers -> Seq(Chunks)]

HistoryTypeOK ==
    /\ opened \in 0..MaxSessions
    /\ read \in Seq(Sessions) /\ Len(read) <= MaxChunks
    /\ rawLog \in Seq(Entries)
    /\ bridge \in Seq(Chunks)
    /\ console \in Seq(Chunks)

(* The worker, its readers, the requests and the history keep their types. *)
TypeOK == WorkerTypeOK /\ ReaderTypeOK /\ CallTypeOK /\ HistoryTypeOK

Init ==
    /\ serial = None
    /\ ttyOpen = {}
    /\ thread = None
    /\ stop = FALSE
    /\ released = FALSE
    /\ lastError = "none"
    /\ pending = <<>>
    /\ logFp = None
    /\ readerPc = [s \in Sessions |-> "done"]
    /\ readerTty = [s \in Sessions |-> None]
    /\ readerChunk = [s \in Sessions |-> 0]
    /\ readerBuf = [s \in Sessions |-> <<>>]
    /\ callPc = [c \in Callers |-> "idle"]
    /\ callOp = [c \in Callers |-> "close"]
    /\ callThread = [c \in Callers |-> None]
    /\ callLine = [c \in Callers |-> <<>>]
    /\ opened = 0
    /\ read = <<>>
    /\ rawLog = <<>>
    /\ bridge = <<>>
    /\ console = <<>>

----------------------------------------------------------------------------
(* The lifecycle requests.                                                 *)

ReaderGoto(r, pc) ==
    /\ readerPc' = [readerPc EXCEPT ![r] = pc]
    /\ UNCHANGED <<readerTty, readerChunk, readerBuf>>

At(c, pc) == callPc[c] = pc

Goto(c, pc) ==
    /\ callPc' = [callPc EXCEPT ![c] = pc]
    /\ UNCHANGED <<callOp, callThread, callLine>>

(* An exception leaves the request; reacquire() catches it.                *)
Abort(c) == Goto(c, IF callOp[c] = "reacquire" THEN "restore" ELSE "idle")

MayBegin(c) ==
    /\ At(c, "idle")
    /\ Overlap \/ \A d \in Callers : At(d, "idle")

Begin(c, op) ==
    /\ MayBegin(c)
    /\ callPc' = [callPc EXCEPT ![c] = "stop"]
    /\ callOp' = [callOp EXCEPT ![c] = op]
    /\ UNCHANGED <<workerVars, readerVars, callThread, callLine, historyVars>>

OpenCall(c) == Begin(c, "open")
CloseCall(c) == Begin(c, "close")

(* release() and reacquire() test the worker's state under the lock first. *)
ReleaseCall(c) ==
    /\ serial # None /\ serial \in ttyOpen
    /\ Begin(c, "release")

ReacquireCall(c) ==
    /\ released
    /\ Begin(c, "reacquire")

(* close(), first region: stop the reader, close the tty, take the thread. *)
StopReader(c) ==
    /\ At(c, "stop")
    /\ stop' = TRUE
    /\ ttyOpen' = ttyOpen \ {serial}
    /\ serial' = None
    /\ callPc' = [callPc EXCEPT ![c] = "join"]
    /\ callThread' = [callThread EXCEPT ![c] = thread]
    /\ thread' = None
    /\ UNCHANGED <<released, lastError, pending, logFp, readerVars, callOp, callLine,
                   historyVars>>

(* The tty's close raises: the request ends with the thread still in place.*)
StopReaderFails(c) ==
    /\ At(c, "stop")
    /\ "ttyClose" \in Faults
    /\ serial # None
    /\ stop' = TRUE
    /\ serial' = None
    /\ Abort(c)
    /\ UNCHANGED <<ttyOpen, thread, released, lastError, pending, logFp, readerVars,
                   historyVars>>

Running(r) == readerPc[r] # "done"

(* Mutant: close() does not wait for the reader.                           *)
JoinReturns_NoJoin(old) == TRUE

(* Mutant: close() waits for a reader that was never started.              *)
JoinReturns_Always(old) == old \in Sessions /\ ~Running(old)

(* join(timeout=2.0) returns when the thread is over, or when time is up:  *)
(* the reader is in a write or an fsync that takes longer ("slowReader"),  *)
(* or another request has cleared the stop event under it.                 *)
JoinReturns(old) ==
    \/ old = None
    \/ old \in Sessions /\ ~Running(old)
    \/ ~stop
    \/ "slowReader" \in Faults

JoinReader(c) ==
    /\ At(c, "join")
    /\ JoinReturns(callThread[c])
    /\ callPc' = [callPc EXCEPT ![c] = "take"]
    /\ callThread' = [callThread EXCEPT ![c] = None]
    /\ UNCHANGED <<workerVars, readerVars, callOp, callLine, historyVars>>

(* Mutant: the unfinished line is dropped when the session ends.           *)
TakeLine_Drop(c) == UNCHANGED callLine

TakeLine(c) == callLine' = [callLine EXCEPT ![c] = pending]

(* _flush_pending_line(): take the unfinished line ...                     *)
TakePending(c) ==
    /\ At(c, "take")
    /\ callPc' = [callPc EXCEPT ![c] = "flush"]
    /\ TakeLine(c)
    /\ pending' = <<>>
    /\ UNCHANGED <<serial, ttyOpen, thread, stop, released, lastError, logFp,
                   readerVars, callOp, callThread, historyVars>>

(* ... and hand it to on_line.                                             *)
FlushPending(c) ==
    /\ At(c, "flush")
    /\ console' = console \o callLine[c]
    /\ callPc' = [callPc EXCEPT ![c] = "closelog"]
    /\ callLine' = [callLine EXCEPT ![c] = <<>>]
    /\ UNCHANGED <<workerVars, readerVars, callOp, callThread, opened, read, rawLog,
                   bridge>>

LogClosed == logFp' = None

(* _close_log_session(): the file is closed even when its fsync raises.    *)
CloseLog(c) ==
    /\ At(c, "closelog")
    /\ LogClosed
    /\ \/ Goto(c, "clear")
       \/ logFp # None /\ "logSync" \in Faults /\ Abort(c)
    /\ UNCHANGED <<serial, ttyOpen, thread, stop, released, lastError, pending,
                   readerVars, historyVars>>

(* close(), last region; where the request goes on depends on who called.  *)
AfterClose(op) ==
    CASE op = "close"   -> "idle"
      [] op = "release" -> "mark"
      [] OTHER          -> "start"

ClearReleased(c) ==
    /\ At(c, "clear")
    /\ released' = FALSE
    /\ Goto(c, AfterClose(callOp[c]))
    /\ UNCHANGED <<serial, ttyOpen, thread, stop, lastError, pending, logFp,
                   readerVars, historyVars>>

(* Mutant: the stop event of the last session stays set.                   *)
ResetSession_StopKept ==
    /\ UNCHANGED stop
    /\ pending' = <<>>
    /\ lastError' = "none"
    /\ released' = FALSE

(* open(), the region under the lock.  These are assigned in any case.     *)
ResetSession ==
    /\ stop' = FALSE
    /\ pending' = <<>>
    /\ lastError' = "none"
    /\ released' = FALSE

(* Opening the tty raises: the worker keeps the tty object it had.         *)
StartFailsTty(c) ==
    /\ At(c, "start")
    /\ ResetSession
    /\ Abort(c)
    /\ UNCHANGED <<serial, ttyOpen, thread, logFp, readerVars, historyVars>>

(* The tty was opened and is closed again.                                 *)
Unwind == serial' = None /\ UNCHANGED <<ttyOpen, opened>>

(* The log raises: no free name leaves the handle, a failed fsync clears it.*)
StartFailsLog(c) ==
    /\ At(c, "start")
    /\ "logCreate" \in Faults
    /\ ResetSession
    /\ Unwind
    /\ logFp' \in {logFp, None}
    /\ Abort(c)
    /\ UNCHANGED <<thread, readerVars, read, rawLog, bridge, console>>

(* The log is a file nobody wrote before (exclusive create).               *)
NewLog(s) == s

StartSession(c) ==
    /\ At(c, "start")
    /\ opened < MaxSessions
    /\ ResetSession
    /\ LET s == opened + 1 IN
         /\ serial' = s
         /\ ttyOpen' = ttyOpen \cup {s}
         /\ logFp' = NewLog(s)
         /\ thread' = s
         /\ ReaderGoto(s, "check")
         /\ opened' = s
    /\ Goto(c, "idle")
    /\ UNCHANGED <<read, rawLog, bridge, console>>

(* release(), last region.                                                 *)
MarkReleased(c) ==
    /\ At(c, "mark")
    /\ released' = TRUE
    /\ Goto(c, "idle")
    /\ UNCHANGED <<serial, ttyOpen, thread, stop, lastError, pending, logFp,
                   readerVars, historyVars>>

(* reacquire() after an exception of open(): the port stays handed over.   *)
Restore(c) ==
    /\ At(c, "restore")
    /\ released' = TRUE
    /\ Goto(c, "idle")
    /\ UNCHANGED <<serial, ttyOpen, thread, stop, lastError, pending, logFp,
                   readerVars, historyVars>>

----------------------------------------------------------------------------
(* The reader thread of session r.                                         *)

(* A thread that ends lets go of its tty object and of its locals; its     *)
(* last chunk is kept for the properties.                                  *)
ReaderEnds(r) ==
    /\ readerPc' = [readerPc EXCEPT ![r] = "done"]
    /\ readerTty' = [readerTty EXCEPT ![r] = None]
    /\ UNCHANGED <<readerChunk, readerBuf>>

CheckStop(r) ==
    /\ readerPc[r] = "check"
    /\ IF stop THEN ReaderEnds(r) ELSE ReaderGoto(r, "take")
    /\ UNCHANGED <<workerVars, callVars, historyVars>>

TakeSerial(r) ==
    /\ readerPc[r] = "take"
    /\ IF serial # None /\ serial \in ttyOpen
       THEN /\ readerPc' = [readerPc EXCEPT ![r] = "read"]
            /\ readerTty' = [readerTty EXCEPT ![r] = serial]
            /\ UNCHANGED <<readerChunk, readerBuf>>
       ELSE ReaderEnds(r)
    /\ UNCHANGED <<workerVars, callVars, historyVars>>

(* read() times out after a second with nothing.                           *)
ReadIdle(r) ==
    /\ readerPc[r] = "read"
    /\ readerTty[r] \in ttyOpen
    /\ ReaderGoto(r, "check")
    /\ UNCHANGED <<workerVars, callVars, historyVars>>

(* Mutant: the bridge gets the bytes first.                                *)
AfterRead_BridgeFirst == "publish"

AfterRead == "log"

ReadData(r) ==
    /\ readerPc[r] = "read"
    /\ readerTty[r] \in ttyOpen
    /\ Len(read) < MaxChunks
    /\ read' = Append(read, readerTty[r])
    /\ readerPc' = [readerPc EXCEPT ![r] = AfterRead]
    /\ readerChunk' = [readerChunk EXCEPT ![r] = Len(read) + 1]
    /\ UNCHANGED <<workerVars, readerTty, readerBuf, callVars, opened, rawLog, bridge,
                   console>>

(* read() raises: the tty was closed under it, or the device went away.    *)
ReadFails(r) ==
    /\ readerPc[r] = "read"
    /\ readerTty[r] \notin ttyOpen \/ "ttyRead" \in Faults
    /\ ReaderGoto(r, "failed")
    /\ UNCHANGED <<workerVars, callVars, historyVars>>

(* An exception while we are meant to be running is worth showing.         *)
Reports == ~stop

ReadFailed(r) ==
    /\ readerPc[r] = "failed"
    /\ IF Reports THEN ReaderGoto(r, "report") ELSE ReaderEnds(r)
    /\ UNCHANGED <<workerVars, callVars, historyVars>>

ReportReadFailure(r) ==
    /\ readerPc[r] = "report"
    /\ lastError' = "read"
    /\ ReaderEnds(r)
    /\ UNCHANGED <<serial, ttyOpen, thread, stop, released, pending, logFp, callVars,
                   historyVars>>

(* P0: the raw log first.                                                  *)
WriteLog(r) ==
    /\ readerPc[r] = "log"
    /\ logFp # None
    /\ rawLog' = Append(rawLog, [n    |-> readerChunk[r],
                                 src  |-> readerTty[r],
                                 file |-> logFp])
    /\ ReaderGoto(r, "sync")
    /\ UNCHANGED <<workerVars, callVars, opened, read, bridge, console>>

(* Mutant: the reader stops without a word.                                *)
LogError_Silent == UNCHANGED lastError

LogError == lastError' = "write"

(* Mutant: the reader goes on with the next chunk.                         *)
BreakLoop_Continue(r) == ReaderGoto(r, "check")

BreakLoop(r) == ReaderEnds(r)

(* No log is open, or the write fails, or a rotation fails on the way; a   *)
(* rotation that cannot open its next segment leaves no log open.          *)
WriteLogFails(r) ==
    /\ readerPc[r] = "log"
    /\ \/ logFp = None /\ UNCHANGED logFp
       \/ "logWrite" \in Faults /\ logFp' \in {logFp, None}
    /\ LogError
    /\ BreakLoop(r)
    /\ UNCHANGED <<serial, ttyOpen, thread, stop, released, pending, callVars,
                   historyVars>>

ForceSync(r) ==
    /\ readerPc[r] = "sync"
    /\ ReaderGoto(r, "publish")
    /\ UNCHANGED <<workerVars, callVars, historyVars>>

(* The fsync that is due every 180 s raises.                               *)
ForceSyncFails(r) ==
    /\ readerPc[r] = "sync"
    /\ logFp # None
    /\ "logSync" \in Faults
    /\ LogError
    /\ BreakLoop(r)
    /\ UNCHANGED <<serial, ttyOpen, thread, stop, released, pending, logFp, callVars,
                   historyVars>>

Publish(r) ==
    /\ readerPc[r] = "publish"
    /\ bridge' = Append(bridge, readerChunk[r])
    /\ ReaderGoto(r, "assemble")
    /\ UNCHANGED <<workerVars, callVars, opened, read, rawLog, console>>

(* Mutant: the new bytes are put before the unfinished line.               *)
Buffer_Swapped(n) == <<n>> \o pending

Buffer(n) == Append(pending, n)

(* _dispatch_lines(): buffer = self._pending + data ...                    *)
Assemble(r) ==
    /\ readerPc[r] = "assemble"
    /\ readerPc' = [readerPc EXCEPT ![r] = "emit"]
    /\ readerBuf' = [readerBuf EXCEPT ![r] = Buffer(readerChunk[r])]
    /\ UNCHANGED <<workerVars, readerTty, readerChunk, callVars, historyVars>>

(* ... then self._pending is what no newline ends yet ...                  *)
KeepPending(r) ==
    /\ readerPc[r] = "emit"
    /\ pending' = readerBuf[r]
    /\ readerPc' = [readerPc EXCEPT ![r] = "check"]
    /\ readerBuf' = [readerBuf EXCEPT ![r] = <<>>]
    /\ UNCHANGED <<serial, ttyOpen, thread, stop, released, lastError, logFp,
                   readerTty, readerChunk, callVars, historyVars>>

CompleteLine(r) ==
    /\ readerPc[r] = "emit"
    /\ pending' = <<>>
    /\ ReaderGoto(r, "deliver")
    /\ UNCHANGED <<serial, ttyOpen, thread, stop, released, lastError, logFp,
                   callVars, historyVars>>

(* ... and finished lines go to on_line.                                   *)
Deliver(r) ==
    /\ readerPc[r] = "deliver"
    /\ console' = console \o readerBuf[r]
    /\ readerPc' = [readerPc EXCEPT ![r] = "check"]
    /\ readerBuf' = [readerBuf EXCEPT ![r] = <<>>]
    /\ UNCHANGED <<workerVars, readerTty, readerChunk, callVars, opened, read, rawLog,
                   bridge>>

(* The interpreter closes a tty object nothing refers to any more.         *)
Collect(s) ==
    /\ s \in ttyOpen
    /\ s # serial
    /\ \A r \in Sessions : readerTty[r] # s
    /\ ttyOpen' = ttyOpen \ {s}
    /\ UNCHANGED <<serial, thread, stop, released, lastError, pending, logFp,
                   readerVars, callVars, historyVars>>

----------------------------------------------------------------------------

BeginStep(c) == OpenCall(c) \/ CloseCall(c) \/ ReleaseCall(c) \/ ReacquireCall(c)

CallStep(c) ==
    \/ StopReader(c) \/ StopReaderFails(c)
    \/ JoinReader(c)
    \/ TakePending(c) \/ FlushPending(c)
    \/ CloseLog(c)
    \/ ClearReleased(c)
    \/ StartFailsTty(c) \/ StartFailsLog(c) \/ StartSession(c)
    \/ MarkReleased(c)
    \/ Restore(c)

ReaderStep(r) ==
    \/ CheckStop(r) \/ TakeSerial(r)
    \/ ReadIdle(r) \/ ReadData(r)
    \/ ReadFails(r) \/ ReadFailed(r) \/ ReportReadFailure(r)
    \/ WriteLog(r) \/ WriteLogFails(r)
    \/ ForceSync(r) \/ ForceSyncFails(r)
    \/ Publish(r)
    \/ Assemble(r) \/ KeepPending(r) \/ CompleteLine(r) \/ Deliver(r)

Next ==
    \/ \E c \in Callers : BeginStep(c) \/ CallStep(c)
    \/ \E r \in Sessions : ReaderStep(r) \/ Collect(r)

Spec == Init /\ [][Next]_vars

(* A thread that can run does run: a request that was begun goes on, and   *)
(* so does a reader (its read() returns within a second).  Nobody has to   *)
(* begin a request.                                                        *)
Fairness ==
    /\ \A c \in Callers : WF_vars(CallStep(c))
    /\ \A r \in Sessions : WF_vars(ReaderStep(r))

FairSpec == Spec /\ Fairness

----------------------------------------------------------------------------
(* What the worker promises.                                               *)

Serialized == ~Overlap
PunctualReader == "slowReader" \notin Faults

Items(seq) == {seq[i] : i \in DOMAIN seq}
Increasing(seq) == \A i, j \in DOMAIN seq : i < j => seq[i] < seq[j]

Logged == {rawLog[i].n : i \in DOMAIN rawLog}

(* P0 (lines 309-311): whatever the bridge, the console or the unfinished  *)
(* line holds is already in a raw log, however requests overlap.           *)
RawFirst ==
    /\ Items(bridge) \subseteq Logged
    /\ Items(console) \subseteq Logged
    /\ Items(pending) \subseteq Logged

(* is_open, status() and write_raw() go by _serial: while it is set, its   *)
(* tty is open and the stop event is clear, however requests overlap.      *)
StatusTruthful == serial # None => serial \in ttyOpen /\ ~stop

(* Two readers never compete for the bytes of a tty.                       *)
OneReader == \A r, s \in Sessions : Running(r) /\ Running(s) => r = s

(* The bytes of a session go to that session's log (lines 388-390: never   *)
(* "append a second session onto the first one's file").                   *)
OneSessionPerLog == \A i \in DOMAIN rawLog : rawLog[i].src = rawLog[i].file

(* Lines 151-152: "A serial session without its P0 raw log must never      *)
(* remain active"; a write or a rotation that fails (lines 313-318) leaves *)
(* the session in place, but says so.                                      *)
SessionHasRawLog == serial # None => logFp = serial \/ lastError = "write"

(* Every chunk that was read gets into the raw log, before close() closes  *)
(* it too; only a log that fails loses one, the last one of its session.   *)
LogComplete ==
    \A n \in DOMAIN read : n \notin Logged =>
        LET r == read[n] IN
          /\ readerChunk[r] = n
          /\ \/ readerPc[r] = "log"
             \/ ~Running(r) /\ "logWrite" \in Faults

(* The logs hold the chunks in the order they were read, each once.        *)
LogInOrder == Increasing([i \in DOMAIN rawLog |-> rawLog[i].n])

(* Every logged chunk gets to on_line, close() included, unless an fsync   *)
(* that fails stops its reader right after logging it.                     *)
ConsoleComplete ==
    \A i \in DOMAIN rawLog :
        LET n == rawLog[i].n
            r == rawLog[i].src
        IN \/ n \in Items(console) \cup Items(pending)
           \/ \E c \in Callers : n \in Items(callLine[c])
           \/ n \in Items(readerBuf[r])
           \/ readerChunk[r] = n /\ readerPc[r] \in {"sync", "publish", "assemble"}
           \/ readerChunk[r] = n /\ ~Running(r) /\ "logSync" \in Faults

(* The bridge and the console get the chunks in order, each once, across   *)
(* sessions and with the line that a close cut short.                      *)
DownstreamInOrder == Increasing(bridge) /\ Increasing(console \o pending)

(* One session, one file: a log holds the bytes of its own session only,   *)
(* all of them but what an error took, in the order they came.             *)
LogFaithful == OneSessionPerLog /\ LogComplete /\ LogInOrder

(* A port that is handed over is closed (SPEC 3.1: "worker stops, fd       *)
(* closed"; the docstring of release(): "logging pauses").                 *)
ReleasedIsClosed == released => serial = None /\ logFp = None

(* ... and no reader is left that could take its bytes.                    *)
HandedOver == released => ReleasedIsClosed /\ \A r \in Sessions : ~Running(r)

(* A session has its tty to itself and its own log, and none is left over  *)
(* once the port is handed over: no reader, no tty, no log.                *)
SessionSafe == OneReader /\ SessionHasRawLog /\ HandedOver

(* Lines 299-304 and 313-317: a session that lost its reader says so, "a   *)
(* console that just goes quiet is the worst possible failure here".       *)
LoudFailure ==
    serial # None /\ thread # None /\ ~Running(thread) => lastError # "none"

(* Lines 299-302: closing the tty under the reader is no fault, only a     *)
(* device that fails is one.                                               *)
QuietClose == "ttyRead" \notin Faults => lastError # "read"

(* close() ends a session without a false alarm and without losing a line, *)
(* the one it cuts short included.                                         *)
ClosesCleanly == QuietClose /\ ConsoleComplete

(* Every request comes to its end, join() included.                        *)
CallsReturn == \A c \in Callers : ~At(c, "idle") ~> At(c, "idle")

(* A chunk that was read is logged, or the failure goes on record: no      *)
(* request can keep a reader from the P0 log.                              *)
ReadIsLogged ==
    \A r \in Sessions, n \in Chunks :
        readerPc[r] = "log" /\ readerChunk[r] = n
            ~> n \in Logged \/ lastError = "write"
=============================================================================
