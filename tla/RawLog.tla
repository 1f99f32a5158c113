------------------------------- MODULE RawLog -------------------------------
(***************************************************************************)
(* The raw log of a session on disk: lines 377-493 of                      *)
(* backend/app/serial/serial_worker.py.  A session writes its bytes to a   *)
(* file, goes on in a next segment when the file is full, forces them to   *)
(* the disk now and then, and removes the oldest files when the directory  *)
(* is over its cap.                                                        *)
(*                                                                         *)
(* Everything here runs under self._lock, but the power may fail between   *)
(* any two calls to the file system; the forced sync after a write takes   *)
(* the lock anew.  The bytes are numbered in the order they are handed to  *)
(* _write_log_raw().  SerialWorker says when it is called.                 *)
(***************************************************************************)
EXTENDS Integers, SequencesExt, FiniteSetsExt

CONSTANTS
    SegmentBytes,   \* _log_segment_bytes
    TotalBytes,     \* _log_total_bytes
    MaxSuffix,      \* names tried for a session (the code tries 99)
    SecondLength,   \* ticks of the clock with the same time stamp in a name
    MinStep,        \* least ticks between two writes: 0 if two may share an mtime
    MaxTime,        \* bound: ticks of the clock
    MaxBytes,       \* bound: bytes that are received
    MaxChunk,       \* bound: bytes of a chunk
    MaxMissed,      \* bound: prunings in a row that an error ends
    Faults          \* what may go wrong besides a loss of power

FaultKinds == {"logCreate", "logWrite", "logSync", "clockBack"}

ASSUME SizesAssumption ==
    /\ SegmentBytes \in Nat \ {0}
    /\ TotalBytes \in Nat /\ TotalBytes >= SegmentBytes
ASSUME ClockAssumption ==
    SecondLength \in Nat \ {0} /\ MinStep \in {0, 1} /\ MaxTime \in Nat
ASSUME LimitsAssumption ==
    MaxSuffix \in Nat /\ MaxBytes \in Nat /\ MaxChunk \in Nat /\ MaxMissed \in Nat
ASSUME RawLogFaultsAssumption == Faults \subseteq FaultKinds

Bytes == 1..MaxBytes

(* dut-<time><suffix>.log, or dut-<time><suffix>-part<part>.log.           *)
Tokens == [time : 0..MaxTime, suffix : Nat]
Names == [token : Tokens, part : Nat]
NoLog == [token |-> [time |-> 0, suffix |-> 0], part |-> 0]
Files == [data : Seq(Bytes), synced : Nat, mtime : 0..MaxTime]

VARIABLES
    disk,       \* the log directory: name -> file
    now,        \* the wall clock
    logFp,      \* self._log_fp: the name of the open log
    logPath,    \* self._log_path
    token,      \* self._session_token
    index,      \* self._segment_index
    segment,    \* self._segment_bytes
    due,        \* have _FSYNC_INTERVAL_SEC passed since _last_fsync_monotonic?
    running,    \* is there a reader that writes?
    pc,         \* where it is in _write_log_raw()
    remaining,  \* the bytes it has yet to write
    received,   \* history: number of bytes handed to _write_log_raw()
    lost,       \* history: bytes that an error or a loss of power took
    stale,      \* history: bytes received when the sync became due
    missed      \* history: prunings that an error ended, since one went through

memory == <<logFp, logPath, token, index, segment>>
writer == <<running, pc, remaining>>
history == <<received, lost, stale>>
vars == <<disk, now, memory, due, writer, history, missed>>

(* Every variable holds a value of its kind; a counted segment is no longer*)
(* than a segment may be.                                                  *)
TypeOK ==
    /\ DOMAIN disk \subseteq Names /\ \A n \in DOMAIN disk : disk[n] \in Files
    /\ now \in 0..MaxTime
    /\ {logFp, logPath} \subseteq Names
    /\ token \in Tokens /\ index \in Nat \ {0} /\ segment \in 0..SegmentBytes
    /\ due \in BOOLEAN /\ running \in BOOLEAN
    /\ pc \in {"idle", "write", "rotate", "sync"}
    /\ remaining \in Seq(Bytes)
    /\ received \in 0..MaxBytes /\ lost \subseteq Bytes /\ stale \in 0..MaxBytes
    /\ missed \in 0..MaxMissed

Init ==
    /\ disk = [n \in {} |-> NoLog]
    /\ now = 0
    /\ logFp = NoLog /\ logPath = NoLog
    /\ token = NoLog.token /\ index = 1 /\ segment = 0
    /\ due = FALSE
    /\ running = FALSE /\ pc = "idle" /\ remaining = <<>>
    /\ received = 0 /\ lost = {} /\ stale = 0 /\ missed = 0

----------------------------------------------------------------------------
(* The directory.                                                          *)

Without(d, names) == Restrict(d, DOMAIN d \ names)
Synced(d, n) == [d EXCEPT ![n].synced = Len(d[n].data)]
OnDisk(d) == UNION {ToSet(d[n].data) : n \in DOMAIN d}
Size(d) == MapThenSumSet(LAMBDA n : Len(d[n].data), DOMAIN d)

(* glob() and sort() put "-part0002" and "-2" before ".log".               *)
NameBefore(m, n) ==
    LET first(k) == IF k = 1 THEN 1 ELSE 0
        key(x) == <<x.token.time, first(x.token.suffix), x.token.suffix, first(x.part), x.part>>
    IN \E i \in 1..5 :
          /\ key(m)[i] < key(n)[i]
          /\ \A j \in 1..(i - 1) : key(m)[j] = key(n)[j]

(* Mutant: the newest log goes first.                                      *)
Older_Newest(d, m, n) ==
    \/ d[m].mtime > d[n].mtime
    \/ d[m].mtime = d[n].mtime /\ NameBefore(m, n)

Older(d, m, n) ==
    \/ d[m].mtime < d[n].mtime
    \/ d[m].mtime = d[n].mtime /\ NameBefore(m, n)

(* Mutant: a directory that is just full is over its cap.                  *)
Over_Full(size) == size >= TotalBytes

Over(size) == size > TotalBytes

(* The logs that have to go: what is left once all older ones went is      *)
(* still over the cap.                                                     *)
Excess(d, current) ==
    LET rest(n) == {m \in DOMAIN d : m = current \/ ~Older(d, m, n)}
    IN {n \in DOMAIN d \ {current} : Over(Size(Restrict(d, rest(n))))}

(* They go one by one, the oldest first, so that at any time ...           *)
OldestOf(d, gone, names) ==
    gone \subseteq names /\ \A n \in gone, m \in names \ gone : ~Older(d, m, n)

(* ... an error of glob(), stat() or unlink() may end it.                  *)
PrunedPartly(d, current) ==
    LET names == Excess(d, current)
        some == {gone \in SUBSET names : OldestOf(d, gone, names)}
    IN {Without(d, gone) : gone \in (some \ {names}) \cup {{}}}

Pruned(d, current) == Without(d, Excess(d, current))

(* _prune_logs_locked()                                                    *)
Prune(d, current) ==
    \/ disk' = Pruned(d, current) /\ missed' = 0
    \/ /\ missed < MaxMissed /\ missed' = missed + 1
       /\ disk' \in PrunedPartly(d, current)

(* Time is what has passed when somebody looks at the clock.               *)
Elapse == now' \in {now + MinStep, now + 1} /\ now' <= MaxTime

NewFile == [data |-> <<>>, synced |-> 0, mtime |-> now']
Created(n) == [m \in DOMAIN disk \cup {n} |-> IF m = n THEN NewFile ELSE disk[m]]

----------------------------------------------------------------------------
(* A session.                                                              *)

Stop ==
    /\ running' = FALSE
    /\ pc' = "idle"
    /\ remaining' = <<>>
    /\ lost' = lost \cup ToSet(remaining)
    /\ UNCHANGED <<received, stale>>

(* Mutant: the first name is taken, whatever it holds.                     *)
FreeToken_Any(t) == t.suffix = 1

(* The names are tried in turn, and created exclusively.                   *)
FreeToken(t) ==
    LET taken(k) == [token |-> [t EXCEPT !.suffix = k], part |-> 1] \in DOMAIN disk
    IN t.suffix \in 1..MaxSuffix /\ ~taken(t.suffix)
       /\ \A k \in 1..(t.suffix - 1) : taken(k)

(* Mutant: the log is not pruned when a session starts.                    *)
StartPrunes_Not(d, current) == disk' = d /\ missed' = missed

StartPrunes(d, current) == Prune(d, current)

(* _start_log_session_locked(), called by open() after close().            *)
StartSession ==
    /\ pc = "idle" /\ logFp = NoLog
    /\ Elapse
    /\ \E k \in 1..MaxSuffix :
         LET t == [time |-> now' \div SecondLength, suffix |-> k]
             n == [token |-> t, part |-> 1]
         IN /\ FreeToken(t)
            /\ StartPrunes(Created(n), n)
            /\ token' = t
            /\ logFp' = n /\ logPath' = n
    /\ index' = 1 /\ segment' = 0
    /\ due' = FALSE
    /\ running' = TRUE
    /\ UNCHANGED <<pc, remaining, history>>

(* The first fsync raises: the file stays, the session does not.           *)
StartFails ==
    /\ pc = "idle" /\ logFp = NoLog
    /\ "logSync" \in Faults
    /\ Elapse
    /\ \E k \in 1..MaxSuffix :
         LET t == [time |-> now' \div SecondLength, suffix |-> k]
         IN /\ FreeToken(t)
            /\ disk' = Created([token |-> t, part |-> 1])
            /\ token' = t
    /\ logPath' = NoLog
    /\ index' = 1 /\ segment' = 0
    /\ due' = FALSE
    /\ UNCHANGED <<logFp, writer, history, missed>>

(* Mutant: the log is closed without a sync.                               *)
CloseSync_Not(d) == d

CloseSync(d) == Synced(d, logFp)

(* _close_log_session(): close() lets the reader finish its write first, and *)
(* may come before the reader takes the lock again for its sync.           *)
CloseLog ==
    /\ pc \in {"idle", "sync"} /\ logFp # NoLog
    /\ \/ Prune(CloseSync(disk), logPath)
       \/ "logSync" \in Faults /\ UNCHANGED <<disk, missed>>
    /\ logFp' = NoLog
    /\ running' = FALSE
    /\ UNCHANGED <<now, logPath, token, index, segment, due, pc, remaining, history>>

----------------------------------------------------------------------------
(* _write_log_raw().                                                       *)

BeginWrite ==
    /\ running /\ pc = "idle"
    /\ \E k \in 1..MaxChunk :
         /\ received + k <= MaxBytes
         /\ received' = received + k
         /\ remaining' = [i \in 1..k |-> received + i]
    /\ pc' = "write"
    /\ UNCHANGED <<disk, now, memory, due, running, lost, stale, missed>>

Full == segment >= SegmentBytes

Capacity == SegmentBytes - segment

Rest(k) == SubSeq(remaining, k + 1, Len(remaining))

(* Mutant: a short write counts as a full one.                             *)
Counted_Asked(k) == segment + Min({Capacity, Len(remaining)})

Counted(k) == segment + k

(* write() takes some of the piece that fits.                              *)
WritePiece ==
    /\ pc = "write" /\ remaining # <<>>
    /\ ~Full /\ Capacity > 0
    /\ logFp # NoLog
    /\ Elapse
    /\ \E k \in 1..Min({Capacity, Len(remaining)}) :
         /\ disk' = [disk EXCEPT ![logFp] =
                        [data   |-> @.data \o SubSeq(remaining, 1, k),
                         synced |-> @.synced,
                         mtime  |-> now']]
         /\ segment' = Counted(k)
         /\ remaining' = Rest(k)
    /\ UNCHANGED <<logFp, logPath, token, index, due, running, pc, history, missed>>

NextIndex == index + 1

(* _rotate_log_locked(): the segment is synced and closed ...              *)
Rotate ==
    /\ pc = "write" /\ remaining # <<>> /\ logFp # NoLog
    /\ Full
    /\ disk' = CloseSync(disk)
    /\ logFp' = NoLog
    /\ index' = NextIndex
    /\ pc' = "rotate"
    /\ UNCHANGED <<now, logPath, token, segment, due, running, remaining, history, missed>>

NextName == [token |-> token, part |-> index]

(* ... and the next one created, exclusively.                              *)
OpenSegment ==
    /\ pc = "rotate"
    /\ NextName \notin DOMAIN disk
    /\ Elapse
    /\ Prune(Created(NextName), NextName)
    /\ logFp' = NextName /\ logPath' = NextName
    /\ segment' = 0
    /\ due' = FALSE
    /\ pc' = "write"
    /\ UNCHANGED <<token, index, running, remaining, history>>

(* The errors that end the reader, on the way where they arise.  A full    *)
(* segment that is written to takes nothing, which is an error.            *)
WriteFails ==
    /\ pc = "write" /\ remaining # <<>>
    /\ \/ ~Full /\ Capacity = 0
       \/ "logWrite" \in Faults
       \/ Full /\ "logSync" \in Faults
    /\ Stop
    /\ UNCHANGED <<disk, now, memory, due, missed>>

OpenSegmentFails ==
    /\ pc = "rotate"
    /\ \/ /\ NextName \in DOMAIN disk \/ "logCreate" \in Faults
          /\ UNCHANGED <<disk, now, logFp, logPath, segment, due>>
       \/ /\ NextName \notin DOMAIN disk /\ "logSync" \in Faults
          /\ Elapse
          /\ disk' = Created(NextName)
          /\ logFp' = NextName /\ logPath' = NextName
          /\ segment' = 0
          /\ due' = FALSE
    /\ Stop
    /\ UNCHANGED <<token, index, missed>>

EndWrite ==
    /\ pc = "write" /\ remaining = <<>>
    /\ pc' = "sync"
    /\ UNCHANGED <<disk, now, memory, due, running, remaining, history, missed>>

SyncDue == due

(* _maybe_force_sync(), in a region of its own: there may be no log by now.*)
MaybeForceSync ==
    /\ pc = "sync"
    /\ IF logFp # NoLog /\ SyncDue
       THEN disk' = Synced(disk, logFp) /\ due' = FALSE
       ELSE UNCHANGED <<disk, due>>
    /\ pc' = "idle"
    /\ UNCHANGED <<now, memory, running, remaining, history, missed>>

ForceSyncFails ==
    /\ pc = "sync"
    /\ logFp # NoLog /\ due /\ "logSync" \in Faults
    /\ Stop
    /\ UNCHANGED <<disk, now, memory, due, missed>>

----------------------------------------------------------------------------
(* The world.                                                              *)

IntervalPasses ==
    /\ ~due
    /\ due' = TRUE
    /\ stale' = received
    /\ UNCHANGED <<disk, now, memory, writer, received, lost, missed>>

(* What a loss of power leaves of a file: what was synced, and some more.  *)
Cut(f, k) ==
    LET len == Max({f.synced, Len(f.data) - k})
    IN [data |-> SubSeq(f.data, 1, len), synced |-> len, mtime |-> f.mtime]

(* The power fails and comes back: the worker starts afresh.  A board      *)
(* without a clock of its own may come up with an earlier time.            *)
PowerFails ==
    /\ \E k \in 0..SegmentBytes : disk' = [n \in DOMAIN disk |-> Cut(disk[n], k)]
    /\ lost' = lost \cup ToSet(remaining) \cup (OnDisk(disk) \ OnDisk(disk'))
    /\ now' \in {now} \cup {t \in 0..now : "clockBack" \in Faults}
    /\ logFp' = NoLog /\ logPath' = NoLog
    /\ token' = NoLog.token /\ index' = 1 /\ segment' = 0
    /\ due' = FALSE
    /\ running' = FALSE /\ pc' = "idle" /\ remaining' = <<>>
    /\ UNCHANGED <<received, stale, missed>>

Next ==
    \/ StartSession \/ StartFails \/ CloseLog
    \/ BeginWrite \/ WritePiece \/ Rotate \/ OpenSegment \/ EndWrite \/ MaybeForceSync
    \/ WriteFails \/ OpenSegmentFails \/ ForceSyncFails
    \/ IntervalPasses \/ PowerFails

Spec == Init /\ [][Next]_vars

----------------------------------------------------------------------------
(* What the log promises.                                                  *)

(* The open log is in the directory (pruning spares it) and the counter    *)
(* that decides on rotation is its size; no file outgrows a segment.       *)
SegmentCounted ==
    /\ \A n \in DOMAIN disk : Len(disk[n].data) <= SegmentBytes
    /\ logFp # NoLog => /\ logPath = logFp
                        /\ logFp \in DOMAIN disk
                        /\ segment = Len(disk[logFp].data)

(* "Rotation caps disk" (SPEC, M2), and an error that ends a pruning costs *)
(* one segment more until a later one goes through (lines 481-482): between*)
(* two prunings the directory grows by the open segment at most, whatever  *)
(* fails.                                                                  *)
DiskBound == Size(disk) <= TotalBytes + (missed + 1) * SegmentBytes

(* Read one after the other the segments of a session are the bytes as     *)
(* they came, rotation and short writes included.                          *)
SegmentsJoin ==
    \A n \in DOMAIN disk :
        LET d == disk[n].data IN
          /\ \A i \in 1..(Len(d) - 1) : d[i + 1] = d[i] + 1
          /\ \A m \in DOMAIN disk :
                /\ m.token = n.token /\ m.part + 1 = n.part
                /\ d # <<>> /\ disk[m].data # <<>>
                => d[1] = Last(disk[m].data) + 1

(* Pruning removes the oldest logs (line 466; the test of the rotation:    *)
(* "preserves retained tail"): a byte that is kept is followed by all that *)
(* came after it, but for what an error or a loss of power took.           *)
RetainedIsTail ==
    LET kept == OnDisk(disk) \cup lost \cup ToSet(remaining)
    IN \A b \in OnDisk(disk) : b..received \subseteq kept

(* The directory holds the tail of what came, split into segments that     *)
(* join without a gap.                                                     *)
SegmentsRetained == SegmentsJoin /\ RetainedIsTail

(* It removes no more than it must: with one of the logs that go the       *)
(* directory would be over its cap.                                        *)
PrunesAtNeed ==
    [][ LET gone == DOMAIN disk \ DOMAIN disk'
        IN gone # {} =>
              \E n \in gone : Size(disk') + Len(disk[n].data) > TotalBytes ]_vars

(* What was synced stays until it is pruned, and a log that was closed     *)
(* never changes but by a loss of power: no session writes to another's    *)
(* file (lines 388-390).                                                   *)
SyncedStays ==
    [][ \A n \in DOMAIN disk \cap DOMAIN disk' :
          /\ IsPrefix(SubSeq(disk[n].data, 1, disk[n].synced), disk'[n].data)
          /\ n # logFp => IsPrefix(disk'[n].data, disk[n].data) ]_vars

(* A loss of power can only take bytes of the segment that is open: a      *)
(* segment is on the disk when the next one begins.                        *)
ClosedIsDurable ==
    \A n \in DOMAIN disk \ {logFp} : disk[n].synced = Len(disk[n].data)

(* A chunk that comes after the interval takes everything to the disk: no  *)
(* chunk was written since a sync became due that is still due.            *)
SyncedInTime == running /\ pc = "idle" /\ due => received = stale

(* Both syncs happen: the one at the end of a segment and the one that is  *)
(* due every three minutes.                                                *)
DurableInTime == ClosedIsDurable /\ SyncedInTime
=============================================================================
