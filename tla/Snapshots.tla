------------------------------ MODULE Snapshots ------------------------------
(***************************************************************************)
(* From console lines to snapshots: backend/app/parser/sysmon_parser.py,   *)
(* backend/app/services/snapshot_store.py, on_event() of                   *)
(* backend/app/main.py, and the requests of backend/app/api/serial_api.py  *)
(* that start and end sessions.                                            *)
(*                                                                         *)
(* The board prints a header ("Test Time") and, under it, metrics of cores *)
(* and of memory and, in answer to a marker, the clients of a radio as     *)
(* JSON.  The parser gathers them in a snapshot and emits it whole at the  *)
(* first metric under a header, then only what changed; the store folds    *)
(* the changes back and keeps one entry per test.  A snapshot is a header  *)
(* and a value, or Absent, for every item; a value is named by the board   *)
(* that printed it, which /open may change, and the others may not.        *)
(*                                                                         *)
(* JSON lines are told apart by what the parser can make of them.  A       *)
(* session has a reader, which feeds lines one by one: what a line makes   *)
(* the parser emit is observed before the next.  A reader may outlive the  *)
(* join() of the request that ends its session, and then goes on feeding   *)
(* the parser beside the requests and the next reader.  What feed()        *)
(* assigns after on_event() returns is assigned before it: only a reader   *)
(* that is late could tell.  The events of clients, identity and           *)
(* capabilities pass the store by and are left out.                        *)
(***************************************************************************)
EXTENDS Integers, Sequences, SequencesExt

CONSTANTS
    Cores, Keys, Radios,  \* what may be measured: CPU cores, MEM_KEYS, radios
    Values,               \* what may be printed for them
    Headers,              \* <<test_count, device_ts>> of the headers printed
    WaitLines,            \* SSID_CAPABILITY_WAIT_LINES
    HistoryMax,           \* SNAPSHOT_HISTORY_MAX
    MaxLines,             \* bound: lines that are fed
    MaxBoards,            \* bound: boards that /open is called for
    MaxSessions,          \* bound: sessions, with those of /reacquire
    None, Absent          \* Python's None, and an item that is not there

Items == Cores \cup Keys \cup Radios
Boards == 1..MaxBoards
Sessions == 1..MaxSessions
Main == 0
Threads == {Main} \cup Sessions  \* a reader per session, and the main thread
Printed == Boards \X Values
Snapshot == [header : Headers, items : [Items -> Printed \cup {Absent}]]
Delta == [changed : [Items -> Printed \cup {Absent}], removed : SUBSET Items]
Event == [type : {"update"}, snapshot : Snapshot] \cup [type : {"delta"}, delta : Delta]

ASSUME SnapshotsAssumption ==
  /\ WaitLines \in Nat \ {0} /\ HistoryMax \in Nat \ {0} /\ MaxLines \in Nat
  /\ MaxBoards \in Nat \ {0} /\ MaxSessions \in Nat \ {0}
  /\ None \notin Snapshot

VARIABLES
    current,      \* SysMonParser._current_snapshot
    emitted,      \* _last_emitted_snapshot
    radio,        \* _pending_clients_radio
    identity,     \* _identity: the board it describes and its value, or None
    capabilities, \* _ssid_capabilities: likewise
    capWait,      \* _ssid_capability_wait_lines, 0 when none is pending
    stored,       \* SnapshotStore._current
    history,      \* SnapshotStore._snapshots
    out,          \* per thread: what it has emitted, not yet observed
    base,         \* per thread: <<stored>> as it read it, or <<>>
    boards,       \* per session, the ones to come left out: its board
    readers,      \* sessions whose reader runs
    late,         \* history: sessions whose reader outlived join()
    board,        \* the board of /open that comes next or is served
    request,      \* where the request is
    lines,        \* how many lines have been fed
    viewer,       \* history: the fold of a client that has missed nothing
    tests         \* history: the tests printed, in groups of one count in a row

parser == <<current, emitted, radio, identity, capabilities, capWait>>
store == <<stored, history>>
sessions == <<boards, readers, late, board>>
vars == <<parser, store, out, base, sessions, request, lines, viewer, tests>>

(* Every variable holds a value of its kind; the history keeps to its size.*)
TypeOK ==
  /\ current \in Snapshot \cup {None} /\ emitted \in Snapshot \cup {None}
  /\ radio \in Radios \cup {None}
  /\ identity \in Printed \cup {None} /\ capabilities \in Printed \cup {None}
  /\ capWait \in 0..WaitLines
  /\ stored \in Snapshot \cup {None} /\ viewer \in Snapshot \cup {None}
  /\ history \in Seq(Snapshot) /\ Len(history) <= HistoryMax /\ tests \in Seq(Seq(Snapshot) \ {<<>>})
  /\ out \in [Threads -> Seq(Event)] /\ base \in [Threads -> Seq(Snapshot \cup {None})]
  /\ boards \in Seq(Boards) /\ Len(boards) \in Sessions
  /\ readers \subseteq DOMAIN boards /\ late \subseteq DOMAIN boards
  /\ board \in Boards /\ lines \in 0..MaxLines
  /\ request \in {"idle", "reset", "clear", "start", "closed", "over"}

Init ==
  /\ current = None /\ emitted = None /\ radio = None
  /\ identity = None /\ capabilities = None /\ capWait = 0
  /\ stored = None /\ history = <<>> /\ viewer = None /\ tests = <<>>
  /\ out = [s \in Threads |-> <<>>] /\ base = [s \in Threads |-> <<>>]
  /\ boards = <<1>> /\ readers = {1} /\ late = {} /\ board = 1
  /\ request = "idle" /\ lines = 0

-----------------------------------------------------------------------------
(* Snapshots and deltas.                                                    *)

Fresh(h) == [header |-> h, items |-> [i \in Items |-> Absent]]
With(s, i, v) == [header |-> s.header, items |-> [s.items EXCEPT ![i] = v]]

(* Mutant: what is gone is not listed.                                      *)
DeltaOf_ChangesOnly(old, new) ==
  [changed |-> [i \in Items |-> IF old.items[i] # new.items[i] THEN new.items[i] ELSE Absent],
   removed |-> {}]

\* _build_snapshot_delta(), for two snapshots of one header: there is no list
\* of memory keys that are gone.
DeltaOf(old, new) ==
  [changed |-> [i \in Items |-> IF old.items[i] # new.items[i] THEN new.items[i] ELSE Absent],
   removed |-> {i \in Cores \cup Radios : old.items[i] # Absent /\ new.items[i] = Absent}]

IsEmpty(d) == d.removed = {} /\ \A i \in Items : d.changed[i] = Absent

\* apply_snapshot_delta()
Apply(s, d) ==
  [header |-> s.header,
   items |-> [i \in Items |-> IF d.changed[i] # Absent THEN d.changed[i]
                              ELSE IF i \in d.removed THEN Absent ELSE s.items[i]]]

\* _is_snapshot_boundary()
IsBoundary(old, new) == old.header # new.header

NeedsFull(new) == emitted = None \/ IsBoundary(emitted, new)

\* _emit_snapshot_update(): what it emits.
Emits(new) ==
  IF NeedsFull(new) THEN <<[type |-> "update", snapshot |-> new]>>
  ELSE LET d == DeltaOf(emitted, new)
       IN IF IsEmpty(d) THEN <<>> ELSE <<[type |-> "delta", delta |-> d]>>

EmittedAfter(new) == IF Emits(new) = <<>> THEN emitted ELSE new

-----------------------------------------------------------------------------
(* feed(), one action per kind of line.                                     *)

\* The reader of session s has a line, and has dealt with the one before.
Reads(s) ==
  /\ s \in readers /\ out[s] = <<>> /\ lines < MaxLines
  /\ lines' = lines + 1
  /\ UNCHANGED <<store, base, sessions, request, viewer>>

\* tests, when the snapshot gathered becomes new.  Count and Test Time tell a
\* test from another.  Once a reader is late this is not followed any more.
Prints(new) ==
  LET group == Last(tests)
      longer == IF Last(group).header = new.header THEN Append(Front(group), new)
                ELSE Append(group, new)
  IN tests' = IF late # {} THEN tests
              ELSE IF tests # <<>> /\ Last(group).header[1] = new.header[1]
              THEN Append(Front(tests), longer) ELSE Append(tests, <<new>>)

Emit(s, events) == out' = [out EXCEPT ![s] = events]

(* Mutant: lines count against no wait, too.                                *)
CapWaitAfter_Below == capWait - 1

\* Any other line counts against the wait for the capabilities.
CapWaitAfter == IF capWait = 0 THEN 0 ELSE capWait - 1

CapWaits == capWait' = CapWaitAfter /\ UNCHANGED capabilities

FeedCapabilityMarker(s) ==
  /\ Reads(s)
  /\ capWait' = WaitLines
  /\ UNCHANGED <<current, emitted, radio, identity, capabilities, out, tests>>

\* The snapshot before is emitted if it has not been, and a new one begins.
FeedHeader(s, h) ==
  /\ Reads(s) /\ CapWaits
  /\ IF current = None THEN Emit(s, <<>>) /\ UNCHANGED emitted
     ELSE Emit(s, Emits(current)) /\ emitted' = EmittedAfter(current)
  /\ current' = Fresh(h) /\ Prints(Fresh(h)) /\ radio' = None
  /\ UNCHANGED identity

FeedClientsMarker(s, r) ==
  /\ Reads(s) /\ CapWaits
  /\ radio' = r
  /\ UNCHANGED <<current, emitted, identity, out, tests>>

\* _emit_snapshot_update() after item i has changed.
Update(s, i, v) ==
  LET new == With(current, i, v)
  IN current' = new /\ Prints(new) /\ Emit(s, Emits(new)) /\ emitted' = EmittedAfter(new)

FeedMetric(s, i, v) ==
  /\ Reads(s) /\ CapWaits
  /\ IF current = None THEN UNCHANGED <<current, emitted, out, tests>> ELSE Update(s, i, <<boards[s], v>>)
  /\ UNCHANGED <<radio, identity>>

\* JSON with a list of rows: capabilities if they are waited for; else it is
\* taken for the answer of a radio, and is none.
FeedRows(s, v) ==
  /\ Reads(s)
  /\ IF capWait > 0
     THEN capabilities' = <<boards[s], v>> /\ capWait' = 0 /\ UNCHANGED radio
     ELSE radio' = None /\ UNCHANGED <<capabilities, capWait>>
  /\ UNCHANGED <<current, emitted, identity, out, tests>>

\* JSON with the clients of a radio, or an identity, which passes for an
\* answer that counts no clients when one is waited for.
FeedObject(s, v, isIdentity) ==
  /\ Reads(s) /\ CapWaits
  /\ radio' = None
  /\ IF radio # None
     THEN /\ IF current = None THEN UNCHANGED <<current, emitted, out, tests>>
             ELSE Update(s, radio, <<boards[s], v>>)
          /\ UNCHANGED identity
     ELSE /\ identity' = IF isIdentity THEN <<boards[s], v>> ELSE identity
          /\ UNCHANGED <<current, emitted, out, tests>>

\* A line that is none of these; if it begins like JSON, it ends the wait for
\* the answer of a radio.
FeedOther(s, json) ==
  /\ Reads(s) /\ CapWaits
  /\ radio' = IF json THEN None ELSE radio
  /\ UNCHANGED <<current, emitted, identity, out, tests>>

Feed(s) ==
  \/ FeedCapabilityMarker(s)
  \/ \E h \in Headers : FeedHeader(s, h)
  \/ \E r \in Radios : FeedClientsMarker(s, r)
  \/ \E v \in Values : \/ \E i \in Cores \cup Keys : FeedMetric(s, i, v)
                       \/ FeedRows(s, v)
                       \/ \E isIdentity \in BOOLEAN : FeedObject(s, v, isIdentity)
  \/ \E json \in BOOLEAN : FeedOther(s, json)

-----------------------------------------------------------------------------
(* SnapshotStore.observe(), by on_event(), and then the clients.            *)

\* _current is read without the lock.
ObserveRead(s) ==
  /\ out[s] # <<>> /\ base[s] = <<>>
  /\ base' = [base EXCEPT ![s] = <<stored>>]
  /\ UNCHANGED <<parser, store, out, sessions, request, lines, viewer, tests>>

(* Mutant: the test under way gets an entry per event.                      *)
Recorded_Appended(new) ==
  LET all == Append(history, new) IN IF Len(all) > HistoryMax THEN Tail(all) ELSE all

\* A deque of HistoryMax entries.
Recorded(new) ==
  IF history # <<>> /\ Last(history).header[1] = new.header[1]
  THEN Append(Front(history), new)
  ELSE LET all == Append(history, new)
       IN IF Len(all) > HistoryMax THEN Tail(all) ELSE all

\* Under the lock, if there is anything to fold the event onto.
ObserveWrite(s) ==
  /\ base[s] # <<>>
  /\ LET e == Head(out[s])
         from == base[s][1]
     IN /\ IF e.type = "delta" /\ from = None THEN UNCHANGED store
           ELSE LET new == IF e.type = "update" THEN e.snapshot ELSE Apply(from, e.delta)
                IN stored' = new /\ history' = Recorded(new)
        /\ viewer' = IF e.type = "update" THEN e.snapshot
                     ELSE IF viewer = None THEN None ELSE Apply(viewer, e.delta)
  /\ out' = [out EXCEPT ![s] = Tail(@)] /\ base' = [base EXCEPT ![s] = <<>>]
  /\ UNCHANGED <<parser, sessions, request, lines, tests>>

-----------------------------------------------------------------------------
(* Requests.                                                                *)

session == Len(boards)

\* SerialWorker.close() joins the reader, for two seconds.
ReaderEnds ==
  \/ out[session] = <<>> /\ readers' = readers \ {session} /\ UNCHANGED late
  \/ late' = late \cup {session} /\ UNCHANGED readers

\* A reader that is late finds the stop event set, or its port gone.
LateEnds(s) ==
  /\ s \in readers \cap late /\ out[s] = <<>>
  /\ readers' = readers \ {s}
  /\ UNCHANGED <<parser, store, out, base, boards, late, board, request, lines, viewer, tests>>

\* worker.open() has opened the port: a reader starts.
ReaderStarts(b) ==
  /\ session < MaxSessions
  /\ boards' = Append(boards, b) /\ readers' = readers \cup {session + 1}
  /\ UNCHANGED late

\* /open begins: the session before is closed.
OpenBegins ==
  /\ board < MaxBoards
  /\ \/ request = "idle" /\ ReaderEnds
     \/ request = "closed" /\ UNCHANGED <<readers, late>>
  /\ request' = "reset"
  /\ UNCHANGED <<parser, store, out, base, boards, board, lines, viewer, tests>>

\* SysMonParser.reset()
Reset ==
  /\ request = "reset" /\ request' = "clear"
  /\ current' = None /\ emitted' = None /\ radio' = None
  /\ identity' = None /\ capabilities' = None /\ capWait' = 0
  /\ UNCHANGED <<store, out, base, sessions, lines, viewer, tests>>

(* Mutant: what deltas are folded onto is kept.                             *)
Clear_Series ==
  /\ request = "clear" /\ request' = "start"
  /\ history' = <<>> /\ tests' = <<>>
  /\ UNCHANGED <<parser, stored, out, base, sessions, lines, viewer>>

\* SnapshotStore.clear()
Clear ==
  /\ request = "clear" /\ request' = "start"
  /\ stored' = None /\ history' = <<>> /\ tests' = <<>>
  /\ UNCHANGED <<parser, out, base, sessions, lines, viewer>>

\* worker.open(), for another board; it may fail.
OpenEnds ==
  /\ request = "start"
  /\ board' = board + 1
  /\ \/ request' = "idle" /\ ReaderStarts(board')
     \/ request' = "closed" /\ UNCHANGED <<boards, readers, late>>
  /\ UNCHANGED <<parser, store, out, base, lines, viewer, tests>>

\* /close and /release leave the parser and the store alone ...
CloseSession ==
  /\ request = "idle" /\ request' = "closed" /\ ReaderEnds
  /\ UNCHANGED <<parser, store, out, base, boards, board, lines, viewer, tests>>

\* ... so that /reacquire goes on where they stopped.
Reacquire ==
  /\ request = "closed" /\ request' = "idle" /\ ReaderStarts(board)
  /\ UNCHANGED <<parser, store, out, base, board, lines, viewer, tests>>

\* The end of lifespan(), after the worker is closed: parser.flush().
Flush ==
  /\ request = "closed" /\ request' = "over"
  /\ IF current = None THEN UNCHANGED <<out, emitted>>
     ELSE Emit(Main, Emits(current)) /\ emitted' = EmittedAfter(current)
  /\ current' = None
  /\ UNCHANGED <<radio, identity, capabilities, capWait, store, base, sessions, lines, viewer, tests>>

-----------------------------------------------------------------------------
Next ==
  \/ \E s \in Sessions : Feed(s) \/ LateEnds(s)
  \/ \E s \in Threads : ObserveRead(s) \/ ObserveWrite(s)
  \/ OpenBegins \/ Reset \/ Clear \/ OpenEnds
  \/ CloseSession \/ Reacquire \/ Flush

Spec == Init /\ [][Next]_vars

-----------------------------------------------------------------------------
Settled == \A s \in Threads : out[s] = <<>>

Gathered == current # None /\ \E i \in Items : current.items[i] # Absent

\* A memory key may also be left from before a header that was repeated.
Shows(s, new) ==
  /\ s # None /\ s.header = new.header
  /\ \A i \in Cores \cup Radios : s.items[i] = new.items[i]
  /\ \A i \in Keys : new.items[i] # Absent => s.items[i] = new.items[i]

(* Once a metric has been printed under a header, and its event observed,  *)
(* the store and a client that folds every event hold what was printed     *)
(* under that header.  Three implementations of one contract               *)
(* (snapshot_store.py:35-37): emit whole or delta, and the two folds.      *)
FoldsAgree ==
  late = {} /\ Settled /\ Gathered => Shows(stored, current) /\ Shows(viewer, current)

(* The history then is the last tests, each as it was when it ended, and   *)
(* the one under way, whatever was observed of them as a whole or as       *)
(* changes - but of tests in a row that share a count and differ in their  *)
(* Test Time there is only the last.  "One entry per Test Time"            *)
(* (snapshot_store.py:81) holds as long as counts in a row differ; the     *)
(* parser tells such tests apart (sysmon_parser.py:346-350).               *)
HistoryComplete ==
  late = {} /\ Settled /\ Gathered =>
    LET gone == Len(tests) - Len(history)
    IN /\ gone = 0 \/ (gone > 0 /\ Len(history) = HistoryMax)
       /\ \A i \in 1..Len(history) : Shows(history[i], Last(tests[gone + i]))

PrintedBy(s, from) == \A i \in Items : s.items[i] = Absent \/ s.items[i][1] \in from

\* Boards of the sessions from the first on whose reader outlived join().
Beside == {boards[s] : s \in {n \in 1..session : \E l \in late : l <= n}}

(* "The previous DUT's snapshots and identity must not linger in the       *)
(* charts or on Overview" (serial_api.py:68-69): in a session, what the    *)
(* parser and the store hold was printed by its board.  Once a reader has  *)
(* outlived join(), what was printed from its session on may come back,    *)
(* also of boards whose own readers ended in time: it writes back what it  *)
(* read of the store before it was cleared.                                *)
NothingLingers ==
  request \in {"idle", "closed"} =>
    LET from == {board} \cup Beside
    IN /\ \A s \in ({current, emitted, stored} \cup ToSet(history)) \ {None} : PrintedBy(s, from)
       /\ \A p \in {identity, capabilities} \ {None} : p[1] \in from
=============================================================================
