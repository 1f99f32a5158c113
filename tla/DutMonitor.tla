----------------------------- MODULE DutMonitor -----------------------------
(***************************************************************************)
(* The page: frontend/src/api/websocket.ts (the reconnecting socket and    *)
(* the fold of deltas) and frontend/src/monitoring/useDutMonitor.ts (what  *)
(* the charts show), against the node as modules Snapshots and             *)
(* WebSocketManager describe it.                                           *)
(*                                                                         *)
(* The node prints parts of tests in sessions; the first part of a test is *)
(* emitted whole, the others as changes.  Events go through the fan-out,   *)
(* which loses some, to the page's connection.  The page also asks over    *)
(* REST: the status, whose opened_at tells sessions apart, and the history.*)
(* Answers come in any order, or not at all; the calls that open the port  *)
(* may fail.                                                               *)
(*                                                                         *)
(* Left out: console lines, identity and client counts, which take the     *)
(* same ways as the snapshots; the back-off, which only says when the      *)
(* timer fires; the cap of the histories, the same on both sides; /close,  *)
(* after which the board is only not heard until the next /open; and that  *)
(* opened_at is in whole seconds, so that two sessions may share one.      *)
(***************************************************************************)
EXTENDS Integers, Sequences, SequencesExt

CONSTANTS
    MaxTurns,     \* bound: calls of /open and /reacquire
    Boards,       \* bound: a board prints at most board[n] tests in the n-th
                  \* session, and sees Len(board) - 1 of those calls
    MaxParts,     \* bound: parts of a test
    PipeMax,      \* bound: events in the fan-out
    WireMax,      \* bound: events in the connection
    MaxFills,     \* bound: requests for the history under way
    None          \* null

Sessions == 0..MaxTurns
Snapshot == [session : Sessions, test : Nat \ {0}, parts : SUBSET (1..MaxParts)]
Event == [type : {"update"}, snapshot : Snapshot]
           \cup [type : {"delta"}, session : Sessions, part : 1..MaxParts]
OpenedAt == Sessions \X (0..MaxTurns)

ASSUME DutMonitorAssumption ==
  /\ MaxTurns \in Nat /\ MaxParts \in Nat \ {0} /\ MaxFills \in Nat \ {0}
  /\ PipeMax \in Nat \ {0} /\ WireMax \in Nat \ {0}
  /\ \A b \in Boards : b \in Seq(Nat) /\ Len(b) \in 1..(MaxTurns + 1)
  /\ None \notin Snapshot \cup OpenedAt

VARIABLES
    board,      \* the board
    turns,      \* the node: calls of /open and of /reacquire so far
    port,       \* the node: is the tty open, released, or neither?
    openedAt,   \* the node: opened_at, told by the turns when it was set
    openings,   \* the node: what opened_at has been: status requests are made
                \* at any time, so any of it may be under way to the page
    stored,     \* the node: SnapshotStore._snapshots, the newest last
    pipe,       \* the node: events in the fan-out
    ws,         \* the page's newest socket
    wire,       \* what the node has sent on it
    timer,      \* is reconnectTimer running?
    closedByCaller,
    base,       \* latestSnapshot of the socket
    snapshot, shown,  \* what the page shows: snapshot and history
    key,        \* sessionKey: openedAt of the last status, or None
    asked,      \* calls of runBackfill() that the node has not answered
    answers,    \* its answers under way, in the order they were given
    lost,       \* history: was an event lost on this connection?
    owed,       \* history: has no history been answered since the charts were
                \* dropped and since the connection opened?
    outdated,   \* history: since the charts were dropped, has /open cleared the
                \* store?
    spoilt      \* history: since the last reset, was something applied
                \* that was older than what it was applied to?

node == <<board, turns, port, openedAt, openings, stored, pipe>>
socket == <<ws, wire, timer, closedByCaller, base, lost>>
page == <<snapshot, shown, key, spoilt, outdated>>
rest == <<asked, answers, owed>>
vars == <<node, socket, page, rest>>

(* Every variable holds a value of its kind, and the bounds are kept.       *)
TypeOK ==
  /\ board \in Boards /\ turns \in OpenedAt /\ port \in {"open", "released", "closed"}
  /\ openedAt \in OpenedAt \cup {None} /\ openings \subseteq OpenedAt \cup {None}
  /\ stored \in Seq(Snapshot)
  /\ pipe \in Seq(Event) /\ wire \in Seq(Event)
  /\ ws \in {"connecting", "open", "closing", "closed"}
  /\ timer \in BOOLEAN /\ closedByCaller \in BOOLEAN
  /\ base \in Snapshot \cup {None} /\ snapshot \in Snapshot \cup {None}
  /\ shown \in Seq(Snapshot) /\ \A i \in 1..(Len(shown) - 1) : shown[i].test # shown[i + 1].test
  /\ key \in OpenedAt \cup {None}
  /\ asked \in Nat /\ asked + Len(answers) <= MaxFills
  /\ \A i \in DOMAIN answers : answers[i].history \in Seq(Snapshot)
  /\ {lost, spoilt, owed, outdated} \subseteq BOOLEAN

\* A session is open, and the page is mounted: the effects have run once.
Init ==
  /\ board \in Boards /\ turns = <<0, 0>> /\ port = "open"
  /\ openedAt = turns /\ openings = {openedAt} /\ stored = <<>> /\ pipe = <<>>
  /\ ws = "connecting" /\ wire = <<>> /\ timer = FALSE /\ closedByCaller = FALSE
  /\ base = None /\ lost = FALSE
  /\ snapshot = None /\ shown = <<>> /\ key = None /\ spoilt = FALSE /\ outdated = FALSE
  /\ asked = 1 /\ answers = <<>> /\ owed = TRUE

-----------------------------------------------------------------------------
(* The node.                                                                *)

\* on_event(): the store first, then the fan-out.
Emit(s, event) ==
  /\ port = "open" /\ Len(pipe) < PipeMax
  /\ pipe' = Append(pipe, event) /\ stored' = s
  /\ UNCHANGED <<board, turns, port, openedAt, openings, socket, page, rest>>

NextTest == IF stored = <<>> THEN 1 ELSE Last(stored).test + 1

PrintTest ==
  LET s == [session |-> turns[1], test |-> NextTest, parts |-> {1}]
  IN NextTest <= board[turns[1] + 1] /\ Emit(Append(stored, s), [type |-> "update", snapshot |-> s])

PrintPart ==
  /\ stored # <<>>
  /\ LET s == Last(stored)
     IN \E n \in (1..MaxParts) \ s.parts :
          Emit(Append(Front(stored), [s EXCEPT !.parts = @ \cup {n}]),
               [type |-> "delta", session |-> s.session, part |-> n])

\* SerialWorker.open(), for the i-th kind of call: opened_at is set when the
\* tty is open.  Without the tty it stays as it is, without a log it is None.
Turn(i, otherwise) ==
  /\ turns[1] + turns[2] + 1 < Len(board) /\ turns' = [turns EXCEPT ![i] = @ + 1]
  /\ \/ openedAt' = turns' /\ port' = "open"
     \/ openedAt' \in {openedAt, None} /\ port' = otherwise
  /\ openings' = openings \cup {openedAt'}

\* /open: parser and store are reset first, what is in the fan-out stays.
OpenSession ==
  /\ Turn(1, "closed") /\ stored' = <<>> /\ outdated' = TRUE
  /\ UNCHANGED <<board, pipe, socket, snapshot, shown, key, spoilt, rest>>

\* /release, unless that is done, and /reacquire
ResumeSession ==
  /\ port \in {"open", "released"} /\ Turn(2, "released")
  /\ UNCHANGED <<board, stored, pipe, socket, page, rest>>

Broadcast ==
  /\ pipe # <<>> /\ (ws = "open" => Len(wire) < WireMax)
  /\ pipe' = Tail(pipe)
  /\ wire' = IF ws = "open" THEN Append(wire, Head(pipe)) ELSE wire
  /\ UNCHANGED <<board, turns, port, openedAt, openings, stored, ws, timer, closedByCaller, base, lost, page, rest>>

\* A queue is full: its oldest event goes.
Lose ==
  /\ pipe # <<>>
  /\ pipe' = Tail(pipe) /\ lost' = (lost \/ ws = "open")
  /\ UNCHANGED <<board, turns, port, openedAt, openings, stored, ws, wire, timer, closedByCaller, base, page, rest>>

-----------------------------------------------------------------------------
(* useDutMonitor(): requests.                                               *)

Ask == asked + Len(answers) < MaxFills /\ asked' = asked + 1 /\ owed' = TRUE

\* The first n answers, once the page has moved on.
Overtake(n) ==
  [i \in DOMAIN answers |-> [answers[i] EXCEPT !.overtaken = @ \/ i <= n]]

(* Mutant: the charts are kept.                                             *)
Forget_Snapshot == snapshot' = None /\ UNCHANGED shown

Forget == snapshot' = None /\ shown' = <<>>

\* setSerial(), and the effect of a sessionKey that has changed.
SetSerial(answer) ==
  IF answer = key THEN UNCHANGED <<page, asked, answers, owed>>
  ELSE /\ key' = answer /\ spoilt' = FALSE /\ outdated' = FALSE /\ Forget
       /\ Ask /\ answers' = Overtake(Len(answers))

\* refreshSerial(), every two seconds and when a socket opens
PollArrives ==
  /\ ~closedByCaller
  /\ \E answer \in openings : SetSerial(answer)
  /\ UNCHANGED <<node, socket>>

\* A request that fails counts as null.
PollFails ==
  /\ ~closedByCaller /\ SetSerial(None)
  /\ UNCHANGED <<node, socket>>

\* GET /api/snapshots
FillAnswered ==
  /\ asked > 0 /\ asked' = asked - 1 /\ owed' = FALSE
  /\ answers' = Append(answers, [history |-> stored, overtaken |-> FALSE])
  /\ UNCHANGED <<node, socket, page>>

\* getSnapshots() throws: nothing is shown, and nobody asks again.
FillFails ==
  /\ asked > 0 /\ asked' = asked - 1
  /\ UNCHANGED <<node, socket, page, answers, owed>>

SnapshotAfterFill(h) == IF snapshot = None THEN Last(h) ELSE snapshot

FillArrives ==
  /\ \E i \in DOMAIN answers :
       LET h == answers[i].history
       IN /\ answers' = RemoveAt(Overtake(i), i)
          /\ IF h = <<>> THEN UNCHANGED page
             ELSE /\ shown' = h /\ snapshot' = SnapshotAfterFill(h)
                  /\ spoilt' = (spoilt \/ answers[i].overtaken)
                  /\ UNCHANGED <<key, outdated>>
  /\ UNCHANGED <<node, socket, asked, owed>>

-----------------------------------------------------------------------------
(* connectNodeWebSocket().                                                  *)

\* The connection is accepted, and the newest snapshot replayed first; then
\* onopen().
Opens ==
  /\ ws = "connecting" /\ ws' = "open"
  /\ wire' = IF stored = <<>> THEN <<>>
             ELSE <<[type |-> "update", snapshot |-> Last(stored)]>>
  /\ Ask
  /\ UNCHANGED <<node, timer, closedByCaller, base, lost, page, answers>>

(* Mutant: an entry for every event.                                        *)
Upsert_Append(s) == Append(shown, s)

\* upsertSnapshot()
Upsert(s) ==
  IF shown # <<>> /\ Last(shown).test = s.test THEN Append(Front(shown), s)
  ELSE Append(shown, s)

Before(s, t) == s.session < t.session \/ (s.session = t.session /\ s.test < t.test)

Older(s) ==
  \/ s.session < turns[1]
  \/ base # None /\ Before(s, base)
  \/ shown # <<>> /\ Before(s, Last(shown))

\* onmessage(): a change before any base is dropped, others are folded.
Receive ==
  /\ ws = "open" /\ wire # <<>> /\ wire' = Tail(wire)
  /\ LET e == Head(wire)
     IN IF e.type = "delta" /\ base = None THEN UNCHANGED <<base, page, answers>>
        ELSE LET s == IF e.type = "update" THEN e.snapshot
                      ELSE [base EXCEPT !.parts = @ \cup {e.part}]
             IN /\ base' = s /\ snapshot' = s /\ shown' = Upsert(s)
                /\ spoilt' = (spoilt \/ Older(s)) /\ answers' = Overtake(Len(answers))
                /\ UNCHANGED <<key, outdated>>
  /\ UNCHANGED <<node, ws, timer, closedByCaller, lost, asked, owed>>

(* Mutant: close() does not keep onclose() from trying again.               *)
MayRetry_Always == TRUE

MayRetry == ~closedByCaller

\* onclose(): the attempt fails, the connection breaks, or close() is done.
Closes ==
  /\ ws # "closed" /\ ws' = "closed"
  /\ wire' = <<>> /\ base' = None /\ lost' = FALSE
  /\ timer' = MayRetry
  /\ UNCHANGED <<node, closedByCaller, page, rest>>

\* open(), by the timer: another socket, with a base of its own.
Retry ==
  /\ timer /\ timer' = FALSE
  /\ ws' = "connecting"
  /\ UNCHANGED <<node, wire, closedByCaller, base, lost, page, rest>>

\* The effect is cleaned up: close().  What the page showed goes with it, and
\* what comes later is not shown.
Leave ==
  /\ ~closedByCaller /\ closedByCaller' = TRUE /\ timer' = FALSE
  /\ ws' = IF ws = "closed" THEN ws ELSE "closing"
  /\ wire' = <<>> /\ base' = None /\ lost' = FALSE
  /\ Forget /\ key' = None /\ spoilt' = FALSE /\ outdated' = FALSE
  /\ asked' = 0 /\ answers' = <<>> /\ owed' = TRUE
  /\ UNCHANGED <<node>>

-----------------------------------------------------------------------------
Next ==
  \/ PrintTest \/ PrintPart \/ OpenSession \/ ResumeSession \/ Broadcast \/ Lose
  \/ PollArrives \/ PollFails \/ FillAnswered \/ FillFails \/ FillArrives
  \/ Opens \/ Receive \/ Closes \/ Retry \/ Leave

Spec == Init /\ [][Next]_vars

-----------------------------------------------------------------------------
Quiet ==
  /\ ws = "open" /\ wire = <<>> /\ pipe = <<>> /\ asked = 0 /\ answers = <<>>
  /\ key = openedAt

(* When nothing is under way the page shows what the node has, snapshot    *)
(* and history, of this session only ("drop the previous DUT's charts and  *)
(* identity instead of letting them linger", useDutMonitor.ts:249-250),    *)
(* provided that nothing was lost on the connection, no answer or event    *)
(* was overtaken by newer ones, and the last question for the history was  *)
(* not in vain.  Without a port the old charts do linger where opened_at   *)
(* does not tell of an /open that has cleared the store and then failed;   *)
(* with one they never do, whatever failed before.                         *)
ShowsNode ==
  Quiet /\ ~lost /\ ~spoilt /\ ~owed /\ (port = "open" \/ ~outdated) =>
    /\ shown = stored
    /\ snapshot = IF stored = <<>> THEN None ELSE Last(stored)

(* Until the caller closes it there is a socket or a timer for the next,   *)
(* and never both, whatever fails when: the page neither stays offline nor *)
(* opens a second connection.  After that there is neither.                *)
OneSocket ==
  /\ timer <=> ws = "closed" /\ ~closedByCaller
  /\ closedByCaller => ws \in {"closing", "closed"}
=============================================================================
