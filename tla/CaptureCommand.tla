-------------------------- MODULE CaptureCommand --------------------------
(***************************************************************************)
(* Running a command on the board and reading its output from the console: *)
(* capture_command() and write_raw() of backend/app/serial/serial_worker.py*)
(* and the part of _dispatch_lines() that collects lines.                  *)
(*                                                                         *)
(* The board is a shell behind a serial line: it reads lines one after the *)
(* other and prints what each one's commands do, then the sentinel that a  *)
(* capture's line ends with ("cmd; echo sentinel").  send() and the bridge *)
(* type beside a capture, whole lines or parts of them, and a write may    *)
(* fail half way; what is typed next goes on where the line was left.      *)
(*                                                                         *)
(* A job is a capture, or None: whatever else is typed (a message of the   *)
(* board's own is like the output of that).  A line of the console is a    *)
(* pair <<n, k>>, the k-th line of job n: Echo is the echo of what was     *)
(* typed, 1 to OutLines are output, and End is the sentinel.  Output ends  *)
(* with a newline, and no command reads what is typed after it.            *)
(***************************************************************************)
EXTENDS Naturals, Sequences, FiniteSets

CONSTANTS
    Callers,        \* threads that run requests
    Nobody,         \* none of them
    OutLines,       \* lines of output of a command
    Alike,          \* <<line, n>>: the line reads like the command of capture n
    MaxCaptures,    \* bound: captures
    MaxTyped,       \* bound: what is typed besides
    Faults          \* what may happen, see FaultKinds

FaultKinds == {
    "echo",         \* the board echoes what is typed
    "timeout",      \* the board may be slower than the caller waits
    "write",        \* a write to the tty may fail, also half way
    "close"}        \* the port may be closed and opened again

ASSUME CaptureAssumption ==
    /\ Nobody \notin Callers /\ OutLines \in Nat
    /\ MaxCaptures \in Nat /\ MaxTyped \in Nat
    /\ Faults \subseteq FaultKinds

None == 0
Captures == 1..MaxCaptures
Jobs == {None} \cup Captures
Echo == 0
End == OutLines + 1
Lines == Jobs \X (Echo..End)

(* A line for the shell: the job that finished it, and those that had begun*)
(* it.                                                                     *)
Entries == [own : Jobs, others : SUBSET Jobs]

VARIABLES
    isOpen,     \* is the tty open?
    gate,       \* the holder of _capture_gate, or Nobody
    active,     \* _capture_active
    sentinel,   \* _capture_sentinel: the capture it is of, or None
    lines,      \* _capture_lines
    done,       \* _capture_done
    armed,      \* number of captures armed so far
    pc,         \* where each caller is
    num,        \* the capture it runs
    got,        \* the lines it has taken
    outcome,    \* how its last capture ended
    keyboard,   \* lines the board has yet to finish
    half,       \* the jobs that have begun the next one
    at,         \* the line of output of the first one it prints next
    console,    \* lines on their way to the reader
    typed,      \* what was typed besides captures, so far
    loose,      \* history: jobs nobody waits for (any more)
    spoilt      \* history: captures that others had begun a line for, or
                \* that waited when the port was closed

capture == <<active, sentinel, lines, done>>
board == <<keyboard, half, at, console>>
history == <<typed, loose, spoilt>>
vars == <<isOpen, gate, capture, armed, pc, num, got, outcome, board, history>>

Steps == {"idle", "gate", "arm", "write", "wait", "collect", "disarm", "free"}
Outcomes == {"none", "ok", "timeout", "busy", "error"}

(* Every variable holds a value of its kind.                               *)
TypeOK ==
    /\ isOpen \in BOOLEAN
    /\ gate \in Callers \cup {Nobody}
    /\ sentinel \in Jobs /\ active = (sentinel # None)
    /\ lines \in Seq(Lines) /\ done \in BOOLEAN
    /\ armed \in 0..MaxCaptures
    /\ pc \in [Callers -> Steps]
    /\ num \in [Callers -> Jobs]
    /\ got \in [Callers -> Seq(Lines)]
    /\ outcome \in [Callers -> Outcomes]
    /\ keyboard \in Seq(Entries) /\ half \subseteq Jobs /\ at \in 1..End
    /\ console \in Seq(Lines)
    /\ typed \in 0..MaxTyped /\ loose \subseteq Jobs /\ spoilt \subseteq Captures

Init ==
    /\ isOpen = TRUE
    /\ gate = Nobody
    /\ active = FALSE /\ sentinel = None /\ lines = <<>> /\ done = FALSE
    /\ armed = 0
    /\ pc = [c \in Callers |-> "idle"]
    /\ num = [c \in Callers |-> None]
    /\ got = [c \in Callers |-> <<>>]
    /\ outcome = [c \in Callers |-> "none"]
    /\ keyboard = <<>> /\ half = {} /\ at = 1 /\ console = <<>>
    /\ typed = 0 /\ loose = {} /\ spoilt = {}

Goto(c, step) == pc' = [pc EXCEPT ![c] = step]
Ends(c, how) == outcome' = [outcome EXCEPT ![c] = how]

----------------------------------------------------------------------------
(* capture_command().                                                      *)

AtGate == {c \in Callers : pc[c] \in {"gate", "arm"}}

(* A closed or released port is refused before anything else.              *)
Ask(c) ==
    /\ pc[c] = "idle" /\ armed + Cardinality(AtGate) < MaxCaptures
    /\ got' = [got EXCEPT ![c] = <<>>]
    /\ num' = [num EXCEPT ![c] = None]
    /\ IF isOpen THEN Goto(c, "gate") /\ Ends(c, "none")
                 ELSE UNCHANGED pc /\ Ends(c, "error")
    /\ UNCHANGED <<isOpen, gate, capture, armed, board, history>>

(* Mutant: captures do not queue.                                          *)
GateFree_Always == TRUE

GateFree == gate = Nobody

(* Captures queue at the gate ...                                          *)
EnterGate(c) ==
    /\ pc[c] = "gate" /\ GateFree
    /\ gate' = c
    /\ Goto(c, "arm")
    /\ UNCHANGED <<isOpen, capture, armed, num, got, outcome, board, history>>

(* ... though not for ever.                                                *)
GateTimesOut(c) ==
    /\ "timeout" \in Faults
    /\ pc[c] = "gate" /\ gate # Nobody
    /\ Goto(c, "idle") /\ Ends(c, "busy")
    /\ UNCHANGED <<isOpen, gate, capture, armed, num, got, board, history>>

(* The port is looked at again, and lines are collected from now on.       *)
Arm(c) ==
    /\ pc[c] = "arm"
    /\ IF isOpen
       THEN /\ armed' = armed + 1
            /\ num' = [num EXCEPT ![c] = armed + 1]
            /\ active' = TRUE /\ sentinel' = armed + 1
            /\ lines' = <<>> /\ done' = FALSE
            /\ Goto(c, "write") /\ UNCHANGED outcome
       ELSE /\ Goto(c, "free") /\ Ends(c, "error")
            /\ UNCHANGED <<capture, armed, num>>
    /\ UNCHANGED <<isOpen, gate, got, board, history>>

Echoed(n) == IF "echo" \in Faults THEN <<<<n, Echo>>>> ELSE <<>>

(* The line is finished: it begins with what the jobs in half left there.  *)
TypeLine(n) ==
    /\ keyboard' = Append(keyboard, [own |-> n, others |-> half])
    /\ half' = {}
    /\ console' = console \o Echoed(n)
    /\ UNCHANGED at

(* ... or it is not.                                                       *)
TypePart(n) ==
    /\ half' = half \cup {n}
    /\ loose' = loose \cup {n}
    /\ UNCHANGED <<keyboard, at, console>>

(* write_raw(): the command goes to the board, with its sentinel.          *)
WriteCommand(c) ==
    /\ pc[c] = "write"
    /\ IF isOpen
       THEN /\ TypeLine(sentinel)
            /\ spoilt' = IF half = {} THEN spoilt ELSE spoilt \cup {sentinel}
            /\ Goto(c, "wait") /\ UNCHANGED outcome
       ELSE /\ Goto(c, "disarm") /\ Ends(c, "error")
            /\ UNCHANGED <<board, spoilt>>
    /\ UNCHANGED <<isOpen, gate, capture, armed, num, got, typed, loose>>

(* An error before anything is written, or after a part was.               *)
WriteFails(c) ==
    /\ "write" \in Faults
    /\ pc[c] = "write"
    /\ \/ UNCHANGED <<board, loose>>
       \/ isOpen /\ TypePart(sentinel)
    /\ Goto(c, "disarm") /\ Ends(c, "error")
    /\ UNCHANGED <<isOpen, gate, capture, armed, num, got, typed, spoilt>>

(* write_raw() for send() or the bridge, which do not take the gate.       *)
TypeBeside ==
    /\ isOpen /\ typed < MaxTyped
    /\ typed' = typed + 1
    /\ \/ TypeLine(None) /\ loose' = loose \cup {None}
       \/ TypePart(None)
    /\ UNCHANGED <<isOpen, gate, capture, armed, pc, num, got, outcome, spoilt>>

WaitEnds == done \/ "timeout" \in Faults

Wake(c) ==
    /\ pc[c] = "wait" /\ WaitEnds
    /\ Goto(c, "collect")
    /\ UNCHANGED <<isOpen, gate, capture, armed, num, got, outcome, board, history>>

(* Mutant: any sentinel will do.                                           *)
HasSentinel_Any(line, n) == line[2] \in {Echo, End}

HasSentinel(line, n) == n # None /\ line[1] = n /\ line[2] \in {Echo, End}

Finished(n) == \E i \in DOMAIN lines : HasSentinel(lines[i], n)

(* The wait is over, one way or the other: the lines tell which.           *)
CollectLines(c) ==
    /\ pc[c] = "collect"
    /\ got' = [got EXCEPT ![c] = lines]
    /\ Ends(c, IF Finished(sentinel) THEN "ok" ELSE "timeout")
    /\ Goto(c, "disarm")
    /\ loose' = IF Finished(sentinel) THEN loose ELSE loose \cup {sentinel}
    /\ UNCHANGED <<isOpen, gate, capture, armed, num, board, typed, spoilt>>

(* Mutant: the sentinel stays.                                             *)
SentinelAfter_Kept == sentinel

SentinelAfter == None

(* The inner finally: nothing is collected any more.                       *)
Disarm(c) ==
    /\ pc[c] = "disarm"
    /\ active' = FALSE /\ sentinel' = SentinelAfter /\ lines' = <<>>
    /\ Goto(c, "free")
    /\ UNCHANGED <<isOpen, gate, done, armed, num, got, outcome, board, history>>

(* Mutant: a capture that failed keeps the gate.                           *)
GateAfter_OnlyOk(c) == IF outcome[c] = "ok" THEN Nobody ELSE c

GateAfter(c) == Nobody

(* The outer finally.                                                      *)
FreeGate(c) ==
    /\ pc[c] = "free"
    /\ gate' = GateAfter(c)
    /\ Goto(c, "idle")
    /\ UNCHANGED <<isOpen, capture, armed, num, got, outcome, board, history>>

(* `line.strip() != cmd`: meant for the echo, but any line may read so.    *)
LikeCommand(line, n) == <<line, n>> \in Alike

(* What the caller gets, as places in the lines that it has taken.         *)
Output(c) ==
    {i \in 1..Len(got[c]) : /\ ~HasSentinel(got[c][i], num[c])
                            /\ ~LikeCommand(got[c][i], num[c])}

----------------------------------------------------------------------------
(* The reader and the board.                                               *)

(* _dispatch_lines(): a line is collected while a capture is armed, and    *)
(* the one with the sentinel wakes the caller.                             *)
ReadLine ==
    /\ isOpen /\ console # <<>>
    /\ console' = Tail(console)
    /\ IF active
       THEN /\ lines' = Append(lines, Head(console))
            /\ done' = (done \/ HasSentinel(Head(console), sentinel))
       ELSE UNCHANGED <<lines, done>>
    /\ UNCHANGED <<isOpen, gate, active, sentinel, armed, pc, num, got, outcome, keyboard, half,
                   at, history>>

(* The k-th line a line of the shell gives.  One that several jobs have a  *)
(* part in may run any of their commands or none, up to the sentinel that  *)
(* the last of them put behind it.                                         *)
Prints(entry, k) ==
    LET plain == IF k = End /\ entry.own = None THEN {} ELSE {<<<<entry.own, k>>>>}
        mixed == {<<<<n, k>>>> : n \in IF k = End THEN {} ELSE entry.others}
    IN IF entry.others = {} /\ plain # {} THEN plain ELSE plain \cup mixed \cup {<<>>}

(* What the board prints while the port is closed is lost.                 *)
BoardPrints ==
    /\ keyboard # <<>>
    /\ \E line \in Prints(Head(keyboard), at) :
          console' = IF isOpen THEN console \o line ELSE console
    /\ IF at = End THEN at' = 1 /\ keyboard' = Tail(keyboard)
                   ELSE at' = at + 1 /\ UNCHANGED keyboard
    /\ UNCHANGED <<isOpen, gate, capture, armed, pc, num, got, outcome, half, history>>

(* close() and open(), which leave captures alone.                         *)
ClosePort ==
    /\ "close" \in Faults /\ isOpen
    /\ isOpen' = FALSE
    /\ console' = <<>>
    /\ spoilt' = spoilt \cup {num[c] : c \in {d \in Callers : pc[d] \in {"wait", "collect"}}}
    /\ UNCHANGED <<gate, capture, armed, pc, num, got, outcome, keyboard, half, at, typed, loose>>

OpenPort ==
    /\ ~isOpen
    /\ isOpen' = TRUE
    /\ UNCHANGED <<gate, capture, armed, pc, num, got, outcome, board, history>>

CallerStep(c) ==
    \/ EnterGate(c) \/ GateTimesOut(c) \/ Arm(c) \/ WriteCommand(c)
    \/ WriteFails(c) \/ Wake(c) \/ CollectLines(c) \/ Disarm(c) \/ FreeGate(c)

Next ==
    \/ \E c \in Callers : Ask(c) \/ CallerStep(c)
    \/ TypeBeside \/ ReadLine \/ BoardPrints \/ ClosePort \/ OpenPort

Spec == Init /\ [][Next]_vars

(* Threads that can go on do so, waits end, and so do commands.  Whoever   *)
(* is at the gate gets in or gives up.                                     *)
Fairness ==
    /\ \A c \in Callers : WF_vars(CallerStep(c))
    /\ WF_vars(ReadLine) /\ WF_vars(BoardPrints)

FairSpec == Spec /\ Fairness

----------------------------------------------------------------------------
(* Properties.                                                             *)

OwnOutput(c) == {i \in Output(c) : got[c][i][1] = num[c]}

(* A capture that succeeds returns the output of its command, each line    *)
(* once and in order, and all of it but for lines that read like the       *)
(* command itself (line 277), unless the port was closed under it or its   *)
(* line was begun by others ...                                            *)
OutputComplete ==
    \A c \in Callers :
      outcome[c] = "ok" =>
        /\ \A i, j \in OwnOutput(c) : i < j => got[c][i][2] < got[c][j][2]
        /\ num[c] \notin spoilt =>
             \A k \in 1..OutLines :
               \/ LikeCommand(<<num[c], k>>, num[c])
               \/ \E i \in OwnOutput(c) : got[c][i] = <<num[c], k>>

(* ... and nothing that another capture's command printed, but for those   *)
(* that nobody waited for any more: who had given up, or failed half way.  *)
(* What is typed besides captures is not kept out either.                  *)
OnlyOwnOutput ==
    \A c \in Callers :
      outcome[c] = "ok" => \A i \in Output(c) : got[c][i][1] \in {num[c]} \cup loose

(* A capture succeeds only when the board is done with its command, no     *)
(* matter what earlier captures left behind (there is no echo).            *)
SuccessIsReal ==
    \A c \in Callers :
      outcome[c] = "ok" => \A i \in DOMAIN keyboard : keyboard[i].own # num[c]

(* What a capture returns is the output of its command, and the command is *)
(* over, whatever others type meanwhile.                                   *)
CaptureRight == OutputComplete /\ OnlyOwnOutput /\ SuccessIsReal

(* Lines are collected for the caller that has the gate, and for nobody    *)
(* else: between two captures the collector is empty.                      *)
CollectsForHolder ==
    IF active THEN gate # Nobody /\ num[gate] = sentinel ELSE lines = <<>> /\ sentinel = None

(* Who queues for a capture is answered, also when the port is closed      *)
(* under a capture or the board says nothing, and the gate is left to      *)
(* others, however a capture ends.                                         *)
CapturesReturn ==
    \A c \in Callers :
        /\ pc[c] = "gate" ~> pc[c] = "idle"
        /\ gate = c ~> gate # c
=============================================================================
