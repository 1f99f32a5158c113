------------------------ MODULE CaptureCommandProofs ------------------------
(* Proofs of properties of CaptureCommand, for any number of callers and   *)
(* captures and every length of a command's output.                        *)
EXTENDS CaptureCommand, SequenceTheorems, FiniteSetTheorems, TLAPS

-----------------------------------------------------------------------------
(* The invariants.                                                          *)

Holding == {"arm", "write", "wait", "collect", "disarm", "free"}
Armed == {"write", "wait", "collect", "disarm"}
Collected == {"wait", "collect"}

(* Captures are numbered within the bound.                                 *)
TypeInv ==
  /\ TypeOK
  /\ IsFiniteSet(AtGate) /\ armed + Cardinality(AtGate) <= MaxCaptures

(* Who is past the gate holds it; who has armed collects for his capture,  *)
(* the last one, and otherwise nothing is collected.                       *)
GateInv ==
  /\ \A c \in Callers : pc[c] \in Holding <=> gate = c
  /\ \A c \in Callers : pc[c] \in Armed => sentinel = num[c] /\ num[c] = armed /\ armed # 0
  /\ active => gate # Nobody /\ pc[gate] \in Armed
  /\ ~active => lines = <<>>

(* Every capture has a number of its own, and no outcome before its end.   *)
NumInv ==
  /\ \A c \in Callers : num[c] <= armed
  /\ \A c, d \in Callers : num[c] = num[d] /\ num[c] # None => c = d
  /\ \A c \in Callers : pc[c] \in {"gate", "arm"} => num[c] = None
  /\ \A c \in Callers : pc[c] \in {"gate", "arm", "write"} \cup Collected => outcome[c] = "none"
  /\ \A c \in Callers : outcome[c] = "ok" => num[c] # None

Elements(seq) == {seq[i] : i \in 1..Len(seq)}

\* The lines of job n are in order.
OwnSorted(seq, n) ==
  \A i, j \in 1..Len(seq) : i < j /\ seq[i][1] = n /\ seq[j][1] = n => seq[i][2] < seq[j][2]

\* With lines keys, the first at a, the k-th of what n prints is still to come.
Due(keys, a, n, k) == \E i \in 1..Len(keys) : keys[i].own = n /\ (i = 1 => k >= a)

\* Job n has typed one of the lines keys.
Once(keys, n) == \A i, j \in 1..Len(keys) : keys[i].own = n /\ keys[j].own = n => i = j

(* What n prints comes in order: lines that were taken, those on their way *)
(* and those still to be printed.                                          *)
OwnStream(taken, coming, keys, a, n) ==
  /\ Once(keys, n)
  /\ \A i \in 1..Len(keys) : n \notin keys[i].others
  /\ OwnSorted(taken, n) /\ OwnSorted(coming, n)
  /\ \A e \in Elements(taken), f \in Elements(coming) : e[1] = n /\ f[1] = n => e[2] < f[2]
  /\ \A e \in Elements(taken) \cup Elements(coming) :
       e[1] = n => e[2] # Echo /\ \A k \in 1..End : Due(keys, a, n, k) => e[2] < k

\* Nothing of n is lost.
Whole(taken, coming, keys, a, n) ==
  /\ \A i \in 1..Len(keys) : keys[i].own = n => keys[i].others = {}
  /\ \A k \in 1..End : <<n, k>> \in Elements(taken) \cup Elements(coming) \/ Due(keys, a, n, k)

\* The capture somebody waits for, and the one he has lines of.
Waiting == {num[c] : c \in {d \in Callers : pc[d] \in Collected}}
Served == {num[c] : c \in {d \in Callers : pc[d] \in Collected \cup {"disarm"}}}

(* Whatever is under way is of the capture that waits, or of a job that    *)
(* nobody waits for; a new capture is not among these.                     *)
LooseInv ==
  /\ keyboard = <<>> => at = 1
  /\ \A n \in loose : n <= armed
  /\ \A c \in Callers : pc[c] \in {"write"} \cup Collected => armed \notin loose
  /\ half \subseteq loose
  /\ \A i \in 1..Len(keyboard) :
       keyboard[i].own \in loose \cup Waiting /\ keyboard[i].others \subseteq loose
  /\ \A e \in Elements(console) : e[1] \in loose \cup Waiting
  /\ \A e \in Elements(lines) : e[1] \in loose \cup Served

OwnInv ==
  \A c \in Callers : pc[c] \in Collected => OwnStream(lines, console, keyboard, at, num[c])

(* No line of the command is lost while its capture waits.                 *)
WholeInv ==
  \A c \in Callers : pc[c] \in Collected /\ num[c] \notin spoilt =>
    isOpen /\ Whole(lines, console, keyboard, at, num[c])

(* What a capture that succeeded has taken.                                *)
TakenInv ==
  \A c \in Callers : outcome[c] = "ok" =>
    /\ \A i \in 1..Len(keyboard) : keyboard[i].own # num[c]
    /\ \A e \in Elements(got[c]) :
         e[1] \in loose \cup {num[c]} /\ (e[1] = num[c] => e[2] # Echo)
    /\ OwnSorted(got[c], num[c])
    /\ num[c] \notin spoilt => \A k \in 1..End : <<num[c], k>> \in Elements(got[c])

DataInv == LooseInv /\ OwnInv /\ WholeInv /\ TakenInv

NoEcho == "echo" \notin Faults

CaptureInv ==
  /\ TypeInv /\ GateInv /\ NumInv
  /\ NoEcho => DataInv

-----------------------------------------------------------------------------
(* Types.                                                                   *)

LEMMA LineOf ==
  /\ \A n \in Jobs, k \in Echo..End : <<n, k>> \in Lines
  /\ \A e \in Lines : e[1] \in Jobs /\ e[2] \in Echo..End /\ e = <<e[1], e[2]>>
                      /\ e[1] \in Nat /\ e[2] \in Nat
  /\ End \in Nat \ {0} /\ Captures \subseteq Nat \ {0} /\ None \notin Captures
  /\ Jobs \subseteq Nat /\ Captures \subseteq Jobs /\ None \in Jobs
  BY CaptureAssumption DEF Lines, Captures, Jobs, Echo, End, None

(* Who queues at the gate, after a step of one caller.                     *)
LEMMA GateGrows ==
  ASSUME TypeInv, NEW c \in Callers, c \notin AtGate, AtGate' = AtGate \cup {c}
  PROVE  IsFiniteSet(AtGate') /\ Cardinality(AtGate') = Cardinality(AtGate) + 1
  BY FS_AddElement DEF TypeInv

LEMMA GateShrinks ==
  ASSUME TypeInv, NEW c \in Callers, c \in AtGate, AtGate' = AtGate \ {c}
  PROVE  IsFiniteSet(AtGate') /\ Cardinality(AtGate') = Cardinality(AtGate) - 1
  BY FS_RemoveElement DEF TypeInv

LEMMA InitTyped == Init => TypeInv
<1> SUFFICES ASSUME Init PROVE TypeInv
  OBVIOUS
<1>1. AtGate = {}
  BY DEF Init, AtGate
<1>2. IsFiniteSet(AtGate) /\ Cardinality(AtGate) = 0
  BY <1>1, FS_EmptySet
<1>3. 0 + 0 <= MaxCaptures /\ armed = 0 /\ MaxCaptures \in Nat /\ 0 \in 0..MaxCaptures
  BY CaptureAssumption DEF Init
<1>4. /\ pc \in [Callers -> Steps] /\ num \in [Callers -> Jobs]
      /\ outcome \in [Callers -> Outcomes]
  BY LineOf DEF Init, Steps, Outcomes
<1>5. got \in [Callers -> Seq(Lines)]
  BY DEF Init
<1>6. lines \in Seq(Lines) /\ keyboard \in Seq(Entries) /\ half \subseteq Jobs /\ console \in Seq(Lines)
  BY DEF Init
<1>7. at \in 1..End
  BY LineOf DEF Init
<1>8. /\ isOpen \in BOOLEAN /\ done \in BOOLEAN
      /\ typed \in 0..MaxTyped /\ loose \subseteq Jobs /\ spoilt \subseteq Captures
  <2>1. 0 \in 0..MaxTyped
    BY CaptureAssumption
  <2>2. QED
    BY <2>1 DEF Init
<1>9. sentinel \in Jobs /\ active = (sentinel # None) /\ gate \in Callers \cup {Nobody}
  BY LineOf DEF Init
<1>10. QED
  BY <1>2, <1>3, <1>4, <1>5, <1>6, <1>7, <1>8, <1>9 DEF TypeInv, TypeOK

(* The callers' part and the board's part of the types.                    *)
CallerTypes ==
  /\ pc \in [Callers -> Steps] /\ num \in [Callers -> Jobs]
  /\ got \in [Callers -> Seq(Lines)] /\ outcome \in [Callers -> Outcomes]
  /\ gate \in Callers \cup {Nobody} /\ armed \in 0..MaxCaptures

CollectTypes ==
  /\ sentinel \in Jobs /\ lines \in Seq(Lines)

BoardTypes == keyboard \in Seq(Entries) /\ half \subseteq Jobs /\ at \in 1..End /\ console \in Seq(Lines)

FlagTypes ==
  /\ isOpen \in BOOLEAN /\ done \in BOOLEAN /\ active = (sentinel # None)
  /\ typed \in 0..MaxTyped /\ loose \subseteq Jobs /\ spoilt \subseteq Captures

LEMMA TypeParts == TypeOK <=> CallerTypes /\ CollectTypes /\ BoardTypes /\ FlagTypes
  BY DEF TypeOK, CallerTypes, CollectTypes, BoardTypes, FlagTypes

(* A line that is typed, a part of one, and one that is printed.           *)
LEMMA LineTyped ==
  ASSUME BoardTypes, NEW n \in Jobs, TypeLine(n)
  PROVE  BoardTypes'
<1>1. [own |-> n, others |-> half] \in Entries
  BY DEF BoardTypes, Entries
<1>2. Echoed(n) \in Seq(Lines)
  <2>1. <<n, Echo>> \in Lines
    BY LineOf DEF Echo
  <2>2. QED
    BY <2>1 DEF Echoed
<1>3. keyboard' \in Seq(Entries) /\ console' \in Seq(Lines) /\ half' = {} /\ at' = at
  BY <1>1, <1>2, AppendProperties, ConcatProperties DEF BoardTypes, TypeLine
<1>4. QED
  BY <1>3 DEF BoardTypes

LEMMA PartTyped ==
  ASSUME BoardTypes, NEW n \in Jobs, TypePart(n)
  PROVE  BoardTypes'
  BY DEF BoardTypes, TypePart

LEMMA PrintsAre ==
  ASSUME NEW entry \in Entries, NEW k \in 1..End, NEW line \in Prints(entry, k)
  PROVE  /\ line = <<>> \/ \E n \in {entry.own} \cup entry.others : line = <<<<n, k>>>>
         /\ entry.others = {} /\ entry.own # None => line = <<<<entry.own, k>>>>
<1> DEFINE plain == IF k = End /\ entry.own = None THEN {} ELSE {<<<<entry.own, k>>>>}
           mixed == {<<<<n, k>>>> : n \in IF k = End THEN {} ELSE entry.others}
<1>1. line \in IF entry.others = {} /\ plain # {} THEN plain ELSE plain \cup mixed \cup {<<>>}
  BY DEF Prints
<1>2. plain \subseteq {<<<<entry.own, k>>>>} /\ (entry.own # None => plain = {<<<<entry.own, k>>>>})
  OBVIOUS
<1>3. \A x \in mixed : \E n \in entry.others : x = <<<<n, k>>>>
  OBVIOUS
<1> HIDE DEF plain, mixed
<1>4. QED
  BY <1>1, <1>2, <1>3

(* What the board does, whether or not it is heard.                        *)
Printed(keys, a, keys2, a2) ==
  IF a = End THEN a2 = 1 /\ keys2 = Tail(keys) ELSE a2 = a + 1 /\ keys2 = keys

LEMMA PrintedTyped ==
  ASSUME NEW keys \in Seq(Entries), keys # <<>>, NEW a \in 1..End, NEW keys2, NEW a2,
         Printed(keys, a, keys2, a2)
  PROVE  keys2 \in Seq(Entries) /\ a2 \in 1..End /\ Head(keys) \in Entries
<1>1. Tail(keys) \in Seq(Entries) /\ Head(keys) \in Entries
  BY HeadTailProperties
<1>2. End \in Nat \ {0}
  BY LineOf
<1>3. CASE a = End
  BY <1>1, <1>2, <1>3 DEF Printed
<1>4. CASE a # End
  BY <1>1, <1>2, <1>4 DEF Printed
<1>5. QED
  BY <1>3, <1>4

LEMMA PrintTyped ==
  ASSUME BoardTypes, BoardPrints
  PROVE  BoardTypes'
<1>1. /\ keyboard \in Seq(Entries) /\ at \in 1..End /\ console \in Seq(Lines) /\ half \subseteq Jobs
      /\ keyboard # <<>> /\ half' = half /\ Printed(keyboard, at, keyboard', at')
  BY DEF BoardTypes, BoardPrints, Printed
<1>2. PICK line \in Prints(Head(keyboard), at) : console' \in {console, console \o line}
  BY DEF BoardPrints
<1>3. keyboard' \in Seq(Entries) /\ at' \in 1..End /\ Head(keyboard) \in Entries
  BY <1>1, PrintedTyped
<1>4. line \in Seq(Lines)
  <2>1. line = <<>> \/ \E n \in {Head(keyboard).own} \cup Head(keyboard).others : line = <<<<n, at>>>>
    BY <1>1, <1>3, PrintsAre
  <2>2. {Head(keyboard).own} \cup Head(keyboard).others \subseteq Jobs
    BY <1>3 DEF Entries
  <2>3. at \in Echo..End
    BY <1>1, LineOf DEF Echo
  <2>4. \A n \in Jobs : <<n, at>> \in Lines
    BY <2>3, LineOf
  <2>5. \A n \in Jobs : <<<<n, at>>>> \in Seq(Lines)
    BY <2>4
  <2>6. CASE line = <<>>
    BY <2>6
  <2>7. CASE line # <<>>
    <3>1. PICK n \in {Head(keyboard).own} \cup Head(keyboard).others : line = <<<<n, at>>>>
      BY <2>1, <2>7
    <3>2. n \in Jobs
      BY <2>2
    <3>3. QED
      BY <2>5, <3>1, <3>2
  <2>8. QED
    BY <2>6, <2>7
<1>5. console' \in Seq(Lines)
  BY <1>1, <1>2, <1>4, ConcatProperties
<1>6. QED
  BY <1>1, <1>3, <1>5 DEF BoardTypes

LEMMA StepTyped == TypeInv /\ GateInv /\ [Next]_vars => TypeInv'
<1> SUFFICES ASSUME TypeInv, GateInv, [Next]_vars PROVE TypeInv'
  OBVIOUS
<1>1. CallerTypes /\ CollectTypes /\ BoardTypes /\ FlagTypes
  BY TypeParts DEF TypeInv
<1>2. MaxCaptures \in Nat /\ IsFiniteSet(AtGate) /\ Cardinality(AtGate) \in Nat /\ armed \in Nat
      /\ armed + Cardinality(AtGate) <= MaxCaptures
  BY <1>1, CaptureAssumption, FS_CardinalityType DEF TypeInv, CallerTypes
<1>3. ASSUME CallerTypes', CollectTypes', BoardTypes', FlagTypes',
             IsFiniteSet(AtGate)', armed' + Cardinality(AtGate)' <= MaxCaptures
      PROVE  TypeInv'
  BY <1>3, TypeParts DEF TypeInv, TypeOK, CallerTypes, CollectTypes, BoardTypes, FlagTypes
\* Steps that leave the gate's queue alone.
<1>4. ASSUME CallerTypes', CollectTypes', BoardTypes', FlagTypes', armed' = armed, AtGate' = AtGate
      PROVE  TypeInv'
  BY <1>2, <1>3, <1>4
<1>5. ASSUME NEW c \in Callers, NEW step \in Steps \ {"gate", "arm"}, c \notin AtGate,
             pc' = [pc EXCEPT ![c] = step] \/ pc' = pc
      PROVE  AtGate' = AtGate /\ pc' \in [Callers -> Steps]
  BY <1>1, <1>5 DEF AtGate, CallerTypes
<1>6. ASSUME NEW c \in Callers, Ask(c) PROVE TypeInv'
  <2>1. /\ UNCHANGED <<isOpen, gate, capture, armed, board, history>> /\ pc[c] = "idle"
        /\ got' = [got EXCEPT ![c] = <<>>] /\ num' = [num EXCEPT ![c] = None]
        /\ armed + Cardinality(AtGate) < MaxCaptures
    BY <1>6 DEF Ask
  <2>2. CollectTypes' /\ BoardTypes'
    BY <1>1, <2>1 DEF CollectTypes, BoardTypes, capture, board
  <2>3. FlagTypes'
    BY <1>1, <2>1 DEF FlagTypes, capture, history
  <2>4. got' \in [Callers -> Seq(Lines)] /\ num' \in [Callers -> Jobs]
    BY <1>1, <2>1, LineOf DEF CallerTypes
  <2>5. CASE isOpen
    <3>1. /\ pc' = [pc EXCEPT ![c] = "gate"] /\ outcome' = [outcome EXCEPT ![c] = "none"]
      BY <1>6, <2>5 DEF Ask, Goto, Ends
    <3>2. c \notin AtGate /\ AtGate' = AtGate \cup {c}
      BY <1>1, <2>1, <3>1 DEF AtGate, CallerTypes
    <3>3. CallerTypes'
      BY <1>1, <2>1, <2>4, <3>1 DEF CallerTypes, Steps, Outcomes
    <3>4. IsFiniteSet(AtGate') /\ Cardinality(AtGate') = Cardinality(AtGate) + 1
      BY <3>2, GateGrows
    <3>5. QED
      BY <1>2, <1>3, <2>1, <2>2, <2>3, <3>3, <3>4
  <2>6. CASE ~isOpen
    <3>1. pc' = pc /\ outcome' = [outcome EXCEPT ![c] = "error"]
      BY <1>6, <2>6 DEF Ask, Ends
    <3>2. CallerTypes' /\ AtGate' = AtGate
      BY <1>1, <2>1, <2>4, <3>1 DEF CallerTypes, Outcomes, AtGate
    <3>3. QED
      BY <1>4, <2>1, <2>2, <2>3, <3>2
  <2>7. QED
    BY <2>5, <2>6
<1>7. ASSUME NEW c \in Callers, EnterGate(c) PROVE TypeInv'
  <2>1. /\ pc[c] = "gate" /\ gate' = c /\ pc' = [pc EXCEPT ![c] = "arm"]
        /\ UNCHANGED <<isOpen, capture, armed, num, got, outcome, board, history>>
    BY <1>7 DEF EnterGate, Goto
  <2>2. CallerTypes' /\ CollectTypes' /\ BoardTypes' /\ AtGate' = AtGate
    BY <1>1, <2>1 DEF CallerTypes, CollectTypes, BoardTypes, AtGate, Steps, capture, board
  <2>3. FlagTypes'
    BY <1>1, <2>1 DEF FlagTypes, capture, history
  <2>4. QED
    BY <1>4, <2>1, <2>2, <2>3
<1>8. ASSUME NEW c \in Callers, GateTimesOut(c) PROVE TypeInv'
  <2>1. /\ pc[c] = "gate" /\ pc' = [pc EXCEPT ![c] = "idle"] /\ outcome' = [outcome EXCEPT ![c] = "busy"]
        /\ UNCHANGED <<isOpen, gate, capture, armed, num, got, board, history>>
    BY <1>8 DEF GateTimesOut, Goto, Ends
  <2>2. CallerTypes' /\ CollectTypes' /\ BoardTypes'
    BY <1>1, <2>1 DEF CallerTypes, CollectTypes, BoardTypes, Steps, Outcomes, capture, board
  <2>3. FlagTypes'
    BY <1>1, <2>1 DEF FlagTypes, capture, history
  <2>4. c \in AtGate /\ AtGate' = AtGate \ {c}
    BY <1>1, <2>1 DEF CallerTypes, AtGate
  <2>5. IsFiniteSet(AtGate') /\ Cardinality(AtGate') = Cardinality(AtGate) - 1
    BY <2>4, GateShrinks
  <2>6. QED
    BY <1>2, <1>3, <2>1, <2>2, <2>3, <2>5
<1>9. ASSUME NEW c \in Callers, Arm(c) PROVE TypeInv'
  <2>1. /\ pc[c] = "arm" /\ UNCHANGED <<isOpen, gate, got, board, history>>
    BY <1>9 DEF Arm
  <2>2. BoardTypes'
    BY <1>1, <2>1 DEF BoardTypes, board
  <2>3. c \in AtGate
    BY <2>1 DEF AtGate
  <2>4. CASE isOpen
    <3>1. /\ armed' = armed + 1 /\ num' = [num EXCEPT ![c] = armed + 1] /\ active' = TRUE
          /\ sentinel' = armed + 1 /\ lines' = <<>> /\ done' = FALSE
          /\ pc' = [pc EXCEPT ![c] = "write"] /\ outcome' = outcome
      BY <1>9, <2>4 DEF Arm, Goto
    <3>2. AtGate' = AtGate \ {c}
      BY <1>1, <2>1, <3>1 DEF CallerTypes, AtGate
    <3>3. IsFiniteSet(AtGate') /\ Cardinality(AtGate') = Cardinality(AtGate) - 1
      BY <2>3, <3>2, GateShrinks
    <3>4. Cardinality(AtGate) # 0
      BY <1>2, <2>3, FS_EmptySet
    <3>5. armed + 1 \in Captures /\ armed + 1 <= MaxCaptures /\ armed + 1 # None
      BY <1>2, <3>4 DEF Captures, None
    <3>6. CallerTypes' /\ CollectTypes'
      BY <1>1, <1>2, <2>1, <3>1, <3>5, LineOf DEF CallerTypes, CollectTypes, Steps
    <3>7. FlagTypes'
      BY <1>1, <2>1, <3>1, <3>5 DEF FlagTypes, history
    <3>8. armed' + Cardinality(AtGate') <= MaxCaptures
      BY <1>2, <3>1, <3>3
    <3>9. QED
      BY <1>3, <2>2, <3>3, <3>6, <3>7, <3>8
  <2>5. CASE ~isOpen
    <3>1. /\ pc' = [pc EXCEPT ![c] = "free"] /\ outcome' = [outcome EXCEPT ![c] = "error"]
          /\ UNCHANGED <<capture, armed, num>>
      BY <1>9, <2>5 DEF Arm, Goto, Ends
    <3>2. AtGate' = AtGate \ {c}
      BY <1>1, <2>1, <3>1 DEF CallerTypes, AtGate
    <3>3. IsFiniteSet(AtGate') /\ Cardinality(AtGate') = Cardinality(AtGate) - 1
      BY <2>3, <3>2, GateShrinks
    <3>4. CallerTypes' /\ CollectTypes'
      BY <1>1, <2>1, <3>1 DEF CallerTypes, CollectTypes, Steps, Outcomes, capture
    <3>5. FlagTypes'
      BY <1>1, <2>1, <3>1 DEF FlagTypes, history, capture
    <3>6. QED
      BY <1>2, <1>3, <2>2, <3>1, <3>3, <3>4, <3>5
  <2>6. QED
    BY <2>4, <2>5
<1>10. ASSUME NEW c \in Callers, WriteCommand(c) PROVE TypeInv'
  <2>1. pc[c] = "write" /\ UNCHANGED <<isOpen, gate, capture, armed, num, got, typed, loose>>
    BY <1>10 DEF WriteCommand
  <2>2. CollectTypes'
    BY <1>1, <2>1 DEF CollectTypes, capture
  <2>3. c \notin AtGate
    BY <2>1 DEF AtGate
  <2>4. sentinel \in Captures
    BY <1>1, <1>2, <2>1 DEF GateInv, Armed, CollectTypes, Jobs, None
  <2>5. FlagTypes'
    <3>1. spoilt' \in {spoilt, spoilt \cup {sentinel}}
      BY <1>10 DEF WriteCommand
    <3>2. QED
      BY <1>1, <2>1, <2>4, <3>1 DEF FlagTypes, capture
  <2>6. CASE isOpen
    <3>1. TypeLine(sentinel) /\ pc' = [pc EXCEPT ![c] = "wait"] /\ outcome' = outcome
      BY <1>10, <2>6 DEF WriteCommand, Goto
    <3>2. BoardTypes'
      BY <1>1, <2>4, <3>1, LineTyped, LineOf
    <3>3. CallerTypes'
      BY <1>1, <2>1, <3>1 DEF CallerTypes, Steps
    <3>4. AtGate' = AtGate
      BY <1>5, <2>3, <3>1 DEF Steps
    <3>5. QED
      BY <1>4, <2>1, <2>2, <2>5, <3>2, <3>3, <3>4
  <2>7. CASE ~isOpen
    <3>1. /\ UNCHANGED board
          /\ pc' = [pc EXCEPT ![c] = "disarm"] /\ outcome' = [outcome EXCEPT ![c] = "error"]
      BY <1>10, <2>7 DEF WriteCommand, Goto, Ends
    <3>2. BoardTypes' /\ CallerTypes'
      BY <1>1, <2>1, <3>1 DEF BoardTypes, CallerTypes, Steps, Outcomes, board
    <3>3. AtGate' = AtGate
      BY <1>5, <2>3, <3>1 DEF Steps
    <3>4. QED
      BY <1>4, <2>1, <2>2, <2>5, <3>2, <3>3
  <2>8. QED
    BY <2>6, <2>7
<1>19. CASE TypeBeside
  <2>1. /\ typed < MaxTyped /\ typed' = typed + 1 /\ loose' = loose \cup {None}
        /\ TypeLine(None) \/ TypePart(None)
        /\ UNCHANGED <<isOpen, gate, capture, armed, pc, num, got, outcome, spoilt>>
    BY <1>19 DEF TypeBeside, TypePart
  <2>2. None \in Jobs
    BY LineOf
  <2>3. BoardTypes'
    BY <1>1, <2>1, <2>2, LineTyped, PartTyped
  <2>4. CollectTypes' /\ CallerTypes' /\ AtGate' = AtGate
    BY <1>1, <2>1 DEF CollectTypes, CallerTypes, AtGate, capture
  <2>5. FlagTypes'
    BY <1>1, <2>1, <2>2, CaptureAssumption DEF FlagTypes, capture
  <2>6. QED
    BY <1>4, <2>1, <2>3, <2>4, <2>5
<1>11. ASSUME NEW c \in Callers, WriteFails(c) \/ Wake(c) \/ CollectLines(c) PROVE TypeInv'
  <2>1. /\ c \notin AtGate /\ UNCHANGED <<isOpen, gate, capture, armed, num, typed, spoilt>>
        /\ \E step \in {"disarm", "collect"} : pc' = [pc EXCEPT ![c] = step]
    BY <1>11 DEF WriteFails, Wake, CollectLines, Goto, AtGate, history
  <2>2. CollectTypes'
    BY <1>1, <2>1 DEF CollectTypes, capture
  <2>3. AtGate' = AtGate
    BY <1>5, <2>1 DEF Steps
  <2>4. CallerTypes'
    <3>1. pc' \in [Callers -> Steps]
      BY <1>1, <2>1 DEF CallerTypes, Steps
    <3>2. got' = got \/ got' = [got EXCEPT ![c] = lines]
      BY <1>11 DEF WriteFails, Wake, CollectLines
    <3>3. got' \in [Callers -> Seq(Lines)]
      BY <1>1, <3>2 DEF CallerTypes, CollectTypes
    <3>4. outcome' = outcome \/ \E o \in {"error", "ok", "timeout"} : outcome' = [outcome EXCEPT ![c] = o]
      BY <1>11 DEF WriteFails, Wake, CollectLines, Ends
    <3>5. outcome' \in [Callers -> Outcomes]
      BY <1>1, <3>4 DEF CallerTypes, Outcomes
    <3>6. QED
      BY <1>1, <2>1, <3>1, <3>3, <3>5 DEF CallerTypes
  <2>5. sentinel \in Jobs
    BY <1>1 DEF CollectTypes
  <2>6. BoardTypes'
    <3>1. UNCHANGED board \/ TypePart(sentinel)
      BY <1>11 DEF WriteFails, Wake, CollectLines
    <3>2. QED
      BY <1>1, <2>5, <3>1, PartTyped DEF BoardTypes, board
  <2>7. FlagTypes'
    <3>1. loose' \in {loose, loose \cup {sentinel}}
      BY <1>11 DEF WriteFails, Wake, CollectLines, TypePart, history
    <3>2. QED
      BY <1>1, <2>1, <2>5, <3>1 DEF FlagTypes, capture
  <2>8. QED
    BY <1>4, <2>1, <2>2, <2>3, <2>4, <2>6, <2>7
<1>12. ASSUME NEW c \in Callers, Disarm(c) PROVE TypeInv'
  <2>1. /\ pc[c] = "disarm" /\ pc' = [pc EXCEPT ![c] = "free"]
        /\ active' = FALSE /\ sentinel' = None /\ lines' = <<>>
        /\ UNCHANGED <<isOpen, gate, done, armed, num, got, outcome, board, history>>
    BY <1>12 DEF Disarm, Goto, SentinelAfter
  <2>2. CollectTypes' /\ BoardTypes' /\ CallerTypes'
    <3>1. CollectTypes' /\ BoardTypes'
      BY <1>1, <2>1, LineOf DEF CollectTypes, BoardTypes, board
    <3>2. CallerTypes'
      BY <1>1, <2>1 DEF CallerTypes, Steps
    <3>3. QED
      BY <3>1, <3>2
  <2>3. FlagTypes'
    BY <1>1, <2>1 DEF FlagTypes, history
  <2>4. AtGate' = AtGate
    BY <1>5, <2>1 DEF AtGate, Steps
  <2>5. QED
    BY <1>4, <2>1, <2>2, <2>3, <2>4
<1>13. ASSUME NEW c \in Callers, FreeGate(c) PROVE TypeInv'
  <2>1. /\ pc[c] = "free" /\ pc' = [pc EXCEPT ![c] = "idle"] /\ gate' = Nobody
        /\ UNCHANGED <<isOpen, capture, armed, num, got, outcome, board, history>>
    BY <1>13 DEF FreeGate, Goto, GateAfter
  <2>2. CollectTypes' /\ BoardTypes' /\ CallerTypes'
    BY <1>1, <2>1 DEF CollectTypes, BoardTypes, CallerTypes, Steps, board, capture
  <2>3. FlagTypes'
    BY <1>1, <2>1 DEF FlagTypes, history, capture
  <2>4. AtGate' = AtGate
    BY <1>5, <2>1 DEF AtGate, Steps
  <2>5. QED
    BY <1>4, <2>1, <2>2, <2>3, <2>4
<1>14. CASE ReadLine
  <2>1. /\ console # <<>> /\ console' = Tail(console)
        /\ UNCHANGED <<isOpen, gate, active, sentinel, armed, pc, num, got, outcome, keyboard, half, at, history>>
    BY <1>14 DEF ReadLine
  <2>2. Head(console) \in Lines /\ Tail(console) \in Seq(Lines)
    BY <1>1, <2>1, HeadTailProperties DEF BoardTypes
  <2>3. lines' \in Seq(Lines)
    <3>1. lines' = lines \/ lines' = Append(lines, Head(console))
      BY <1>14 DEF ReadLine
    <3>2. Append(lines, Head(console)) \in Seq(Lines)
      BY <1>1, <2>2, AppendProperties DEF CollectTypes
    <3>3. QED
      BY <1>1, <3>1, <3>2 DEF CollectTypes
  <2>4. done' \in BOOLEAN
    BY <1>1, <1>14 DEF ReadLine, FlagTypes
  <2>5. CollectTypes' /\ BoardTypes' /\ CallerTypes' /\ AtGate' = AtGate
    BY <1>1, <2>1, <2>2, <2>3 DEF CollectTypes, BoardTypes, CallerTypes, AtGate
  <2>6. FlagTypes'
    BY <1>1, <2>1, <2>4 DEF FlagTypes, history
  <2>7. QED
    BY <1>4, <2>1, <2>5, <2>6
<1>15. CASE BoardPrints
  <2>1. UNCHANGED <<isOpen, gate, capture, armed, pc, num, got, outcome, history>>
    BY <1>15 DEF BoardPrints
  <2>2. CollectTypes' /\ CallerTypes' /\ AtGate' = AtGate
    BY <1>1, <2>1 DEF CollectTypes, CallerTypes, AtGate, capture
  <2>3. FlagTypes'
    BY <1>1, <2>1 DEF FlagTypes, history, capture
  <2>4. BoardTypes'
    BY <1>1, <1>15, PrintTyped
  <2>5. QED
    BY <1>4, <2>1, <2>2, <2>3, <2>4
<1>16. CASE ClosePort \/ OpenPort
  <2>1. /\ UNCHANGED <<gate, capture, armed, pc, num, got, outcome, keyboard, half, at, typed, loose>>
        /\ console' \in {<<>>, console}
    BY <1>16 DEF ClosePort, OpenPort, board, history
  <2>2. isOpen' \in BOOLEAN /\ spoilt' \subseteq Captures
    <3>1. CASE OpenPort
      BY <1>1, <3>1 DEF FlagTypes, OpenPort, history
    <3>2. CASE ClosePort
      <4>1. ASSUME NEW c \in Callers, pc[c] \in Collected PROVE num[c] \in Captures
        BY <1>1, <4>1 DEF GateInv, CallerTypes, Armed, Collected, Jobs, None
      <4>2. QED
        BY <1>1, <3>2, <4>1 DEF FlagTypes, ClosePort, Collected
    <3>3. QED
      BY <1>16, <3>1, <3>2
  <2>3. CollectTypes' /\ BoardTypes' /\ CallerTypes' /\ AtGate' = AtGate
    <3>1. <<>> \in Seq(Lines) /\ console \in Seq(Lines)
      BY <1>1 DEF BoardTypes
    <3>2. console' \in Seq(Lines)
      BY <2>1, <3>1
    <3>3. QED
      BY <1>1, <2>1, <3>2 DEF CollectTypes, BoardTypes, CallerTypes, AtGate, capture
  <2>4. FlagTypes'
    BY <1>1, <2>1, <2>2 DEF FlagTypes, capture
  <2>5. QED
    BY <1>4, <2>1, <2>3, <2>4
<1>17. CASE UNCHANGED vars
  <2>1. CollectTypes' /\ BoardTypes' /\ CallerTypes' /\ AtGate' = AtGate /\ armed' = armed
    BY <1>1, <1>17 DEF CollectTypes, BoardTypes, CallerTypes, AtGate, vars, capture, board
  <2>2. FlagTypes'
    BY <1>1, <1>17 DEF FlagTypes, vars, capture, history
  <2>3. QED
    BY <1>4, <2>1, <2>2
<1>18. QED
  BY <1>6, <1>7, <1>8, <1>9, <1>10, <1>11, <1>12, <1>13, <1>14, <1>15, <1>16, <1>17, <1>19 DEF Next, CallerStep

LEMMA StepGate == TypeInv /\ GateInv /\ NumInv /\ [Next]_vars => GateInv' /\ NumInv'
<1> SUFFICES ASSUME TypeInv, GateInv, NumInv, [Next]_vars PROVE GateInv' /\ NumInv'
  OBVIOUS
<1>1. /\ pc \in [Callers -> Steps] /\ num \in [Callers -> Jobs] /\ armed \in Nat
      /\ outcome \in [Callers -> Outcomes] /\ gate \in Callers \cup {Nobody} /\ Nobody \notin Callers
      /\ None = 0 /\ None \notin Captures /\ Captures \subseteq Nat /\ Jobs = {None} \cup Captures
  <2>1. /\ pc \in [Callers -> Steps] /\ num \in [Callers -> Jobs] /\ armed \in Nat
        /\ outcome \in [Callers -> Outcomes] /\ gate \in Callers \cup {Nobody} /\ Nobody \notin Callers
    BY CaptureAssumption DEF TypeInv, TypeOK
  <2>2. None = 0 /\ None \notin Captures /\ Captures \subseteq Nat /\ Jobs = {None} \cup Captures
    BY LineOf DEF None, Jobs
  <2>3. QED
    BY <2>1, <2>2
<1>2. active <=> sentinel # None
  BY DEF TypeInv, TypeOK
<1> USE DEF GateInv, NumInv, Holding, Armed, Collected
<1>3. CASE UNCHANGED <<gate, active, sentinel, armed, pc, num, outcome>> /\ (active \/ lines' = lines)
  BY <1>1, <1>3
<1>4. ASSUME NEW c \in Callers, Ask(c) PROVE GateInv' /\ NumInv'
  <2>1. /\ pc[c] = "idle" /\ num' = [num EXCEPT ![c] = None]
        /\ UNCHANGED <<gate, active, sentinel, lines, armed>>
        /\ \/ pc' = [pc EXCEPT ![c] = "gate"] /\ outcome' = [outcome EXCEPT ![c] = "none"]
           \/ pc' = pc /\ outcome' = [outcome EXCEPT ![c] = "error"]
    BY <1>4 DEF Ask, Goto, Ends, capture
  <2>2. GateInv'
    BY <1>1, <2>1
  <2>3. NumInv'
    BY <1>1, <2>1
  <2>4. QED
    BY <2>2, <2>3
<1>5. ASSUME NEW c \in Callers, EnterGate(c) PROVE GateInv' /\ NumInv'
  <2>1. /\ pc[c] = "gate" /\ gate = Nobody /\ gate' = c /\ pc' = [pc EXCEPT ![c] = "arm"]
        /\ UNCHANGED <<active, sentinel, lines, armed, num, outcome>>
    BY <1>5 DEF EnterGate, GateFree, Goto, capture
  <2>2. GateInv'
    BY <1>1, <1>2, <2>1
  <2>3. NumInv'
    BY <1>1, <2>1
  <2>4. QED
    BY <2>2, <2>3
<1>6. ASSUME NEW c \in Callers, GateTimesOut(c) PROVE GateInv' /\ NumInv'
  <2>1. /\ pc[c] = "gate" /\ pc' = [pc EXCEPT ![c] = "idle"] /\ outcome' = [outcome EXCEPT ![c] = "busy"]
        /\ UNCHANGED <<gate, active, sentinel, lines, armed, num>>
    BY <1>6 DEF GateTimesOut, Goto, Ends, capture
  <2>2. GateInv'
    BY <1>1, <2>1
  <2>3. NumInv'
    BY <1>1, <2>1
  <2>4. QED
    BY <2>2, <2>3
<1>7. ASSUME NEW c \in Callers, Arm(c) PROVE GateInv' /\ NumInv'
  <2>1. pc[c] = "arm" /\ gate' = gate /\ gate = c
    BY <1>7 DEF Arm
  <2>2. CASE isOpen
    <3>1. /\ armed' = armed + 1 /\ num' = [num EXCEPT ![c] = armed + 1] /\ active' = TRUE
          /\ sentinel' = armed + 1 /\ lines' = <<>>
          /\ pc' = [pc EXCEPT ![c] = "write"] /\ outcome' = outcome
      BY <1>7, <2>2 DEF Arm, Goto
    <3>2. \A d \in Callers : d # c => pc'[d] \notin Holding
      BY <1>1, <2>1, <3>1
    <3>3. GateInv'
      BY <1>1, <2>1, <3>1, <3>2
    <3>4. \A d \in Callers : num[d] # armed + 1
      BY <1>1
    <3>5. NumInv'
      <4>1. \A d \in Callers : num'[d] = IF d = c THEN armed + 1 ELSE num[d]
        BY <1>1, <3>1
      <4>2. \A d \in Callers : num'[d] <= armed'
        <5>1. ASSUME NEW d \in Callers PROVE num[d] \in Nat /\ num[d] <= armed
          <6>1. num[d] \in Jobs
            BY <1>1
          <6>2. num[d] \in Nat
            BY <6>1, LineOf DEF None
          <6>3. QED
            BY <6>2
        <5>2. QED
          BY <1>1, <3>1, <4>1, <5>1
      <4>3. \A d, b \in Callers : num'[d] = num'[b] /\ num'[d] # None => d = b
        BY <1>1, <3>4, <4>1
      <4>4. \A d \in Callers : pc'[d] = IF d = c THEN "write" ELSE pc[d]
        BY <1>1, <3>1
      <4>5. \A d \in Callers : pc'[d] \in {"gate", "arm"} => num'[d] = None
        BY <4>1, <4>4
      <4>6. \A d \in Callers : pc'[d] \in {"gate", "arm", "write"} \cup Collected => outcome'[d] = "none"
        BY <2>1, <3>1, <4>4
      <4>7. \A d \in Callers : outcome'[d] = "ok" => num'[d] # None
        BY <2>1, <3>1, <4>1
      <4>8. QED
        BY <4>2, <4>3, <4>5, <4>6, <4>7
    <3>6. QED
      BY <3>3, <3>5
  <2>3. CASE ~isOpen
    <3>1. /\ pc' = [pc EXCEPT ![c] = "free"] /\ outcome' = [outcome EXCEPT ![c] = "error"]
          /\ UNCHANGED <<active, sentinel, lines, armed, num>>
      BY <1>7, <2>3 DEF Arm, Goto, Ends, capture
    <3>2. GateInv'
      BY <1>1, <1>2, <2>1, <3>1
    <3>3. NumInv'
      BY <1>1, <2>1, <3>1
    <3>4. QED
      BY <3>2, <3>3
  <2>4. QED
    BY <2>2, <2>3
<1>8. ASSUME NEW c \in Callers, WriteCommand(c) \/ WriteFails(c) \/ Wake(c) \/ CollectLines(c)
      PROVE  GateInv' /\ NumInv'
  <2>1. /\ pc[c] \in Armed /\ gate' = gate /\ UNCHANGED <<active, sentinel, lines, armed, num>>
        /\ \E step \in Armed \ {"write"} : pc' = [pc EXCEPT ![c] = step]
    BY <1>8 DEF WriteCommand, WriteFails, Wake, CollectLines, Goto, capture
  <2>2. /\ outcome' = outcome \/ \E how \in Outcomes : outcome' = [outcome EXCEPT ![c] = how]
        /\ pc'[c] = "disarm" \/ (outcome' = outcome /\ pc[c] \in {"write", "wait"})
    <3>1. CASE WriteCommand(c) \/ WriteFails(c) \/ Wake(c)
      BY <1>1, <3>1 DEF WriteCommand, WriteFails, Wake, Goto, Ends, Outcomes
    <3>2. CASE CollectLines(c)
      <4>1. /\ pc' = [pc EXCEPT ![c] = "disarm"]
            /\ outcome' = [outcome EXCEPT ![c] = IF Finished(sentinel) THEN "ok" ELSE "timeout"]
        BY <3>2 DEF CollectLines, Goto, Ends
      <4>2. PICK how \in {"ok", "timeout"} : outcome' = [outcome EXCEPT ![c] = how]
        BY <4>1
      <4>3. how \in Outcomes
        BY DEF Outcomes
      <4>4. pc'[c] = "disarm"
        BY <1>1, <4>1
      <4>5. QED
        BY <4>2, <4>3, <4>4
    <3>3. QED
      BY <1>8, <3>1, <3>2
  <2>3. GateInv'
    BY <1>1, <2>1
  <2>4. NumInv'
    BY <1>1, <2>1, <2>2
  <2>5. QED
    BY <2>3, <2>4
<1>9. ASSUME NEW c \in Callers, Disarm(c) PROVE GateInv' /\ NumInv'
  <2>1. /\ pc[c] = "disarm" /\ pc' = [pc EXCEPT ![c] = "free"] /\ gate = c
        /\ active' = FALSE /\ lines' = <<>>
        /\ UNCHANGED <<gate, armed, num, outcome>>
    BY <1>9 DEF Disarm, Goto
  <2>2. GateInv'
    BY <1>1, <2>1
  <2>3. NumInv'
    BY <1>1, <2>1
  <2>4. QED
    BY <2>2, <2>3
<1>10. ASSUME NEW c \in Callers, FreeGate(c) PROVE GateInv' /\ NumInv'
  <2>1. /\ pc[c] = "free" /\ pc' = [pc EXCEPT ![c] = "idle"] /\ gate = c /\ gate' = Nobody
        /\ UNCHANGED <<active, sentinel, lines, armed, num, outcome>>
    BY <1>10 DEF FreeGate, Goto, GateAfter, capture
  <2>2. GateInv'
    BY <1>1, <2>1
  <2>3. NumInv'
    BY <1>1, <2>1
  <2>4. QED
    BY <2>2, <2>3
<1>11. CASE TypeBeside \/ ReadLine \/ BoardPrints \/ ClosePort \/ OpenPort \/ UNCHANGED vars
  BY <1>3, <1>11 DEF TypeBeside, ReadLine, BoardPrints, ClosePort, OpenPort, vars, capture
<1>12. QED
  BY <1>4, <1>5, <1>6, <1>7, <1>8, <1>9, <1>10, <1>11 DEF Next, CallerStep

LEMMA InitGate == Init => GateInv /\ NumInv
<1> SUFFICES ASSUME Init PROVE GateInv /\ NumInv
  OBVIOUS
<1>1. NumInv
  BY DEF Init, NumInv, Collected, None
<1>2. \A c \in Callers : pc[c] = "idle" /\ c # gate
  BY CaptureAssumption DEF Init
<1>3. ~active /\ lines = <<>>
  BY DEF Init
<1>4. QED
  BY <1>1, <1>2, <1>3 DEF GateInv, Holding, Armed

(* Every variable keeps to its type.                                       *)
THEOREM CaptureTyped == Spec => []TypeOK
<1>1. TypeInv => TypeOK
  BY DEF TypeInv
<1>2. Init => TypeInv /\ GateInv /\ NumInv
  BY InitTyped, InitGate
<1>3. TypeInv /\ GateInv /\ NumInv /\ [Next]_vars => (TypeInv /\ GateInv /\ NumInv)'
  BY StepTyped, StepGate
<1>4. QED
  BY <1>1, <1>2, <1>3, PTL DEF Spec

(* Lines are collected for the caller that has the gate, from the moment   *)
(* it arms to the moment it disarms, however its capture ends              *)
(* (capture_command(), _dispatch_lines()).                                 *)
THEOREM HolderCollects == Spec => []CollectsForHolder
<1>1. TypeInv /\ GateInv => CollectsForHolder
  <2> SUFFICES ASSUME TypeInv, GateInv PROVE CollectsForHolder
    OBVIOUS
  <2>1. active <=> sentinel # None
    BY DEF TypeInv, TypeOK
  <2>2. CASE active
    <3>1. gate \in Callers /\ pc[gate] \in Armed
      BY <2>2 DEF GateInv, TypeInv, TypeOK
    <3>2. QED
      BY <2>2, <3>1 DEF GateInv, CollectsForHolder
  <2>3. CASE ~active
    BY <2>1, <2>3 DEF GateInv, CollectsForHolder
  <2>4. QED
    BY <2>2, <2>3
<1>2. Init => TypeInv /\ GateInv /\ NumInv
  BY InitTyped, InitGate
<1>3. TypeInv /\ GateInv /\ NumInv /\ [Next]_vars => (TypeInv /\ GateInv /\ NumInv)'
  BY StepTyped, StepGate
<1>4. QED
  BY <1>1, <1>2, <1>3, PTL DEF Spec

-----------------------------------------------------------------------------
(* Sequences of lines.                                                      *)

LEMMA ElementsAppend ==
  ASSUME NEW S, NEW seq \in Seq(S), NEW e \in S
  PROVE  Elements(Append(seq, e)) = Elements(seq) \cup {e}
  BY AppendProperties DEF Elements

LEMMA ElementsOf ==
  ASSUME NEW S, NEW seq \in Seq(S)
  PROVE  Elements(seq) \subseteq S /\ (seq # <<>> => Head(seq) \in Elements(seq))
<1>1. seq # <<>> => 1 \in 1..Len(seq) /\ Head(seq) = seq[1]
  BY EmptySeq
<1>2. QED
  BY <1>1 DEF Elements

LEMMA ElementsNone == Elements(<<>>) = {}
  BY DEF Elements

LEMMA ElementsTail ==
  ASSUME NEW S, NEW seq \in Seq(S), seq # <<>>
  PROVE  Elements(seq) = {Head(seq)} \cup Elements(Tail(seq))
<1>1. /\ Len(seq) \in Nat \ {0} /\ Len(Tail(seq)) = Len(seq) - 1
      /\ \A i \in 1..Len(Tail(seq)) : Tail(seq)[i] = seq[i + 1]
  BY HeadTailProperties, EmptySeq
<1>2. Head(seq) = seq[1]
  OBVIOUS
<1>3. ASSUME NEW i \in 1..Len(seq) PROVE seq[i] \in {Head(seq)} \cup Elements(Tail(seq))
  <2>1. CASE i = 1
    BY <1>2, <2>1
  <2>2. CASE i # 1
    <3>1. i - 1 \in 1..Len(Tail(seq)) /\ Tail(seq)[i - 1] = seq[i]
      BY <1>1, <2>2
    <3>2. QED
      BY <3>1 DEF Elements
  <2>3. QED
    BY <2>1, <2>2
<1>4. ASSUME NEW i \in 1..Len(Tail(seq)) PROVE Tail(seq)[i] \in Elements(seq)
  BY <1>1 DEF Elements
<1>5. Head(seq) \in Elements(seq)
  BY <1>1, <1>2 DEF Elements
<1>6. Elements(seq) \subseteq {Head(seq)} \cup Elements(Tail(seq))
  BY <1>3 DEF Elements
<1>7. Elements(Tail(seq)) \subseteq Elements(seq)
  BY <1>4 DEF Elements
<1>8. QED
  BY <1>5, <1>6, <1>7

(* The order of one job's lines in a sequence.                             *)
LEMMA OwnAppend ==
  ASSUME NEW seq \in Seq(Lines), NEW e \in Lines, NEW n, OwnSorted(seq, n),
         \A f \in Elements(seq) : f[1] = n /\ e[1] = n => f[2] < e[2]
  PROVE  OwnSorted(Append(seq, e), n)
<1> DEFINE c == Append(seq, e)
<1>1. /\ Len(c) = Len(seq) + 1 /\ Len(seq) \in Nat /\ c[Len(c)] = e
      /\ \A i \in 1..Len(seq) : c[i] = seq[i]
  BY AppendProperties
<1> HIDE DEF c
<1>2. ASSUME NEW i \in 1..Len(c), NEW j \in 1..Len(c), i < j, c[i][1] = n, c[j][1] = n
      PROVE  c[i][2] < c[j][2]
  <2>1. i \in 1..Len(seq) /\ c[i] = seq[i] /\ seq[i] \in Elements(seq)
    BY <1>1, <1>2 DEF Elements
  <2>2. CASE j = Len(c)
    BY <1>1, <1>2, <2>1, <2>2
  <2>3. CASE j # Len(c)
    <3>1. j \in 1..Len(seq) /\ c[j] = seq[j]
      BY <1>1, <2>3
    <3>2. QED
      BY <1>2, <2>1, <3>1 DEF OwnSorted
  <2>4. QED
    BY <2>2, <2>3
<1>3. QED
  BY <1>2 DEF OwnSorted, c

LEMMA OwnTail ==
  ASSUME NEW seq \in Seq(Lines), seq # <<>>, NEW n, OwnSorted(seq, n)
  PROVE  /\ OwnSorted(Tail(seq), n)
         /\ \A e \in Elements(Tail(seq)) : Head(seq)[1] = n /\ e[1] = n => Head(seq)[2] < e[2]
<1>1. /\ Len(seq) \in Nat \ {0} /\ Len(Tail(seq)) = Len(seq) - 1
      /\ \A i \in 1..Len(Tail(seq)) : Tail(seq)[i] = seq[i + 1]
  BY HeadTailProperties, EmptySeq
<1>2. Head(seq) = seq[1] /\ 1 \in 1..Len(seq)
  BY <1>1
<1>3. \A i \in 1..Len(Tail(seq)) : i + 1 \in 1..Len(seq) /\ Tail(seq)[i] = seq[i + 1] /\ 1 < i + 1
  BY <1>1
<1>4. OwnSorted(Tail(seq), n)
  <2>1. ASSUME NEW i \in 1..Len(Tail(seq)), NEW j \in 1..Len(Tail(seq)), i < j,
               Tail(seq)[i][1] = n, Tail(seq)[j][1] = n
        PROVE  Tail(seq)[i][2] < Tail(seq)[j][2]
    <3>1. i + 1 < j + 1
      BY <2>1
    <3>2. QED
      BY <1>3, <2>1, <3>1 DEF OwnSorted
  <2>2. QED
    BY <2>1 DEF OwnSorted
<1>5. ASSUME NEW i \in 1..Len(Tail(seq)), seq[1][1] = n, Tail(seq)[i][1] = n
      PROVE  seq[1][2] < Tail(seq)[i][2]
  BY <1>2, <1>3, <1>5 DEF OwnSorted
<1>6. QED
  BY <1>2, <1>4, <1>5 DEF Elements

LEMMA OwnNone == \A n : OwnSorted(<<>>, n)
  BY DEF OwnSorted

-----------------------------------------------------------------------------
(* What the program and the board do to the lines of one job.               *)

LEMMA KeysAppend ==
  ASSUME NEW keys \in Seq(Entries), NEW entry \in Entries
  PROVE  /\ Append(keys, entry) \in Seq(Entries) /\ Append(keys, entry) # <<>>
         /\ Len(keys) \in Nat /\ Len(Append(keys, entry)) = Len(keys) + 1
         /\ \A i \in 1..Len(keys) : i \in 1..(Len(keys) + 1) /\ Append(keys, entry)[i] = keys[i]
         /\ Append(keys, entry)[Len(keys) + 1] = entry
         /\ \A i \in 1..(Len(keys) + 1) : i \in 1..Len(keys) \/ i = Len(keys) + 1
<1>1. /\ Append(keys, entry) \in Seq(Entries) /\ Len(Append(keys, entry)) = Len(keys) + 1
      /\ \A i \in 1..Len(keys) : Append(keys, entry)[i] = keys[i]
      /\ Append(keys, entry)[Len(keys) + 1] = entry
  BY AppendProperties
<1>2. Len(keys) \in Nat
  OBVIOUS
<1>3. Len(<<>>) = 0
  OBVIOUS
<1>4. Append(keys, entry) # <<>>
  BY <1>1, <1>2, <1>3
<1>5. QED
  BY <1>1, <1>2, <1>4

(* Somebody else types a line.                                             *)
LEMMA OwnBeside ==
  ASSUME NEW l, NEW co, NEW keys \in Seq(Entries), NEW a, keys = <<>> => a = 1, NEW n,
         NEW entry \in Entries, entry.own # n, n \notin entry.others, OwnStream(l, co, keys, a, n)
  PROVE  /\ OwnStream(l, co, Append(keys, entry), a, n)
         /\ Whole(l, co, keys, a, n) => Whole(l, co, Append(keys, entry), a, n)
<1> DEFINE more == Append(keys, entry)
           len == Len(keys)
<1>1. /\ len \in Nat /\ Len(more) = len + 1 /\ more[len + 1] = entry
      /\ \A i \in 1..len : i \in 1..(len + 1) /\ more[i] = keys[i]
      /\ \A i \in 1..(len + 1) : i \in 1..len \/ i = len + 1
  BY KeysAppend
<1> HIDE DEF more, len
<1>2. \A i \in 1..(len + 1) : more[i].own = n => i \in 1..len /\ keys[i].own = n
  BY <1>1
<1>3. \A k \in 1..End : Due(more, a, n, k) <=> Due(keys, a, n, k)
  BY <1>1, <1>2 DEF Due, len
<1>4. \A i, j \in 1..(len + 1) : more[i].own = n /\ more[j].own = n => i = j
  BY <1>2 DEF OwnStream, Once, len
<1>5. \A i \in 1..(len + 1) : n \notin more[i].others
  BY <1>1 DEF OwnStream, len
<1>6. OwnStream(l, co, more, a, n)
  BY <1>1, <1>3, <1>4, <1>5 DEF OwnStream, Once
<1>7. ASSUME Whole(l, co, keys, a, n) PROVE Whole(l, co, more, a, n)
  <2>1. \A i \in 1..(len + 1) : more[i].own = n => more[i].others = {}
    BY <1>1, <1>2, <1>7 DEF Whole, len
  <2>2. QED
    BY <1>1, <1>3, <1>7, <2>1 DEF Whole
<1>8. QED
  BY <1>6, <1>7 DEF more

(* A job that nothing is there of yet types its line.                      *)
LEMMA OwnTyped ==
  ASSUME NEW l, NEW co, NEW keys \in Seq(Entries), NEW a \in 1..End, keys = <<>> => a = 1, NEW n \in Captures,
         NEW h \in SUBSET Jobs, n \notin h,
         \A e \in Elements(l) \cup Elements(co) : e[1] # n,
         \A i \in 1..Len(keys) : keys[i].own # n /\ n \notin keys[i].others
  PROVE  /\ OwnStream(l, co, Append(keys, [own |-> n, others |-> h]), a, n)
         /\ h = {} => Whole(l, co, Append(keys, [own |-> n, others |-> h]), a, n)
<1> DEFINE entry == [own |-> n, others |-> h]
           more == Append(keys, entry)
           len == Len(keys)
<1>1. entry \in Entries /\ entry.own = n /\ entry.others = h
  BY LineOf DEF Entries
<1> HIDE DEF entry
<1>2. /\ len \in Nat /\ Len(more) = len + 1 /\ more[len + 1] = entry
      /\ \A i \in 1..len : i \in 1..(len + 1) /\ more[i] = keys[i]
      /\ \A i \in 1..(len + 1) : i \in 1..len \/ i = len + 1
  BY <1>1, KeysAppend
<1> HIDE DEF more
<1>3. \A i \in 1..(len + 1) : more[i].own = n => i = len + 1
  BY <1>2
<1>4. \A i \in 1..(len + 1) : n \notin more[i].others
  BY <1>1, <1>2
<1>5. ASSUME NEW seq, \A e \in Elements(seq) : e[1] # n PROVE OwnSorted(seq, n)
  BY <1>5 DEF OwnSorted, Elements
<1>6. OwnStream(l, co, more, a, n)
  BY <1>2, <1>3, <1>4, <1>5 DEF OwnStream, Once
<1>7. ASSUME h = {} PROVE Whole(l, co, more, a, n)
  <2>1. \A i \in 1..(len + 1) : more[i].own = n => more[i].others = {}
    BY <1>1, <1>2, <1>3, <1>7
  <2>2. len + 1 \in 1..(len + 1)
    BY <1>2
  <2>3. len + 1 = 1 => a = 1
    <3>1. ASSUME len + 1 = 1 PROVE keys = <<>>
      BY <1>2, <3>1, EmptySeq
    <3>2. QED
      BY <3>1
  <2>4. \A k \in 1..End : len + 1 = 1 => k >= a
    BY <2>3, LineOf
  <2>5. \A k \in 1..End : Due(more, a, n, k)
    BY <1>1, <1>2, <2>2, <2>4 DEF Due
  <2>6. QED
    BY <1>2, <2>1, <2>5 DEF Whole
<1>8. QED
  BY <1>6, <1>7 DEF more, entry

(* What is still to be printed, when a line has been.                      *)
LEMMA DuePrinted ==
  ASSUME NEW keys \in Seq(Entries), keys # <<>>, NEW a \in 1..End, NEW keys2, NEW a2,
         Printed(keys, a, keys2, a2), NEW n,
         Once(keys, n)
  PROVE  /\ \A i \in 1..Len(keys2) : \E j \in 1..Len(keys) : keys2[i] = keys[j]
         /\ Once(keys2, n)
         /\ \E j \in 1..Len(keys) : Head(keys) = keys[j]
         /\ Head(keys).own = n => Due(keys, a, n, a)
         /\ \A k \in 1..End : Due(keys2, a2, n, k) =>
              Due(keys, a, n, k) /\ (Head(keys).own = n => a < k)
         /\ \A k \in 1..End : Due(keys, a, n, k) =>
              Due(keys2, a2, n, k) \/ (Head(keys).own = n /\ k = a)
<1> DEFINE h == Head(keys)
           len == Len(keys)
<1>1. /\ len \in Nat \ {0} /\ Len(Tail(keys)) = len - 1 /\ 1 \in 1..len /\ h = keys[1]
      /\ \A i \in 1..Len(Tail(keys)) : Tail(keys)[i] = keys[i + 1]
      /\ a \in Nat /\ End \in Nat \ {0}
  BY HeadTailProperties, EmptySeq, LineOf
<1> HIDE DEF h
<1>2. h.own = n => Due(keys, a, n, a)
  BY <1>1 DEF Due
<1>3. \A i \in 1..len : h.own = n /\ keys[i].own = n => i = 1
  BY <1>1 DEF Once
<1>4. CASE a = End
  <2>1. a2 = 1 /\ keys2 = Tail(keys)
    BY <1>4 DEF Printed
  <2>2. Len(keys2) = len - 1 /\ \A i \in 1..Len(keys2) : i + 1 \in 1..len /\ keys2[i] = keys[i + 1]
    <3>1. Len(keys2) = len - 1 /\ \A i \in 1..Len(keys2) : keys2[i] = keys[i + 1]
      BY <1>1, <2>1
    <3>2. \A i \in 1..Len(keys2) : i + 1 \in 1..len
      BY <1>1, <3>1
    <3>3. QED
      BY <3>1, <3>2
  <2>3. \A i \in 1..Len(keys2) : i + 1 # 1
    BY <1>1
  <2>4. ASSUME NEW i \in 1..Len(keys2), NEW j \in 1..Len(keys2), keys2[i].own = n, keys2[j].own = n
        PROVE  i = j
    <3>1. i + 1 = j + 1
      BY <2>2, <2>4 DEF Once
    <3>2. QED
      BY <3>1
  <2>5. ASSUME NEW k \in 1..End, Due(keys2, a2, n, k)
        PROVE  Due(keys, a, n, k) /\ h.own # n
    <3>1. PICK i \in 1..Len(keys2) : keys2[i].own = n
      BY <2>5 DEF Due
    <3>2. i + 1 \in 1..len /\ keys[i + 1].own = n /\ i + 1 # 1
      BY <2>2, <2>3, <3>1
    <3>3. QED
      BY <1>3, <3>2 DEF Due
  <2>6. ASSUME NEW k \in 1..End, Due(keys, a, n, k)
        PROVE  Due(keys2, a2, n, k) \/ (h.own = n /\ k = a)
    <3>1. PICK i \in 1..len : keys[i].own = n /\ (i = 1 => k >= a)
      BY <2>6 DEF Due
    <3>2. CASE i = 1
      BY <1>1, <1>4, <3>1, <3>2
    <3>3. CASE i # 1
      <4>1. i - 1 \in 1..Len(keys2) /\ (i - 1) + 1 = i
        BY <1>1, <2>2, <3>3
      <4>2. keys2[i - 1].own = n
        BY <2>2, <3>1, <4>1
      <4>3. k >= a2
        BY <2>1
      <4>4. QED
        BY <4>1, <4>2, <4>3 DEF Due
    <3>4. QED
      BY <3>2, <3>3
  <2>7. Once(keys2, n)
    BY <2>4 DEF Once
  <2>8. QED
    BY <1>1, <1>2, <2>2, <2>5, <2>6, <2>7 DEF h
<1>5. CASE a # End
  <2>1. a2 = a + 1 /\ keys2 = keys
    BY <1>5 DEF Printed
  <2>2. ASSUME NEW k \in 1..End, Due(keys2, a2, n, k)
        PROVE  Due(keys, a, n, k) /\ (h.own = n => a < k)
    <3>1. PICK i \in 1..len : keys[i].own = n /\ (i = 1 => k >= a + 1)
      BY <2>1, <2>2 DEF Due
    <3>2. i = 1 => k >= a /\ a < k
      BY <1>1, <3>1
    <3>3. QED
      BY <1>3, <3>1, <3>2 DEF Due
  <2>3. ASSUME NEW k \in 1..End, Due(keys, a, n, k)
        PROVE  Due(keys2, a2, n, k) \/ (h.own = n /\ k = a)
    <3>1. PICK i \in 1..len : keys[i].own = n /\ (i = 1 => k >= a)
      BY <2>3 DEF Due
    <3>2. CASE i = 1 /\ k = a
      BY <1>1, <3>1, <3>2
    <3>3. CASE ~(i = 1 /\ k = a)
      <4>1. i = 1 => k >= a + 1
        BY <1>1, <3>1, <3>3
      <4>2. QED
        BY <2>1, <3>1, <4>1 DEF Due
    <3>4. QED
      BY <3>2, <3>3
  <2>4. QED
    BY <1>1, <1>2, <2>1, <2>2, <2>3 DEF h
<1>6. QED
  BY <1>4, <1>5

(* The board prints a line, which reaches the port or is lost.             *)
LEMMA OwnPrinted ==
  ASSUME NEW l \in Seq(Lines), NEW co \in Seq(Lines), NEW keys \in Seq(Entries), keys # <<>>,
         NEW a \in 1..End, NEW keys2, NEW a2, Printed(keys, a, keys2, a2),
         NEW n \in Captures, OwnStream(l, co, keys, a, n),
         NEW line \in Prints(Head(keys), a)
  PROVE  /\ OwnStream(l, co, keys2, a2, n)
         /\ OwnStream(l, co \o line, keys2, a2, n)
         /\ Whole(l, co, keys, a, n) => Whole(l, co \o line, keys2, a2, n)
<1> DEFINE h == Head(keys)
<1>1. h \in Entries /\ \E j \in 1..Len(keys) : h = keys[j]
  BY PrintedTyped, DuePrinted DEF OwnStream
<1>2. n \notin h.others
  BY <1>1 DEF OwnStream
<1>3. /\ \A i \in 1..Len(keys2) : \E j \in 1..Len(keys) : keys2[i] = keys[j]
      /\ Once(keys2, n)
      /\ h.own = n => Due(keys, a, n, a)
      /\ \A k \in 1..End : Due(keys2, a2, n, k) => Due(keys, a, n, k) /\ (h.own = n => a < k)
      /\ \A k \in 1..End : Due(keys, a, n, k) => Due(keys2, a2, n, k) \/ (h.own = n /\ k = a)
  <2>1. Once(keys, n)
    BY DEF OwnStream
  <2>2. \A i \in 1..Len(keys2) : \E j \in 1..Len(keys) : keys2[i] = keys[j]
    BY ONLY <2>1, DuePrinted, keys \in Seq(Entries), keys # <<>>, a \in 1..End, Printed(keys, a, keys2, a2)
  <2>3. Once(keys2, n)
    BY ONLY <2>1, DuePrinted, keys \in Seq(Entries), keys # <<>>, a \in 1..End, Printed(keys, a, keys2, a2)
  <2>4. h.own = n => Due(keys, a, n, a)
    BY ONLY <2>1, DuePrinted, keys \in Seq(Entries), keys # <<>>, a \in 1..End, Printed(keys, a, keys2, a2)
  <2>5. \A k \in 1..End : Due(keys2, a2, n, k) => Due(keys, a, n, k) /\ (h.own = n => a < k)
    BY ONLY <2>1, DuePrinted, keys \in Seq(Entries), keys # <<>>, a \in 1..End, Printed(keys, a, keys2, a2)
  <2>6. \A k \in 1..End : Due(keys, a, n, k) => Due(keys2, a2, n, k) \/ (h.own = n /\ k = a)
    BY ONLY <2>1, DuePrinted, keys \in Seq(Entries), keys # <<>>, a \in 1..End, Printed(keys, a, keys2, a2)
  <2>7. QED
    BY <2>2, <2>3, <2>4, <2>5, <2>6
<1>4. OwnStream(l, co, keys2, a2, n)
  BY <1>3 DEF OwnStream
<1>5. /\ line = <<>> \/ \E m \in {h.own} \cup h.others : line = <<<<m, a>>>>
      /\ h.others = {} /\ h.own # None => line = <<<<h.own, a>>>>
  BY <1>1, PrintsAre
<1>6. n # None /\ a # Echo /\ a \in Nat /\ a \in Echo..End
  BY LineOf DEF Echo
<1> HIDE DEF h
<1>7. CASE line = <<>>
  <2>1. co \o line = co
    BY <1>7, ConcatEmptySeq
  <2>2. Whole(l, co, keys, a, n) => h.own # n
    <3>1. Whole(l, co, keys, a, n) /\ h.own = n => h.others = {}
      BY <1>1 DEF Whole
    <3>2. <<<<n, a>>>> # <<>>
      OBVIOUS
    <3>3. QED
      BY <1>5, <1>6, <1>7, <3>1, <3>2
  <2>3. Whole(l, co, keys, a, n) => Whole(l, co, keys2, a2, n)
    BY <1>3, <2>2 DEF Whole
  <2>4. QED
    BY <1>4, <2>1, <2>3
<1>8. CASE line # <<>>
  <2>1. PICK m \in {h.own} \cup h.others : line = <<<<m, a>>>>
    BY <1>5, <1>8
  <2> DEFINE e == <<m, a>>
             more == co \o line
  <2>2. e \in Lines /\ e[1] = m /\ e[2] = a
    <3>1. m \in Jobs
      BY <1>1, <2>1 DEF Entries
    <3>2. QED
      BY <1>6, <3>1, LineOf
  <2>3. more = Append(co, e)
    BY <2>1, <2>2, AppendIsConcat
  <2>4. Elements(more) = Elements(co) \cup {e}
    BY <2>2, <2>3, ElementsAppend
  <2>5. m = n => h.own = n
    BY <1>2, <2>1
  <2>6. \A f \in Elements(l) \cup Elements(co) : f[1] = n /\ m = n => f[2] < a
    BY <1>3, <2>5 DEF OwnStream
  <2> HIDE DEF e
  <2>7. OwnSorted(Append(co, e), n)
    BY <2>2, <2>6, OwnAppend DEF OwnStream
  <2>8. OwnSorted(more, n)
    BY <2>3, <2>7
  <2> HIDE DEF more
  <2>9. \A f \in Elements(l), g \in Elements(more) : f[1] = n /\ g[1] = n => f[2] < g[2]
    BY <2>2, <2>4, <2>6 DEF OwnStream
  <2>10. ASSUME NEW f \in Elements(l) \cup Elements(more), f[1] = n
         PROVE  f[2] # Echo /\ \A k \in 1..End : Due(keys2, a2, n, k) => f[2] < k
    <3>1. CASE f \in Elements(l) \cup Elements(co)
      BY <1>4, <2>10, <3>1 DEF OwnStream
    <3>2. CASE f = e
      BY <1>3, <1>6, <2>2, <2>5, <2>10, <3>2
    <3>3. QED
      BY <2>4, <3>1, <3>2
  <2>11. OwnStream(l, more, keys2, a2, n)
    BY <1>4, <2>8, <2>9, <2>10 DEF OwnStream
  <2>12. ASSUME Whole(l, co, keys, a, n) PROVE Whole(l, more, keys2, a2, n)
    <3>1. \A i \in 1..Len(keys2) : keys2[i].own = n => keys2[i].others = {}
      BY <1>3, <2>12 DEF Whole
    <3>2. h.own = n => e = <<n, a>>
      <4>1. h.own = n => h.others = {}
        BY <1>1, <2>12 DEF Whole
      <4>2. h.own = n => line = <<<<n, a>>>>
        BY <1>5, <1>6, <4>1
      <4>3. h.own = n => m = n
        BY <2>1, <4>1
      <4>4. QED
        BY <4>3 DEF e
    <3>3. ASSUME NEW k \in 1..End
          PROVE  <<n, k>> \in Elements(l) \cup Elements(more) \/ Due(keys2, a2, n, k)
      <4>1. <<n, k>> \in Elements(l) \cup Elements(co) \/ Due(keys, a, n, k)
        BY <2>12 DEF Whole
      <4>2. QED
        BY <1>3, <2>4, <3>2, <4>1
    <3>4. QED
      BY <3>1, <3>3 DEF Whole
  <2>13. QED
    BY <1>4, <2>11, <2>12 DEF more
<1>9. QED
  BY <1>7, <1>8

(* The reader takes a line that a capture is armed for.                    *)
LEMMA OwnRead ==
  ASSUME NEW l \in Seq(Lines), NEW co \in Seq(Lines), co # <<>>, NEW keys, NEW a,
         NEW n, OwnStream(l, co, keys, a, n)
  PROVE  /\ OwnStream(Append(l, Head(co)), Tail(co), keys, a, n)
         /\ Whole(l, co, keys, a, n) => Whole(Append(l, Head(co)), Tail(co), keys, a, n)
<1> DEFINE e == Head(co)
           rest == Tail(co)
           more == Append(l, e)
<1>1. e \in Lines /\ rest \in Seq(Lines) /\ e \in Elements(co)
  BY HeadTailProperties, ElementsOf
<1>2. Elements(more) = Elements(l) \cup {e} /\ Elements(co) = {e} \cup Elements(rest)
  BY <1>1, ElementsAppend, ElementsTail
<1>3. OwnSorted(rest, n) /\ \A f \in Elements(rest) : e[1] = n /\ f[1] = n => e[2] < f[2]
  BY OwnTail DEF OwnStream
<1>4. OwnSorted(more, n)
  BY <1>1, OwnAppend DEF OwnStream
<1> HIDE DEF e, rest, more
<1>5. \A f \in Elements(more), g \in Elements(rest) : f[1] = n /\ g[1] = n => f[2] < g[2]
  BY <1>2, <1>3 DEF OwnStream
<1>6. Elements(more) \cup Elements(rest) = Elements(l) \cup Elements(co)
  BY <1>2
<1>7. OwnStream(more, rest, keys, a, n)
  BY <1>3, <1>4, <1>5, <1>6 DEF OwnStream
<1>8. Whole(l, co, keys, a, n) => Whole(more, rest, keys, a, n)
  BY <1>6 DEF Whole
<1>9. QED
  BY <1>7, <1>8 DEF e, rest, more

(* The port is closed: what was on its way is gone.                        *)
LEMMA OwnLost ==
  ASSUME NEW l, NEW co, NEW keys, NEW a, NEW n, OwnStream(l, co, keys, a, n)
  PROVE  OwnStream(l, <<>>, keys, a, n)
  BY OwnNone, ElementsNone DEF OwnStream

(* When the sentinel is there, so is all that the job printed.             *)
LEMMA OwnOver ==
  ASSUME NEW l \in Seq(Lines), NEW co \in Seq(Lines), NEW keys \in Seq(Entries), NEW a \in 1..End,
         NEW n \in Captures, OwnStream(l, co, keys, a, n), <<n, End>> \in Elements(l)
  PROVE  /\ \A e \in Elements(co) : e[1] # n
         /\ \A i \in 1..Len(keys) : keys[i].own # n
         /\ Whole(l, co, keys, a, n) => \A k \in 1..End : <<n, k>> \in Elements(l)
<1>1. End \in Nat \ {0} /\ End \in 1..End /\ a \in Nat /\ a <= End
  BY LineOf
<1>2. ASSUME NEW e \in Elements(co), e[1] = n PROVE FALSE
  <2>1. End < e[2]
    BY <1>2 DEF OwnStream
  <2>2. e \in Lines
    BY ElementsOf
  <2>3. e[2] \in Nat /\ e[2] <= End
    BY <1>1, <2>2, LineOf DEF Echo
  <2>4. QED
    BY <1>1, <2>1, <2>3
<1>3. ASSUME NEW k \in 1..End, Due(keys, a, n, k) PROVE FALSE
  <2>1. <<n, End>>[1] = n /\ <<n, End>>[2] = End
    OBVIOUS
  <2>2. \A e \in Elements(l) : e[1] = n => e[2] < k
    BY <1>3 DEF OwnStream
  <2>3. End < k /\ k <= End /\ k \in Nat
    BY <1>1, <2>1, <2>2
  <2>4. QED
    BY <1>1, <2>3
<1>4. ASSUME NEW i \in 1..Len(keys), keys[i].own = n PROVE FALSE
  <2>1. Due(keys, a, n, End)
    BY <1>1, <1>4 DEF Due
  <2>2. QED
    BY <1>1, <1>3, <2>1
<1>5. ASSUME Whole(l, co, keys, a, n), NEW k \in 1..End PROVE <<n, k>> \in Elements(l)
  <2>1. <<n, k>> \in Elements(l) \cup Elements(co)
    BY <1>3, <1>5 DEF Whole
  <2>2. <<n, k>>[1] = n
    OBVIOUS
  <2>3. QED
    BY <1>2, <2>1, <2>2
<1>6. QED
  BY <1>2, <1>4, <1>5

-----------------------------------------------------------------------------
(* The invariants through a step of the program.                            *)

(* The types and the lock, as the steps below use them.                    *)
LEMMA CaptureFacts ==
  ASSUME TypeInv, GateInv, NumInv
  PROVE  /\ lines \in Seq(Lines) /\ console \in Seq(Lines) /\ keyboard \in Seq(Entries) /\ at \in 1..End
         /\ half \subseteq Jobs /\ loose \subseteq Jobs /\ spoilt \subseteq Captures
         /\ pc \in [Callers -> Steps] /\ num \in [Callers -> Jobs]
         /\ got \in [Callers -> Seq(Lines)] /\ outcome \in [Callers -> Outcomes] /\ armed \in Nat
         /\ \A c, d \in Callers : pc[c] \in Holding /\ pc[d] \in Holding => c = d
         /\ \A c \in Callers : pc[c] \in Armed =>
              active /\ sentinel = num[c] /\ num[c] = armed /\ num[c] \in Captures
         /\ \A c \in Callers : pc[c] \in Holding \ {"disarm", "free"} => outcome[c] # "ok"
         /\ Armed \subseteq Holding /\ Collected \cup {"write", "disarm"} = Armed
         /\ isOpen \in BOOLEAN
<1>1. /\ lines \in Seq(Lines) /\ console \in Seq(Lines) /\ keyboard \in Seq(Entries) /\ at \in 1..End
      /\ half \subseteq Jobs /\ loose \subseteq Jobs /\ spoilt \subseteq Captures
      /\ pc \in [Callers -> Steps] /\ num \in [Callers -> Jobs]
      /\ got \in [Callers -> Seq(Lines)] /\ outcome \in [Callers -> Outcomes] /\ armed \in Nat
  BY CaptureAssumption DEF TypeInv, TypeOK
<1>2. \A c, d \in Callers : pc[c] \in Holding /\ pc[d] \in Holding => c = d
  BY DEF GateInv
<1>3. ASSUME NEW c \in Callers, pc[c] \in Armed
      PROVE  active /\ sentinel = num[c] /\ num[c] = armed /\ num[c] \in Captures
  <2>1. sentinel = num[c] /\ num[c] = armed /\ armed # 0
    BY <1>3 DEF GateInv
  <2>2. num[c] # None /\ num[c] \in Captures
    BY <1>1, <2>1 DEF None, Jobs
  <2>3. active
    BY <2>1, <2>2 DEF TypeInv, TypeOK
  <2>4. QED
    BY <2>1, <2>2, <2>3
<1>4. Armed \subseteq Holding /\ Collected \cup {"write", "disarm"} = Armed
  BY DEF Armed, Holding, Collected
<1>5. \A c \in Callers : pc[c] \in Holding \ {"disarm", "free"} => outcome[c] # "ok"
  BY DEF NumInv, Holding, Collected
<1>6. isOpen \in BOOLEAN
  BY DEF TypeInv, TypeOK
<1>7. QED
  BY <1>1, <1>2, <1>3, <1>4, <1>5, <1>6

(* Who waits, and who has lines, while one caller is past the gate.        *)
LEMMA WhoWaits ==
  ASSUME TypeInv, GateInv, NumInv, NEW c \in Callers, pc[c] \in Holding
  PROVE  /\ Waiting = IF pc[c] \in Collected THEN {num[c]} ELSE {}
         /\ Served = IF pc[c] \in Collected \cup {"disarm"} THEN {num[c]} ELSE {}
         /\ \A d \in Callers : d # c => pc[d] \notin Holding
<1>1. \A d \in Callers : d # c => pc[d] \notin Holding
  BY CaptureFacts
<1>2. Collected \cup {"disarm"} \subseteq Holding
  BY CaptureFacts
<1>3. QED
  BY <1>1, <1>2 DEF Waiting, Served

(* Steps that move no line and begin or end nobody's wait; a job may be    *)
(* given up.                                                               *)
LEMMA CalmStep ==
  ASSUME DataInv,
         lines' = lines, console' = console, keyboard' = keyboard, at' = at, armed' = armed,
         spoilt' = spoilt, isOpen' \/ isOpen' = isOpen,
         loose \subseteq loose', half' \subseteq loose', \A n \in loose' : n <= armed,
         \A d \in Callers :
           /\ pc'[d] \in {"write"} \cup Collected => armed \notin loose'
           /\ pc'[d] \in Collected <=> pc[d] \in Collected
           /\ pc[d] \in Collected \cup {"disarm"} =>
                pc'[d] \in Collected \cup {"disarm"} /\ num'[d] = num[d]
           /\ outcome'[d] = "ok" => outcome[d] = "ok" /\ num'[d] = num[d] /\ got'[d] = got[d]
  PROVE  DataInv'
<1>1. Waiting \subseteq Waiting' /\ Served \subseteq Served'
  BY DEF Waiting, Served
<1>2. LooseInv'
  BY <1>1 DEF DataInv, LooseInv
<1>3. OwnInv'
  BY DEF DataInv, OwnInv
<1>4. WholeInv'
  BY DEF DataInv, WholeInv
<1>5. TakenInv'
  BY DEF DataInv, TakenInv
<1>6. QED
  BY <1>2, <1>3, <1>4, <1>5 DEF DataInv

LEMMA ArmStep ==
  ASSUME TypeInv, GateInv, NumInv, DataInv, NEW c \in Callers, Arm(c), isOpen
  PROVE  DataInv'
<1>1. /\ pc[c] = "arm" /\ pc' = [pc EXCEPT ![c] = "write"] /\ num' = [num EXCEPT ![c] = armed + 1]
      /\ armed' = armed + 1 /\ lines' = <<>>
      /\ UNCHANGED <<isOpen, got, outcome, keyboard, half, at, console, loose, spoilt>>
  BY DEF Arm, Goto, board, history
<1>2. /\ \A d \in Callers : d # c => pc[d] \notin Holding /\ pc'[d] = pc[d] /\ num'[d] = num[d]
      /\ Waiting = {}
  BY <1>1, WhoWaits, CaptureFacts DEF Holding, Collected
<1>3. pc[c] \notin Collected /\ pc'[c] = "write" /\ outcome[c] # "ok"
  BY <1>1, CaptureFacts DEF Collected, Holding
<1>4. \A d \in Callers : pc'[d] \notin Collected
  BY <1>2, <1>3, CaptureFacts DEF Collected
<1>5. LooseInv'
  <2>1. \A n \in loose : n <= armed + 1 /\ n # armed + 1
    <3>1. \A n \in loose : n \in Nat /\ n <= armed
      BY CaptureFacts, LineOf DEF DataInv, LooseInv
    <3>2. QED
      BY <3>1, CaptureFacts
  <2>2. \A e \in Elements(lines') : FALSE
    BY <1>1, ElementsNone
  <2>3. QED
    BY <1>1, <1>2, <2>1, <2>2 DEF DataInv, LooseInv
<1>6. OwnInv' /\ WholeInv'
  BY <1>4 DEF OwnInv, WholeInv
<1>7. TakenInv'
  BY <1>1, <1>2, <1>3 DEF DataInv, TakenInv
<1>8. QED
  BY <1>5, <1>6, <1>7 DEF DataInv

LEMMA WriteStep ==
  ASSUME TypeInv, GateInv, NumInv, DataInv, NoEcho, NEW c \in Callers, WriteCommand(c), isOpen
  PROVE  DataInv'
<1> DEFINE entry == [own |-> sentinel, others |-> half]
<1>1. /\ pc[c] = "write" /\ pc' = [pc EXCEPT ![c] = "wait"] /\ keyboard' = Append(keyboard, entry)
      /\ console' = console \o Echoed(sentinel) /\ half' = {}
      /\ spoilt' = IF half = {} THEN spoilt ELSE spoilt \cup {sentinel}
      /\ UNCHANGED <<isOpen, lines, armed, num, got, outcome, at, loose>>
  BY DEF WriteCommand, TypeLine, Goto, capture
<1>2. /\ sentinel \in Captures /\ sentinel = num[c] /\ num[c] = armed /\ outcome[c] # "ok"
      /\ sentinel \notin loose
  BY <1>1, CaptureFacts DEF Armed, Holding, DataInv, LooseInv
<1>3. console' = console
  BY <1>1, CaptureFacts, ConcatEmptySeq DEF NoEcho, Echoed
<1>4. /\ \A d \in Callers : d # c => pc[d] \notin Holding /\ pc'[d] = pc[d]
      /\ Waiting = {} /\ Served = {}
  BY <1>1, WhoWaits, CaptureFacts DEF Holding, Collected
<1>5. pc'[c] = "wait" /\ pc'[c] \in Collected
  BY <1>1, CaptureFacts DEF Collected
<1>6. \A d \in Callers : pc'[d] \in {"write"} \cup Collected => d = c
  BY <1>4, CaptureFacts
<1>7. sentinel \in Waiting'
  BY <1>1, <1>2, <1>5 DEF Waiting
<1>8. /\ keyboard \in Seq(Entries) /\ entry \in Entries /\ entry.own = sentinel /\ entry.others = half
      /\ keyboard = <<>> => at = 1
  BY <1>2, CaptureFacts, LineOf DEF Entries, DataInv, LooseInv
<1>9. /\ \A e \in Elements(lines) \cup Elements(console) : e[1] # sentinel
      /\ \A i \in 1..Len(keyboard) : keyboard[i].own # sentinel /\ sentinel \notin keyboard[i].others
      /\ half \in SUBSET Jobs /\ sentinel \notin half
  BY <1>2, <1>4, CaptureFacts DEF DataInv, LooseInv
<1>10. /\ OwnStream(lines, console, keyboard', at, sentinel)
       /\ half = {} => Whole(lines, console, keyboard', at, sentinel)
  BY <1>1, <1>2, <1>8, <1>9, OwnTyped, CaptureFacts
<1> HIDE DEF entry
<1>11. /\ keyboard' # <<>>
       /\ \A i \in 1..Len(keyboard') :
            keyboard'[i] = entry \/ (i \in 1..Len(keyboard) /\ keyboard'[i] = keyboard[i])
  BY <1>1, <1>8, KeysAppend
<1>12. LooseInv'
  <2>1. \A i \in 1..Len(keyboard') :
          keyboard'[i].own \in loose \cup {sentinel} /\ keyboard'[i].others \subseteq loose
    BY <1>4, <1>8, <1>11 DEF DataInv, LooseInv
  <2>2. armed \notin loose /\ {} \subseteq loose
    BY <1>2
  <2>3. QED
    BY <1>1, <1>3, <1>4, <1>7, <1>11, <2>1, <2>2 DEF DataInv, LooseInv
<1>13. OwnInv'
  BY <1>1, <1>2, <1>3, <1>6, <1>10 DEF OwnInv
<1>14. WholeInv'
  BY <1>1, <1>2, <1>3, <1>6, <1>10 DEF WholeInv
<1>15. TakenInv'
  <2>1. ASSUME NEW d \in Callers, outcome[d] = "ok", NEW i \in 1..Len(keyboard')
        PROVE  keyboard'[i].own # num[d]
    <3>1. num[d] # num[c]
      BY <1>2, <2>1, LineOf DEF NumInv
    <3>2. QED
      BY <1>2, <1>8, <1>11, <2>1, <3>1 DEF DataInv, TakenInv
  <2>2. spoilt \subseteq spoilt'
    BY <1>1
  <2>3. QED
    BY <1>1, <2>1, <2>2 DEF DataInv, TakenInv
<1>16. QED
  BY <1>12, <1>13, <1>14, <1>15 DEF DataInv

(* A job that is given up: it was not waited for, or is not any more.      *)
LEMMA GivenUp ==
  ASSUME TypeInv, GateInv, NumInv, LooseInv, NEW c \in Callers, pc[c] \in Armed
  PROVE  \A n \in loose \cup {sentinel} : n <= armed
<1>1. sentinel = armed /\ armed \in Nat
  BY CaptureFacts
<1>2. QED
  BY <1>1 DEF LooseInv

LEMMA BesideTyped ==
  ASSUME TypeInv, GateInv, NumInv, LooseInv
  PROVE  /\ \A n \in loose \cup {None} : n <= armed
         /\ \A c \in Callers : pc[c] \in {"write"} \cup Collected => armed \notin loose \cup {None}
<1>1. None <= armed
  BY CaptureFacts DEF None
<1>2. \A c \in Callers : pc[c] \in {"write"} \cup Collected => armed # None
  BY CaptureFacts, LineOf
<1>3. QED
  BY <1>1, <1>2 DEF LooseInv

LEMMA BesideStep ==
  ASSUME TypeInv, GateInv, NumInv, DataInv, NoEcho, TypeBeside
  PROVE  DataInv'
<1>1. /\ loose' = loose \cup {None}
      /\ UNCHANGED <<isOpen, lines, armed, pc, num, got, outcome, at, spoilt>>
  BY DEF TypeBeside, TypeLine, TypePart, capture
<1>2. /\ \A n \in loose' : n <= armed
      /\ \A c \in Callers : pc[c] \in {"write"} \cup Collected => armed \notin loose'
      /\ half \subseteq loose
  BY <1>1, BesideTyped DEF DataInv, LooseInv
<1>3. CASE TypePart(None)
  <2>1. half' = half \cup {None} /\ UNCHANGED <<keyboard, console>>
    BY <1>3 DEF TypePart
  <2>2. loose \subseteq loose' /\ half' \subseteq loose'
    BY <1>1, <1>2, <2>1
  <2>3. QED
    BY <1>1, <1>2, <2>1, <2>2, CalmStep
<1>4. CASE TypeLine(None)
  <2> DEFINE entry == [own |-> None, others |-> half]
  <2>1. keyboard' = Append(keyboard, entry) /\ half' = {} /\ console' = console \o Echoed(None)
    BY <1>4 DEF TypeLine
  <2>2. console' = console
    BY <2>1, CaptureFacts, ConcatEmptySeq DEF NoEcho, Echoed
  <2>3. /\ keyboard \in Seq(Entries) /\ entry \in Entries /\ entry.own = None /\ entry.others = half
        /\ keyboard = <<>> => at = 1
    BY CaptureFacts, LineOf DEF Entries, DataInv, LooseInv
  <2> HIDE DEF entry
  <2>4. /\ keyboard' # <<>>
        /\ \A i \in 1..Len(keyboard') :
             keyboard'[i] = entry \/ (i \in 1..Len(keyboard) /\ keyboard'[i] = keyboard[i])
    BY <2>1, <2>3, KeysAppend
  <2>5. Waiting' = Waiting /\ Served' = Served
    BY <1>1 DEF Waiting, Served
  <2>6. LooseInv'
    <3>1. \A i \in 1..Len(keyboard') :
            keyboard'[i].own \in loose' \cup Waiting /\ keyboard'[i].others \subseteq loose'
      BY <1>1, <1>2, <2>3, <2>4 DEF DataInv, LooseInv
    <3>2. /\ \A e \in Elements(console) : e[1] \in loose' \cup Waiting
          /\ \A e \in Elements(lines) : e[1] \in loose' \cup Served
      BY <1>1 DEF DataInv, LooseInv
    <3>3. QED
      BY <1>1, <1>2, <2>1, <2>2, <2>4, <2>5, <3>1, <3>2 DEF LooseInv
  <2>7. ASSUME NEW c \in Callers, pc[c] \in Collected
        PROVE  /\ OwnStream(lines, console, keyboard', at, num[c])
               /\ Whole(lines, console, keyboard, at, num[c]) => Whole(lines, console, keyboard', at, num[c])
    <3>1. num[c] # None /\ num[c] = armed
      BY <2>7, CaptureFacts, LineOf
    <3>2. entry.own # num[c] /\ num[c] \notin entry.others
      BY <2>3, <3>1, <1>2, <2>7 DEF DataInv, LooseInv
    <3>3. OwnStream(lines, console, keyboard, at, num[c])
      BY <2>7 DEF DataInv, OwnInv
    <3>4. QED
      BY <2>1, <2>3, <3>2, <3>3, OwnBeside
  <2>8. OwnInv' /\ WholeInv'
    BY <1>1, <2>2, <2>7 DEF DataInv, OwnInv, WholeInv
  <2>9. TakenInv'
    <3>1. ASSUME NEW d \in Callers, outcome[d] = "ok", NEW i \in 1..Len(keyboard')
          PROVE  keyboard'[i].own # num[d]
      BY <2>3, <2>4, <3>1 DEF DataInv, TakenInv, NumInv
    <3>2. QED
      BY <1>1, <3>1 DEF DataInv, TakenInv
  <2>10. QED
    BY <2>6, <2>8, <2>9 DEF DataInv
<1>5. QED
  BY <1>3, <1>4 DEF TypeBeside

LEMMA CollectStep ==
  ASSUME TypeInv, GateInv, NumInv, DataInv, NEW c \in Callers, CollectLines(c)
  PROVE  DataInv'
<1>1. /\ pc[c] = "collect" /\ pc' = [pc EXCEPT ![c] = "disarm"] /\ got' = [got EXCEPT ![c] = lines]
      /\ outcome' = [outcome EXCEPT ![c] = IF Finished(sentinel) THEN "ok" ELSE "timeout"]
      /\ loose' = IF Finished(sentinel) THEN loose ELSE loose \cup {sentinel}
      /\ UNCHANGED <<isOpen, lines, armed, num, keyboard, half, at, console, spoilt>>
  BY DEF CollectLines, Goto, Ends, capture, board
<1>2. /\ sentinel \in Captures /\ sentinel = num[c] /\ num[c] = armed /\ pc[c] \in Collected
      /\ pc[c] \in Armed /\ pc[c] \in Holding
  BY <1>1, CaptureFacts DEF Armed, Collected, Holding
<1>3. /\ \A d \in Callers : d # c => pc[d] \notin Holding /\ pc'[d] = pc[d]
      /\ Waiting = {sentinel} /\ Served = {sentinel}
  BY <1>1, <1>2, WhoWaits, CaptureFacts
<1>4. pc'[c] = "disarm" /\ got'[c] = lines
  BY <1>1, CaptureFacts
<1>5. \A d \in Callers : pc'[d] \notin {"write"} \cup Collected
  BY <1>3, <1>4, CaptureFacts DEF Collected, Holding
<1>6. sentinel \in Served'
  BY <1>1, <1>2, <1>4 DEF Served
<1>7. \A n \in loose' : n <= armed
  BY <1>1, <1>2, GivenUp DEF DataInv
<1>8. OwnStream(lines, console, keyboard, at, sentinel)
  BY <1>2 DEF DataInv, OwnInv
<1>9. ASSUME Finished(sentinel)
      PROVE  /\ \A e \in Elements(console) : e[1] # sentinel
             /\ \A i \in 1..Len(keyboard) : keyboard[i].own # sentinel
             /\ Whole(lines, console, keyboard, at, sentinel) =>
                  \A k \in 1..End : <<sentinel, k>> \in Elements(lines)
  <2>1. PICK i \in DOMAIN lines : HasSentinel(lines[i], sentinel)
    BY <1>9 DEF Finished
  <2>2. lines[i] \in Elements(lines) /\ lines[i] \in Lines
    BY <2>1, CaptureFacts DEF Elements
  <2>3. lines[i][1] = sentinel /\ lines[i][2] = End
    BY <1>8, <2>1, <2>2 DEF HasSentinel, OwnStream
  <2>4. <<sentinel, End>> \in Elements(lines)
    BY <2>2, <2>3, LineOf
  <2>5. QED
    BY <1>2, <1>8, <2>4, OwnOver, CaptureFacts
<1>10. LooseInv'
  <2>1. loose \subseteq loose'
    BY <1>1
  <2>2. /\ \A i \in 1..Len(keyboard) : keyboard[i].own \in loose' /\ keyboard[i].others \subseteq loose'
        /\ \A e \in Elements(console) : e[1] \in loose'
    BY <1>1, <1>3, <1>9 DEF DataInv, LooseInv
  <2>3. \A e \in Elements(lines) : e[1] \in loose' \cup Served'
    BY <1>3, <1>6, <2>1 DEF DataInv, LooseInv
  <2>4. QED
    BY <1>1, <1>5, <1>7, <2>1, <2>2, <2>3 DEF DataInv, LooseInv
<1>11. OwnInv' /\ WholeInv'
  BY <1>5 DEF OwnInv, WholeInv
<1>12. TakenInv'
  <2>1. loose \subseteq loose'
    BY <1>1
  <2>2. \A d \in Callers : d # c => outcome'[d] = outcome[d] /\ got'[d] = got[d]
    BY <1>1, CaptureFacts
  <2>3. CASE Finished(sentinel)
    <3>1. \A e \in Elements(lines) :
            e[1] \in loose \cup {sentinel} /\ (e[1] = sentinel => e[2] # Echo)
      BY <1>3, <1>8 DEF DataInv, LooseInv, OwnStream
    <3>2. OwnSorted(lines, sentinel)
      BY <1>8 DEF OwnStream
    <3>3. sentinel \notin spoilt => \A k \in 1..End : <<sentinel, k>> \in Elements(lines)
      BY <1>2, <1>9, <2>3 DEF DataInv, WholeInv
    <3>4. \A i \in 1..Len(keyboard) : keyboard[i].own # sentinel
      BY <1>9, <2>3
    <3>5. QED
      BY <1>1, <1>2, <1>4, <2>1, <2>2, <3>1, <3>2, <3>3, <3>4 DEF DataInv, TakenInv
  <2>4. CASE ~Finished(sentinel)
    <3>1. outcome'[c] = "timeout"
      BY <1>1, <2>4, CaptureFacts
    <3>2. QED
      BY <1>1, <2>1, <2>2, <3>1 DEF DataInv, TakenInv
  <2>5. QED
    BY <2>3, <2>4
<1>13. QED
  BY <1>10, <1>11, <1>12 DEF DataInv

LEMMA DisarmStep ==
  ASSUME TypeInv, GateInv, NumInv, DataInv, NEW c \in Callers, Disarm(c)
  PROVE  DataInv'
<1>1. /\ pc[c] = "disarm" /\ pc' = [pc EXCEPT ![c] = "free"] /\ lines' = <<>>
      /\ UNCHANGED <<isOpen, armed, num, got, outcome, keyboard, half, at, console, loose, spoilt>>
  BY DEF Disarm, Goto, board, history
<1>2. pc[c] \notin Collected /\ pc[c] \in Holding /\ pc'[c] = "free"
  BY <1>1, CaptureFacts DEF Collected, Holding
<1>3. /\ \A d \in Callers : d # c => pc[d] \notin Holding /\ pc'[d] = pc[d]
      /\ Waiting = {}
  BY <1>1, <1>2, WhoWaits, CaptureFacts
<1>4. \A d \in Callers : pc'[d] \notin {"write"} \cup Collected
  BY <1>2, <1>3, CaptureFacts DEF Collected, Holding
<1>5. \A e \in Elements(lines') : FALSE
  BY <1>1, ElementsNone
<1>6. LooseInv'
  BY <1>1, <1>3, <1>4, <1>5 DEF DataInv, LooseInv
<1>7. OwnInv' /\ WholeInv'
  BY <1>4 DEF OwnInv, WholeInv
<1>8. TakenInv'
  BY <1>1 DEF DataInv, TakenInv
<1>9. QED
  BY <1>6, <1>7, <1>8 DEF DataInv

LEMMA ReadStep ==
  ASSUME TypeInv, GateInv, NumInv, DataInv, ReadLine
  PROVE  DataInv'
<1>1. /\ console # <<>> /\ console' = Tail(console)
      /\ lines' = IF active THEN Append(lines, Head(console)) ELSE lines
      /\ UNCHANGED <<isOpen, armed, pc, num, got, outcome, keyboard, half, at, loose, spoilt>>
  BY DEF ReadLine, history
<1>2. /\ lines \in Seq(Lines) /\ console \in Seq(Lines) /\ Head(console) \in Lines
      /\ Head(console) \in Elements(console) /\ Elements(console') \subseteq Elements(console)
  BY <1>1, CaptureFacts, HeadTailProperties, ElementsOf, ElementsTail
<1>3. Waiting' = Waiting /\ Served' = Served /\ Waiting \subseteq Served
  BY <1>1 DEF Waiting, Served
<1>4. \A e \in Elements(lines') : e \in Elements(lines) \/ e = Head(console)
  BY <1>1, <1>2, ElementsAppend
<1>5. LooseInv'
  <2>1. \A e \in Elements(lines') : e[1] \in loose \cup Served
    BY <1>2, <1>3, <1>4 DEF DataInv, LooseInv
  <2>2. \A e \in Elements(console') : e[1] \in loose \cup Waiting
    BY <1>2 DEF DataInv, LooseInv
  <2>3. QED
    BY <1>1, <1>3, <2>1, <2>2 DEF DataInv, LooseInv
<1>6. ASSUME NEW c \in Callers, pc[c] \in Collected
      PROVE  /\ OwnStream(lines', console', keyboard, at, num[c])
             /\ Whole(lines, console, keyboard, at, num[c]) => Whole(lines', console', keyboard, at, num[c])
  <2>1. active
    BY <1>6, CaptureFacts
  <2>2. OwnStream(lines, console, keyboard, at, num[c])
    BY <1>6 DEF DataInv, OwnInv
  <2>3. QED
    BY <1>1, <1>2, <2>1, <2>2, OwnRead
<1>7. OwnInv' /\ WholeInv'
  BY <1>1, <1>6 DEF DataInv, OwnInv, WholeInv
<1>8. TakenInv'
  BY <1>1 DEF DataInv, TakenInv
<1>9. QED
  BY <1>5, <1>7, <1>8 DEF DataInv

LEMMA PrintStep ==
  ASSUME TypeInv, GateInv, NumInv, DataInv, BoardPrints
  PROVE  DataInv'
<1>1. /\ keyboard # <<>> /\ Printed(keyboard, at, keyboard', at')
      /\ UNCHANGED <<isOpen, lines, armed, pc, num, got, outcome, half, loose, spoilt>>
  BY DEF BoardPrints, Printed, capture, history
<1>2. PICK line \in Prints(Head(keyboard), at) :
        console' = IF isOpen THEN console \o line ELSE console
  BY DEF BoardPrints
<1>3. /\ keyboard \in Seq(Entries) /\ at \in 1..End /\ Head(keyboard) \in Entries
      /\ lines \in Seq(Lines) /\ console \in Seq(Lines)
  BY <1>1, CaptureFacts, PrintedTyped
<1>4. /\ \A i \in 1..Len(keyboard') : \E j \in 1..Len(keyboard) : keyboard'[i] = keyboard[j]
      /\ \E j \in 1..Len(keyboard) : Head(keyboard) = keyboard[j]
  <2>1. \A i \in 1..Len(keyboard') : \E j \in 1..Len(keyboard) : keyboard'[i] = keyboard[j]
    <3>1. keyboard' = keyboard \/ keyboard' = Tail(keyboard)
      BY <1>1 DEF Printed
    <3>2. CASE keyboard' = Tail(keyboard)
      BY <1>1, <1>3, <3>2, HeadTailProperties
    <3>3. QED
      BY <3>1, <3>2
  <2>2. 1 \in 1..Len(keyboard) /\ Head(keyboard) = keyboard[1]
    BY <1>1, <1>3, HeadTailProperties, EmptySeq
  <2>3. QED
    BY <2>1, <2>2
<1>5. Waiting' = Waiting /\ Served' = Served
  BY <1>1 DEF Waiting, Served
<1>6. \A e \in Elements(console') :
        e \in Elements(console) \/ e[1] \in {Head(keyboard).own} \cup Head(keyboard).others
  <2>1. line = <<>> \/ \E n \in {Head(keyboard).own} \cup Head(keyboard).others : line = <<<<n, at>>>>
    BY <1>3, PrintsAre
  <2>2. CASE line = <<>> \/ ~isOpen
    <3>1. console' = console
      BY <1>2, <1>3, <2>2, ConcatEmptySeq
    <3>2. QED
      BY <3>1
  <2>3. CASE line # <<>> /\ isOpen
    <3>1. PICK n \in {Head(keyboard).own} \cup Head(keyboard).others : line = <<<<n, at>>>>
      BY <2>1, <2>3
    <3>2. n \in Jobs /\ at \in Echo..End
      BY <1>3, LineOf DEF Entries, Echo
    <3>3. <<n, at>> \in Lines /\ <<n, at>>[1] = n
      BY <3>2, LineOf
    <3>4. console' = Append(console, <<n, at>>)
      BY <1>2, <1>3, <2>3, <3>1, <3>3, AppendIsConcat
    <3>5. Elements(console') = Elements(console) \cup {<<n, at>>}
      BY <1>3, <3>3, <3>4, ElementsAppend
    <3>6. QED
      BY <3>3, <3>5
  <2>4. QED
    BY <2>2, <2>3
<1>7. LooseInv'
  <2>1. keyboard' = <<>> => at' = 1
    BY <1>1 DEF Printed
  <2>2. \A i \in 1..Len(keyboard') :
          keyboard'[i].own \in loose \cup Waiting /\ keyboard'[i].others \subseteq loose
    BY <1>4 DEF DataInv, LooseInv
  <2>3. {Head(keyboard).own} \cup Head(keyboard).others \subseteq loose \cup Waiting
    BY <1>4 DEF DataInv, LooseInv
  <2>4. \A e \in Elements(console') : e[1] \in loose \cup Waiting
    BY <1>6, <2>3 DEF DataInv, LooseInv
  <2>5. QED
    BY <1>1, <1>5, <2>1, <2>2, <2>4 DEF DataInv, LooseInv
<1>8. ASSUME NEW c \in Callers, pc[c] \in Collected
      PROVE  /\ OwnStream(lines, console', keyboard', at', num[c])
             /\ isOpen /\ Whole(lines, console, keyboard, at, num[c]) =>
                  Whole(lines, console', keyboard', at', num[c])
  <2>1. num[c] \in Captures
    BY <1>8, CaptureFacts
  <2>2. OwnStream(lines, console, keyboard, at, num[c])
    BY <1>8 DEF DataInv, OwnInv
  <2>3. /\ OwnStream(lines, console, keyboard', at', num[c])
        /\ OwnStream(lines, console \o line, keyboard', at', num[c])
        /\ Whole(lines, console, keyboard, at, num[c]) =>
             Whole(lines, console \o line, keyboard', at', num[c])
    BY <1>1, <1>3, <2>1, <2>2, OwnPrinted
  <2>4. QED
    BY <1>2, <2>3
<1>9. OwnInv' /\ WholeInv'
  BY <1>1, <1>8 DEF DataInv, OwnInv, WholeInv
<1>10. TakenInv'
  BY <1>1, <1>4 DEF DataInv, TakenInv
<1>11. QED
  BY <1>7, <1>9, <1>10 DEF DataInv

LEMMA CloseStep ==
  ASSUME TypeInv, GateInv, NumInv, DataInv, ClosePort
  PROVE  DataInv'
<1>1. /\ console' = <<>> /\ spoilt' = spoilt \cup Waiting
      /\ UNCHANGED <<lines, armed, pc, num, got, outcome, keyboard, half, at, loose>>
  BY DEF ClosePort, Waiting, Collected, capture
<1>2. Waiting' = Waiting /\ Served' = Served
  BY <1>1 DEF Waiting, Served
<1>3. LooseInv'
  BY <1>1, <1>2, ElementsNone DEF DataInv, LooseInv
<1>4. OwnInv'
  <2>1. \A c \in Callers : pc[c] \in Collected => OwnStream(lines, <<>>, keyboard, at, num[c])
    BY OwnLost DEF DataInv, OwnInv
  <2>2. QED
    BY <1>1, <2>1 DEF OwnInv
<1>5. WholeInv'
  BY <1>1 DEF WholeInv, Waiting
<1>6. TakenInv'
  BY <1>1 DEF DataInv, TakenInv
<1>7. QED
  BY <1>3, <1>4, <1>5, <1>6 DEF DataInv

LEMMA InitData == Init => DataInv
<1> SUFFICES ASSUME Init PROVE DataInv
  OBVIOUS
<1>1. /\ lines = <<>> /\ console = <<>> /\ keyboard = <<>> /\ at = 1 /\ loose = {} /\ half = {}
      /\ \A c \in Callers : pc[c] = "idle" /\ outcome[c] = "none"
  BY DEF Init
<1>2. Len(keyboard) = 0 /\ \A i \in 1..Len(keyboard) : FALSE
  BY <1>1
<1>3. \A c \in Callers : pc[c] \notin {"write"} \cup Collected
  BY <1>1 DEF Collected
<1>4. LooseInv
  BY <1>1, <1>2, <1>3, ElementsNone DEF LooseInv
<1>5. OwnInv /\ WholeInv
  BY <1>3 DEF OwnInv, WholeInv
<1>6. TakenInv
  BY <1>1 DEF TakenInv
<1>7. QED
  BY <1>4, <1>5, <1>6 DEF DataInv

LEMMA StepData ==
  ASSUME TypeInv, GateInv, NumInv, NoEcho, DataInv, [Next]_vars
  PROVE  DataInv'
<1>1. /\ pc \in [Callers -> Steps] /\ num \in [Callers -> Jobs]
      /\ got \in [Callers -> Seq(Lines)] /\ outcome \in [Callers -> Outcomes]
  BY CaptureFacts
<1>2. /\ \A n \in loose : n <= armed
      /\ \A d \in Callers : pc[d] \in {"write"} \cup Collected => armed \notin loose
      /\ half \subseteq loose
  BY DEF DataInv, LooseInv
<1> USE DEF Collected
\* Steps of a caller outside the wait, and others that type nothing.
<1>3. ASSUME NEW c \in Callers, NEW step \in {"gate", "arm", "idle", "free"},
             UNCHANGED <<lines, console, keyboard, at, armed, spoilt, isOpen, loose, half>>,
             pc[c] \notin Collected \cup {"disarm"}, pc' = pc \/ pc' = [pc EXCEPT ![c] = step],
             \A d \in Callers : d # c => num'[d] = num[d] /\ got'[d] = got[d] /\ outcome'[d] = outcome[d],
             outcome'[c] = "ok" => outcome[c] = "ok" /\ num'[c] = num[c] /\ got'[c] = got[c]
      PROVE  DataInv'
  <2>1. \A d \in Callers : d # c => pc'[d] = pc[d]
    BY <1>1, <1>3
  <2>2. pc'[c] \in {pc[c], step}
    BY <1>1, <1>3
  <2>3. QED
    BY <1>2, <1>3, <2>1, <2>2, CalmStep
<1>4. ASSUME NEW c \in Callers, Ask(c) PROVE DataInv'
  <2>1. /\ UNCHANGED <<lines, console, keyboard, at, armed, spoilt, isOpen, loose, half>>
        /\ pc[c] = "idle"
        /\ got' = [got EXCEPT ![c] = <<>>] /\ num' = [num EXCEPT ![c] = None]
        /\ \/ pc' = [pc EXCEPT ![c] = "gate"] /\ outcome' = [outcome EXCEPT ![c] = "none"]
           \/ pc' = pc /\ outcome' = [outcome EXCEPT ![c] = "error"]
    BY <1>4 DEF Ask, Goto, Ends, capture, board, history
  <2>2. QED
    BY <1>1, <1>3, <2>1
<1>5. ASSUME NEW c \in Callers, EnterGate(c) \/ GateTimesOut(c) \/ FreeGate(c) PROVE DataInv'
  <2>1. /\ UNCHANGED <<lines, console, keyboard, at, armed, spoilt, isOpen, loose, half, num, got>>
        /\ pc[c] \in {"gate", "free"}
        /\ \E step \in {"arm", "idle"} : pc' = [pc EXCEPT ![c] = step]
        /\ outcome' = outcome \/ outcome' = [outcome EXCEPT ![c] = "busy"]
    BY <1>5 DEF EnterGate, GateTimesOut, FreeGate, Goto, Ends, capture, board, history
  <2>2. QED
    BY <1>1, <1>3, <2>1
<1>6. ASSUME NEW c \in Callers, Arm(c) PROVE DataInv'
  <2>1. CASE isOpen
    BY <1>6, <2>1, ArmStep
  <2>2. CASE ~isOpen
    <3>1. /\ UNCHANGED <<lines, console, keyboard, at, armed, spoilt, isOpen, loose, half, num, got>>
          /\ pc[c] = "arm"
          /\ pc' = [pc EXCEPT ![c] = "free"] /\ outcome' = [outcome EXCEPT ![c] = "error"]
      BY <1>6, <2>2 DEF Arm, Goto, Ends, capture, board, history
    <3>2. QED
      BY <1>1, <1>3, <3>1
  <2>3. QED
    BY <2>1, <2>2
\* The command is not written, or not all of it.
<1>7. ASSUME NEW c \in Callers, pc[c] = "write", pc' = [pc EXCEPT ![c] = "disarm"],
             outcome' = [outcome EXCEPT ![c] = "error"],
             UNCHANGED <<lines, console, keyboard, at, armed, spoilt, isOpen, num, got>>,
             \/ UNCHANGED <<half, loose>>
             \/ half' = half \cup {sentinel} /\ loose' = loose \cup {sentinel}
      PROVE  DataInv'
  <2>1. pc[c] \in Armed /\ pc[c] \in Holding
    BY <1>7, CaptureFacts
  <2>2. \A d \in Callers : d # c => pc[d] \notin Holding /\ pc'[d] = pc[d] /\ outcome'[d] = outcome[d]
    BY <1>1, <1>7, <2>1, WhoWaits
  <2>3. pc'[c] = "disarm" /\ outcome'[c] = "error"
    BY <1>1, <1>7
  <2>4. loose \subseteq loose' /\ half' \subseteq loose' /\ \A n \in loose' : n <= armed
    BY <1>2, <1>7, <2>1, GivenUp DEF DataInv
  <2>5. \A d \in Callers : pc'[d] \notin {"write"} \cup Collected
    BY <2>2, <2>3, CaptureFacts
  <2>6. \A d \in Callers : pc[d] \notin Collected \cup {"disarm"}
    BY <1>7, <2>2, CaptureFacts DEF Holding
  <2>7. QED
    BY <1>7, <2>2, <2>3, <2>4, <2>5, <2>6, CalmStep
<1>8. ASSUME NEW c \in Callers, WriteCommand(c) PROVE DataInv'
  <2>1. CASE isOpen
    BY <1>8, <2>1, WriteStep
  <2>2. CASE ~isOpen
    <3>1. /\ pc[c] = "write" /\ pc' = [pc EXCEPT ![c] = "disarm"]
          /\ outcome' = [outcome EXCEPT ![c] = "error"]
          /\ UNCHANGED <<lines, console, keyboard, at, armed, spoilt, isOpen, num, got, half, loose>>
      BY <1>8, <2>2 DEF WriteCommand, Goto, Ends, board, capture
    <3>2. QED
      BY <1>7, <3>1
  <2>3. QED
    BY <2>1, <2>2
<1>9. ASSUME NEW c \in Callers, WriteFails(c) PROVE DataInv'
  <2>1. /\ pc[c] = "write" /\ pc' = [pc EXCEPT ![c] = "disarm"]
        /\ outcome' = [outcome EXCEPT ![c] = "error"]
        /\ UNCHANGED <<lines, armed, spoilt, isOpen, num, got>>
        /\ UNCHANGED <<board, loose>> \/ TypePart(sentinel)
    BY <1>9 DEF WriteFails, Goto, Ends, capture
  <2>2. /\ UNCHANGED <<console, keyboard, at>>
        /\ \/ UNCHANGED <<half, loose>>
           \/ half' = half \cup {sentinel} /\ loose' = loose \cup {sentinel}
    BY <2>1 DEF TypePart, board
  <2>3. QED
    BY <1>7, <2>1, <2>2
<1>10. ASSUME NEW c \in Callers, Wake(c) PROVE DataInv'
  <2>1. /\ pc[c] = "wait" /\ pc' = [pc EXCEPT ![c] = "collect"]
        /\ UNCHANGED <<lines, console, keyboard, at, armed, spoilt, isOpen, loose, half, num, got, outcome>>
    BY <1>10 DEF Wake, Goto, capture, board, history
  <2>2. \A d \in Callers : pc'[d] = IF d = c THEN "collect" ELSE pc[d]
    BY <1>1, <2>1
  <2>3. QED
    BY <1>2, <2>1, <2>2, CalmStep
<1>11. CASE OpenPort \/ UNCHANGED vars
  <2>1. /\ UNCHANGED <<lines, console, keyboard, at, armed, spoilt, loose, half, pc, num, got, outcome>>
        /\ isOpen' \/ isOpen' = isOpen
    BY <1>11 DEF OpenPort, vars, capture, board, history
  <2>2. QED
    BY <1>2, <2>1, CalmStep
<1>12. QED
  BY <1>4, <1>5, <1>6, <1>8, <1>9, <1>10, <1>11, CollectStep, DisarmStep, BesideStep, ReadStep,
     PrintStep, CloseStep
  DEF Next, CallerStep

(* A capture that succeeds returns all its command printed, in order and   *)
(* each line once, but for lines that read like the command; beside these  *)
(* it returns only lines of jobs that nobody waits for, and the command is *)
(* over.  Where others had begun the command's line or the port was closed *)
(* under the capture, lines may be missing.  It holds when the board does  *)
(* not echo what is typed: with the echo the sentinel in it ends the wait  *)
(* (capture_command() and the `sentinel in line` of _dispatch_lines()).    *)
THEOREM CaptureCorrect == Spec => []("echo" \notin Faults => CaptureRight)
<1>1. CaptureInv => ("echo" \notin Faults => CaptureRight)
  <2> SUFFICES ASSUME CaptureInv, NoEcho PROVE CaptureRight
    BY DEF NoEcho
  <2>1. TypeInv /\ GateInv /\ NumInv /\ TakenInv
    BY DEF CaptureInv, DataInv
  <2>2. \A c \in Callers : /\ Len(got[c]) \in Nat
                           /\ \A i \in 1..Len(got[c]) : got[c][i] \in Lines /\ got[c][i] \in Elements(got[c])
    <3>1. \A c \in Callers : got[c] \in Seq(Lines)
      BY <2>1, CaptureFacts
    <3>2. QED
      BY <3>1 DEF Elements
  <2>3. ASSUME NEW c \in Callers, outcome[c] = "ok", num[c] \notin spoilt, NEW k \in 1..OutLines,
               ~LikeCommand(<<num[c], k>>, num[c])
        PROVE  \E i \in OwnOutput(c) : got[c][i] = <<num[c], k>>
    <3>1. k \in 1..End /\ k # End /\ k # Echo
      BY CaptureAssumption DEF End, Echo
    <3>2. <<num[c], k>> \in Elements(got[c])
      BY <2>1, <2>3, <3>1 DEF TakenInv
    <3>3. PICK i \in 1..Len(got[c]) : got[c][i] = <<num[c], k>>
      BY <3>2 DEF Elements
    <3>4. got[c][i][1] = num[c] /\ got[c][i][2] = k
      BY <3>3
    <3>5. i \in OwnOutput(c)
      BY <2>3, <3>1, <3>3, <3>4 DEF OwnOutput, Output, HasSentinel
    <3>6. QED
      BY <3>3, <3>5
  <2>4. ASSUME NEW c \in Callers, outcome[c] = "ok", NEW i \in OwnOutput(c), NEW j \in OwnOutput(c), i < j
        PROVE  got[c][i][2] < got[c][j][2]
    <3>1. /\ i \in 1..Len(got[c]) /\ j \in 1..Len(got[c])
          /\ got[c][i][1] = num[c] /\ got[c][j][1] = num[c]
      BY DEF OwnOutput, Output
    <3>2. QED
      BY <2>1, <2>4, <3>1 DEF TakenInv, OwnSorted
  <2>5. ASSUME NEW c \in Callers, outcome[c] = "ok", NEW i \in Output(c)
        PROVE  got[c][i][1] \in {num[c]} \cup loose
    <3>1. i \in 1..Len(got[c])
      BY DEF Output
    <3>2. QED
      BY <2>1, <2>2, <2>5, <3>1 DEF TakenInv
  <2>6. ASSUME NEW c \in Callers, outcome[c] = "ok", NEW i \in DOMAIN keyboard
        PROVE  keyboard[i].own # num[c]
    <3>1. i \in 1..Len(keyboard)
      BY <2>1, CaptureFacts
    <3>2. QED
      BY <2>1, <2>6, <3>1 DEF TakenInv
  <2>7. OutputComplete
    BY <2>3, <2>4 DEF OutputComplete
  <2>8. OnlyOwnOutput
    BY <2>5 DEF OnlyOwnOutput
  <2>9. SuccessIsReal
    BY <2>6 DEF SuccessIsReal
  <2>10. QED
    BY <2>7, <2>8, <2>9 DEF CaptureRight
<1>2. Init => CaptureInv
  BY InitTyped, InitGate, InitData DEF CaptureInv
<1>3. CaptureInv /\ [Next]_vars => CaptureInv'
  <2> SUFFICES ASSUME CaptureInv, [Next]_vars PROVE CaptureInv'
    OBVIOUS
  <2>1. TypeInv /\ GateInv /\ NumInv /\ (NoEcho => DataInv)
    BY DEF CaptureInv
  <2>2. TypeInv' /\ GateInv' /\ NumInv'
    BY <2>1, StepTyped, StepGate
  <2>3. NoEcho => DataInv'
    BY <2>1, StepData
  <2>4. NoEcho' <=> NoEcho
    BY DEF NoEcho
  <2>5. QED
    BY <2>2, <2>3, <2>4 DEF CaptureInv
<1>4. QED
  BY <1>1, <1>2, <1>3, PTL DEF Spec
=============================================================================
