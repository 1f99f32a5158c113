--------------------------- MODULE DutMonitorProofs ---------------------------
(* Proofs of properties of DutMonitor, for any bounds: sessions, tests and  *)
(* their parts, events in the fan-out and in the connection, requests.      *)
EXTENDS DutMonitor, SequenceTheorems, WellFoundedInduction, TLAPS

-----------------------------------------------------------------------------
(* The invariants.                                                          *)

Answer == [history : Seq(Snapshot), overtaken : BOOLEAN]

\* Tests are numbered as they are stored.
Numbered(h) == \A i \in 1..Len(h) : h[i].test = i
Neighbours(h) == \A i \in 1..(Len(h) - 1) : h[i].test # h[i + 1].test

NodeTypes ==
  /\ board \in Boards /\ turns \in OpenedAt /\ port \in {"open", "released", "closed"}
  /\ openedAt \in OpenedAt \cup {None} /\ openings \subseteq OpenedAt \cup {None}
  /\ stored \in Seq(Snapshot) /\ pipe \in Seq(Event)
  /\ Numbered(stored) /\ \A i \in 1..Len(stored) : stored[i].session = turns[1]
SocketTypes ==
  /\ wire \in Seq(Event) /\ ws \in {"connecting", "open", "closing", "closed"}
  /\ timer \in BOOLEAN /\ closedByCaller \in BOOLEAN
  /\ base \in Snapshot \cup {None} /\ lost \in BOOLEAN
PageTypes ==
  /\ snapshot \in Snapshot \cup {None} /\ shown \in Seq(Snapshot) /\ Neighbours(shown)
  /\ key \in OpenedAt \cup {None} /\ spoilt \in BOOLEAN /\ outdated \in BOOLEAN
RestTypes ==
  /\ owed \in BOOLEAN /\ asked \in Nat /\ answers \in Seq(Answer) /\ asked + Len(answers) <= MaxFills
  /\ \A i \in 1..Len(answers) : Numbered(answers[i].history)

TypeInv == NodeTypes /\ SocketTypes /\ PageTypes /\ RestTypes

-----------------------------------------------------------------------------
(* Sequences.                                                               *)

LEMMA FrontAppend ==
  ASSUME NEW S, NEW seq \in Seq(S), seq # <<>>, NEW e \in S
  PROVE  LET r == Append(Front(seq), e)
         IN /\ r \in Seq(S) /\ Len(r) = Len(seq) /\ r # <<>> /\ Last(r) = e /\ r[Len(seq)] = e
            /\ \A i \in 1..Len(seq) : i # Len(seq) => r[i] = seq[i]
<1>1. Len(seq) \in Nat \ {0}
  BY EmptySeq
<1> DEFINE m == Len(seq) - 1
           one == 1
           front == SubSeq(seq, one, m)
<1>2. Front(seq) = front /\ one \in Int /\ m \in Int /\ \A i \in one..m : seq[i] \in S
  BY <1>1, ElementOfSeq DEF Front
<1>3. m \in Nat /\ one = 1 /\ m - one + 1 = m /\ m + 1 = Len(seq) /\ (one <= m \/ m = 0)
  <2>1. \A k \in Nat \ {0} : k - 1 \in Nat /\ (k - 1) - 1 + 1 = k - 1 /\ (k - 1) + 1 = k /\ (1 <= k - 1 \/ k - 1 = 0)
    OBVIOUS
  <2>2. QED
    BY <1>1, <2>1
<1> HIDE DEF m, one
<1>4. /\ front \in Seq(S) /\ Len(front) = IF one <= m THEN m - one + 1 ELSE 0
      /\ \A i \in 1..(m - one + 1) : front[i] = seq[one + i - 1]
  BY <1>2, SubSeqProperties
<1>5. Len(front) = m /\ \A i \in 1..m : front[i] = seq[i]
  BY <1>3, <1>4
<1> HIDE DEF front
<1> DEFINE r == Append(front, e)
<1>6. /\ r \in Seq(S) /\ Len(r) = m + 1 /\ r[m + 1] = e /\ r # <<>>
      /\ \A i \in 1..m : r[i] = front[i]
  BY <1>4, <1>5, AppendProperties
<1> HIDE DEF r
<1>7. \A i \in 1..Len(seq) : i # Len(seq) => r[i] = seq[i]
  BY <1>1, <1>3, <1>5, <1>6
<1>8. QED
  BY <1>2, <1>3, <1>6, <1>7 DEF r, Last

LEMMA AppendLast ==
  ASSUME NEW S, NEW seq \in Seq(S), NEW e \in S
  PROVE  LET r == Append(seq, e)
         IN /\ r \in Seq(S) /\ Len(r) = Len(seq) + 1 /\ r # <<>> /\ Last(r) = e /\ r[Len(seq) + 1] = e
            /\ \A i \in 1..Len(seq) : r[i] = seq[i]
  BY AppendProperties, EmptySeq DEF Last

LEMMA LastIs ==
  ASSUME NEW S, NEW seq \in Seq(S), seq # <<>>
  PROVE  Last(seq) = seq[Len(seq)] /\ Len(seq) \in 1..Len(seq) /\ Last(seq) \in S
<1>1. Len(seq) \in 1..Len(seq)
  BY EmptySeq
<1>2. QED
  BY <1>1, ElementOfSeq DEF Last

\* Positions of what follows position i that is left out.
After(i, k) == IF k < i THEN k ELSE k + 1

LEMMA RemoveAtProperties ==
  ASSUME NEW S, NEW seq \in Seq(S), NEW i \in 1..Len(seq)
  PROVE  LET r == RemoveAt(seq, i)
         IN /\ r \in Seq(S) /\ Len(r) = Len(seq) - 1
            /\ \A k \in 1..Len(r) : After(i, k) \in 1..Len(seq) /\ r[k] = seq[After(i, k)]
<1> DEFINE n == Len(seq)
           one == 1
           a == SubSeq(seq, one, i - 1)
           c == SubSeq(seq, i + 1, n)
<1>1. n \in Nat /\ i \in Int /\ i >= 1 /\ i <= n /\ one = 1 /\ \A k \in 1..n : seq[k] \in S
  BY ElementOfSeq
<1>2. RemoveAt(seq, i) = a \o c
  BY DEF RemoveAt
<1>3. a \in Seq(S) /\ Len(a) = i - 1 /\ \A k \in 1..(i - 1) : a[k] = seq[k]
  <2>1. one \in Int /\ i - 1 \in Int /\ \A k \in one..(i - 1) : seq[k] \in S
    BY <1>1
  <2> HIDE DEF one
  <2>2. /\ a \in Seq(S) /\ Len(a) = IF one <= i - 1 THEN (i - 1) - one + 1 ELSE 0
        /\ \A k \in 1..((i - 1) - one + 1) : a[k] = seq[one + k - 1]
    BY <2>1, SubSeqProperties
  <2>3. QED
    BY <1>1, <2>2
<1>4. c \in Seq(S) /\ Len(c) = n - i /\ \A k \in 1..(n - i) : c[k] = seq[i + k]
  <2>1. i + 1 \in Int /\ n \in Int /\ \A k \in (i + 1)..n : seq[k] \in S
    BY <1>1
  <2>2. /\ c \in Seq(S) /\ Len(c) = IF i + 1 <= n THEN n - (i + 1) + 1 ELSE 0
        /\ \A k \in 1..(n - (i + 1) + 1) : c[k] = seq[(i + 1) + k - 1]
    BY <2>1, SubSeqProperties
  <2> HIDE DEF c, n
  <2>3. (IF i + 1 <= n THEN n - (i + 1) + 1 ELSE 0) = n - i /\ n - (i + 1) + 1 = n - i
    BY ONLY <1>1
  <2>4. ASSUME NEW k \in 1..(n - i) PROVE c[k] = seq[i + k]
    <3>1. (i + 1) + k - 1 = i + k
      BY ONLY <1>1, k \in 1..(n - i)
    <3>2. QED
      BY <2>2, <2>3, <3>1
  <2>5. QED
    BY <2>2, <2>3, <2>4
<1> HIDE DEF a, c, n, one
<1> DEFINE r == a \o c
<1>5. /\ r \in Seq(S) /\ Len(r) = Len(a) + Len(c)
      /\ \A k \in 1..(Len(a) + Len(c)) : r[k] = IF k <= Len(a) THEN a[k] ELSE c[k - Len(a)]
  <2>1. a \in Seq(S) /\ c \in Seq(S)
    BY <1>3, <1>4
  <2>2. QED
    BY ONLY <2>1, ConcatProperties
<1> HIDE DEF r
<1>6. Len(r) = n - 1
  BY <1>1, <1>3, <1>4, <1>5
<1>7. ASSUME NEW k \in 1..Len(r)
      PROVE  After(i, k) \in 1..n /\ r[k] = seq[After(i, k)]
  <2>1. CASE k < i
    <3>1. After(i, k) = k /\ k \in 1..n /\ k \in 1..(Len(a) + Len(c)) /\ k <= Len(a) /\ k \in 1..(i - 1)
      <4>1. After(i, k) = k
        BY <2>1 DEF After
      <4>2. k \in 1..(i - 1) /\ k <= n - 1
        BY <1>1, <1>6, <2>1
      <4>3. QED
        BY <1>1, <1>3, <1>5, <4>1, <4>2
    <3>2. r[k] = a[k]
      BY <1>5, <3>1
    <3>3. QED
      BY <1>3, <3>1, <3>2
  <2>2. CASE ~(k < i)
    <3>1. k - (i - 1) \in 1..(n - i) /\ i + (k - (i - 1)) = k + 1 /\ ~(k <= i - 1)
      BY <1>1, <1>6, <2>2
    <3>2. r[k] = c[k - (i - 1)]
      BY <1>1, <1>3, <1>4, <1>5, <1>6, <3>1
    <3>3. After(i, k) = k + 1
      BY <2>2 DEF After
    <3>4. c[k - (i - 1)] = seq[k + 1]
      BY <1>4, <3>1
    <3>5. k + 1 \in 1..n
      BY <1>1, <1>6
    <3>6. QED
      BY <3>2, <3>3, <3>4, <3>5
  <2>3. QED
    BY <2>1, <2>2
<1>8. QED
  BY <1>2, <1>5, <1>6, <1>7 DEF r, n

LEMMA TailIs ==
  ASSUME NEW S, NEW seq \in Seq(S), seq # <<>>
  PROVE  /\ Tail(seq) \in Seq(S) /\ Len(Tail(seq)) = Len(seq) - 1 /\ Len(seq) \in Nat \ {0}
         /\ \A i \in 1..Len(Tail(seq)) : Tail(seq)[i] = seq[i + 1]
         /\ Head(seq) = seq[1] /\ Head(seq) \in S
  BY HeadTailProperties, EmptySeq

LEMMA Constants ==
  /\ MaxTurns \in Nat /\ MaxParts \in Nat \ {0} /\ MaxFills \in Nat \ {0}
  /\ PipeMax \in Nat \ {0} /\ WireMax \in Nat \ {0}
  /\ None \notin Snapshot /\ None \notin OpenedAt
  BY DutMonitorAssumption

-----------------------------------------------------------------------------
(* Snapshots, events, answers.                                              *)

\* Snapshot s with part p.
WithPart(s, p) == [s EXCEPT !.parts = @ \cup {p}]

LEMMA SnapshotIs ==
  /\ \A s \in Snapshot : s.session \in Sessions /\ s.test \in Nat \ {0} /\ s.parts \in SUBSET (1..MaxParts)
  /\ \A n \in Sessions, t \in Nat \ {0}, ps \in SUBSET (1..MaxParts) :
       [session |-> n, test |-> t, parts |-> ps] \in Snapshot
  /\ \A s, t \in Snapshot : s.session = t.session /\ s.test = t.test /\ s.parts = t.parts => s = t
  BY DEF Snapshot

LEMMA WithPartIs ==
  ASSUME NEW s \in Snapshot, NEW p \in 1..MaxParts
  PROVE  /\ WithPart(s, p) \in Snapshot /\ WithPart(s, p).session = s.session
         /\ WithPart(s, p).test = s.test /\ WithPart(s, p).parts = s.parts \cup {p}
  BY DEF Snapshot, WithPart

LEMMA EventIs ==
  /\ \A s \in Snapshot : [type |-> "update", snapshot |-> s] \in Event
  /\ \A n \in Sessions, p \in 1..MaxParts : [type |-> "delta", session |-> n, part |-> p] \in Event
  /\ \A e \in Event : \/ e.type = "update" /\ e.snapshot \in Snapshot
                      \/ e.type = "delta" /\ e.part \in 1..MaxParts
  BY DEF Event

\* Overtake(n), of answers a.
OvertakeIn(a, n) == [i \in DOMAIN a |-> [a[i] EXCEPT !.overtaken = @ \/ i <= n]]

LEMMA OvertakeIs ==
  ASSUME NEW a \in Seq(Answer), NEW n \in Int
  PROVE  LET r == OvertakeIn(a, n)
         IN /\ r \in Seq(Answer) /\ Len(r) = Len(a)
            /\ \A i \in 1..Len(a) : /\ r[i].history = a[i].history
                                    /\ r[i].overtaken = (a[i].overtaken \/ i <= n)
<1> DEFINE r == OvertakeIn(a, n)
<1>1. Len(a) \in Nat /\ DOMAIN a = 1..Len(a) /\ \A i \in 1..Len(a) : a[i] \in Answer
  BY ElementOfSeq
<1>2. DOMAIN r = 1..Len(a) /\ \A i \in 1..Len(a) : r[i] = [a[i] EXCEPT !.overtaken = @ \/ i <= n]
  BY <1>1 DEF OvertakeIn
<1>3. r = [i \in 1..Len(a) |-> r[i]]
  BY <1>1 DEF OvertakeIn
<1> HIDE DEF r
<1>4. ASSUME NEW i \in 1..Len(a)
      PROVE  /\ r[i] \in Answer /\ r[i].history = a[i].history
             /\ r[i].overtaken = (a[i].overtaken \/ i <= n)
  <2>1. a[i] \in Answer /\ r[i] = [a[i] EXCEPT !.overtaken = @ \/ i <= n]
    BY <1>1, <1>2
  <2>2. (a[i].overtaken \/ i <= n) \in BOOLEAN
    OBVIOUS
  <2> DEFINE o == a[i].overtaken \/ i <= n
  <2>3. r[i] = [a[i] EXCEPT !.overtaken = o] /\ o \in BOOLEAN
    BY <2>1
  <2> HIDE DEF o
  <2>4. r[i] \in Answer /\ r[i].history = a[i].history /\ r[i].overtaken = o
    BY <2>1, <2>3 DEF Answer
  <2>5. QED
    BY <2>4 DEF o
<1>5. r \in [1..Len(a) -> Answer]
  BY <1>3, <1>4
<1>6. r \in Seq(Answer) /\ Len(r) = Len(a)
  BY <1>1, <1>5
<1>7. QED
  BY <1>4, <1>6 DEF r

LEMMA OvertakeIsIn == \A n : Overtake(n) = OvertakeIn(answers, n)
  BY DEF Overtake, OvertakeIn

(* What the board prints.                                                   *)
LEMMA PrintTestCase ==
  ASSUME TypeInv, PrintTest
  PROVE  LET s == [session |-> turns[1], test |-> Len(stored) + 1, parts |-> {1}]
         IN /\ s \in Snapshot /\ stored' = Append(stored, s)
            /\ pipe' = Append(pipe, [type |-> "update", snapshot |-> s])
            /\ [type |-> "update", snapshot |-> s] \in Event
            /\ UNCHANGED <<board, turns, port, openedAt, openings, socket, page, rest>>
<1>1. stored \in Seq(Snapshot) /\ turns[1] \in Sessions /\ Numbered(stored)
  BY DEF TypeInv, NodeTypes, OpenedAt
<1>2. NextTest = Len(stored) + 1
  <2>1. CASE stored = <<>>
    <3>1. Len(stored) = 0
      BY <2>1
    <3>2. QED
      BY <2>1, <3>1 DEF NextTest
  <2>2. CASE stored # <<>>
    BY <1>1, <2>2, LastIs DEF NextTest, Numbered
  <2>3. QED
    BY <2>1, <2>2
<1> DEFINE s == [session |-> turns[1], test |-> NextTest, parts |-> {1}]
<1>3. {1} \in SUBSET (1..MaxParts) /\ NextTest \in Nat \ {0}
  BY <1>1, <1>2, Constants
<1>4. s \in Snapshot
  BY <1>1, <1>3, SnapshotIs
<1>5. [type |-> "update", snapshot |-> s] \in Event
  BY <1>4, EventIs
<1>6. Emit(Append(stored, s), [type |-> "update", snapshot |-> s])
  BY DEF PrintTest
<1> HIDE DEF s
<1>7. /\ stored' = Append(stored, s) /\ pipe' = Append(pipe, [type |-> "update", snapshot |-> s])
      /\ UNCHANGED <<board, turns, port, openedAt, openings, socket, page, rest>>
  BY <1>6 DEF Emit
<1>8. QED
  BY <1>2, <1>4, <1>5, <1>7 DEF s

LEMMA PrintPartCase ==
  ASSUME TypeInv, PrintPart
  PROVE  /\ stored # <<>> /\ UNCHANGED <<board, turns, port, openedAt, openings, socket, page, rest>>
         /\ \E p \in 1..MaxParts, e \in Event :
              /\ e.type = "delta" /\ e.part = p /\ pipe' = Append(pipe, e)
              /\ stored' = Append(Front(stored), WithPart(Last(stored), p))
<1>1. stored # <<>> /\ stored \in Seq(Snapshot)
  BY DEF PrintPart, TypeInv, NodeTypes
<1>2. PICK p \in (1..MaxParts) \ Last(stored).parts :
        Emit(Append(Front(stored), [Last(stored) EXCEPT !.parts = @ \cup {p}]),
             [type |-> "delta", session |-> Last(stored).session, part |-> p])
  BY DEF PrintPart
<1> DEFINE e == [type |-> "delta", session |-> Last(stored).session, part |-> p]
<1>3. e \in Event /\ e.type = "delta" /\ e.part = p
  BY <1>1, LastIs, SnapshotIs, EventIs
<1>4. /\ pipe' = Append(pipe, e) /\ stored' = Append(Front(stored), WithPart(Last(stored), p))
      /\ UNCHANGED <<board, turns, port, openedAt, openings, socket, page, rest>>
  BY <1>2 DEF Emit, WithPart
<1> HIDE DEF e
<1>5. QED
  BY <1>1, <1>3, <1>4

-----------------------------------------------------------------------------
(* Types.                                                                   *)

LEMMA SocketSame == SocketTypes /\ UNCHANGED socket => SocketTypes'
  BY DEF SocketTypes, socket
LEMMA PageSame == PageTypes /\ UNCHANGED page => PageTypes'
  BY DEF PageTypes, Neighbours, page
LEMMA RestSame == RestTypes /\ UNCHANGED rest => RestTypes'
  BY DEF RestTypes, Numbered, rest
LEMMA NodeSame == NodeTypes /\ UNCHANGED node => NodeTypes'
  BY DEF NodeTypes, Numbered, node

LEMMA PrintTyped == TypeInv /\ (PrintTest \/ PrintPart) => TypeInv'
<1> SUFFICES ASSUME TypeInv, PrintTest \/ PrintPart PROVE TypeInv'
  OBVIOUS
<1>1. NodeTypes /\ SocketTypes /\ PageTypes /\ RestTypes
  BY DEF TypeInv
<1>2. /\ stored \in Seq(Snapshot) /\ pipe \in Seq(Event)
      /\ \A i \in 1..Len(stored) : stored[i].test = i /\ stored[i].session = turns[1]
      /\ Len(stored) \in Nat
  BY <1>1 DEF NodeTypes, Numbered
<1>3. UNCHANGED <<board, turns, port, openedAt, openings, socket, page, rest>>
  BY PrintTestCase, PrintPartCase
<1>4. /\ stored' \in Seq(Snapshot) /\ pipe' \in Seq(Event)
      /\ \A i \in 1..Len(stored') : stored'[i].test = i /\ stored'[i].session = turns[1]
  <2>1. CASE PrintTest
    <3> DEFINE s == [session |-> turns[1], test |-> Len(stored) + 1, parts |-> {1}]
    <3>1. /\ s \in Snapshot /\ stored' = Append(stored, s)
          /\ pipe' = Append(pipe, [type |-> "update", snapshot |-> s])
          /\ [type |-> "update", snapshot |-> s] \in Event
      BY <2>1, PrintTestCase
    <3>2. s.test = Len(stored) + 1 /\ s.session = turns[1]
      OBVIOUS
    <3> HIDE DEF s
    <3>3. /\ stored' \in Seq(Snapshot) /\ Len(stored') = Len(stored) + 1 /\ stored'[Len(stored) + 1] = s
          /\ \A i \in 1..Len(stored) : stored'[i] = stored[i]
      BY <1>2, <3>1, AppendProperties
    <3>4. pipe' \in Seq(Event)
      BY <1>2, <3>1, AppendProperties
    <3>5. QED
      BY <1>2, <3>2, <3>3, <3>4
  <2>2. CASE PrintPart
    <3>1. PICK p \in 1..MaxParts, e \in Event :
            /\ pipe' = Append(pipe, e) /\ stored' = Append(Front(stored), WithPart(Last(stored), p))
      BY <2>2, PrintPartCase
    <3>2. stored # <<>> /\ Last(stored) = stored[Len(stored)] /\ Len(stored) \in 1..Len(stored)
          /\ Last(stored) \in Snapshot
      BY <1>2, <2>2, PrintPartCase, LastIs
    <3> DEFINE s == WithPart(Last(stored), p)
    <3>3. s \in Snapshot /\ s.session = turns[1] /\ s.test = Len(stored)
      BY <1>2, <3>2, WithPartIs
    <3> HIDE DEF s
    <3>4. stored' = Append(Front(stored), s)
      BY <3>1 DEF s
    <3>5. /\ stored' \in Seq(Snapshot) /\ Len(stored') = Len(stored) /\ stored'[Len(stored)] = s
          /\ \A i \in 1..Len(stored) : i # Len(stored) => stored'[i] = stored[i]
      BY <1>2, <3>2, <3>3, <3>4, FrontAppend
    <3>6. pipe' \in Seq(Event)
      BY <1>2, <3>1, AppendProperties
    <3>7. QED
      BY <1>2, <3>3, <3>5, <3>6
  <2>3. QED
    BY <2>1, <2>2
<1>5. NodeTypes'
  BY <1>1, <1>3, <1>4 DEF NodeTypes, Numbered
<1>6. QED
  BY <1>1, <1>3, <1>5, SocketSame, PageSame, RestSame DEF TypeInv

\* A call that opens the port, of kind i.
LEMMA TurnIs ==
  ASSUME TypeInv, NEW i \in {1, 2}, NEW left \in {"released", "closed"}, Turn(i, left)
  PROVE  /\ turns' \in OpenedAt /\ port' \in {"open", "released", "closed"}
         /\ openedAt' \in OpenedAt \cup {None} /\ openings' = openings \cup {openedAt'}
         /\ turns'[1] = IF i = 1 THEN turns[1] + 1 ELSE turns[1]
         /\ turns'[2] = IF i = 1 THEN turns[2] ELSE turns[2] + 1
         /\ \/ openedAt' = turns' /\ port' = "open"
            \/ openedAt' \in {openedAt, None} /\ port' # "open"
<1> DEFINE a == turns[1]
           b == turns[2]
<1>1. /\ turns = <<a, b>> /\ a \in Nat /\ b \in Nat /\ Len(board) \in Nat /\ Len(board) <= MaxTurns + 1
      /\ openedAt \in OpenedAt \cup {None} /\ MaxTurns \in Nat
  <2>1. turns \in (0..MaxTurns) \X (0..MaxTurns)
    BY DEF TypeInv, NodeTypes, OpenedAt, Sessions
  <2>2. Len(board) \in 1..(MaxTurns + 1) /\ MaxTurns \in Nat
    BY DutMonitorAssumption DEF TypeInv, NodeTypes
  <2>3. openedAt \in OpenedAt \cup {None}
    BY DEF TypeInv, NodeTypes
  <2>4. QED
    BY <2>1, <2>2, <2>3
<1>2. /\ a + b + 1 < Len(board) /\ turns' = [turns EXCEPT ![i] = @ + 1] /\ openings' = openings \cup {openedAt'}
      /\ \/ openedAt' = turns' /\ port' = "open"
         \/ openedAt' \in {openedAt, None} /\ port' = left
  BY DEF Turn
<1> HIDE DEF a, b
<1>3. turns' = IF i = 1 THEN <<a + 1, b>> ELSE <<a, b + 1>>
  <2>1. CASE i = 1
    BY <1>1, <1>2, <2>1
  <2>2. CASE i = 2
    BY <1>1, <1>2, <2>2
  <2>3. QED
    BY <2>1, <2>2
<1>4. a + 1 \in 0..MaxTurns /\ b + 1 \in 0..MaxTurns /\ a \in 0..MaxTurns /\ b \in 0..MaxTurns
  BY <1>1, <1>2
<1>5. turns' \in OpenedAt
  BY <1>3, <1>4 DEF OpenedAt, Sessions
<1>6. turns'[1] = (IF i = 1 THEN a + 1 ELSE a) /\ turns'[2] = (IF i = 1 THEN b ELSE b + 1)
  BY <1>3
<1>7. QED
  BY <1>1, <1>2, <1>5, <1>6 DEF a, b

LEMMA OpenSessionIs ==
  ASSUME TypeInv, OpenSession
  PROVE  /\ Turn(1, "closed") /\ stored' = <<>> /\ outdated' = TRUE
         /\ turns' \in OpenedAt /\ turns'[1] = turns[1] + 1 /\ turns'[2] = turns[2]
         /\ UNCHANGED <<board, pipe, socket, snapshot, shown, key, spoilt, rest>>
<1>1. /\ Turn(1, "closed") /\ stored' = <<>> /\ outdated' = TRUE
      /\ UNCHANGED <<board, pipe, socket, snapshot, shown, key, spoilt, rest>>
  BY DEF OpenSession
<1>2. QED
  BY <1>1, TurnIs

LEMMA ResumeSessionIs ==
  ASSUME TypeInv, ResumeSession
  PROVE  /\ Turn(2, "released") /\ turns' \in OpenedAt /\ turns'[1] = turns[1] /\ turns'[2] = turns[2] + 1
         /\ UNCHANGED <<board, stored, pipe, socket, page, rest>>
<1>1. Turn(2, "released") /\ UNCHANGED <<board, stored, pipe, socket, page, rest>>
  BY DEF ResumeSession
<1>2. QED
  BY <1>1, TurnIs

LEMMA NodeTyped ==
  TypeInv /\ (OpenSession \/ ResumeSession \/ Broadcast \/ Lose) => TypeInv'
<1> SUFFICES ASSUME TypeInv, OpenSession \/ ResumeSession \/ Broadcast \/ Lose PROVE TypeInv'
  OBVIOUS
<1>1. NodeTypes /\ SocketTypes /\ PageTypes /\ RestTypes
  BY DEF TypeInv
<1>2. stored \in Seq(Snapshot) /\ pipe \in Seq(Event) /\ wire \in Seq(Event)
  BY <1>1 DEF NodeTypes, SocketTypes
<1>3. CASE OpenSession
  <2>1. stored' = <<>> /\ outdated' \in BOOLEAN /\ UNCHANGED <<board, pipe, socket, snapshot, shown, key, spoilt, rest>>
    BY <1>3, OpenSessionIs
  <2>2. /\ turns' \in OpenedAt /\ port' \in {"open", "released", "closed"}
        /\ openedAt' \in OpenedAt \cup {None} /\ openings' = openings \cup {openedAt'}
    BY <1>3, OpenSessionIs, TurnIs
  <2>3. Len(stored') = 0 /\ stored' \in Seq(Snapshot)
    BY <2>1
  <2>4. NodeTypes'
    BY <1>1, <2>1, <2>2, <2>3 DEF NodeTypes, Numbered
  <2>5. PageTypes'
    BY <1>1, <2>1 DEF PageTypes, Neighbours
  <2>6. QED
    BY <1>1, <2>1, <2>4, <2>5, SocketSame, RestSame DEF TypeInv
<1>4. CASE ResumeSession
  <2>1. turns'[1] = turns[1] /\ UNCHANGED <<board, stored, pipe, socket, page, rest>>
    BY <1>4, ResumeSessionIs
  <2>2. /\ turns' \in OpenedAt /\ port' \in {"open", "released", "closed"}
        /\ openedAt' \in OpenedAt \cup {None} /\ openings' = openings \cup {openedAt'}
    BY <1>4, ResumeSessionIs, TurnIs
  <2>3. NodeTypes'
    BY <1>1, <2>1, <2>2 DEF NodeTypes, Numbered
  <2>4. QED
    BY <1>1, <2>1, <2>3, SocketSame, PageSame, RestSame DEF TypeInv
<1>5. CASE Broadcast \/ Lose
  <2>1. /\ pipe # <<>> /\ pipe' = Tail(pipe)
        /\ UNCHANGED <<board, turns, port, openedAt, openings, stored, page, rest>>
        /\ UNCHANGED <<ws, timer, closedByCaller, base>>
        /\ wire' = wire \/ wire' = Append(wire, Head(pipe))
        /\ lost' = lost \/ lost' = (lost \/ ws = "open")
    BY <1>5 DEF Broadcast, Lose
  <2>2. pipe' \in Seq(Event) /\ Head(pipe) \in Event
    BY <1>2, <2>1, TailIs
  <2>3. wire' \in Seq(Event)
    <3>1. Append(wire, Head(pipe)) \in Seq(Event)
      BY <1>2, <2>2, AppendProperties
    <3>2. QED
      BY <1>2, <2>1, <3>1
  <2>4. lost' \in BOOLEAN
    BY <1>1, <2>1 DEF SocketTypes
  <2>5. NodeTypes' /\ SocketTypes'
    BY <1>1, <2>1, <2>2, <2>3, <2>4 DEF NodeTypes, SocketTypes, Numbered
  <2>6. QED
    BY <1>1, <2>1, <2>5, PageSame, RestSame DEF TypeInv
<1>6. QED
  BY <1>3, <1>4, <1>5

\* SetSerial(answer), when the key changes.
LEMMA SetSerialCase ==
  ASSUME NEW answer, SetSerial(answer)
  PROVE  \/ answer = key /\ UNCHANGED <<page, asked, answers, owed>>
         \/ /\ answer # key /\ key' = answer /\ spoilt' = FALSE /\ outdated' = FALSE
            /\ snapshot' = None /\ shown' = <<>>
            /\ asked + Len(answers) < MaxFills /\ asked' = asked + 1 /\ owed' = TRUE
            /\ answers' = OvertakeIn(answers, Len(answers))
  BY OvertakeIsIn DEF SetSerial, Forget, Ask

LEMMA OvertakeTyped ==
  ASSUME RestTypes, NEW n \in Int
  PROVE  /\ OvertakeIn(answers, n) \in Seq(Answer) /\ Len(OvertakeIn(answers, n)) = Len(answers)
         /\ \A i \in 1..Len(answers) : Numbered(OvertakeIn(answers, n)[i].history)
<1> DEFINE r == OvertakeIn(answers, n)
<1>1. answers \in Seq(Answer) /\ \A i \in 1..Len(answers) : Numbered(answers[i].history)
  BY DEF RestTypes
<1>2. /\ r \in Seq(Answer) /\ Len(r) = Len(answers)
      /\ \A i \in 1..Len(answers) : r[i].history = answers[i].history
  BY <1>1, OvertakeIs
<1> HIDE DEF r
<1>3. \A i \in 1..Len(answers) : Numbered(r[i].history)
  BY <1>1, <1>2
<1>4. QED
  BY <1>2, <1>3 DEF r

LEMMA SetSerialTyped ==
  ASSUME TypeInv, NEW answer \in OpenedAt \cup {None}, SetSerial(answer)
  PROVE  PageTypes' /\ asked' \in Nat /\ answers' \in Seq(Answer) /\ asked' + Len(answers') <= MaxFills
         /\ owed' \in BOOLEAN /\ \A i \in 1..Len(answers') : Numbered(answers'[i].history)
<1>1. PageTypes /\ RestTypes
  BY DEF TypeInv
<1>2. asked \in Nat /\ answers \in Seq(Answer) /\ Len(answers) \in Nat /\ MaxFills \in Nat
  BY <1>1, Constants DEF RestTypes
<1>3. CASE UNCHANGED <<page, asked, answers, owed>>
  BY <1>1, <1>3, PageSame DEF RestTypes, Numbered
<1>4. CASE /\ key' = answer /\ spoilt' = FALSE /\ outdated' = FALSE /\ snapshot' = None /\ shown' = <<>>
           /\ asked + Len(answers) < MaxFills /\ asked' = asked + 1 /\ owed' = TRUE
           /\ answers' = OvertakeIn(answers, Len(answers))
  <2>1. /\ answers' \in Seq(Answer) /\ Len(answers') = Len(answers)
        /\ \A i \in 1..Len(answers) : Numbered(answers'[i].history)
    BY <1>1, <1>2, <1>4, OvertakeTyped
  <2>2. asked' \in Nat /\ asked' + Len(answers') <= MaxFills
    BY <1>2, <1>4, <2>1
  <2>3. PageTypes'
    <3>1. Neighbours(shown')
      <4>1. Len(shown') = 0
        BY <1>4
      <4>2. QED
        BY <4>1 DEF Neighbours
    <3>2. spoilt' \in BOOLEAN /\ outdated' \in BOOLEAN
      BY <1>4
    <3>3. shown' = <<>> /\ <<>> \in Seq(Snapshot)
      BY <1>4
    <3>4. QED
      BY <1>4, <3>1, <3>2, <3>3 DEF PageTypes, Neighbours
  <2>4. owed' \in BOOLEAN
    BY <1>4
  <2>5. QED
    BY <2>1, <2>2, <2>3, <2>4
<1>5. QED
  BY <1>3, <1>4, SetSerialCase

LEMMA PollTyped ==
  TypeInv /\ (PollArrives \/ PollFails \/ FillAnswered \/ FillFails) => TypeInv'
<1> SUFFICES ASSUME TypeInv, PollArrives \/ PollFails \/ FillAnswered \/ FillFails PROVE TypeInv'
  OBVIOUS
<1>1. NodeTypes /\ SocketTypes /\ PageTypes /\ RestTypes
  BY DEF TypeInv
<1>2. NodeTypes' /\ SocketTypes'
  BY <1>1, NodeSame, SocketSame DEF PollArrives, PollFails, FillAnswered, FillFails
<1>3. openings \subseteq OpenedAt \cup {None}
  BY <1>1 DEF NodeTypes
<1>4. CASE PollArrives \/ PollFails
  <2>1. PICK answer \in OpenedAt \cup {None} : SetSerial(answer)
    BY <1>3, <1>4 DEF PollArrives, PollFails
  <2>2. /\ PageTypes' /\ asked' \in Nat /\ answers' \in Seq(Answer) /\ asked' + Len(answers') <= MaxFills
        /\ owed' \in BOOLEAN /\ \A i \in 1..Len(answers') : Numbered(answers'[i].history)
    BY <2>1, SetSerialTyped
  <2>3. RestTypes'
    BY <2>2 DEF RestTypes, Numbered
  <2>4. QED
    BY <1>2, <2>2, <2>3 DEF TypeInv
<1>5. CASE FillFails
  <2>1. asked > 0 /\ asked' = asked - 1 /\ UNCHANGED <<page, answers, owed>>
    BY <1>5 DEF FillFails
  <2>2. asked \in Nat /\ Len(answers) \in Nat /\ asked + Len(answers) <= MaxFills /\ MaxFills \in Nat
    BY <1>1, Constants DEF RestTypes
  <2>3. asked' \in Nat /\ asked' + Len(answers) <= MaxFills
    BY <2>1, <2>2
  <2>4. RestTypes'
    BY <1>1, <2>1, <2>3 DEF RestTypes, Numbered
  <2>5. QED
    BY <1>1, <1>2, <2>1, <2>4, PageSame DEF TypeInv
<1>6. CASE FillAnswered
  <2> DEFINE new == [history |-> stored, overtaken |-> FALSE]
  <2>1. /\ asked > 0 /\ asked' = asked - 1 /\ answers' = Append(answers, new) /\ owed' = FALSE
        /\ UNCHANGED page
    BY <1>6 DEF FillAnswered
  <2>2. new \in Answer /\ new.history = stored /\ Numbered(stored)
    BY <1>1 DEF NodeTypes, Answer
  <2> HIDE DEF new
  <2>3. asked \in Nat /\ answers \in Seq(Answer) /\ asked + Len(answers) <= MaxFills /\ Len(answers) \in Nat
        /\ MaxFills \in Nat
    BY <1>1, Constants DEF RestTypes
  <2>4. /\ answers' \in Seq(Answer) /\ Len(answers') = Len(answers) + 1 /\ answers'[Len(answers) + 1] = new
        /\ \A i \in 1..Len(answers) : answers'[i] = answers[i]
    BY <2>1, <2>2, <2>3, AppendProperties
  <2>5. asked' \in Nat /\ asked' + Len(answers') <= MaxFills
    BY <2>1, <2>3, <2>4
  <2>6. ASSUME NEW i \in 1..Len(answers') PROVE Numbered(answers'[i].history)
    BY <1>1, <2>2, <2>3, <2>4 DEF RestTypes
  <2>7. RestTypes'
    BY <1>1, <2>1, <2>4, <2>5, <2>6 DEF RestTypes, Numbered
  <2>8. QED
    BY <1>1, <1>2, <2>1, <2>7, PageSame DEF TypeInv
<1>7. QED
  BY <1>4, <1>5, <1>6

(* The answers that are left when answer i has arrived.                     *)
LEMMA ArrivedIs ==
  ASSUME NEW a \in Seq(Answer), NEW i \in 1..Len(a)
  PROVE  LET r == RemoveAt(OvertakeIn(a, i), i)
         IN /\ r \in Seq(Answer) /\ Len(r) = Len(a) - 1
            /\ \A k \in 1..Len(r) :
                 IF k < i THEN r[k].history = a[k].history /\ r[k].overtaken = TRUE
                 ELSE r[k].history = a[k + 1].history /\ r[k].overtaken = a[k + 1].overtaken
<1> DEFINE o == OvertakeIn(a, i)
           r == RemoveAt(o, i)
<1>1. i \in Int /\ Len(a) \in Nat /\ \A k \in 1..Len(a) : a[k].overtaken \in BOOLEAN
  <2>1. \A k \in 1..Len(a) : a[k] \in Answer
    BY ElementOfSeq
  <2>2. \A x \in Answer : x.overtaken \in BOOLEAN
    BY DEF Answer
  <2>3. QED
    BY <2>1, <2>2
<1>2. /\ o \in Seq(Answer) /\ Len(o) = Len(a)
      /\ \A k \in 1..Len(a) : o[k].history = a[k].history /\ o[k].overtaken = (a[k].overtaken \/ k <= i)
  BY <1>1, OvertakeIs
<1> HIDE DEF o
<1>3. /\ r \in Seq(Answer) /\ Len(r) = Len(o) - 1
      /\ \A k \in 1..Len(r) : After(i, k) \in 1..Len(o) /\ r[k] = o[After(i, k)]
  BY <1>2, RemoveAtProperties
<1> HIDE DEF r
<1>4. ASSUME NEW k \in 1..Len(r), k < i PROVE r[k].history = a[k].history /\ r[k].overtaken = TRUE
  <2>1. After(i, k) = k /\ k \in 1..Len(a) /\ r[k] = o[k] /\ k <= i
    BY <1>1, <1>2, <1>3, <1>4 DEF After
  <2>2. o[k].overtaken = (a[k].overtaken \/ k <= i) /\ o[k].history = a[k].history
    BY <1>2, <2>1
  <2>3. QED
    BY <2>1, <2>2
<1>5. ASSUME NEW k \in 1..Len(r), ~(k < i)
      PROVE  r[k].history = a[k + 1].history /\ r[k].overtaken = a[k + 1].overtaken
  <2>1. After(i, k) = k + 1 /\ k + 1 \in 1..Len(a) /\ r[k] = o[k + 1] /\ ~(k + 1 <= i)
    BY <1>1, <1>2, <1>3, <1>5 DEF After
  <2>2. o[k + 1].overtaken = (a[k + 1].overtaken \/ k + 1 <= i) /\ o[k + 1].history = a[k + 1].history
    BY <1>2, <2>1
  <2>3. a[k + 1].overtaken \in BOOLEAN
    BY <1>1, <2>1
  <2>4. QED
    BY <2>1, <2>2, <2>3
<1>6. QED
  BY <1>2, <1>3, <1>4, <1>5 DEF r, o

LEMMA FillArrivesCase ==
  ASSUME TypeInv, FillArrives
  PROVE  /\ UNCHANGED <<node, socket, asked, owed>>
         /\ \E i \in 1..Len(answers) :
              /\ answers' = RemoveAt(OvertakeIn(answers, i), i)
              /\ answers[i].history \in Seq(Snapshot) /\ Numbered(answers[i].history)
              /\ \/ answers[i].history = <<>> /\ UNCHANGED page
                 \/ /\ answers[i].history # <<>> /\ shown' = answers[i].history
                    /\ snapshot' = SnapshotAfterFill(answers[i].history)
                    /\ spoilt' = (spoilt \/ answers[i].overtaken) /\ UNCHANGED <<key, outdated>>
<1>1. answers \in Seq(Answer) /\ DOMAIN answers = 1..Len(answers)
  BY DEF TypeInv, RestTypes
<1>2. PICK i \in 1..Len(answers) :
        LET h == answers[i].history
        IN /\ answers' = RemoveAt(Overtake(i), i)
           /\ IF h = <<>> THEN UNCHANGED page
              ELSE /\ shown' = h /\ snapshot' = SnapshotAfterFill(h)
                   /\ spoilt' = (spoilt \/ answers[i].overtaken) /\ UNCHANGED <<key, outdated>>
  BY <1>1 DEF FillArrives
<1>3. answers[i].history \in Seq(Snapshot) /\ Numbered(answers[i].history)
  <2>1. answers[i] \in Answer
    BY <1>1, ElementOfSeq
  <2>2. QED
    BY <2>1 DEF Answer, TypeInv, RestTypes
<1>4. answers' = RemoveAt(OvertakeIn(answers, i), i)
  BY <1>2, OvertakeIsIn
<1>5. UNCHANGED <<node, socket, asked, owed>>
  BY DEF FillArrives
<1>6. QED
  BY <1>2, <1>3, <1>4, <1>5

LEMMA FillArrivesTyped == TypeInv /\ FillArrives => TypeInv'
<1> SUFFICES ASSUME TypeInv, FillArrives PROVE TypeInv'
  OBVIOUS
<1>1. NodeTypes /\ SocketTypes /\ PageTypes /\ RestTypes
  BY DEF TypeInv
<1>2. UNCHANGED <<node, socket, asked, owed>>
  BY FillArrivesCase
<1>3. PICK i \in 1..Len(answers) :
        /\ answers' = RemoveAt(OvertakeIn(answers, i), i)
        /\ answers[i].history \in Seq(Snapshot) /\ Numbered(answers[i].history)
        /\ \/ answers[i].history = <<>> /\ UNCHANGED page
           \/ /\ answers[i].history # <<>> /\ shown' = answers[i].history
              /\ snapshot' = SnapshotAfterFill(answers[i].history)
              /\ spoilt' = (spoilt \/ answers[i].overtaken) /\ UNCHANGED <<key, outdated>>
  BY FillArrivesCase
<1>4. answers \in Seq(Answer) /\ Len(answers) \in Nat /\ asked \in Nat /\ MaxFills \in Nat
      /\ asked + Len(answers) <= MaxFills /\ \A k \in 1..Len(answers) : Numbered(answers[k].history)
  BY <1>1, Constants DEF RestTypes
<1>5. RestTypes'
  <2>1. /\ answers' \in Seq(Answer) /\ Len(answers') = Len(answers) - 1
        /\ \A k \in 1..Len(answers') :
             IF k < i THEN answers'[k].history = answers[k].history
             ELSE answers'[k].history = answers[k + 1].history
    BY <1>3, <1>4, ArrivedIs
  <2>2. \A k \in 1..Len(answers') : k \in 1..Len(answers) /\ k + 1 \in 1..Len(answers)
    BY <1>4, <2>1
  <2>3. \A k \in 1..Len(answers') : Numbered(answers'[k].history)
    BY <1>4, <2>1, <2>2
  <2>4. asked' + Len(answers') <= MaxFills
    BY <1>2, <1>4, <2>1
  <2>5. QED
    BY <1>1, <1>2, <2>1, <2>3, <2>4 DEF RestTypes, Numbered
<1>6. PageTypes'
  <2>1. CASE UNCHANGED page
    BY <1>1, <2>1, PageSame
  <2>2. CASE /\ answers[i].history # <<>> /\ shown' = answers[i].history
             /\ snapshot' = SnapshotAfterFill(answers[i].history)
             /\ spoilt' = (spoilt \/ answers[i].overtaken) /\ UNCHANGED <<key, outdated>>
    <3> DEFINE h == answers[i].history
    <3>1. h \in Seq(Snapshot) /\ h # <<>> /\ Numbered(h) /\ shown' = h /\ snapshot' = SnapshotAfterFill(h)
      BY <1>3, <2>2
    <3> HIDE DEF h
    <3>2. snapshot' \in Snapshot \cup {None}
      BY <1>1, <3>1, LastIs DEF SnapshotAfterFill, PageTypes
    <3>3. \A k \in 1..(Len(h) - 1) : h[k].test # h[k + 1].test
      <4>1. Len(h) \in Nat
        BY <3>1
      <4>2. \A k \in 1..(Len(h) - 1) : k \in 1..Len(h) /\ k + 1 \in 1..Len(h) /\ k # k + 1
        BY <4>1
      <4>3. QED
        BY <3>1, <4>2 DEF Numbered
    <3>4. spoilt' \in BOOLEAN
      BY <2>2
    <3>5. QED
      BY <1>1, <2>2, <3>1, <3>2, <3>3, <3>4 DEF PageTypes, Neighbours
  <2>3. QED
    BY <1>3, <2>1, <2>2
<1>7. QED
  BY <1>1, <1>2, <1>5, <1>6, NodeSame, SocketSame DEF TypeInv

\* The snapshot that the socket passes on for event e, with base b.
Taken(b, e) == IF e.type = "update" THEN e.snapshot ELSE WithPart(b, e.part)

\* upsertSnapshot() in history x.
UpsertIn(x, s) == IF x # <<>> /\ Last(x).test = s.test THEN Append(Front(x), s) ELSE Append(x, s)

LEMMA UpsertIs ==
  ASSUME NEW x \in Seq(Snapshot), NEW s \in Snapshot
  PROVE  LET r == UpsertIn(x, s)
         IN /\ r \in Seq(Snapshot) /\ r # <<>> /\ Last(r) = s /\ (Neighbours(x) => Neighbours(r))
            /\ IF x # <<>> /\ Last(x).test = s.test
               THEN Len(r) = Len(x) /\ \A i \in 1..Len(x) : i # Len(x) => r[i] = x[i]
               ELSE Len(r) = Len(x) + 1 /\ \A i \in 1..Len(x) : r[i] = x[i]
<1> DEFINE r == UpsertIn(x, s)
<1>1. Len(x) \in Nat /\ (x # <<>> => Len(x) # 0 /\ Last(x) = x[Len(x)])
  BY EmptySeq DEF Last
<1>2. CASE x # <<>> /\ Last(x).test = s.test
  <2>1. r = Append(Front(x), s)
    BY <1>2 DEF UpsertIn
  <2>2. /\ r \in Seq(Snapshot) /\ Len(r) = Len(x) /\ r # <<>> /\ Last(r) = s /\ r[Len(x)] = s
        /\ \A i \in 1..Len(x) : i # Len(x) => r[i] = x[i]
    BY <1>2, <2>1, FrontAppend
  <2>3. ASSUME Neighbours(x), NEW i \in 1..(Len(r) - 1) PROVE r[i].test # r[i + 1].test
    <3>1. x[i].test # x[i + 1].test /\ i \in 1..Len(x) /\ i + 1 \in 1..Len(x) /\ i # Len(x)
      BY <1>1, <2>2, <2>3 DEF Neighbours
    <3>2. CASE i + 1 = Len(x)
      BY <1>1, <1>2, <2>2, <3>1, <3>2
    <3>3. CASE i + 1 # Len(x)
      BY <2>2, <3>1, <3>3
    <3>4. QED
      BY <3>2, <3>3
  <2>4. QED
    BY <1>2, <2>2, <2>3 DEF Neighbours
<1>3. CASE ~(x # <<>> /\ Last(x).test = s.test)
  <2>1. r = Append(x, s)
    BY <1>3 DEF UpsertIn
  <2>2. /\ r \in Seq(Snapshot) /\ Len(r) = Len(x) + 1 /\ r # <<>> /\ Last(r) = s /\ r[Len(x) + 1] = s
        /\ \A i \in 1..Len(x) : r[i] = x[i]
    BY <2>1, AppendLast
  <2>3. ASSUME Neighbours(x), NEW i \in 1..(Len(r) - 1) PROVE r[i].test # r[i + 1].test
    <3>1. i \in 1..Len(x)
      BY <1>1, <2>2
    <3>2. CASE i = Len(x)
      <4>1. x # <<>>
        BY <1>1, <3>1, <3>2, EmptySeq
      <4>2. QED
        BY <1>1, <1>3, <2>2, <3>1, <3>2, <4>1
    <3>3. CASE i # Len(x)
      <4>1. i \in 1..(Len(x) - 1) /\ i + 1 \in 1..Len(x)
        BY <1>1, <3>1, <3>3
      <4>2. QED
        BY <2>2, <2>3, <3>1, <4>1 DEF Neighbours
    <3>4. QED
      BY <3>2, <3>3
  <2>4. QED
    BY <1>3, <2>2, <2>3 DEF Neighbours
<1>4. QED
  BY <1>2, <1>3

LEMMA ReceiveCase ==
  ASSUME TypeInv, Receive
  PROVE  /\ ws = "open" /\ wire # <<>> /\ wire' = Tail(wire) /\ Head(wire) \in Event
         /\ UNCHANGED <<node, ws, timer, closedByCaller, lost, asked, owed>>
         /\ key' = key /\ outdated' = outdated
         /\ \/ Head(wire).type = "delta" /\ base = None /\ UNCHANGED <<base, page, answers>>
            \/ /\ Head(wire).type = "update" \/ base # None
               /\ Taken(base, Head(wire)) \in Snapshot
               /\ base' = Taken(base, Head(wire)) /\ snapshot' = Taken(base, Head(wire))
               /\ shown' = UpsertIn(shown, Taken(base, Head(wire)))
               /\ spoilt' = (spoilt \/ Older(Taken(base, Head(wire))))
               /\ answers' = OvertakeIn(answers, Len(answers))
<1> DEFINE e == Head(wire)
<1>1. wire \in Seq(Event) /\ base \in Snapshot \cup {None}
  BY DEF TypeInv, SocketTypes
<1>2. ws = "open" /\ wire # <<>> /\ wire' = Tail(wire)
      /\ UNCHANGED <<node, ws, timer, closedByCaller, lost, asked, owed>>
  BY DEF Receive
<1>3. e \in Event
  BY <1>1, <1>2, TailIs
<1>4. CASE e.type = "delta" /\ base = None
  <2>1. UNCHANGED <<base, page, answers>>
    BY <1>4 DEF Receive
  <2>2. QED
    BY <1>2, <1>3, <1>4, <2>1 DEF page
<1>5. CASE ~(e.type = "delta" /\ base = None)
  <2>1. LET s == IF e.type = "update" THEN e.snapshot ELSE [base EXCEPT !.parts = @ \cup {e.part}]
        IN /\ base' = s /\ snapshot' = s /\ shown' = Upsert(s)
           /\ spoilt' = (spoilt \/ Older(s)) /\ answers' = Overtake(Len(answers))
           /\ UNCHANGED <<key, outdated>>
    BY <1>5 DEF Receive
  <2>2. (IF e.type = "update" THEN e.snapshot ELSE [base EXCEPT !.parts = @ \cup {e.part}]) = Taken(base, e)
    BY DEF Taken, WithPart
  <2>3. \A s : Upsert(s) = UpsertIn(shown, s)
    BY DEF Upsert, UpsertIn
  <2>4. Taken(base, e) \in Snapshot
    BY <1>1, <1>3, <1>5, EventIs, WithPartIs DEF Taken
  <2>5. e.type = "update" \/ base # None
    BY <1>3, <1>5, EventIs
  <2> HIDE DEF e
  <2>6. QED
    BY <1>2, <1>3, <2>1, <2>2, <2>3, <2>4, <2>5, OvertakeIsIn DEF e
<1>6. QED
  BY <1>4, <1>5

LEMMA ReceiveTyped == TypeInv /\ Receive => TypeInv'
<1> SUFFICES ASSUME TypeInv, Receive PROVE TypeInv'
  OBVIOUS
<1>1. NodeTypes /\ SocketTypes /\ PageTypes /\ RestTypes
  BY DEF TypeInv
<1> DEFINE s == Taken(base, Head(wire))
<1>2. /\ wire # <<>> /\ wire' = Tail(wire)
      /\ UNCHANGED <<node, ws, timer, closedByCaller, lost, asked, owed>>
         /\ key' = key /\ outdated' = outdated
      /\ \/ UNCHANGED <<base, page, answers>>
         \/ /\ s \in Snapshot /\ base' = s /\ snapshot' = s /\ shown' = UpsertIn(shown, s)
            /\ spoilt' = (spoilt \/ Older(s)) /\ answers' = OvertakeIn(answers, Len(answers))
  BY ReceiveCase
<1> HIDE DEF s
<1>3. wire' \in Seq(Event)
  BY <1>1, <1>2, TailIs DEF SocketTypes
<1>4. SocketTypes'
  BY <1>1, <1>2, <1>3 DEF SocketTypes
<1>5. CASE UNCHANGED <<base, page, answers>>
  <2>1. RestTypes'
    BY <1>1, <1>2, <1>5 DEF RestTypes, Numbered
  <2>2. QED
    BY <1>1, <1>2, <1>4, <1>5, <2>1, NodeSame, PageSame DEF TypeInv
<1>6. CASE /\ s \in Snapshot /\ snapshot' = s /\ shown' = UpsertIn(shown, s)
           /\ spoilt' = (spoilt \/ Older(s)) /\ answers' = OvertakeIn(answers, Len(answers))
  <2>1. shown \in Seq(Snapshot) /\ Neighbours(shown) /\ spoilt \in BOOLEAN
    BY <1>1 DEF PageTypes
  <2>2. shown' \in Seq(Snapshot) /\ Neighbours(UpsertIn(shown, s))
    BY <1>6, <2>1, UpsertIs
  <2>3. spoilt' \in BOOLEAN
    BY <1>6
  <2>4. PageTypes'
    BY <1>1, <1>2, <1>6, <2>2, <2>3 DEF PageTypes, Neighbours
  <2>5. /\ answers' \in Seq(Answer) /\ Len(answers') = Len(answers) /\ answers \in Seq(Answer)
        /\ \A i \in 1..Len(answers) : Numbered(answers'[i].history)
    BY <1>1, <1>6, OvertakeTyped DEF RestTypes
  <2>6. RestTypes'
    BY <1>1, <1>2, <2>5 DEF RestTypes, Numbered
  <2>7. QED
    BY <1>1, <1>2, <1>4, <2>4, <2>6, NodeSame DEF TypeInv
<1>7. QED
  BY <1>2, <1>5, <1>6

\* A socket opens: what is sent first.
Replay(st) == IF st = <<>> THEN <<>> ELSE <<[type |-> "update", snapshot |-> Last(st)]>>

LEMMA ReplayTyped == \A st \in Seq(Snapshot) : Replay(st) \in Seq(Event)
<1> SUFFICES ASSUME NEW st \in Seq(Snapshot) PROVE Replay(st) \in Seq(Event)
  OBVIOUS
<1>1. CASE st = <<>>
  BY <1>1 DEF Replay
<1>2. CASE st # <<>>
  <2> DEFINE e == [type |-> "update", snapshot |-> Last(st)]
  <2>1. e \in Event
    BY <1>2, LastIs, EventIs
  <2>2. Replay(st) = <<e>>
    BY <1>2 DEF Replay
  <2> HIDE DEF e
  <2>3. QED
    BY <2>1, <2>2
<1>3. QED
  BY <1>1, <1>2

LEMMA SocketTyped == TypeInv /\ (Opens \/ Closes \/ Retry \/ Leave) => TypeInv'
<1> SUFFICES ASSUME TypeInv, Opens \/ Closes \/ Retry \/ Leave PROVE TypeInv'
  OBVIOUS
<1>1. NodeTypes /\ SocketTypes /\ PageTypes /\ RestTypes
  BY DEF TypeInv
<1>2. CASE Opens
  <2>1. /\ ws' = "open" /\ wire' = Replay(stored) /\ asked + Len(answers) < MaxFills /\ asked' = asked + 1
        /\ owed' = TRUE /\ UNCHANGED <<node, timer, closedByCaller, base, lost, page, answers>>
    BY <1>2 DEF Opens, Ask, Replay
  <2>2. wire' \in Seq(Event)
    BY <1>1, <2>1, ReplayTyped DEF NodeTypes
  <2>3. SocketTypes'
    BY <1>1, <2>1, <2>2 DEF SocketTypes
  <2>4. asked \in Nat /\ Len(answers) \in Nat /\ MaxFills \in Nat
    BY <1>1, Constants DEF RestTypes
  <2>5. asked' \in Nat /\ asked' + Len(answers') <= MaxFills
    BY <2>1, <2>4
  <2>6. RestTypes'
    BY <1>1, <2>1, <2>5 DEF RestTypes, Numbered
  <2>7. QED
    BY <1>1, <2>1, <2>3, <2>6, NodeSame, PageSame DEF TypeInv
<1>3. CASE Closes
  <2>1. /\ ws' = "closed" /\ wire' = <<>> /\ base' = None /\ lost' = FALSE /\ timer' = MayRetry
        /\ UNCHANGED <<node, closedByCaller, page, rest>>
    BY <1>3 DEF Closes
  <2>2. timer' \in BOOLEAN
    BY <2>1 DEF MayRetry
  <2>3. lost' \in BOOLEAN
    BY <2>1
  <2>4. wire' \in Seq(Event)
    BY <2>1
  <2>5. SocketTypes'
    BY <1>1, <2>1, <2>2, <2>3, <2>4 DEF SocketTypes
  <2>6. QED
    BY <1>1, <2>1, <2>5, NodeSame, PageSame, RestSame DEF TypeInv
<1>4. CASE Retry
  <2>1. /\ timer' = FALSE /\ ws' = "connecting"
        /\ UNCHANGED <<node, wire, closedByCaller, base, lost, page, rest>>
    BY <1>4 DEF Retry
  <2>2. timer' \in BOOLEAN
    BY <2>1
  <2>3. SocketTypes'
    BY <1>1, <2>1, <2>2 DEF SocketTypes
  <2>4. QED
    BY <1>1, <2>1, <2>3, NodeSame, PageSame, RestSame DEF TypeInv
<1>5. CASE Leave
  <2>1. /\ closedByCaller' = TRUE /\ timer' = FALSE /\ ws' = IF ws = "closed" THEN ws ELSE "closing"
        /\ wire' = <<>> /\ base' = None /\ lost' = FALSE
        /\ snapshot' = None /\ shown' = <<>> /\ key' = None /\ spoilt' = FALSE /\ outdated' = FALSE
        /\ asked' = 0 /\ answers' = <<>> /\ owed' = TRUE /\ UNCHANGED node
    BY <1>5 DEF Leave, Forget
  <2>2. timer' \in BOOLEAN /\ closedByCaller' \in BOOLEAN
    BY <2>1
  <2>3. lost' \in BOOLEAN /\ spoilt' \in BOOLEAN /\ outdated' \in BOOLEAN /\ owed' \in BOOLEAN
    BY <2>1
  <2>4. wire' \in Seq(Event) /\ shown' \in Seq(Snapshot) /\ answers' \in Seq(Answer)
    BY <2>1
  <2>5. Len(shown') = 0 /\ Len(answers') = 0 /\ asked' + Len(answers') <= MaxFills
    <3>1. shown' = <<>> /\ answers' = <<>> /\ Len(<<>>) = 0
      BY <2>1
    <3>2. Len(shown') = 0 /\ Len(answers') = 0
      BY <3>1
    <3>3. QED
      BY <2>1, <3>2, Constants
  <2>6. SocketTypes'
    BY <1>1, <2>1, <2>2, <2>3, <2>4 DEF SocketTypes
  <2>7. PageTypes'
    BY <2>1, <2>3, <2>4, <2>5 DEF PageTypes, Neighbours
  <2>8. RestTypes'
    BY <1>1, <2>1, <2>3, <2>4, <2>5 DEF RestTypes
  <2>9. QED
    BY <1>1, <2>1, <2>6, <2>7, <2>8, NodeSame DEF TypeInv
<1>6. QED
  BY <1>2, <1>3, <1>4, <1>5

LEMMA InitTyped == Init => TypeInv
<1> SUFFICES ASSUME Init PROVE TypeInv
  OBVIOUS
<1>1. Len(<<>>) = 0
  OBVIOUS
<1>2. turns = <<0, 0>> /\ openedAt = turns /\ openings = {openedAt} /\ 0 \in Sessions /\ 0 \in 0..MaxTurns
  BY Constants DEF Init, Sessions
<1>3. turns \in OpenedAt
  BY <1>2 DEF OpenedAt
<1>4. stored = <<>> /\ pipe = <<>> /\ Len(stored) = 0 /\ board \in Boards /\ port = "open"
  BY DEF Init
<1>5. NodeTypes
  BY <1>2, <1>3, <1>4 DEF NodeTypes, Numbered
<1>6. /\ timer \in BOOLEAN /\ closedByCaller \in BOOLEAN /\ lost \in BOOLEAN /\ spoilt \in BOOLEAN
      /\ outdated \in BOOLEAN /\ owed \in BOOLEAN
  BY DEF Init
<1>7. wire \in Seq(Event) /\ shown \in Seq(Snapshot) /\ answers \in Seq(Answer)
  BY DEF Init
<1>8. Len(shown) = 0 /\ Len(answers) = 0
  BY DEF Init
<1>9. SocketTypes
  BY <1>6, <1>7 DEF Init, SocketTypes
<1>10. PageTypes
  BY <1>6, <1>7, <1>8 DEF Init, PageTypes, Neighbours
<1>11. RestTypes
  BY <1>6, <1>7, <1>8, Constants DEF Init, RestTypes
<1>12. QED
  BY <1>5, <1>9, <1>10, <1>11 DEF TypeInv

LEMMA StepTyped == TypeInv /\ [Next]_vars => TypeInv'
<1> SUFFICES ASSUME TypeInv, [Next]_vars PROVE TypeInv'
  OBVIOUS
<1>1. CASE UNCHANGED vars
  BY <1>1, NodeSame, SocketSame, PageSame, RestSame DEF vars, TypeInv
<1>2. QED
  BY <1>1, PrintTyped, NodeTyped, PollTyped, FillArrivesTyped, ReceiveTyped, SocketTyped DEF Next

(* Every variable keeps to its type, no chart has two entries of one test  *)
(* side by side (upsertSnapshot()), and requests keep to their bound.      *)
THEOREM MonitorTyped == Spec => []TypeOK
<1>1. ASSUME TypeInv PROVE TypeOK
  <2>1. NodeTypes /\ SocketTypes /\ PageTypes /\ RestTypes
    BY <1>1 DEF TypeInv
  <2>2. \A i \in DOMAIN answers : answers[i].history \in Seq(Snapshot)
    <3>1. answers \in Seq(Answer)
      BY <2>1 DEF RestTypes
    <3>2. \A i \in DOMAIN answers : answers[i] \in Answer
      BY <3>1, ElementOfSeq
    <3>3. QED
      BY <3>2 DEF Answer
  <2>3. asked \in Nat /\ asked + Len(answers) <= MaxFills
    BY <2>1 DEF RestTypes
  <2>4. timer \in BOOLEAN /\ closedByCaller \in BOOLEAN /\ {lost, spoilt, owed, outdated} \subseteq BOOLEAN
    BY <2>1 DEF SocketTypes, PageTypes, RestTypes
  <2>5. QED
    BY <2>1, <2>2, <2>3, <2>4 DEF TypeOK, NodeTypes, SocketTypes, PageTypes, RestTypes, Neighbours
<1>2. QED
  BY <1>1, InitTyped, StepTyped, PTL DEF Spec

(* Until the caller closes it there is a socket or a timer for the next,   *)
(* never both and never neither, whatever fails when (open(), onclose() and *)
(* close() of connectNodeWebSocket()).                                     *)
THEOREM OneConnection == Spec => []OneSocket
<1>1. Init => OneSocket
  BY DEF Init, OneSocket
<1>2. TypeInv /\ OneSocket /\ [Next]_vars => OneSocket'
  <2> SUFFICES ASSUME TypeInv, OneSocket, [Next]_vars PROVE OneSocket'
    OBVIOUS
  <2>1. CASE UNCHANGED <<ws, timer, closedByCaller>>
    BY <2>1 DEF OneSocket
  <2>2. CASE Opens
    BY <2>2 DEF Opens, OneSocket
  <2>3. CASE Closes
    BY <2>3 DEF Closes, OneSocket, MayRetry
  <2>4. CASE Retry
    BY <2>4 DEF Retry, OneSocket
  <2>5. CASE Leave
    BY <2>5 DEF Leave, OneSocket
  <2>6. \/ UNCHANGED <<ws, timer, closedByCaller>>
        \/ Opens \/ Closes \/ Retry \/ Leave
    BY DEF Next, vars, socket, PrintTest, PrintPart, Emit, OpenSession, ResumeSession, Broadcast, Lose,
           PollArrives, PollFails, FillAnswered, FillFails, FillArrives, Receive
  <2>7. QED
    BY <2>1, <2>2, <2>3, <2>4, <2>5, <2>6
<1>3. QED
  BY <1>1, <1>2, InitTyped, StepTyped, PTL DEF Spec

-----------------------------------------------------------------------------
(* What is under way.  A reading of events q is followed by functions: B[k] *)
(* is the base of the socket, X[k] the history of the page, after k of them.*)

Skips(b, e) == e.type = "delta" /\ b = None
Folded(b, e) == IF Skips(b, e) THEN None ELSE Taken(b, e)

\* Older(s), with base b and history x, in session n.
OlderIn(s, n, b, x) ==
  \/ s.session < n
  \/ b # None /\ Before(s, b)
  \/ x # <<>> /\ Before(s, Last(x))

Bases == [Nat -> Snapshot \cup {None}]
Histories == [Nat -> Seq(Snapshot)]

\* From the i-th event on B follows the base.
Folds(B, q, i) ==
  \A k \in Nat : i <= k /\ k < Len(q) => B[k + 1] = Folded(B[k], q[k + 1])

\* X follows the history, and nothing that is applied is older.
Draws(X, B, q, n) ==
  \A k \in Nat : k < Len(q) =>
    IF Skips(B[k], q[k + 1]) THEN X[k + 1] = X[k]
    ELSE X[k + 1] = UpsertIn(X[k], B[k + 1]) /\ ~OlderIn(B[k + 1], n, B[k], X[k])

\* Once q is read the base is the newest test of st.
Current(b, q, st) ==
  st # <<>> => \A B \in Bases : B[0] = b /\ Folds(B, q, 0) => B[Len(q)] = Last(st)

\* Once q is read history x has become st, or something older was applied.
Right(x, b, q, st, n) ==
  \A B \in Bases, X \in Histories :
    B[0] = b /\ X[0] = x /\ Folds(B, q, 0) /\ Draws(X, B, q, n) => X[Len(q)] = st

Covers(c, d) ==
  c \in Snapshot /\ c.session = d.session /\ c.test = d.test /\ d.parts \subseteq c.parts

\* Whoever has the newest test of st still has it when he has read q, or an
\* end of q.
Harmless(q, st) ==
  st # <<>> =>
    \A i \in 0..Len(q), B \in Bases :
      Covers(B[i], Last(st)) /\ Folds(B, q, i) =>
        Covers(B[Len(q)], Last(st)) /\ Covers(B[i], B[Len(q)])

\* Of st or of an earlier session.
Known(s, st, n) == s.session < n \/ (s.session = n /\ s.test <= Len(st))
KnownEvents(q, st, n) == \A k \in 1..Len(q) : q[k].type = "update" => Known(q[k].snapshot, st, n)

\* To read q is to show something.
Effective(b, q) == q # <<>> /\ (b # None \/ \E k \in 1..Len(q) : q[k].type = "update")

(* Induction up to n, for a set.                                            *)
NatBelow == OpToRel(<, Nat)

LEMMA UpTo ==
  ASSUME NEW n \in Nat, NEW G \in SUBSET Nat, 0 \in G,
         \A k \in Nat : k < n /\ k \in G => k + 1 \in G
  PROVE  n \in G
<1>1. IsWellFoundedOn(NatBelow, Nat)
  BY NatLessThanWellFounded DEF NatBelow
<1>2. \A a, b \in Nat : a < b => <<a, b>> \in NatBelow
  BY DEF NatBelow, OpToRel
<1> DEFINE T == {k \in Nat : k <= n /\ k \notin G}
<1>3. SUFFICES ASSUME n \notin G PROVE FALSE
  OBVIOUS
<1>4. T \in SUBSET Nat /\ T # {}
  BY <1>3
<1>5. PICK x \in T : \A y \in T : ~(<<y, x>> \in NatBelow)
  BY <1>1, <1>4, WFMin
<1>6. x \in Nat /\ x <= n /\ x \notin G /\ x # 0
  BY <1>5
<1>7. x - 1 \in Nat /\ x - 1 < n /\ x - 1 < x /\ (x - 1) + 1 = x
  BY <1>6
<1>8. x - 1 \in G
  <2>1. <<x - 1, x>> \in NatBelow
    BY <1>2, <1>6, <1>7
  <2>2. x - 1 \notin T
    BY <1>5, <2>1
  <2>3. x - 1 <= n
    BY <1>6, <1>7
  <2>4. QED
    BY <1>7, <2>2, <2>3
<1>9. QED
  BY <1>6, <1>7, <1>8

\* F, one later, and s before it.
Prepend(s, F) == [k \in Nat |-> IF k = 0 THEN s ELSE F[k - 1]]

LEMMA PrependIs ==
  ASSUME NEW s, NEW F
  PROVE  /\ Prepend(s, F)[0] = s
         /\ \A k \in Nat : Prepend(s, F)[k + 1] = F[k]
         /\ \A S : s \in S /\ F \in [Nat -> S] => Prepend(s, F) \in [Nat -> S]
<1>1. \A k \in Nat : k # 0 => k - 1 \in Nat
  OBVIOUS
<1>2. \A k \in Nat : k + 1 \in Nat /\ k + 1 # 0 /\ (k + 1) - 1 = k
  OBVIOUS
<1>3. \A S : s \in S /\ F \in [Nat -> S] => Prepend(s, F) \in [Nat -> S]
  BY <1>1 DEF Prepend
<1>4. Prepend(s, F)[0] = s /\ \A k \in Nat : Prepend(s, F)[k + 1] = F[k]
  BY <1>2 DEF Prepend
<1>5. QED
  BY <1>3, <1>4

LEMMA PrependTyped ==
  /\ \A b \in Snapshot \cup {None}, B \in Bases : Prepend(b, B) \in Bases
  /\ \A x \in Seq(Snapshot), X \in Histories : Prepend(x, X) \in Histories
<1>1. ASSUME NEW b \in Snapshot \cup {None}, NEW B \in Bases PROVE Prepend(b, B) \in Bases
  <2> DEFINE S == Snapshot \cup {None}
  <2>1. b \in S /\ B \in [Nat -> S]
    BY DEF Bases
  <2> HIDE DEF S
  <2>2. Prepend(b, B) \in [Nat -> S]
    BY <2>1, PrependIs
  <2>3. QED
    BY <2>2 DEF S, Bases
<1>2. ASSUME NEW x \in Seq(Snapshot), NEW X \in Histories PROVE Prepend(x, X) \in Histories
  <2> DEFINE S == Seq(Snapshot)
  <2>1. x \in S /\ X \in [Nat -> S]
    BY DEF Histories
  <2> HIDE DEF S
  <2>2. Prepend(x, X) \in [Nat -> S]
    BY <2>1, PrependIs
  <2>3. QED
    BY <2>2 DEF S, Histories
<1>3. QED
  BY <1>1, <1>2

LEMMA FoldedIs ==
  ASSUME NEW b \in Snapshot \cup {None}, NEW e \in Event
  PROVE  /\ Folded(b, e) \in Snapshot \cup {None}
         /\ Skips(b, e) => b = None /\ Folded(b, e) = None
         /\ ~Skips(b, e) => Folded(b, e) = Taken(b, e) /\ Folded(b, e) \in Snapshot
         /\ e.type = "update" => ~Skips(b, e) /\ Folded(b, e) = e.snapshot
         /\ e.type = "delta" /\ b # None =>
              /\ ~Skips(b, e) /\ Folded(b, e) = WithPart(b, e.part)
              /\ Folded(b, e).session = b.session /\ Folded(b, e).test = b.test
              /\ Folded(b, e).parts = b.parts \cup {e.part}
<1>1. CASE e.type = "update"
  BY <1>1, EventIs DEF Folded, Skips, Taken
<1>2. CASE e.type = "delta" /\ b = None
  BY <1>2 DEF Folded, Skips, Taken
<1>3. CASE e.type = "delta" /\ b # None
  BY <1>3, EventIs, WithPartIs DEF Folded, Skips, Taken
<1>4. QED
  BY <1>1, <1>2, <1>3, EventIs

\* Another event.
LEMMA FoldsAppend ==
  ASSUME NEW q \in Seq(Event), NEW e \in Event, NEW B, NEW i \in 0..(Len(q) + 1),
         Folds(B, Append(q, e), i)
  PROVE  Folds(B, q, i) /\ (i <= Len(q) => B[Len(q) + 1] = Folded(B[Len(q)], e))
<1>1. /\ Len(q) \in Nat /\ Len(Append(q, e)) = Len(q) + 1 /\ Append(q, e)[Len(q) + 1] = e
      /\ \A k \in 1..Len(q) : Append(q, e)[k] = q[k]
  BY AppendProperties
<1>2. ASSUME NEW k \in Nat, i <= k, k < Len(q) PROVE B[k + 1] = Folded(B[k], q[k + 1])
  <2>1. k < Len(Append(q, e)) /\ k + 1 \in 1..Len(q)
    BY <1>1, <1>2
  <2>2. B[k + 1] = Folded(B[k], Append(q, e)[k + 1])
    BY <1>2, <2>1 DEF Folds
  <2>3. QED
    BY <1>1, <2>1, <2>2
<1>3. i <= Len(q) => B[Len(q) + 1] = Folded(B[Len(q)], e)
  BY <1>1 DEF Folds
<1>4. QED
  BY <1>2, <1>3 DEF Folds

\* One event less.
LEMMA FoldsTail ==
  ASSUME NEW q \in Seq(Event), q # <<>>, NEW B \in Bases, NEW b \in Snapshot \cup {None},
         NEW i \in 0..Len(Tail(q)), Folds(B, Tail(q), i)
  PROVE  /\ Folds(Prepend(b, B), q, i + 1)
         /\ i = 0 /\ B[0] = Folded(b, Head(q)) => Folds(Prepend(b, B), q, 0)
<1> DEFINE P == Prepend(b, B)
<1>1. P[0] = b /\ \A k \in Nat : P[k + 1] = B[k]
  BY PrependIs
<1>2. /\ Len(q) \in Nat \ {0} /\ Len(Tail(q)) = Len(q) - 1 /\ Head(q) = q[1]
      /\ \A k \in 1..Len(Tail(q)) : Tail(q)[k] = q[k + 1]
  BY TailIs
<1> HIDE DEF P
<1>3. ASSUME NEW k \in Nat, i + 1 <= k, k < Len(q) PROVE P[k + 1] = Folded(P[k], q[k + 1])
  <2> DEFINE j == k - 1
  <2>1. j \in Nat /\ i <= j /\ j < Len(Tail(q)) /\ j + 1 = k /\ k \in 1..Len(Tail(q))
    BY <1>2, <1>3
  <2> HIDE DEF j
  <2>2. B[j + 1] = Folded(B[j], Tail(q)[j + 1])
    BY <2>1 DEF Folds
  <2>3. B[k] = Folded(B[j], q[k + 1])
    BY <1>2, <2>1, <2>2
  <2>4. P[k + 1] = B[k] /\ P[k] = B[j]
    BY <1>1, <2>1
  <2>5. QED
    BY <2>3, <2>4
<1>4. Folds(P, q, i + 1)
  BY <1>3 DEF Folds
<1>5. ASSUME i = 0, B[0] = Folded(b, Head(q)) PROVE Folds(P, q, 0)
  <2> SUFFICES ASSUME NEW k \in Nat, k < Len(q) PROVE P[k + 1] = Folded(P[k], q[k + 1])
    BY DEF Folds
  <2>1. CASE k = 0
    <3>1. P[0 + 1] = B[0] /\ P[0] = b /\ q[0 + 1] = Head(q)
      BY <1>1, <1>2
    <3>2. QED
      BY <1>5, <2>1, <3>1
  <2>2. CASE k # 0
    BY <1>3, <1>5, <2>2
  <2>3. QED
    BY <2>1, <2>2
<1>6. QED
  BY <1>4, <1>5 DEF P

LEMMA DrawsAppend ==
  ASSUME NEW q \in Seq(Event), NEW e \in Event, NEW B, NEW X, NEW n, Draws(X, B, Append(q, e), n)
  PROVE  /\ Draws(X, B, q, n)
         /\ IF Skips(B[Len(q)], e) THEN X[Len(q) + 1] = X[Len(q)]
            ELSE /\ X[Len(q) + 1] = UpsertIn(X[Len(q)], B[Len(q) + 1])
                 /\ ~OlderIn(B[Len(q) + 1], n, B[Len(q)], X[Len(q)])
<1> DEFINE At(k, a) ==
             IF Skips(B[k], a) THEN X[k + 1] = X[k]
             ELSE X[k + 1] = UpsertIn(X[k], B[k + 1]) /\ ~OlderIn(B[k + 1], n, B[k], X[k])
           r == Append(q, e)
<1>1. /\ Len(q) \in Nat /\ Len(r) = Len(q) + 1 /\ r[Len(q) + 1] = e
      /\ \A k \in 1..Len(q) : r[k] = q[k]
  BY AppendProperties
<1>2. \A k \in Nat : k < Len(r) => At(k, r[k + 1])
  BY DEF Draws
<1> HIDE DEF At, r
<1>3. At(Len(q), e)
  BY <1>1, <1>2
<1>4. ASSUME NEW k \in Nat, k < Len(q) PROVE At(k, q[k + 1])
  <2>1. k < Len(r) /\ k + 1 \in 1..Len(q)
    BY <1>1, <1>4
  <2>2. QED
    BY <1>1, <1>2, <2>1
<1>5. QED
  BY <1>3, <1>4 DEF Draws, At

LEMMA DrawsTail ==
  ASSUME NEW q \in Seq(Event), q # <<>>, NEW B, NEW X, NEW b, NEW x, NEW n,
         Draws(X, B, Tail(q), n), B[0] = Folded(b, Head(q)),
         X[0] = IF Skips(b, Head(q)) THEN x ELSE UpsertIn(x, B[0]),
         ~Skips(b, Head(q)) => ~OlderIn(B[0], n, b, x)
  PROVE  Draws(Prepend(x, X), Prepend(b, B), q, n)
<1> DEFINE P == Prepend(b, B)
           Y == Prepend(x, X)
<1>1. P[0] = b /\ Y[0] = x /\ \A k \in Nat : P[k + 1] = B[k] /\ Y[k + 1] = X[k]
  <2>1. P[0] = b /\ \A k \in Nat : P[k + 1] = B[k]
    BY ONLY PrependIs
  <2>2. Y[0] = x /\ \A k \in Nat : Y[k + 1] = X[k]
    BY ONLY PrependIs
  <2> HIDE DEF P, Y
  <2>3. QED
    BY ONLY <2>1, <2>2
<1> HIDE DEF P, Y
<1>2. /\ Len(q) \in Nat \ {0} /\ Len(Tail(q)) = Len(q) - 1 /\ Head(q) = q[1]
      /\ \A k \in 1..Len(Tail(q)) : Tail(q)[k] = q[k + 1]
  BY TailIs
<1> DEFINE At(k) ==
             IF Skips(P[k], q[k + 1]) THEN Y[k + 1] = Y[k]
             ELSE Y[k + 1] = UpsertIn(Y[k], P[k + 1]) /\ ~OlderIn(P[k + 1], n, P[k], Y[k])
<1>3. At(0)
  <2>1. P[0 + 1] = B[0] /\ Y[0 + 1] = X[0]
    BY ONLY <1>1
  <2>2. P[0] = b /\ Y[0] = x /\ q[0 + 1] = Head(q)
    BY ONLY <1>1, <1>2
  <2>3. QED
    BY <2>1, <2>2
<1>4. ASSUME NEW k \in Nat, k # 0, k < Len(q) PROVE At(k)
  <2> DEFINE j == k - 1
  <2>1. j \in Nat /\ j < Len(Tail(q)) /\ j + 1 = k /\ k \in 1..Len(Tail(q))
    BY <1>2, <1>4
  <2> HIDE DEF j
  <2>2. P[k] = B[j] /\ Y[k] = X[j] /\ P[k + 1] = B[j + 1] /\ Y[k + 1] = X[j + 1] /\ q[k + 1] = Tail(q)[j + 1]
    BY <1>1, <1>2, <2>1
  <2>3. IF Skips(B[j], Tail(q)[j + 1]) THEN X[j + 1] = X[j]
        ELSE X[j + 1] = UpsertIn(X[j], B[j + 1]) /\ ~OlderIn(B[j + 1], n, B[j], X[j])
    BY <2>1 DEF Draws
  <2>4. QED
    BY <2>2, <2>3
<1>5. \A k \in Nat : k < Len(q) => At(k)
  BY <1>3, <1>4
<1>6. QED
  BY <1>5 DEF Draws, P, Y

LEMMA CurrentTail ==
  ASSUME NEW q \in Seq(Event), q # <<>>, NEW b \in Snapshot \cup {None}, NEW st, Current(b, q, st)
  PROVE  Current(Folded(b, Head(q)), Tail(q), st)
<1> SUFFICES ASSUME st # <<>>, NEW B \in Bases, B[0] = Folded(b, Head(q)), Folds(B, Tail(q), 0)
             PROVE  B[Len(Tail(q))] = Last(st)
  BY DEF Current
<1> DEFINE P == Prepend(b, B)
<1>1. Len(Tail(q)) \in Nat /\ Len(q) = Len(Tail(q)) + 1 /\ 0 \in 0..Len(Tail(q))
  BY TailIs
<1>2. P \in Bases /\ P[0] = b /\ P[Len(q)] = B[Len(Tail(q))]
  <2>1. P \in Bases
    BY PrependTyped
  <2>2. P[0] = b /\ P[Len(Tail(q)) + 1] = B[Len(Tail(q))]
    BY <1>1, PrependIs
  <2>3. QED
    BY <1>1, <2>1, <2>2
<1>3. Folds(P, q, 0)
  BY <1>1, FoldsTail
<1> HIDE DEF P
<1>4. QED
  BY <1>2, <1>3 DEF Current

LEMMA RightTail ==
  ASSUME NEW q \in Seq(Event), q # <<>>, NEW b \in Snapshot \cup {None}, NEW st, NEW n,
         NEW x \in Seq(Snapshot), NEW y, Right(x, b, q, st, n),
         IF Skips(b, Head(q)) THEN y = x
         ELSE y = UpsertIn(x, Folded(b, Head(q))) /\ ~OlderIn(Folded(b, Head(q)), n, b, x)
  PROVE  Right(y, Folded(b, Head(q)), Tail(q), st, n)
<1> SUFFICES ASSUME NEW B \in Bases, NEW X \in Histories, B[0] = Folded(b, Head(q)), X[0] = y,
                    Folds(B, Tail(q), 0), Draws(X, B, Tail(q), n)
             PROVE  X[Len(Tail(q))] = st
  BY DEF Right
<1> DEFINE P == Prepend(b, B)
           Y == Prepend(x, X)
<1>1. Len(Tail(q)) \in Nat /\ Len(q) = Len(Tail(q)) + 1 /\ 0 \in 0..Len(Tail(q))
  BY TailIs
<1>2. P \in Bases /\ P[0] = b
  BY PrependIs, PrependTyped
<1>3. Y \in Histories /\ Y[0] = x /\ Y[Len(q)] = X[Len(Tail(q))]
  <2>1. Y \in Histories
    BY PrependTyped
  <2>2. Y[0] = x /\ \A k \in Nat : Y[k + 1] = X[k]
    BY ONLY PrependIs DEF Y
  <2> HIDE DEF Y
  <2>3. QED
    BY <1>1, <2>1, <2>2
<1>4. Folds(P, q, 0)
  BY <1>1, FoldsTail
<1>5. Draws(Y, P, q, n)
  BY DrawsTail
<1> HIDE DEF P, Y
<1>6. QED
  BY <1>2, <1>3, <1>4, <1>5 DEF Right

LEMMA HarmlessTail ==
  ASSUME NEW q \in Seq(Event), q # <<>>, NEW st, Harmless(q, st)
  PROVE  Harmless(Tail(q), st)
<1> SUFFICES ASSUME st # <<>>, NEW i \in 0..Len(Tail(q)), NEW B \in Bases,
                    Covers(B[i], Last(st)), Folds(B, Tail(q), i)
             PROVE  Covers(B[Len(Tail(q))], Last(st)) /\ Covers(B[i], B[Len(Tail(q))])
  BY DEF Harmless
<1> DEFINE P == Prepend(None, B)
<1>1. Len(Tail(q)) \in Nat /\ Len(q) = Len(Tail(q)) + 1 /\ i \in Nat /\ i + 1 \in 0..Len(q)
  BY TailIs
<1>2. P \in Bases /\ P[i + 1] = B[i] /\ P[Len(q)] = B[Len(Tail(q))]
  <2>1. P \in Bases
    BY PrependTyped
  <2>2. P[i + 1] = B[i] /\ P[Len(Tail(q)) + 1] = B[Len(Tail(q))]
    BY <1>1, PrependIs
  <2>3. QED
    BY <1>1, <2>1, <2>2
<1>3. Folds(P, q, i + 1)
  BY <1>1, FoldsTail
<1> HIDE DEF P
<1>4. Covers(P[Len(q)], Last(st)) /\ Covers(P[i + 1], P[Len(q)])
  BY <1>1, <1>2, <1>3 DEF Harmless
<1>5. QED
  BY <1>2, <1>4

(* The board prints: another event, and the store to match.                 *)

\* The newest test of st, with part p.
Grown(st, p) == Append(Front(st), WithPart(Last(st), p))

LEMMA GrownIs ==
  ASSUME NEW st \in Seq(Snapshot), st # <<>>, NEW p \in 1..MaxParts
  PROVE  /\ Grown(st, p) \in Seq(Snapshot) /\ Grown(st, p) # <<>> /\ Len(Grown(st, p)) = Len(st)
         /\ Last(st) \in Snapshot /\ Last(Grown(st, p)) = WithPart(Last(st), p)
         /\ UpsertIn(st, WithPart(Last(st), p)) = Grown(st, p)
<1> DEFINE s == WithPart(Last(st), p)
<1>1. Last(st) \in Snapshot /\ s \in Snapshot /\ s.test = Last(st).test
  BY LastIs, WithPartIs
<1>2. UpsertIn(st, s) = Append(Front(st), s)
  BY <1>1 DEF UpsertIn
<1> HIDE DEF s
<1> DEFINE r == Append(Front(st), s)
<1>3. r \in Seq(Snapshot) /\ Len(r) = Len(st) /\ r # <<>> /\ Last(r) = s
  BY <1>1, FrontAppend
<1>4. Grown(st, p) = r
  BY DEF Grown, s
<1>5. QED
  BY <1>1, <1>2, <1>3, <1>4 DEF s

LEMMA CurrentUpdate ==
  ASSUME NEW q \in Seq(Event), NEW b, NEW st \in Seq(Snapshot), NEW s \in Snapshot,
         NEW e \in Event, e.type = "update", e.snapshot = s
  PROVE  Current(b, Append(q, e), Append(st, s))
<1> SUFFICES ASSUME NEW B \in Bases, Folds(B, Append(q, e), 0)
             PROVE  B[Len(Append(q, e))] = Last(Append(st, s))
  BY DEF Current
<1>1. Len(Append(q, e)) = Len(q) + 1 /\ Len(q) \in Nat /\ 0 \in 0..(Len(q) + 1) /\ 0 <= Len(q)
  BY AppendProperties
<1>2. B[Len(q) + 1] = Folded(B[Len(q)], e)
  BY <1>1, FoldsAppend
<1>3. B[Len(q)] \in Snapshot \cup {None}
  BY <1>1 DEF Bases
<1>4. Folded(B[Len(q)], e) = s
  BY <1>3, FoldedIs
<1>5. Last(Append(st, s)) = s
  BY AppendLast
<1>6. QED
  BY <1>1, <1>2, <1>4, <1>5

LEMMA CurrentPart ==
  ASSUME NEW q \in Seq(Event), NEW b, NEW st \in Seq(Snapshot), st # <<>>, NEW p \in 1..MaxParts,
         NEW e \in Event, e.type = "delta", e.part = p, Current(b, q, st)
  PROVE  Current(b, Append(q, e), Grown(st, p))
<1> SUFFICES ASSUME NEW B \in Bases, B[0] = b, Folds(B, Append(q, e), 0)
             PROVE  B[Len(Append(q, e))] = Last(Grown(st, p))
  BY DEF Current
<1>1. Len(Append(q, e)) = Len(q) + 1 /\ Len(q) \in Nat /\ 0 \in 0..(Len(q) + 1) /\ 0 <= Len(q)
  BY AppendProperties
<1>2. B[Len(q) + 1] = Folded(B[Len(q)], e) /\ Folds(B, q, 0)
  BY <1>1, FoldsAppend
<1>3. B[Len(q)] = Last(st)
  BY <1>2 DEF Current
<1>4. Last(st) \in Snapshot /\ Last(Grown(st, p)) = WithPart(Last(st), p) /\ Last(st) # None
  BY GrownIs, Constants
<1>5. Folded(Last(st), e) = WithPart(Last(st), p)
  BY <1>4, FoldedIs
<1>6. QED
  BY <1>1, <1>2, <1>3, <1>4, <1>5

LEMMA RightUpdate ==
  ASSUME NEW q \in Seq(Event), NEW b, NEW x, NEW n, NEW st \in Seq(Snapshot), Numbered(st),
         NEW s \in Snapshot, s.test = Len(st) + 1,
         NEW e \in Event, e.type = "update", e.snapshot = s, Right(x, b, q, st, n)
  PROVE  Right(x, b, Append(q, e), Append(st, s), n)
<1> SUFFICES ASSUME NEW B \in Bases, NEW X \in Histories, B[0] = b, X[0] = x,
                    Folds(B, Append(q, e), 0), Draws(X, B, Append(q, e), n)
             PROVE  X[Len(Append(q, e))] = Append(st, s)
  BY DEF Right
<1>1. Len(Append(q, e)) = Len(q) + 1 /\ Len(q) \in Nat /\ 0 \in 0..(Len(q) + 1) /\ 0 <= Len(q)
  BY AppendProperties
<1>2. B[Len(q) + 1] = Folded(B[Len(q)], e) /\ Folds(B, q, 0)
  BY <1>1, FoldsAppend
<1>3. /\ Draws(X, B, q, n)
      /\ IF Skips(B[Len(q)], e) THEN X[Len(q) + 1] = X[Len(q)]
         ELSE X[Len(q) + 1] = UpsertIn(X[Len(q)], B[Len(q) + 1])
  BY DrawsAppend
<1>4. X[Len(q)] = st
  BY <1>2, <1>3 DEF Right
<1>5. B[Len(q)] \in Snapshot \cup {None}
  BY <1>1 DEF Bases
<1>6. ~Skips(B[Len(q)], e) /\ B[Len(q) + 1] = s
  BY <1>2, <1>5, FoldedIs
<1>7. UpsertIn(st, s) = Append(st, s)
  <2>1. st # <<>> => Last(st).test = Len(st) /\ Len(st) \in Nat
    BY LastIs DEF Numbered
  <2>2. ~(st # <<>> /\ Last(st).test = s.test)
    BY <2>1
  <2>3. QED
    BY <2>2 DEF UpsertIn
<1>8. QED
  BY <1>1, <1>3, <1>4, <1>6, <1>7

LEMMA RightPart ==
  ASSUME NEW q \in Seq(Event), NEW b, NEW x, NEW n, NEW st \in Seq(Snapshot), st # <<>>,
         NEW p \in 1..MaxParts, NEW e \in Event, e.type = "delta", e.part = p,
         Current(b, q, st), Right(x, b, q, st, n)
  PROVE  Right(x, b, Append(q, e), Grown(st, p), n)
<1> SUFFICES ASSUME NEW B \in Bases, NEW X \in Histories, B[0] = b, X[0] = x,
                    Folds(B, Append(q, e), 0), Draws(X, B, Append(q, e), n)
             PROVE  X[Len(Append(q, e))] = Grown(st, p)
  BY DEF Right
<1>1. Len(Append(q, e)) = Len(q) + 1 /\ Len(q) \in Nat /\ 0 \in 0..(Len(q) + 1) /\ 0 <= Len(q)
  BY AppendProperties
<1>2. B[Len(q) + 1] = Folded(B[Len(q)], e) /\ Folds(B, q, 0)
  BY <1>1, FoldsAppend
<1>3. /\ Draws(X, B, q, n)
      /\ IF Skips(B[Len(q)], e) THEN X[Len(q) + 1] = X[Len(q)]
         ELSE X[Len(q) + 1] = UpsertIn(X[Len(q)], B[Len(q) + 1])
  BY DrawsAppend
<1>4. X[Len(q)] = st
  BY <1>2, <1>3 DEF Right
<1>5. B[Len(q)] = Last(st)
  BY <1>2 DEF Current
<1>6. Last(st) \in Snapshot /\ Last(st) # None /\ UpsertIn(st, WithPart(Last(st), p)) = Grown(st, p)
  BY GrownIs, Constants
<1>7. ~Skips(Last(st), e) /\ Folded(Last(st), e) = WithPart(Last(st), p)
  BY <1>6, FoldedIs
<1>8. QED
  BY <1>1, <1>2, <1>3, <1>4, <1>5, <1>6, <1>7

LEMMA HarmlessUpdate ==
  ASSUME NEW q \in Seq(Event), NEW st \in Seq(Snapshot), NEW s \in Snapshot,
         NEW e \in Event, e.type = "update", e.snapshot = s
  PROVE  Harmless(Append(q, e), Append(st, s))
<1>1. Len(Append(q, e)) = Len(q) + 1 /\ Len(q) \in Nat
  BY AppendProperties
<1>2. Last(Append(st, s)) = s
  BY AppendLast
<1> SUFFICES ASSUME NEW i \in 0..(Len(q) + 1), NEW B \in Bases,
                    Covers(B[i], s), Folds(B, Append(q, e), i)
             PROVE  Covers(B[Len(q) + 1], s) /\ Covers(B[i], B[Len(q) + 1])
  BY <1>1, <1>2 DEF Harmless
<1>3. CASE i = Len(q) + 1
  BY <1>3 DEF Covers
<1>4. CASE i <= Len(q)
  <2>1. B[Len(q) + 1] = Folded(B[Len(q)], e) /\ B[Len(q)] \in Snapshot \cup {None}
    BY <1>1, <1>4, FoldsAppend DEF Bases
  <2>2. B[Len(q) + 1] = s
    BY <2>1, FoldedIs
  <2>3. QED
    BY <2>2 DEF Covers
<1>5. QED
  BY <1>1, <1>3, <1>4

LEMMA HarmlessPart ==
  ASSUME NEW q \in Seq(Event), NEW st \in Seq(Snapshot), st # <<>>, NEW p \in 1..MaxParts,
         NEW e \in Event, e.type = "delta", e.part = p, Harmless(q, st)
  PROVE  Harmless(Append(q, e), Grown(st, p))
<1> DEFINE s == Last(st)
           t == WithPart(s, p)
<1>1. Len(Append(q, e)) = Len(q) + 1 /\ Len(q) \in Nat
  BY AppendProperties
<1>2. /\ Last(Grown(st, p)) = t /\ s \in Snapshot
      /\ t.session = s.session /\ t.test = s.test /\ t.parts = s.parts \cup {p}
  BY GrownIs, WithPartIs
<1> HIDE DEF t
<1> SUFFICES ASSUME NEW i \in 0..(Len(q) + 1), NEW B \in Bases,
                    Covers(B[i], t), Folds(B, Append(q, e), i)
             PROVE  Covers(B[Len(q) + 1], t) /\ Covers(B[i], B[Len(q) + 1])
  BY <1>1, <1>2 DEF Harmless
<1>3. CASE i = Len(q) + 1
  BY <1>3 DEF Covers
<1>4. CASE i <= Len(q)
  <2>1. B[Len(q) + 1] = Folded(B[Len(q)], e) /\ Folds(B, q, i) /\ i \in 0..Len(q)
    BY <1>1, <1>4, FoldsAppend
  <2>2. Covers(B[i], s)
    BY <1>2 DEF Covers
  <2>3. Covers(B[Len(q)], s) /\ Covers(B[i], B[Len(q)])
    BY <2>1, <2>2 DEF Harmless
  <2> DEFINE c == B[Len(q)]
             d == B[Len(q) + 1]
  <2>4. c \in Snapshot /\ c # None
    BY <2>3, Constants DEF Covers
  <2>5. d \in Snapshot /\ d.session = c.session /\ d.test = c.test /\ d.parts = c.parts \cup {p}
    BY <2>1, <2>4, FoldedIs
  <2> HIDE DEF c, d
  <2>6. Covers(c, s) /\ Covers(B[i], c)
    BY <2>3 DEF c
  <2>7. Covers(d, t) /\ Covers(B[i], d)
    BY <1>2, <2>5, <2>6 DEF Covers
  <2>8. QED
    BY <2>7 DEF d
<1>5. QED
  BY <1>1, <1>3, <1>4

LEMMA EffectiveUpdate ==
  ASSUME NEW q \in Seq(Event), NEW b, NEW e \in Event, e.type = "update"
  PROVE  Effective(b, Append(q, e))
<1>1. /\ Len(Append(q, e)) = Len(q) + 1 /\ Len(q) \in Nat /\ Append(q, e)[Len(q) + 1] = e
      /\ Append(q, e) # <<>>
  BY AppendLast
<1>2. Len(q) + 1 \in 1..Len(Append(q, e))
  BY <1>1
<1>3. QED
  BY <1>1, <1>2 DEF Effective

\* Where there is a newest test to be read, a change has a base.
LEMMA EffectivePart ==
  ASSUME NEW q \in Seq(Event), NEW b \in Snapshot \cup {None}, NEW st \in Seq(Snapshot), st # <<>>,
         NEW e \in Event, Current(b, q, st)
  PROVE  Effective(b, Append(q, e))
<1>1. /\ Len(Append(q, e)) = Len(q) + 1 /\ Len(q) \in Nat /\ Append(q, e) # <<>>
      /\ \A k \in 1..Len(q) : Append(q, e)[k] = q[k]
  BY AppendLast
<1>2. SUFFICES ASSUME b = None, \A k \in 1..Len(q) : q[k].type # "update" PROVE FALSE
  <2>1. \A k \in 1..Len(q) : k \in 1..Len(Append(q, e))
    BY <1>1
  <2>2. QED
    BY <1>1, <2>1 DEF Effective
<1> DEFINE B == [k \in Nat |-> None]
<1>3. B \in Bases /\ B[0] = b
  BY <1>2 DEF Bases
<1>4. Folds(B, q, 0)
  <2> SUFFICES ASSUME NEW k \in Nat, k < Len(q) PROVE B[k + 1] = Folded(B[k], q[k + 1])
    BY DEF Folds
  <2>1. k + 1 \in 1..Len(q) /\ k + 1 \in Nat
    BY <1>1
  <2>2. q[k + 1] \in Event /\ q[k + 1].type # "update"
    BY <1>2, <2>1, ElementOfSeq
  <2>3. Skips(None, q[k + 1])
    BY <2>2, EventIs DEF Skips
  <2>4. Folded(None, q[k + 1]) = None
    BY <2>3 DEF Folded
  <2>5. QED
    BY <2>1, <2>4
<1>5. B[Len(q)] = None
  BY <1>1
<1> HIDE DEF B
<1>6. Last(st) = None
  BY <1>3, <1>4, <1>5 DEF Current
<1>7. QED
  BY <1>6, LastIs, Constants

(* A connection begins.                                                     *)
LEMMA ReplayIs ==
  ASSUME NEW q \in Seq(Event), NEW st \in Seq(Snapshot), st # <<>>
  PROVE  LET r == Replay(st) \o q
         IN /\ r \in Seq(Event) /\ Len(r) = Len(q) + 1
            /\ r[1].type = "update" /\ r[1].snapshot = Last(st) /\ Last(st) \in Snapshot
            /\ \A k \in 1..Len(q) : r[k + 1] = q[k]
<1> DEFINE e == [type |-> "update", snapshot |-> Last(st)]
           a == <<e>>
           r == a \o q
<1>1. Replay(st) = a /\ e.type = "update" /\ e.snapshot = Last(st)
  BY DEF Replay
<1>2. Last(st) \in Snapshot /\ e \in Event
  BY LastIs, EventIs
<1> HIDE DEF e
<1>3. a \in Seq(Event) /\ Len(a) = 1 /\ a[1] = e
  BY <1>2
<1> HIDE DEF a
<1>4. /\ r \in Seq(Event) /\ Len(r) = Len(a) + Len(q) /\ Len(q) \in Nat
      /\ \A k \in 1..(Len(a) + Len(q)) : r[k] = IF k <= Len(a) THEN a[k] ELSE q[k - Len(a)]
  <2>1. Len(q) \in Nat
    OBVIOUS
  <2>2. QED
    BY ONLY <1>3, <2>1, q \in Seq(Event), ConcatProperties
<1> HIDE DEF r
<1>5. Len(r) = Len(q) + 1 /\ r[1] = e
  BY <1>3, <1>4
<1>6. ASSUME NEW k \in 1..Len(q) PROVE r[k + 1] = q[k]
  <2>1. k + 1 \in 1..(1 + Len(q)) /\ ~(k + 1 <= 1) /\ (k + 1) - 1 = k
    BY <1>4
  <2>2. QED
    BY <1>3, <1>4, <2>1
<1>7. QED
  BY <1>1, <1>2, <1>4, <1>5, <1>6 DEF r

LEMMA OpensCurrent ==
  ASSUME NEW q \in Seq(Event), NEW st \in Seq(Snapshot), Harmless(q, st)
  PROVE  Current(None, Replay(st) \o q, st)
<1> DEFINE r == Replay(st) \o q
<1> SUFFICES ASSUME st # <<>>, NEW B \in Bases, B[0] = None, Folds(B, r, 0)
             PROVE  B[Len(r)] = Last(st)
  BY DEF Current
<1>1. /\ Len(r) = Len(q) + 1 /\ r[1].type = "update" /\ r[1].snapshot = Last(st) /\ Last(st) \in Snapshot
      /\ \A k \in 1..Len(q) : r[k + 1] = q[k]
  BY ReplayIs
<1>2. Len(q) \in Nat
  OBVIOUS
<1> HIDE DEF r
<1> DEFINE C == [k \in Nat |-> B[k + 1]]
<1>3. C \in Bases /\ \A k \in Nat : C[k] = B[k + 1]
  BY DEF Bases
<1> HIDE DEF C
<1>4. C[0] = Last(st)
  <2>1. 0 \in Nat /\ 0 < Len(r) /\ 0 + 1 = 1
    BY <1>1, <1>2
  <2>2. B[0 + 1] = Folded(B[0], r[0 + 1])
    BY <2>1 DEF Folds
  <2>3. Folded(None, r[1]) = Last(st)
    BY <1>1 DEF Folded, Skips, Taken
  <2>4. QED
    BY <1>3, <2>1, <2>2, <2>3
<1>5. Folds(C, q, 0)
  <2> SUFFICES ASSUME NEW k \in Nat, k < Len(q) PROVE C[k + 1] = Folded(C[k], q[k + 1])
    BY DEF Folds
  <2>1. k + 1 \in Nat /\ k + 1 < Len(r) /\ k + 1 \in 1..Len(q) /\ 0 <= k + 1
    BY <1>1, <1>2
  <2>2. B[(k + 1) + 1] = Folded(B[k + 1], r[(k + 1) + 1])
    BY <2>1 DEF Folds
  <2>3. QED
    BY <1>1, <1>3, <2>1, <2>2
<1>6. Covers(Last(st), Last(st)) /\ 0 \in 0..Len(q)
  BY <1>1, <1>2 DEF Covers
<1>7. Covers(C[Len(q)], Last(st)) /\ Covers(C[0], C[Len(q)])
  BY <1>3, <1>4, <1>5, <1>6 DEF Harmless
<1>8. C[Len(q)] = Last(st)
  <2> DEFINE c == C[Len(q)]
             d == Last(st)
  <2>1. Covers(c, d) /\ Covers(d, c)
    BY <1>4, <1>7
  <2> HIDE DEF c, d
  <2>2. c \in Snapshot /\ d \in Snapshot /\ c.session = d.session /\ c.test = d.test /\ c.parts = d.parts
    BY <2>1 DEF Covers
  <2>3. c = d
    BY <2>2, SnapshotIs
  <2>4. QED
    BY <2>3 DEF c, d
<1>9. QED
  BY <1>1, <1>2, <1>3, <1>8

LEMMA OpensEffective ==
  ASSUME NEW q \in Seq(Event), NEW st \in Seq(Snapshot), st # <<>>, NEW b
  PROVE  Effective(b, Replay(st) \o q)
<1> DEFINE r == Replay(st) \o q
<1>1. r \in Seq(Event) /\ Len(r) = Len(q) + 1 /\ r[1].type = "update" /\ Len(q) \in Nat
  BY ReplayIs
<1> HIDE DEF r
<1>2. 1 \in 1..Len(r) /\ r # <<>>
  BY <1>1
<1>3. QED
  BY <1>1, <1>2 DEF Effective, r

(* An entry of the test that the newest one counts takes its place.        *)
LEMMA UpsertSame ==
  ASSUME NEW x \in Seq(Snapshot), NEW s \in Snapshot, x # <<>>, Last(x).test = s.test
  PROVE  /\ UpsertIn(x, s) \in Seq(Snapshot) /\ UpsertIn(x, s) # <<>> /\ Last(UpsertIn(x, s)) = s
         /\ Len(UpsertIn(x, s)) = Len(x)
         /\ \A i \in 1..Len(x) : i # Len(x) => UpsertIn(x, s)[i] = x[i]
  BY UpsertIs

(* Who has all of the store, and reads on, still has it at the end: what is *)
(* under way are parts of the newest test, or something older.              *)
LEMMA UpsertAgain ==
  ASSUME NEW x \in Seq(Snapshot), x # <<>>, NEW s \in Snapshot, NEW t \in Snapshot,
         s.test = Last(x).test, t.test = Last(x).test
  PROVE  UpsertIn(UpsertIn(x, s), t) = UpsertIn(x, t) /\ UpsertIn(x, Last(x)) = x
<1> DEFINE y == UpsertIn(x, s)
           z == UpsertIn(y, t)
           w == UpsertIn(x, t)
           v == UpsertIn(x, Last(x))
<1>1. Len(x) \in Nat /\ Last(x) \in Snapshot /\ Last(x) = x[Len(x)]
  BY LastIs
<1>2. /\ y \in Seq(Snapshot) /\ y # <<>> /\ Last(y) = s /\ Len(y) = Len(x)
      /\ \A i \in 1..Len(x) : i # Len(x) => y[i] = x[i]
  BY UpsertSame
<1>3. /\ w \in Seq(Snapshot) /\ w # <<>> /\ Last(w) = t /\ Len(w) = Len(x)
      /\ \A i \in 1..Len(x) : i # Len(x) => w[i] = x[i]
  BY UpsertSame
<1>4. /\ v \in Seq(Snapshot) /\ v # <<>> /\ Last(v) = Last(x) /\ Len(v) = Len(x)
      /\ \A i \in 1..Len(x) : i # Len(x) => v[i] = x[i]
  BY <1>1, UpsertSame
<1> HIDE DEF y
<1>5. /\ z \in Seq(Snapshot) /\ z # <<>> /\ Last(z) = t /\ Len(z) = Len(y)
      /\ \A i \in 1..Len(y) : i # Len(y) => z[i] = y[i]
  <2>1. y # <<>> /\ Last(y).test = t.test
    BY <1>2
  <2>2. y \in Seq(Snapshot)
    BY <1>2
  <2>3. QED
    BY ONLY <2>1, <2>2, t \in Snapshot, UpsertSame
<1> HIDE DEF z, w, v
<1>6. z[Len(x)] = t /\ w[Len(x)] = t /\ v[Len(x)] = x[Len(x)]
  BY <1>1, <1>2, <1>3, <1>4, <1>5 DEF Last
<1>7. \A i \in 1..Len(x) : z[i] = w[i] /\ v[i] = x[i]
  BY <1>2, <1>3, <1>4, <1>5, <1>6
<1>8. z = w
  <2>1. Len(z) = Len(w) /\ \A i \in 1..Len(z) : z[i] = w[i]
    BY <1>2, <1>3, <1>5, <1>7
  <2>2. QED
    BY <1>3, <1>5, <2>1, SeqEqual
<1>9. v = x
  <2>1. Len(v) = Len(x) /\ \A i \in 1..Len(v) : v[i] = x[i]
    BY <1>4, <1>7
  <2>2. QED
    BY <1>4, <2>1, SeqEqual
<1>10. QED
  BY <1>8, <1>9 DEF y, z, w, v

\* Of history st at most the newest test is out of date, and b tells which.
Kept(x, b, st, n) ==
  \/ x = st
  \/ /\ st # <<>> /\ b \in Snapshot /\ b.session = n /\ b.test = Len(st)
     /\ x = UpsertIn(st, b)

LEMMA KeptOn ==
  ASSUME NEW n \in Sessions, NEW st \in Seq(Snapshot), Numbered(st),
         \A i \in 1..Len(st) : st[i].session = n,
         NEW b \in Snapshot \cup {None}, b # None => Known(b, st, n),
         NEW e \in Event, e.type = "update" => Known(e.snapshot, st, n), ~Skips(b, e)
  PROVE  /\ Folded(b, e) \in Snapshot /\ Known(Folded(b, e), st, n)
         /\ \A x : Kept(x, b, st, n) /\ ~OlderIn(Folded(b, e), n, b, x) =>
                     Kept(UpsertIn(x, Folded(b, e)), Folded(b, e), st, n)
<1> DEFINE s == Folded(b, e)
<1>1. s \in Snapshot
  BY FoldedIs
<1>2. Known(s, st, n)
  <2>1. CASE e.type = "update"
    BY <2>1, FoldedIs
  <2>2. CASE e.type = "delta"
    <3>1. b # None /\ s.session = b.session /\ s.test = b.test
      BY <2>2, FoldedIs DEF Skips
    <3>2. QED
      BY <3>1 DEF Known
  <2>3. QED
    BY <2>1, <2>2, EventIs
<1> HIDE DEF s
<1>3. ASSUME NEW x, Kept(x, b, st, n), ~OlderIn(s, n, b, x) PROVE Kept(UpsertIn(x, s), s, st, n)
  <2>1. s.session \in Int /\ s.test \in Nat \ {0} /\ n \in Int /\ Len(st) \in Nat
    BY <1>1, SnapshotIs DEF Sessions
  <2>2. s.session = n /\ s.test <= Len(st)
    BY <1>2, <1>3, <2>1 DEF Known, OlderIn
  <2>3. st # <<>>
    BY <2>1, <2>2, EmptySeq
  <2>4. Last(st) \in Snapshot /\ Last(st).session = n /\ Last(st).test = Len(st)
    BY <2>3, LastIs DEF Numbered
  <2>5. x # <<>> /\ Last(x).session = n /\ Last(x).test = Len(st)
    <3>1. CASE x = st
      BY <2>3, <2>4, <3>1
    <3>2. CASE b \in Snapshot /\ b.session = n /\ b.test = Len(st) /\ x = UpsertIn(st, b)
      BY <3>2, UpsertIs
    <3>3. QED
      BY <1>3, <3>1, <3>2 DEF Kept
  <2>6. s.test = Len(st)
    <3>1. ~Before(s, Last(x))
      BY <1>3, <2>5 DEF OlderIn
    <3>2. QED
      BY <2>1, <2>2, <2>5, <3>1 DEF Before
  <2>7. UpsertIn(x, s) = UpsertIn(st, s)
    <3>1. CASE x = st
      BY <3>1
    <3>2. CASE b \in Snapshot /\ b.test = Len(st) /\ x = UpsertIn(st, b)
      BY <1>1, <2>3, <2>4, <2>6, <3>2, UpsertAgain
    <3>3. QED
      BY <1>3, <3>1, <3>2 DEF Kept
  <2>8. QED
    BY <1>1, <2>2, <2>3, <2>6, <2>7 DEF Kept
<1>4. QED
  BY <1>1, <1>2, <1>3 DEF s

LEMMA StartRight ==
  ASSUME NEW n \in Sessions, NEW st \in Seq(Snapshot), Numbered(st),
         \A i \in 1..Len(st) : st[i].session = n,
         NEW b \in Snapshot \cup {None}, b # None => Known(b, st, n),
         NEW q \in Seq(Event), KnownEvents(q, st, n), Current(b, q, st)
  PROVE  Right(st, b, q, st, n)
<1> SUFFICES ASSUME NEW B \in Bases, NEW X \in Histories, B[0] = b, X[0] = st,
                    Folds(B, q, 0), Draws(X, B, q, n)
             PROVE  X[Len(q)] = st
  BY DEF Right
<1> DEFINE Good(k) == (B[k] # None => Known(B[k], st, n)) /\ Kept(X[k], B[k], st, n)
           G == {k \in Nat : k <= Len(q) => Good(k)}
<1>1. Len(q) \in Nat
  OBVIOUS
<1>2. Good(0)
  BY DEF Kept
<1>3. ASSUME NEW k \in Nat, k < Len(q), Good(k) PROVE Good(k + 1)
  <2>1. k + 1 \in 1..Len(q) /\ 0 <= k /\ k + 1 \in Nat
    BY <1>1, <1>3
  <2> DEFINE e == q[k + 1]
  <2>2. e \in Event /\ (e.type = "update" => Known(e.snapshot, st, n))
    BY <2>1, ElementOfSeq DEF KnownEvents
  <2>3. B[k] \in Snapshot \cup {None} /\ X[k] \in Seq(Snapshot)
    BY DEF Bases, Histories
  <2>4. B[k + 1] = Folded(B[k], e)
    BY <1>3, <2>1 DEF Folds
  <2>5. IF Skips(B[k], e) THEN X[k + 1] = X[k]
        ELSE X[k + 1] = UpsertIn(X[k], B[k + 1]) /\ ~OlderIn(B[k + 1], n, B[k], X[k])
    BY <1>3 DEF Draws
  <2> HIDE DEF e
  <2>6. CASE Skips(B[k], e)
    <3>1. B[k] = None /\ B[k + 1] = None /\ X[k + 1] = X[k]
      BY <2>2, <2>3, <2>4, <2>5, <2>6, FoldedIs
    <3>2. QED
      BY <1>3, <3>1
  <2>7. CASE ~Skips(B[k], e)
    <3> DEFINE c == B[k]
               d == B[k + 1]
               x == X[k]
    <3>1. (c # None => Known(c, st, n)) /\ Kept(x, c, st, n) /\ c \in Snapshot \cup {None}
      BY <1>3, <2>3
    <3>2. d = Folded(c, e) /\ X[k + 1] = UpsertIn(x, d) /\ ~OlderIn(d, n, c, x) /\ ~Skips(c, e)
      BY <2>4, <2>5, <2>7
    <3> HIDE DEF c, d, x
    <3>3. Known(d, st, n) /\ Kept(UpsertIn(x, d), d, st, n)
      BY <2>2, <3>1, <3>2, KeptOn
    <3>4. QED
      BY <3>2, <3>3 DEF d
  <2>8. QED
    BY <2>6, <2>7
<1> HIDE DEF Good
<1>4. 0 \in G /\ \A k \in Nat : k < Len(q) /\ k \in G => k + 1 \in G
  BY <1>1, <1>2, <1>3
<1>5. G \in SUBSET Nat
  OBVIOUS
<1> HIDE DEF G
<1>6. Len(q) \in G
  BY <1>1, <1>4, <1>5, UpTo
<1>7. Good(Len(q))
  BY <1>1, <1>6 DEF G
<1>8. CASE X[Len(q)] = st
  BY <1>8
<1>9. CASE st # <<>> /\ X[Len(q)] = UpsertIn(st, B[Len(q)])
  <2>1. B[Len(q)] = Last(st)
    BY <1>9 DEF Current
  <2>2. QED
    BY <1>9, <2>1, LastIs, UpsertAgain
<1>10. QED
  BY <1>7, <1>8, <1>9 DEF Good, Kept

-----------------------------------------------------------------------------
(* What the node has sent, and what is still in the fan-out, are read as    *)
(* one.                                                                     *)

LEMMA HeadAndTail ==
  ASSUME NEW S, NEW q \in Seq(S), q # <<>>
  PROVE  Head(q) \in S /\ Tail(q) \in Seq(S) /\ <<Head(q)>> \in Seq(S) /\ <<Head(q)>> \o Tail(q) = q
<1> DEFINE a == <<Head(q)>>
           t == Tail(q)
           r == a \o t
<1>1. /\ Head(q) \in S /\ t \in Seq(S) /\ Len(t) = Len(q) - 1 /\ Head(q) = q[1] /\ Len(q) \in Nat \ {0}
      /\ \A i \in 1..Len(t) : t[i] = q[i + 1]
  BY TailIs
<1> HIDE DEF t
<1>2. a \in Seq(S) /\ Len(a) = 1 /\ a[1] = q[1]
  BY <1>1
<1> HIDE DEF a
<1>3. /\ r \in Seq(S) /\ Len(r) = Len(a) + Len(t)
      /\ \A i \in 1..(Len(a) + Len(t)) : r[i] = IF i <= Len(a) THEN a[i] ELSE t[i - Len(a)]
  <2>1. a \in Seq(S) /\ t \in Seq(S)
    BY <1>1, <1>2
  <2>2. QED
    BY ONLY <2>1, ConcatProperties
<1> HIDE DEF r
<1>4. Len(r) = Len(q)
  BY <1>1, <1>2, <1>3
<1>5. ASSUME NEW i \in 1..Len(r) PROVE r[i] = q[i]
  <2>1. CASE i = 1
    <3>1. 1 \in 1..(Len(a) + Len(t)) /\ 1 <= Len(a)
      BY <1>1, <1>2
    <3>2. r[1] = a[1]
      BY ONLY <1>3, <3>1
    <3>3. QED
      BY ONLY <1>2, <2>1, <3>2
  <2>2. CASE i # 1
    <3>1. i - 1 \in 1..Len(t) /\ (i - 1) + 1 = i /\ ~(i <= 1)
      BY <1>1, <1>4, <2>2
    <3>2. QED
      BY <1>1, <1>2, <1>3, <1>4, <3>1
  <2>3. QED
    BY <2>1, <2>2
<1>6. r = q
  BY <1>3, <1>4, <1>5, SeqEqual
<1>7. QED
  BY <1>1, <1>2, <1>6 DEF r, a, t

\* An event is emitted, moves from the fan-out to the connection, is read.
LEMMA UnderWay ==
  ASSUME NEW w \in Seq(Event), NEW p \in Seq(Event)
  PROVE  /\ w \o p \in Seq(Event)
         /\ \A e \in Event : w \o Append(p, e) = Append(w \o p, e)
         /\ p # <<>> => Append(w, Head(p)) \o Tail(p) = w \o p
         /\ w # <<>> => w \o p # <<>> /\ Head(w \o p) = Head(w) /\ Tail(w \o p) = Tail(w) \o p
<1>1. w \o p \in Seq(Event)
  BY ConcatProperties
<1>2. ASSUME NEW e \in Event PROVE w \o Append(p, e) = Append(w \o p, e)
  <2>1. <<e>> \in Seq(Event) /\ Append(p, e) = p \o <<e>> /\ Append(w \o p, e) = (w \o p) \o <<e>>
    BY <1>1, AppendIsConcat
  <2>2. QED
    BY <2>1, ConcatAssociative
<1>3. ASSUME p # <<>> PROVE Append(w, Head(p)) \o Tail(p) = w \o p
  <2>1. /\ Head(p) \in Event /\ Tail(p) \in Seq(Event) /\ <<Head(p)>> \in Seq(Event)
        /\ <<Head(p)>> \o Tail(p) = p
    BY <1>3, HeadAndTail
  <2>2. Append(w, Head(p)) = w \o <<Head(p)>>
    BY <2>1, AppendIsConcat
  <2>3. (w \o <<Head(p)>>) \o Tail(p) = w \o (<<Head(p)>> \o Tail(p))
    BY <2>1, ConcatAssociative
  <2>4. QED
    BY <2>1, <2>2, <2>3
<1>4. ASSUME w # <<>>
      PROVE  w \o p # <<>> /\ Head(w \o p) = Head(w) /\ Tail(w \o p) = Tail(w) \o p
  <2> DEFINE h == Head(w)
             t == Tail(w)
             a == <<h>>
             r == t \o p
             q == w \o p
  <2>1. h \in Event /\ t \in Seq(Event) /\ a \in Seq(Event) /\ a \o t = w
    BY <1>4, HeadAndTail
  <2>2. q = a \o r /\ r \in Seq(Event)
    <3>1. (a \o t) \o p = a \o (t \o p) /\ t \o p \in Seq(Event)
      BY <2>1, ConcatAssociative, ConcatProperties
    <3>2. QED
      BY <2>1, <3>1
  <2>3. Len(w) \in Nat \ {0} /\ Len(q) = Len(w) + Len(p) /\ Len(p) \in Nat /\ q # <<>> /\ q[1] = h
    <3>1. Len(w) \in Nat \ {0} /\ Len(p) \in Nat /\ h = w[1]
      BY <1>4, TailIs
    <3>2. Len(q) = Len(w) + Len(p) /\ \A i \in 1..(Len(w) + Len(p)) : q[i] = IF i <= Len(w) THEN w[i] ELSE p[i - Len(w)]
      BY ConcatProperties
    <3> HIDE DEF q, h
    <3>3. Len(q) # 0 /\ 1 \in 1..(Len(w) + Len(p)) /\ 1 <= Len(w)
      BY <3>1, <3>2
    <3>4. QED
      BY <3>1, <3>2, <3>3
  <2>4. q \in Seq(Event)
    BY <1>1
  <2> HIDE DEF h, t, r, q
  <2>5. Head(q) \in Event /\ Tail(q) \in Seq(Event) /\ <<Head(q)>> \o Tail(q) = q /\ Head(q) = q[1]
    BY <2>3, <2>4, HeadAndTail, TailIs
  <2>6. a \o Tail(q) = a \o r
    BY <2>2, <2>3, <2>5
  <2>7. Tail(q) = r
    BY <2>1, <2>2, <2>5, <2>6, ConcatSimplifications
  <2>8. QED
    BY <2>3, <2>5, <2>7 DEF h, t, r, q
<1>5. QED
  BY <1>1, <1>2, <1>3, <1>4

\* The same of events known and events to be shown.
LEMMA KnownParts ==
  ASSUME NEW w \in Seq(Event), NEW p \in Seq(Event), NEW st, NEW n
  PROVE  KnownEvents(w \o p, st, n) <=> KnownEvents(w, st, n) /\ KnownEvents(p, st, n)
<1> DEFINE q == w \o p
           Ok(e) == e.type = "update" => Known(e.snapshot, st, n)
<1>1. /\ Len(q) = Len(w) + Len(p) /\ Len(w) \in Nat /\ Len(p) \in Nat
      /\ \A i \in 1..(Len(w) + Len(p)) : q[i] = IF i <= Len(w) THEN w[i] ELSE p[i - Len(w)]
  BY ConcatProperties
<1> HIDE DEF q, Ok
<1>2. ASSUME \A i \in 1..Len(q) : Ok(q[i])
      PROVE  (\A i \in 1..Len(w) : Ok(w[i])) /\ (\A i \in 1..Len(p) : Ok(p[i]))
  <2>1. ASSUME NEW i \in 1..Len(w) PROVE Ok(w[i])
    <3>1. i \in 1..Len(q) /\ q[i] = w[i]
      BY <1>1
    <3>2. QED
      BY <1>2, <3>1
  <2>2. ASSUME NEW i \in 1..Len(p) PROVE Ok(p[i])
    <3>1. Len(w) + i \in 1..Len(q) /\ ~(Len(w) + i <= Len(w)) /\ (Len(w) + i) - Len(w) = i
      BY <1>1
    <3>2. q[Len(w) + i] = p[i]
      BY <1>1, <3>1
    <3>3. QED
      BY <1>2, <3>1, <3>2
  <2>3. QED
    BY <2>1, <2>2
<1>3. ASSUME \A i \in 1..Len(w) : Ok(w[i]), \A i \in 1..Len(p) : Ok(p[i]), NEW i \in 1..Len(q)
      PROVE  Ok(q[i])
  <2>1. CASE i <= Len(w)
    BY <1>1, <1>3, <2>1
  <2>2. CASE ~(i <= Len(w))
    <3>1. i - Len(w) \in 1..Len(p)
      BY <1>1, <2>2
    <3>2. QED
      BY <1>1, <1>3, <2>2, <3>1
  <2>3. QED
    BY <2>1, <2>2
<1>4. QED
  BY <1>2, <1>3 DEF KnownEvents, q, Ok

-----------------------------------------------------------------------------
(* The page shows what the node has.                                        *)

Connected == ws = "open" /\ ~lost
Watching == Connected /\ ~outdated /\ ~spoilt

\* Nothing is on a socket that is not open, and a timer has none.
ClosedInv == OneSocket /\ (ws # "open" => wire = <<>> /\ base = None /\ ~lost)

\* No status is newer than the node; with a port it tells of the last turn.
NotNewer(k) == k # None => k[1] <= turns[1] /\ k[2] <= turns[2]
KeyInv ==
  /\ NotNewer(key) /\ NotNewer(openedAt) /\ \A k \in openings : NotNewer(k)
  /\ port = "open" => openedAt = turns
  /\ outdated => key # turns

\* Nothing under way is newer than the store.
KnownInv ==
  /\ base # None => Known(base, stored, turns[1])
  /\ KnownEvents(wire, stored, turns[1]) /\ KnownEvents(pipe, stored, turns[1])

\* What is under way ends with the newest test.
StreamInv ==
  /\ Harmless(pipe, stored)
  /\ Connected => Current(base, wire \o pipe, stored)

\* The step from one state to the next, by what it does to what is under way.
LEMMA Kinds ==
  ASSUME TypeInv, [Next]_vars
  PROVE  \/ PrintTest \/ PrintPart \/ OpenSession \/ Broadcast \/ Lose
         \/ Opens \/ Receive \/ Closes \/ Retry \/ Leave
         \/ /\ UNCHANGED <<stored, pipe, socket>> /\ turns'[1] = turns[1]
            /\ \/ ResumeSession \/ PollArrives \/ PollFails \/ FillAnswered \/ FillFails \/ FillArrives
               \/ UNCHANGED vars
<1>1. CASE ResumeSession
  BY <1>1, ResumeSessionIs
<1>2. CASE PollArrives \/ PollFails \/ FillAnswered \/ FillFails \/ FillArrives \/ UNCHANGED vars
  BY <1>2 DEF PollArrives, PollFails, FillAnswered, FillFails, FillArrives, vars, node
<1>3. QED
  BY <1>1, <1>2 DEF Next

LEMMA ClosedStep == TypeInv /\ ClosedInv /\ [Next]_vars => ClosedInv'
<1> SUFFICES ASSUME TypeInv, ClosedInv, [Next]_vars PROVE ClosedInv'
  OBVIOUS
<1>1. CASE UNCHANGED socket
  BY <1>1 DEF ClosedInv, OneSocket, socket
<1>2. CASE Broadcast \/ Lose
  <2>1. /\ UNCHANGED <<ws, timer, closedByCaller, base>>
        /\ ws # "open" => wire' = wire /\ (lost' <=> lost)
    <3>1. CASE Broadcast
      BY <3>1 DEF Broadcast
    <3>2. CASE Lose
      <4>1. lost' = (lost \/ ws = "open") /\ UNCHANGED <<wire, ws, timer, closedByCaller, base>>
        BY <3>2 DEF Lose
      <4>2. QED
        BY <4>1
    <3>3. QED
      BY <1>2, <3>1, <3>2
  <2>2. QED
    BY <2>1 DEF ClosedInv, OneSocket
<1>3. CASE Opens
  BY <1>3 DEF Opens, ClosedInv, OneSocket
<1>4. CASE Receive
  BY <1>4 DEF Receive, ClosedInv, OneSocket
<1>5. CASE Closes
  BY <1>5 DEF Closes, ClosedInv, OneSocket, MayRetry
<1>6. CASE Retry
  BY <1>6 DEF Retry, ClosedInv, OneSocket
<1>7. CASE Leave
  BY <1>7 DEF Leave, ClosedInv, OneSocket
<1>8. (PrintTest \/ PrintPart \/ OpenSession) => UNCHANGED socket
  BY DEF PrintTest, PrintPart, Emit, OpenSession
<1>9. QED
  BY <1>1, <1>2, <1>3, <1>4, <1>5, <1>6, <1>7, <1>8, Kinds

LEMMA KeyStep == TypeInv /\ KeyInv /\ [Next]_vars => KeyInv'
<1> SUFFICES ASSUME TypeInv, KeyInv, [Next]_vars PROVE KeyInv'
  OBVIOUS
<1>1. /\ turns \in OpenedAt /\ key \in OpenedAt \cup {None} /\ openings \subseteq OpenedAt \cup {None}
      /\ openedAt \in OpenedAt \cup {None} /\ \A k \in OpenedAt : k[1] \in Int /\ k[2] \in Int
  BY DEF TypeInv, NodeTypes, PageTypes, OpenedAt, Sessions
<1>2. CASE OpenSession \/ ResumeSession
  <2>1. key' = key
    BY <1>2, OpenSessionIs, ResumeSessionIs DEF page
  <2>2. /\ turns' \in OpenedAt /\ openings' = openings \cup {openedAt'}
        /\ \/ openedAt' = turns' /\ port' = "open"
           \/ openedAt' \in {openedAt, None} /\ port' # "open"
    BY <1>2, OpenSessionIs, ResumeSessionIs, TurnIs
  <2>3. \/ turns'[1] = turns[1] /\ turns'[2] = turns[2] + 1
        \/ turns'[1] = turns[1] + 1 /\ turns'[2] = turns[2]
    BY <1>2, OpenSessionIs, ResumeSessionIs
  <2>4. ASSUME NEW k \in OpenedAt \cup {None}, NotNewer(k)
        PROVE  (k # None => k[1] <= turns'[1] /\ k[2] <= turns'[2]) /\ k # turns'
    <3>1. CASE k = None
      BY <2>2, <3>1, Constants
    <3>2. CASE k # None
      <4>1. k[1] <= turns[1] /\ k[2] <= turns[2] /\ k[1] \in Int /\ k[2] \in Int
        BY <1>1, <2>4, <3>2 DEF NotNewer
      <4>2. turns[1] \in Int /\ turns[2] \in Int
        BY <1>1
      <4>3. QED
        BY <2>3, <4>1, <4>2
    <3>3. QED
      BY <3>1, <3>2
  <2>5. turns'[1] \in Int /\ turns'[2] \in Int
    BY <1>1, <2>2
  <2>6. (key # None => key[1] <= turns'[1] /\ key[2] <= turns'[2]) /\ key # turns'
    BY <1>1, <2>4 DEF KeyInv
  <2>7. openedAt' # None => openedAt'[1] <= turns'[1] /\ openedAt'[2] <= turns'[2]
    BY <1>1, <2>2, <2>4, <2>5 DEF KeyInv
  <2>8. ASSUME NEW k \in openings' PROVE k # None => k[1] <= turns'[1] /\ k[2] <= turns'[2]
    BY <1>1, <2>2, <2>4, <2>7, <2>8 DEF KeyInv
  <2>9. QED
    BY <2>1, <2>2, <2>6, <2>7, <2>8 DEF KeyInv, NotNewer
<1>3. CASE /\ UNCHANGED <<turns, port, openedAt, openings>>
           /\ \/ UNCHANGED <<key, outdated>>
              \/ key' \in openings \cup {None} /\ outdated' = FALSE
  BY <1>3 DEF KeyInv, NotNewer
<1>4. CASE PollArrives \/ PollFails
  <2>1. PICK answer \in openings \cup {None} : SetSerial(answer)
    BY <1>4 DEF PollArrives, PollFails
  <2>2. UNCHANGED <<key, outdated>> \/ (key' = answer /\ outdated' = FALSE)
    BY <2>1, SetSerialCase DEF page
  <2>3. UNCHANGED <<turns, port, openedAt, openings>>
    BY <1>4 DEF PollArrives, PollFails, node
  <2>4. QED
    BY <1>3, <2>1, <2>2, <2>3
<1>5. CASE Leave
  BY <1>3, <1>5 DEF Leave, node
<1>6. FillArrives \/ Receive => UNCHANGED <<turns, port, openedAt, openings, key, outdated>>
  BY FillArrivesCase, ReceiveCase DEF node, page
<1>7. \/ PrintTest \/ PrintPart \/ Broadcast \/ Lose \/ FillAnswered \/ FillFails \/ Opens \/ Closes
      \/ Retry \/ UNCHANGED vars
      => UNCHANGED <<turns, port, openedAt, openings, key, outdated>>
  BY DEF PrintTest, PrintPart, Emit, Broadcast, Lose, FillAnswered, FillFails, Opens, Closes, Retry, vars, node, page,
         rest
<1>8. QED
  BY <1>2, <1>3, <1>4, <1>5, <1>6, <1>7 DEF Next

\* What was known stays known.
LEMMA KnownOn ==
  ASSUME NEW st \in Seq(Snapshot), NEW n \in Int, NEW st2 \in Seq(Snapshot), NEW n2 \in Int,
         (n2 = n /\ Len(st) <= Len(st2)) \/ n < n2
  PROVE  /\ \A s \in Snapshot : Known(s, st, n) => Known(s, st2, n2)
         /\ \A q \in Seq(Event) : KnownEvents(q, st, n) => KnownEvents(q, st2, n2)
<1>1. ASSUME NEW s \in Snapshot, Known(s, st, n) PROVE Known(s, st2, n2)
  <2>1. s.session \in Int /\ s.test \in Int /\ Len(st) \in Int /\ Len(st2) \in Int
    BY SnapshotIs DEF Sessions
  <2>2. QED
    BY <1>1, <2>1 DEF Known
<1>2. ASSUME NEW q \in Seq(Event), KnownEvents(q, st, n) PROVE KnownEvents(q, st2, n2)
  <2> SUFFICES ASSUME NEW k \in 1..Len(q), q[k].type = "update" PROVE Known(q[k].snapshot, st2, n2)
    BY DEF KnownEvents
  <2>1. q[k] \in Event
    BY ElementOfSeq
  <2>2. q[k].snapshot \in Snapshot
    BY <2>1, EventIs
  <2>3. QED
    BY <1>1, <1>2, <2>2 DEF KnownEvents
<1>3. QED
  BY <1>1, <1>2

LEMMA KnownAppend ==
  ASSUME NEW q \in Seq(Event), NEW e \in Event, NEW st, NEW n,
         KnownEvents(q, st, n), e.type = "update" => Known(e.snapshot, st, n)
  PROVE  KnownEvents(Append(q, e), st, n)
<1>1. /\ Len(q) \in Nat /\ Len(Append(q, e)) = Len(q) + 1 /\ Append(q, e)[Len(q) + 1] = e
      /\ \A k \in 1..Len(q) : Append(q, e)[k] = q[k]
  BY AppendProperties
<1>2. \A k \in 1..(Len(q) + 1) : k \in 1..Len(q) \/ k = Len(q) + 1
  BY <1>1
<1>3. QED
  BY <1>1, <1>2 DEF KnownEvents

LEMMA KnownTail ==
  ASSUME NEW q \in Seq(Event), q # <<>>, NEW st, NEW n, KnownEvents(q, st, n)
  PROVE  /\ KnownEvents(Tail(q), st, n)
         /\ Head(q).type = "update" => Known(Head(q).snapshot, st, n)
<1>1. /\ Len(q) \in Nat \ {0} /\ Len(Tail(q)) = Len(q) - 1 /\ Head(q) = q[1]
      /\ \A k \in 1..Len(Tail(q)) : Tail(q)[k] = q[k + 1]
  BY TailIs
<1>2. 1 \in 1..Len(q) /\ \A k \in 1..Len(Tail(q)) : k + 1 \in 1..Len(q)
  BY <1>1
<1>3. QED
  BY <1>1, <1>2 DEF KnownEvents

LEMMA KnownFold ==
  ASSUME NEW st, NEW n, NEW b \in Snapshot \cup {None}, b # None => Known(b, st, n),
         NEW e \in Event, e.type = "update" => Known(e.snapshot, st, n)
  PROVE  Folded(b, e) # None => Known(Folded(b, e), st, n)
<1>1. CASE e.type = "update"
  BY <1>1, FoldedIs
<1>2. CASE e.type = "delta" /\ b # None
  <2>1. Folded(b, e).session = b.session /\ Folded(b, e).test = b.test
    BY <1>2, FoldedIs
  <2>2. QED
    BY <1>2, <2>1 DEF Known
<1>3. CASE e.type = "delta" /\ b = None
  BY <1>3, FoldedIs DEF Skips
<1>4. QED
  BY <1>1, <1>2, <1>3, EventIs

\* What the socket does with an event, in one formula.
LEMMA ReceiveFolds ==
  ASSUME TypeInv, Receive
  PROVE  /\ Head(wire) \in Event /\ wire # <<>> /\ base' = Folded(base, Head(wire)) /\ wire' = Tail(wire)
         /\ UNCHANGED <<node, ws, lost>>
<1>1. base \in Snapshot \cup {None}
  BY DEF TypeInv, SocketTypes
<1>2. /\ Head(wire) \in Event /\ wire # <<>> /\ wire' = Tail(wire) /\ UNCHANGED <<node, ws, lost>>
      /\ \/ Head(wire).type = "delta" /\ base = None /\ base' = base
         \/ (Head(wire).type = "update" \/ base # None) /\ base' = Taken(base, Head(wire))
  BY ReceiveCase
<1> DEFINE e == Head(wire)
<1> HIDE DEF e
<1>3. e \in Event /\ e = Head(wire)
  BY <1>2 DEF e
<1>4. CASE e.type = "delta" /\ base = None
  <2>1. base' = base
    BY <1>2, <1>3, <1>4
  <2>2. QED
    BY <1>2, <1>3, <1>4, <2>1 DEF Folded, Skips
<1>5. CASE e.type = "update" \/ base # None
  <2>1. ~(e.type = "delta" /\ base = None)
    BY <1>5
  <2>2. base' = Taken(base, e)
    BY <1>2, <1>3, <2>1
  <2>3. QED
    BY <1>2, <1>3, <2>1, <2>2 DEF Folded, Skips
<1>6. QED
  BY <1>3, <1>4, <1>5, EventIs

LEMMA KnownStep == TypeInv /\ KnownInv /\ [Next]_vars => KnownInv'
<1> SUFFICES ASSUME TypeInv, KnownInv, [Next]_vars PROVE KnownInv'
  OBVIOUS
<1> DEFINE n == turns[1]
<1>1. /\ n \in Int /\ stored \in Seq(Snapshot) /\ Len(stored) \in Nat
      /\ pipe \in Seq(Event) /\ wire \in Seq(Event) /\ base \in Snapshot \cup {None}
  BY DEF TypeInv, NodeTypes, SocketTypes, OpenedAt, Sessions
<1>2. (base # None => Known(base, stored, n)) /\ KnownEvents(wire, stored, n) /\ KnownEvents(pipe, stored, n)
  BY DEF KnownInv
<1>3. CASE PrintTest
  <2> DEFINE s == [session |-> n, test |-> Len(stored) + 1, parts |-> {1}]
             e == [type |-> "update", snapshot |-> s]
             st == Append(stored, s)
  <2>1. /\ s \in Snapshot /\ stored' = st /\ pipe' = Append(pipe, e) /\ e \in Event
        /\ turns' = turns /\ base' = base /\ wire' = wire
    BY <1>3, PrintTestCase DEF socket
  <2>2. s.session = n /\ s.test = Len(stored) + 1 /\ e.snapshot = s
    OBVIOUS
  <2> HIDE DEF e, s
  <2>3. st \in Seq(Snapshot) /\ Len(st) = Len(stored) + 1
    BY <1>1, <2>1, AppendProperties
  <2> HIDE DEF st
  <2>4. (base # None => Known(base, st, n)) /\ KnownEvents(wire, st, n) /\ KnownEvents(pipe, st, n)
    <3>1. n = n /\ Len(stored) <= Len(st)
      BY <1>1, <2>3
    <3>2. QED
      BY <1>1, <1>2, <2>3, <3>1, KnownOn
  <2>5. Known(e.snapshot, st, n)
    BY <1>1, <2>2, <2>3 DEF Known
  <2>6. KnownEvents(Append(pipe, e), st, n)
    BY <1>1, <2>1, <2>4, <2>5, KnownAppend
  <2>7. QED
    BY <2>1, <2>4, <2>6 DEF KnownInv
<1>4. CASE PrintPart
  <2>1. stored # <<>> /\ turns' = turns /\ base' = base /\ wire' = wire
    BY <1>4, PrintPartCase DEF socket
  <2>2. PICK p \in 1..MaxParts, e \in Event :
          e.type = "delta" /\ e.part = p /\ pipe' = Append(pipe, e) /\ stored' = Grown(stored, p)
    BY <1>4, PrintPartCase DEF Grown
  <2> DEFINE st == Grown(stored, p)
  <2>3. st \in Seq(Snapshot) /\ Len(st) = Len(stored)
    BY <1>1, <2>1, GrownIs
  <2> HIDE DEF st
  <2>4. (base # None => Known(base, st, n)) /\ KnownEvents(wire, st, n) /\ KnownEvents(pipe, st, n)
    <3>1. n = n /\ Len(stored) <= Len(st)
      BY <1>1, <2>3
    <3>2. QED
      BY <1>1, <1>2, <2>3, <3>1, KnownOn
  <2>5. KnownEvents(Append(pipe, e), st, n)
    BY <1>1, <2>2, <2>4, KnownAppend
  <2>6. stored' = st
    BY <2>2 DEF st
  <2>7. QED
    BY <2>1, <2>2, <2>4, <2>5, <2>6 DEF KnownInv
<1>5. CASE OpenSession
  <2>1. turns'[1] = n + 1 /\ stored' = <<>> /\ <<>> \in Seq(Snapshot) /\ UNCHANGED <<pipe, wire, base>>
    BY <1>5, OpenSessionIs DEF socket
  <2> DEFINE m == n + 1
             st == <<>>
  <2>2. n < m /\ m \in Int /\ st \in Seq(Snapshot)
    BY <1>1
  <2>3. turns'[1] = m /\ stored' = st
    BY <2>1
  <2> HIDE DEF m, st, n
  <2>4. /\ \A s \in Snapshot : Known(s, stored, n) => Known(s, st, m)
        /\ \A q \in Seq(Event) : KnownEvents(q, stored, n) => KnownEvents(q, st, m)
    BY <1>1, <2>2, KnownOn
  <2>5. QED
    BY <1>1, <1>2, <2>1, <2>3, <2>4 DEF KnownInv
<1>6. CASE Broadcast \/ Lose
  <2>1. /\ pipe # <<>> /\ pipe' = Tail(pipe) /\ UNCHANGED <<turns, stored, base>>
        /\ wire' = wire \/ wire' = Append(wire, Head(pipe))
    BY <1>6 DEF Broadcast, Lose
  <2>2. /\ KnownEvents(Tail(pipe), stored, n) /\ Head(pipe) \in Event
        /\ Head(pipe).type = "update" => Known(Head(pipe).snapshot, stored, n)
    BY <1>1, <1>2, <2>1, KnownTail, TailIs
  <2>3. KnownEvents(Append(wire, Head(pipe)), stored, n)
    BY <1>1, <1>2, <2>2, KnownAppend
  <2>4. QED
    BY <1>2, <2>1, <2>2, <2>3 DEF KnownInv
<1>7. CASE Opens
  <2>1. wire' = Replay(stored) /\ UNCHANGED <<turns, stored, pipe, base>>
    BY <1>7 DEF Opens, Replay, node
  <2>2. KnownEvents(Replay(stored), stored, n)
    <3>1. CASE stored = <<>>
      <4>1. Replay(stored) = <<>> /\ Len(<<>>) = 0
        BY <3>1 DEF Replay
      <4>2. QED
        BY <4>1 DEF KnownEvents
    <3>2. CASE stored # <<>>
      <4> DEFINE e == [type |-> "update", snapshot |-> Last(stored)]
      <4>1. Replay(stored) = <<e>> /\ e.snapshot = Last(stored)
        BY <3>2 DEF Replay
      <4>2. Last(stored).session = n /\ Last(stored).test = Len(stored)
        BY <1>1, <3>2, LastIs DEF TypeInv, NodeTypes, Numbered
      <4>3. Known(e.snapshot, stored, n)
        BY <1>1, <4>1, <4>2 DEF Known
      <4> HIDE DEF e
      <4>4. Len(<<e>>) = 1 /\ <<e>>[1] = e
        OBVIOUS
      <4>5. QED
        BY <4>1, <4>3, <4>4 DEF KnownEvents
    <3>3. QED
      BY <3>1, <3>2
  <2>3. QED
    BY <1>2, <2>1, <2>2 DEF KnownInv
<1>8. CASE Receive
  <2>1. /\ Head(wire) \in Event /\ wire # <<>> /\ base' = Folded(base, Head(wire)) /\ wire' = Tail(wire)
        /\ UNCHANGED <<turns, stored, pipe>>
    BY <1>8, ReceiveFolds DEF node
  <2>2. /\ KnownEvents(Tail(wire), stored, n)
        /\ Head(wire).type = "update" => Known(Head(wire).snapshot, stored, n)
    BY <1>1, <1>2, <2>1, KnownTail
  <2>3. Folded(base, Head(wire)) # None => Known(Folded(base, Head(wire)), stored, n)
    BY <1>1, <1>2, <2>1, <2>2, KnownFold
  <2>4. QED
    BY <1>2, <2>1, <2>2, <2>3 DEF KnownInv
<1>9. CASE Closes \/ Leave
  <2>1. base' = None /\ wire' = <<>> /\ Len(<<>>) = 0 /\ UNCHANGED <<turns, stored, pipe>>
    BY <1>9 DEF Closes, Leave, node
  <2>2. KnownEvents(<<>>, stored, n)
    BY <2>1 DEF KnownEvents
  <2>3. QED
    BY <1>2, <2>1, <2>2 DEF KnownInv
<1>10. CASE turns'[1] = n /\ UNCHANGED <<stored, pipe, wire, base>>
  BY <1>2, <1>10 DEF KnownInv
<1>11. Retry => UNCHANGED <<turns, stored, pipe, wire, base>>
  BY DEF Retry, node
<1>12. QED
  BY <1>3, <1>4, <1>5, <1>6, <1>7, <1>8, <1>9, <1>10, <1>11, Kinds DEF socket

LEMMA StreamStep == TypeInv /\ ClosedInv /\ StreamInv /\ [Next]_vars => StreamInv'
<1> SUFFICES ASSUME TypeInv, ClosedInv, StreamInv, [Next]_vars PROVE StreamInv'
  OBVIOUS
<1> DEFINE q == wire \o pipe
<1>1. /\ stored \in Seq(Snapshot) /\ pipe \in Seq(Event) /\ wire \in Seq(Event)
      /\ base \in Snapshot \cup {None} /\ q \in Seq(Event)
  BY UnderWay DEF TypeInv, NodeTypes, SocketTypes
<1>2. Harmless(pipe, stored) /\ (Connected => Current(base, q, stored))
  BY DEF StreamInv
<1>3. CASE PrintTest
  <2> DEFINE s == [session |-> turns[1], test |-> Len(stored) + 1, parts |-> {1}]
             e == [type |-> "update", snapshot |-> s]
  <2>1. /\ s \in Snapshot /\ stored' = Append(stored, s) /\ pipe' = Append(pipe, e) /\ e \in Event
        /\ base' = base /\ wire' = wire
    BY <1>3, PrintTestCase DEF socket
  <2>2. e.type = "update" /\ e.snapshot = s
    OBVIOUS
  <2> HIDE DEF e, s
  <2>3. Harmless(Append(pipe, e), Append(stored, s)) /\ Current(base, Append(q, e), Append(stored, s))
    BY <1>1, <2>1, <2>2, HarmlessUpdate, CurrentUpdate
  <2>4. wire \o Append(pipe, e) = Append(q, e)
    <3>1. pipe \in Seq(Event) /\ wire \in Seq(Event) /\ e \in Event
      BY <1>1, <2>1
    <3>2. QED
      BY ONLY <3>1, UnderWay
  <2>5. QED
    BY <2>1, <2>3, <2>4 DEF StreamInv
<1>4. CASE PrintPart
  <2>1. stored # <<>> /\ base' = base /\ wire' = wire /\ Connected' = Connected
    BY <1>4, PrintPartCase DEF socket, Connected
  <2>2. PICK p \in 1..MaxParts, e \in Event :
          e.type = "delta" /\ e.part = p /\ pipe' = Append(pipe, e) /\ stored' = Grown(stored, p)
    BY <1>4, PrintPartCase DEF Grown
  <2>3. Harmless(Append(pipe, e), Grown(stored, p))
    BY <1>1, <1>2, <2>1, <2>2, HarmlessPart
  <2>4. Connected => Current(base, Append(q, e), Grown(stored, p))
    BY <1>1, <1>2, <2>1, <2>2, CurrentPart
  <2>5. wire \o Append(pipe, e) = Append(q, e)
    BY <1>1, <2>2, UnderWay
  <2>6. QED
    BY <2>1, <2>2, <2>3, <2>4, <2>5 DEF StreamInv
<1>5. CASE OpenSession
  BY <1>5 DEF OpenSession, StreamInv, Harmless, Current
<1>6. CASE Broadcast
  <2>1. /\ pipe # <<>> /\ pipe' = Tail(pipe) /\ UNCHANGED <<ws, stored, base, lost>>
        /\ ws = "open" => wire' = Append(wire, Head(pipe))
    BY <1>6 DEF Broadcast
  <2>2. Harmless(Tail(pipe), stored) /\ Append(wire, Head(pipe)) \o Tail(pipe) = q
    BY <1>1, <1>2, <2>1, HarmlessTail, UnderWay
  <2>3. Connected' => Connected /\ wire' \o pipe' = q
    BY <2>1, <2>2 DEF Connected
  <2>4. Connected' => Current(base', wire' \o pipe', stored')
    BY <1>2, <2>1, <2>3
  <2>5. QED
    BY <2>1, <2>2, <2>4 DEF StreamInv
<1>7. CASE Lose
  <2>1. pipe # <<>> /\ pipe' = Tail(pipe) /\ lost' = (lost \/ ws = "open") /\ UNCHANGED <<ws, stored>>
    BY <1>7 DEF Lose
  <2>2. Harmless(Tail(pipe), stored) /\ ~Connected'
    BY <1>1, <1>2, <2>1, HarmlessTail DEF Connected
  <2>3. QED
    BY <2>1, <2>2 DEF StreamInv
<1>8. CASE Opens
  <2>1. wire' = Replay(stored) /\ UNCHANGED <<stored, pipe, base>> /\ base = None
    BY <1>8 DEF Opens, Replay, node, ClosedInv
  <2>2. Current(None, Replay(stored) \o pipe, stored)
    BY <1>1, <1>2, OpensCurrent
  <2>3. QED
    BY <1>2, <2>1, <2>2 DEF StreamInv
<1>9. CASE Receive
  <2>1. /\ wire # <<>> /\ base' = Folded(base, Head(wire)) /\ wire' = Tail(wire)
        /\ UNCHANGED <<stored, pipe>> /\ Connected' = Connected
    BY <1>9, ReceiveFolds DEF node, Connected
  <2>2. q # <<>> /\ Head(q) = Head(wire) /\ Tail(q) = Tail(wire) \o pipe
    BY <1>1, <2>1, UnderWay
  <2> HIDE DEF q
  <2>3. Connected => Current(Folded(base, Head(q)), Tail(q), stored)
    BY <1>1, <1>2, <2>2, CurrentTail
  <2>4. QED
    BY <1>2, <2>1, <2>2, <2>3 DEF StreamInv
<1>10. CASE Closes \/ Retry \/ Leave
  <2>1. UNCHANGED <<stored, pipe>> /\ ~Connected'
    BY <1>10 DEF Closes, Retry, Leave, node, Connected
  <2>2. QED
    BY <1>2, <2>1 DEF StreamInv
<1>11. CASE UNCHANGED <<stored, pipe, socket>>
  BY <1>2, <1>11 DEF StreamInv, Connected, socket
<1>12. QED
  BY <1>3, <1>4, <1>5, <1>6, <1>7, <1>8, <1>9, <1>10, <1>11, Kinds

-----------------------------------------------------------------------------
(* What the page shows, and answers under way.                              *)

\* Answers that can no longer be shown unnoticed.
Foregone(a) == \A i \in 1..Len(a) : a[i].overtaken \/ a[i].history = <<>>

PageInv ==
  /\ (snapshot = None <=> shown = <<>>)
  /\ stored = <<>> /\ ~outdated => Foregone(answers) /\ (spoilt \/ shown = <<>>)

LEMMA OvertakeAll ==
  ASSUME NEW a \in Seq(Answer)
  PROVE  LET r == OvertakeIn(a, Len(a))
         IN /\ r \in Seq(Answer) /\ Len(r) = Len(a)
            /\ \A i \in 1..Len(a) : r[i].history = a[i].history /\ r[i].overtaken
<1>1. Len(a) \in Nat /\ Len(a) \in Int
  OBVIOUS
<1> DEFINE r == OvertakeIn(a, Len(a))
<1>2. /\ r \in Seq(Answer) /\ Len(r) = Len(a)
      /\ \A i \in 1..Len(a) : r[i].history = a[i].history /\ r[i].overtaken = (a[i].overtaken \/ i <= Len(a))
  BY <1>1, OvertakeIs
<1> HIDE DEF r
<1>3. ASSUME NEW i \in 1..Len(a) PROVE r[i].overtaken
  <2>1. i <= Len(a) /\ r[i].overtaken = (a[i].overtaken \/ i <= Len(a))
    BY <1>1, <1>2
  <2>2. QED
    BY <2>1
<1>4. QED
  BY <1>2, <1>3 DEF r

LEMMA AllForegone == \A a \in Seq(Answer) : Foregone(OvertakeIn(a, Len(a)))
<1> SUFFICES ASSUME NEW a \in Seq(Answer) PROVE Foregone(OvertakeIn(a, Len(a)))
  OBVIOUS
<1> DEFINE r == OvertakeIn(a, Len(a))
<1>1. Len(r) = Len(a) /\ \A i \in 1..Len(a) : r[i].overtaken
  BY OvertakeAll
<1> HIDE DEF r
<1>2. Foregone(r)
  BY <1>1 DEF Foregone
<1>3. QED
  BY <1>2 DEF r

\* What the page does with an event, in one formula.
LEMMA ReceiveDraws ==
  ASSUME TypeInv, Receive
  PROVE  /\ outdated' = outdated /\ turns' = turns /\ stored' = stored /\ owed' = owed
         /\ \/ Skips(base, Head(wire)) /\ UNCHANGED <<snapshot, shown, spoilt, answers>>
            \/ /\ ~Skips(base, Head(wire)) /\ base' \in Snapshot
               /\ snapshot' = base' /\ shown' = UpsertIn(shown, base') /\ shown' # <<>>
               /\ spoilt' = (spoilt \/ Older(base')) /\ answers' = OvertakeIn(answers, Len(answers))
<1> DEFINE e == Head(wire)
           s == Taken(base, e)
<1>1. /\ e \in Event /\ UNCHANGED <<node, owed>> /\ outdated' = outdated
      /\ \/ e.type = "delta" /\ base = None /\ UNCHANGED <<base, page, answers>>
         \/ /\ e.type = "update" \/ base # None
            /\ s \in Snapshot /\ base' = s /\ snapshot' = s /\ shown' = UpsertIn(shown, s)
            /\ spoilt' = (spoilt \/ Older(s)) /\ answers' = OvertakeIn(answers, Len(answers))
  BY ReceiveCase
<1> HIDE DEF s, e
<1>2. turns' = turns /\ stored' = stored
  BY <1>1 DEF node
<1>3. CASE e.type = "delta" /\ base = None
  <2>1. UNCHANGED <<page, answers>> /\ Skips(base, e)
    BY <1>1, <1>3 DEF Skips
  <2>2. QED
    BY <1>1, <1>2, <2>1 DEF page, e
<1>4. CASE e.type = "update" \/ base # None
  <2>1. ~(e.type = "delta" /\ base = None)
    BY <1>4
  <2>2. /\ s \in Snapshot /\ base' = s /\ snapshot' = s /\ shown' = UpsertIn(shown, s)
        /\ spoilt' = (spoilt \/ Older(s)) /\ answers' = OvertakeIn(answers, Len(answers))
    BY <1>1, <2>1
  <2>3. ~Skips(base, e)
    BY <2>1 DEF Skips
  <2>4. shown' # <<>>
    BY <2>2, UpsertIs DEF TypeInv, PageTypes
  <2>5. QED
    BY <1>1, <1>2, <2>2, <2>3, <2>4 DEF e
<1>5. QED
  BY <1>3, <1>4, <1>1, EventIs

LEMMA PageStep == TypeInv /\ KeyInv /\ KnownInv /\ PageInv /\ [Next]_vars => PageInv'
<1> SUFFICES ASSUME TypeInv, KeyInv, KnownInv, PageInv, [Next]_vars PROVE PageInv'
  OBVIOUS
<1>1. /\ answers \in Seq(Answer) /\ Len(answers) \in Nat /\ (snapshot = None <=> shown = <<>>)
      /\ stored \in Seq(Snapshot) /\ shown \in Seq(Snapshot)
  BY DEF TypeInv, NodeTypes, PageTypes, RestTypes, PageInv
<1>2. CASE UNCHANGED <<stored, page, answers>>
  BY <1>2 DEF PageInv, page
<1>3. CASE PrintTest \/ PrintPart
  <2>1. CASE PrintTest
    <3> DEFINE s == [session |-> turns[1], test |-> Len(stored) + 1, parts |-> {1}]
    <3>1. s \in Snapshot /\ stored' = Append(stored, s) /\ UNCHANGED page
      BY <2>1, PrintTestCase
    <3> HIDE DEF s
    <3>2. stored' # <<>>
      BY <1>1, <3>1, AppendProperties
    <3>3. QED
      BY <3>1, <3>2 DEF PageInv, page
  <2>2. CASE PrintPart
    <3>1. stored # <<>> /\ UNCHANGED page /\ \E p \in 1..MaxParts : stored' = Grown(stored, p)
      BY <2>2, PrintPartCase DEF Grown
    <3>2. stored' # <<>>
      BY <1>1, <3>1, GrownIs
    <3>3. QED
      BY <3>1, <3>2 DEF PageInv, page
  <2>3. QED
    BY <1>3, <2>1, <2>2
<1>4. CASE OpenSession
  BY <1>4, OpenSessionIs DEF PageInv
<1>5. CASE PollArrives \/ PollFails
  <2>1. PICK answer : SetSerial(answer)
    BY <1>5 DEF PollArrives, PollFails
  <2>2. UNCHANGED stored
    BY <1>5 DEF PollArrives, PollFails, node
  <2>3. CASE snapshot' = None /\ shown' = <<>> /\ answers' = OvertakeIn(answers, Len(answers))
    <3>1. Foregone(OvertakeIn(answers, Len(answers)))
      BY <1>1, AllForegone
    <3>2. QED
      BY <2>3, <3>1 DEF PageInv
  <2>4. QED
    BY <1>2, <2>1, <2>2, <2>3, SetSerialCase
<1>6. CASE FillAnswered
  <2> DEFINE new == [history |-> stored, overtaken |-> FALSE]
  <2>1. answers' = Append(answers, new) /\ UNCHANGED <<stored, page>> /\ new.history = stored
    BY <1>6 DEF FillAnswered, node
  <2>2. new \in Answer
    BY <1>1 DEF Answer
  <2> HIDE DEF new
  <2>3. /\ Len(answers') = Len(answers) + 1 /\ answers'[Len(answers) + 1] = new
        /\ \A i \in 1..Len(answers) : answers'[i] = answers[i]
    BY <1>1, <2>1, <2>2, AppendProperties
  <2>4. \A i \in 1..Len(answers') : i \in 1..Len(answers) \/ i = Len(answers) + 1
    BY <1>1, <2>3
  <2>5. Foregone(answers) /\ stored = <<>> => Foregone(answers')
    BY <2>1, <2>3, <2>4 DEF Foregone
  <2>6. QED
    BY <2>1, <2>5 DEF PageInv, page
<1>7. CASE FillArrives
  <2>1. PICK i \in 1..Len(answers) :
          /\ answers' = RemoveAt(OvertakeIn(answers, i), i)
          /\ answers[i].history \in Seq(Snapshot)
          /\ \/ answers[i].history = <<>> /\ UNCHANGED page
             \/ /\ answers[i].history # <<>> /\ shown' = answers[i].history
                /\ snapshot' = SnapshotAfterFill(answers[i].history)
                /\ spoilt' = (spoilt \/ answers[i].overtaken) /\ UNCHANGED <<key, outdated>>
    BY <1>7, FillArrivesCase
  <2>2. UNCHANGED stored
    BY <1>7 DEF FillArrives, node
  <2>3. Foregone(answers) => Foregone(answers')
    <3>1. /\ Len(answers') = Len(answers) - 1
          /\ \A k \in 1..Len(answers') :
               IF k < i THEN answers'[k].history = answers[k].history /\ answers'[k].overtaken = TRUE
               ELSE answers'[k].history = answers[k + 1].history
                    /\ answers'[k].overtaken = answers[k + 1].overtaken
      <4> DEFINE r == RemoveAt(OvertakeIn(answers, i), i)
      <4>1. /\ Len(r) = Len(answers) - 1
            /\ \A k \in 1..Len(r) :
                 IF k < i THEN r[k].history = answers[k].history /\ r[k].overtaken = TRUE
                 ELSE r[k].history = answers[k + 1].history /\ r[k].overtaken = answers[k + 1].overtaken
        BY <1>1, ArrivedIs
      <4> HIDE DEF r
      <4>2. answers' = r
        BY <2>1 DEF r
      <4>3. QED
        BY <4>1, <4>2
    <3>2. \A k \in 1..Len(answers') : k + 1 \in 1..Len(answers)
      BY <1>1, <3>1
    <3>3. QED
      BY <3>1, <3>2 DEF Foregone
  <2>4. CASE UNCHANGED page
    BY <2>2, <2>3, <2>4 DEF PageInv, page
  <2>5. CASE /\ answers[i].history # <<>> /\ shown' = answers[i].history
             /\ snapshot' = SnapshotAfterFill(answers[i].history)
             /\ spoilt' = (spoilt \/ answers[i].overtaken) /\ UNCHANGED <<key, outdated>>
    <3>1. snapshot' # None
      BY <2>1, <2>5, LastIs, Constants DEF SnapshotAfterFill
    <3>2. Foregone(answers) => answers[i].overtaken
      BY <2>5 DEF Foregone
    <3>3. QED
      BY <2>2, <2>3, <2>5, <3>1, <3>2 DEF PageInv
  <2>6. QED
    BY <2>1, <2>4, <2>5
<1>8. CASE Receive
  <2>1. CASE UNCHANGED <<snapshot, shown, spoilt, answers>>
    BY <1>8, <2>1, ReceiveDraws DEF PageInv
  <2>2. CASE /\ base' \in Snapshot /\ snapshot' = base' /\ shown' # <<>>
             /\ spoilt' = (spoilt \/ Older(base')) /\ answers' = OvertakeIn(answers, Len(answers))
    <3>1. Foregone(OvertakeIn(answers, Len(answers)))
      BY <1>1, AllForegone
    <3>2. UNCHANGED <<outdated, turns, stored>>
      BY <1>8, ReceiveDraws
    <3>3. ASSUME stored = <<>> PROVE Older(base')
      <4>1. KnownInv'
        BY KnownStep
      <4>2. Known(base', stored, turns[1]) /\ Len(stored) = 0
        BY <2>2, <3>2, <3>3, <4>1, Constants DEF KnownInv, TypeInv, NodeTypes
      <4>3. base'.session < turns[1]
        <5>1. base'.test \in Nat \ {0}
          BY <2>2, SnapshotIs
        <5>2. QED
          BY <4>2, <5>1 DEF Known
      <4>4. QED
        BY <4>3 DEF Older
    <3>4. QED
      BY <2>2, <3>1, <3>2, <3>3, Constants DEF PageInv
  <2>3. QED
    BY <1>8, <2>1, <2>2, ReceiveDraws
<1>9. CASE Leave
  <2>1. snapshot' = None /\ shown' = <<>> /\ answers' = <<>> /\ Len(<<>>) = 0
    BY <1>9 DEF Leave, Forget
  <2>2. QED
    BY <2>1 DEF PageInv, Foregone
<1>10. Broadcast \/ Lose \/ ResumeSession \/ FillFails \/ Opens \/ Closes \/ Retry \/ UNCHANGED vars
        => UNCHANGED <<stored, page, answers>>
  BY DEF Broadcast, Lose, ResumeSession, FillFails, Opens, Closes, Retry, vars, node, rest
<1>11. QED
  BY <1>2, <1>3, <1>4, <1>5, <1>6, <1>7, <1>8, <1>9, <1>10 DEF Next

-----------------------------------------------------------------------------
(* What the page shows becomes what the node has, or is replaced by an      *)
(* answer that does.  R: the histories that what is under way completes.    *)

Fit(b, q, st, n) == {x \in Seq(Snapshot) : Right(x, b, q, st, n)}

\* After the i-th answer another comes, that fits or will not go unnoticed.
Later(a, m, i, R) ==
  \/ m > 0
  \/ \E j \in 1..Len(a) : i < j /\ a[j].history # <<>> /\ (a[j].overtaken \/ a[j].history \in R)

Fresh(a, i) == i \in 1..Len(a) /\ ~a[i].overtaken /\ a[i].history # <<>>

Pending(x, a, m, R) ==
  /\ x \in R \/ Later(a, m, 0, R)
  /\ \A i \in 1..Len(a) : Fresh(a, i) => a[i].history \in R \/ Later(a, m, i, R)

Newest(c, a, st) ==
  /\ c \in {None, Last(st)}
  /\ \A i \in 1..Len(a) : Fresh(a, i) => Last(a[i].history) = Last(st)

Watched(x, c, a, m, b, q, st, n) ==
  /\ Pending(x, a, m, Fit(b, q, st, n))
  /\ st # <<>> => Effective(b, q) \/ Newest(c, a, st)

Due == IF owed THEN 1 ELSE 0

WatchInv ==
  Watching => Watched(shown, snapshot, answers, Due, base, wire \o pipe, stored, turns[1])

LEMMA PendingMore ==
  ASSUME NEW x, NEW a, NEW m, NEW R, NEW S, R \subseteq S, Pending(x, a, m, R)
  PROVE  Pending(x, a, m, S)
<1>1. \A i : Later(a, m, i, R) => Later(a, m, i, S)
  BY DEF Later
<1>2. QED
  BY <1>1 DEF Pending

LEMMA PendingAsked == \A x, a, m, R : m > 0 => Pending(x, a, m, R)
  BY DEF Pending, Later

\* An answer is given, with all that is stored.
LEMMA PendingAnswer ==
  ASSUME NEW x, NEW a \in Seq(Answer), NEW m, NEW k, NEW R, NEW e \in Answer,
         ~e.overtaken, e.history \in R, e.history = <<>> => Foregone(a) /\ x \in R
  PROVE  Pending(x, Append(a, e), k, R)
<1> DEFINE r == Append(a, e)
<1>1. /\ Len(a) \in Nat /\ Len(r) = Len(a) + 1 /\ r[Len(a) + 1] = e
      /\ \A i \in 1..Len(a) : r[i] = a[i]
  BY AppendProperties
<1> HIDE DEF r
<1>2. CASE e.history = <<>>
  <2>1. ASSUME NEW i \in 1..Len(r) PROVE ~Fresh(r, i)
    <3>1. CASE i \in 1..Len(a)
      BY <1>1, <1>2, <3>1 DEF Fresh, Foregone
    <3>2. CASE i = Len(a) + 1
      BY <1>1, <1>2, <3>2 DEF Fresh
    <3>3. QED
      BY <1>1, <3>1, <3>2
  <2>2. QED
    BY <1>2, <2>1 DEF Pending, r
<1>3. CASE e.history # <<>>
  <2> DEFINE j == Len(a) + 1
  <2>1. j \in 1..Len(r) /\ r[j] = e /\ \A i \in 0..Len(a) : i < j
    BY <1>1
  <2> HIDE DEF j
  <2>2. \A i \in 0..Len(a) : Later(r, k, i, R)
    BY <1>3, <2>1 DEF Later
  <2>3. \A i \in 1..Len(r) : i \in 0..Len(a) \/ i = j
    BY <1>1 DEF j
  <2>4. 0 \in 0..Len(a)
    BY <1>1
  <2>5. QED
    BY <2>1, <2>2, <2>3, <2>4 DEF Pending, r
<1>4. QED
  BY <1>2, <1>3

\* The i-th answer arrives.
LEMMA PendingArrives ==
  ASSUME NEW x, NEW y, NEW a \in Seq(Answer), NEW m, NEW R, NEW i \in 1..Len(a), Pending(x, a, m, R),
         IF a[i].history = <<>> THEN y = x ELSE y = a[i].history /\ ~a[i].overtaken
  PROVE  Pending(y, RemoveAt(OvertakeIn(a, i), i), m, R)
<1> DEFINE r == RemoveAt(OvertakeIn(a, i), i)
<1>1. /\ Len(r) = Len(a) - 1
      /\ \A k \in 1..Len(r) :
           IF k < i THEN r[k].history = a[k].history /\ r[k].overtaken = TRUE
           ELSE r[k].history = a[k + 1].history /\ r[k].overtaken = a[k + 1].overtaken
  BY ArrivedIs
<1> HIDE DEF r
<1>2. Len(a) \in Nat /\ i \in Nat \ {0} /\ i <= Len(a)
  OBVIOUS
<1>3. ASSUME NEW j \in 1..Len(a), j # i, NEW k \in Nat, k < j, k = 0 \/ k >= i,
             a[j].history # <<>>, a[j].overtaken \/ a[j].history \in R
      PROVE  /\ k = 0 => Later(r, m, 0, R)
             /\ k >= i => Later(r, m, k - 1, R)
  <2>1. CASE j < i
    <3>1. j \in 1..Len(r) /\ 0 < j
      BY <1>1, <1>2, <2>1
    <3>2. r[j].history = a[j].history /\ r[j].overtaken
      BY <1>1, <2>1, <3>1
    <3>3. Later(r, m, 0, R)
      BY <1>3, <3>1, <3>2 DEF Later
    <3>4. ~(k >= i)
      BY <1>2, <1>3, <2>1
    <3>5. QED
      BY <3>3, <3>4
  <2>2. CASE j > i
    <3> DEFINE l == j - 1
    <3>1. l \in 1..Len(r) /\ ~(l < i) /\ l + 1 = j /\ 0 < l /\ (k >= i => k - 1 < l)
      BY <1>1, <1>2, <1>3, <2>2
    <3> HIDE DEF l
    <3>2. r[l].history = a[j].history /\ r[l].overtaken = a[j].overtaken
      BY <1>1, <3>1
    <3>3. QED
      BY <1>3, <3>1, <3>2 DEF Later
  <2>3. QED
    BY <1>2, <1>3, <2>1, <2>2
<1>4. ASSUME NEW k \in Nat, k = 0 \/ k >= i, Later(a, m, k, R), k = i \/ a[i].history = <<>> \/ k > i
      PROVE  (k = 0 => Later(r, m, 0, R)) /\ (k >= i => Later(r, m, k - 1, R))
  <2>1. CASE m > 0
    BY <2>1 DEF Later
  <2>2. CASE ~(m > 0)
    <3>1. PICK j \in 1..Len(a) : k < j /\ a[j].history # <<>> /\ (a[j].overtaken \/ a[j].history \in R)
      BY <1>4, <2>2 DEF Later
    <3>2. j # i
      BY <1>2, <1>4, <3>1
    <3>3. QED
      BY <1>3, <1>4, <3>1, <3>2
  <2>3. QED
    BY <2>1, <2>2
<1>5. y \in R \/ Later(r, m, 0, R)
  <2>1. CASE a[i].history = <<>>
    <3>1. y = x /\ (x \in R \/ Later(a, m, 0, R))
      BY <2>1 DEF Pending
    <3>2. 0 \in Nat
      OBVIOUS
    <3>3. QED
      BY <1>4, <2>1, <3>1, <3>2
  <2>2. CASE a[i].history # <<>>
    <3>1. Fresh(a, i) /\ y = a[i].history
      BY <2>2 DEF Fresh
    <3>2. y \in R \/ Later(a, m, i, R)
      BY <3>1 DEF Pending
    <3>3. ASSUME Later(r, m, i - 1, R) PROVE Later(r, m, 0, R)
      <4>1. \A l \in 1..Len(r) : 0 < l
        OBVIOUS
      <4>2. QED
        BY <3>3, <4>1 DEF Later
    <3>4. i >= i /\ i \in Nat
      BY <1>2
    <3>5. QED
      BY <1>4, <3>2, <3>3, <3>4
  <2>3. QED
    BY <2>1, <2>2
<1>6. ASSUME NEW k \in 1..Len(r), Fresh(r, k) PROVE r[k].history \in R \/ Later(r, m, k, R)
  <2>1. ~(k < i)
    BY <1>1, <1>6 DEF Fresh
  <2>2. r[k].history = a[k + 1].history /\ r[k].overtaken = a[k + 1].overtaken
    BY <1>1, <2>1
  <2>3. k + 1 \in 1..Len(a) /\ k + 1 >= i /\ k + 1 > i /\ (k + 1) - 1 = k /\ k + 1 \in Nat
    BY <1>1, <1>2, <2>1
  <2>4. Fresh(a, k + 1)
    BY <1>6, <2>2, <2>3 DEF Fresh
  <2>5. a[k + 1].history \in R \/ Later(a, m, k + 1, R)
    BY <2>3, <2>4 DEF Pending
  <2>6. Later(a, m, k + 1, R) => Later(r, m, k, R)
    BY <1>4, <2>3
  <2>7. QED
    BY <2>2, <2>5, <2>6
<1>7. QED
  BY <1>5, <1>6 DEF Pending, r

\* An event is shown: no answer goes unnoticed any more.
LEMMA PendingShown ==
  ASSUME NEW x, NEW y, NEW a \in Seq(Answer), NEW m, NEW R, NEW S, Pending(x, a, m, R), x \in R => y \in S
  PROVE  Pending(y, OvertakeIn(a, Len(a)), m, S)
<1> DEFINE r == OvertakeIn(a, Len(a))
<1>1. Len(r) = Len(a) /\ \A i \in 1..Len(a) : r[i].history = a[i].history /\ r[i].overtaken
  BY OvertakeAll
<1> HIDE DEF r
<1>2. \A i \in 1..Len(r) : ~Fresh(r, i)
  BY <1>1 DEF Fresh
<1>3. Later(a, m, 0, R) => Later(r, m, 0, S)
  BY <1>1 DEF Later
<1>4. QED
  BY <1>2, <1>3 DEF Pending, r

LEMMA NewestShown ==
  ASSUME NEW a \in Seq(Answer), NEW st, NEW c, c \in {None, Last(st)}
  PROVE  Newest(c, OvertakeIn(a, Len(a)), st)
<1> DEFINE r == OvertakeIn(a, Len(a))
<1>1. Len(r) = Len(a) /\ \A i \in 1..Len(a) : r[i].overtaken
  BY OvertakeAll
<1> HIDE DEF r
<1>2. \A i \in 1..Len(r) : ~Fresh(r, i)
  BY <1>1 DEF Fresh
<1>3. QED
  BY <1>2 DEF Newest, r

LEMMA NewestArrives ==
  ASSUME NEW a \in Seq(Answer), NEW i \in 1..Len(a), NEW st, NEW c, NEW d, Newest(c, a, st),
         d = c \/ (Fresh(a, i) /\ d = Last(a[i].history))
  PROVE  Newest(d, RemoveAt(OvertakeIn(a, i), i), st)
<1> DEFINE r == RemoveAt(OvertakeIn(a, i), i)
<1>1. /\ Len(r) = Len(a) - 1
      /\ \A k \in 1..Len(r) :
           IF k < i THEN r[k].history = a[k].history /\ r[k].overtaken = TRUE
           ELSE r[k].history = a[k + 1].history /\ r[k].overtaken = a[k + 1].overtaken
  BY ArrivedIs
<1> HIDE DEF r
<1>2. \A k \in 1..Len(r) : k + 1 \in 1..Len(a)
  BY <1>1
<1>3. ASSUME NEW k \in 1..Len(r), Fresh(r, k) PROVE Last(r[k].history) = Last(st)
  <2>1. ~(k < i)
    BY <1>1, <1>3 DEF Fresh
  <2>2. r[k].history = a[k + 1].history /\ Fresh(a, k + 1)
    BY <1>1, <1>2, <1>3, <2>1 DEF Fresh
  <2>3. QED
    BY <1>2, <2>2 DEF Newest
<1>4. d \in {None, Last(st)}
  BY DEF Newest
<1>5. QED
  BY <1>3, <1>4 DEF Newest, r

LEMMA NewestAnswer ==
  ASSUME NEW a \in Seq(Answer), NEW e \in Answer, NEW st, NEW c, Newest(c, a, st), e.history = st
  PROVE  Newest(c, Append(a, e), st)
<1> DEFINE r == Append(a, e)
<1>1. /\ Len(a) \in Nat /\ Len(r) = Len(a) + 1 /\ r[Len(a) + 1] = e
      /\ \A i \in 1..Len(a) : r[i] = a[i]
  BY AppendProperties
<1> HIDE DEF r
<1>2. \A i \in 1..Len(r) : i \in 1..Len(a) \/ i = Len(a) + 1
  BY <1>1
<1>3. QED
  BY <1>1, <1>2 DEF Newest, Fresh, r

\* Nothing is under way.
LEMMA NothingToRead ==
  ASSUME NEW b \in Snapshot \cup {None}, NEW st
  PROVE  /\ Current(b, <<>>, st) /\ st # <<>> => b = Last(st)
         /\ \A n : \A x \in Fit(b, <<>>, st, n) : x = st
         /\ ~Effective(b, <<>>)
<1> DEFINE B == [k \in Nat |-> b]
<1>1. Len(<<>>) = 0 /\ 0 \in Nat
  OBVIOUS
<1>2. B \in Bases /\ B[0] = b
  BY DEF Bases
<1>3. \A k \in Nat : ~(k < 0)
  OBVIOUS
<1>4. Folds(B, <<>>, 0)
  BY <1>1, <1>3 DEF Folds
<1>5. Current(b, <<>>, st) /\ st # <<>> => b = Last(st)
  BY <1>1, <1>2, <1>4 DEF Current
<1>6. ASSUME NEW n, NEW x \in Fit(b, <<>>, st, n) PROVE x = st
  <2> DEFINE X == [k \in Nat |-> x]
  <2>1. x \in Seq(Snapshot) /\ Right(x, b, <<>>, st, n)
    BY DEF Fit
  <2>2. X \in Histories /\ X[0] = x
    BY <2>1 DEF Histories
  <2>3. Draws(X, B, <<>>, n)
    BY <1>1, <1>3 DEF Draws
  <2> HIDE DEF X, B
  <2>4. X[Len(<<>>)] = st
    BY <1>2, <1>4, <2>1, <2>2, <2>3 DEF Right
  <2>5. QED
    BY <1>1, <2>2, <2>4
<1>7. QED
  BY <1>5, <1>6 DEF Effective

\* A change that is dropped shows nothing.
LEMMA EffectiveSkip ==
  ASSUME NEW q \in Seq(Event), q # <<>>, NEW b, Skips(b, Head(q)), Effective(b, q)
  PROVE  Effective(b, Tail(q))
<1>1. /\ Len(q) \in Nat \ {0} /\ Len(Tail(q)) = Len(q) - 1 /\ Head(q) = q[1]
      /\ \A k \in 1..Len(Tail(q)) : Tail(q)[k] = q[k + 1]
  BY TailIs
<1>2. b = None /\ q[1].type # "update"
  BY <1>1 DEF Skips
<1>3. PICK k \in 1..Len(q) : q[k].type = "update"
  BY <1>2 DEF Effective
<1>4. k # 1
  BY <1>2, <1>3
<1>5. k - 1 \in 1..Len(Tail(q)) /\ (k - 1) + 1 = k
  BY <1>1, <1>4
<1>6. Tail(q)[k - 1].type = "update"
  BY <1>1, <1>3, <1>5
<1>7. Tail(q) # <<>>
  <2>1. Len(Tail(q)) # 0
    BY ONLY <1>1, <1>5
  <2>2. Len(<<>>) = 0
    OBVIOUS
  <2>3. QED
    BY ONLY <2>1, <2>2
<1>8. QED
  BY <1>5, <1>6, <1>7 DEF Effective

\* The node has emitted something.
LEMMA WatchedEmit ==
  ASSUME NEW x, NEW c, NEW a, NEW m, NEW b, NEW q, NEW st, NEW n, Watched(x, c, a, m, b, q, st, n),
         NEW r, NEW s, \A y \in Seq(Snapshot) : Right(y, b, q, st, n) => Right(y, b, r, s, n), Effective(b, r)
  PROVE  Watched(x, c, a, m, b, r, s, n)
<1>1. Fit(b, q, st, n) \subseteq Fit(b, r, s, n)
  BY DEF Fit
<1>2. Pending(x, a, m, Fit(b, q, st, n))
  BY DEF Watched
<1> DEFINE R == Fit(b, q, st, n)
           S == Fit(b, r, s, n)
<1> HIDE DEF R, S
<1>3. Pending(x, a, m, S)
  BY <1>1, <1>2, PendingMore DEF R, S
<1>4. QED
  BY <1>3 DEF Watched, S

\* The page has asked: the answer will show it all.
LEMMA WatchedAsked ==
  ASSUME NEW x, NEW c, NEW a, NEW m, m > 0, NEW b, NEW q, NEW st, NEW n,
         st # <<>> => Effective(b, q) \/ Newest(c, a, st)
  PROVE  Watched(x, c, a, m, b, q, st, n)
<1> DEFINE R == Fit(b, q, st, n)
<1> HIDE DEF R
<1>1. Pending(x, a, m, R)
  BY PendingAsked
<1>2. QED
  BY <1>1 DEF Watched, R

\* The socket shows an event.
LEMMA WatchedShown ==
  ASSUME NEW x \in Seq(Snapshot), NEW c, NEW a \in Seq(Answer), NEW m, NEW b \in Snapshot \cup {None},
         NEW q \in Seq(Event), q # <<>>, NEW st, NEW n, Watched(x, c, a, m, b, q, st, n),
         ~Skips(b, Head(q)), ~OlderIn(Folded(b, Head(q)), n, b, x), Current(b, q, st),
         NEW d \in Snapshot, d = Folded(b, Head(q)), UpsertIn(x, d) \in Seq(Snapshot)
  PROVE  Watched(UpsertIn(x, d), d, OvertakeIn(a, Len(a)), m, d, Tail(q), st, n)
<1> DEFINE R == Fit(b, q, st, n)
           S == Fit(d, Tail(q), st, n)
           y == UpsertIn(x, d)
<1>1. x \in R => y \in S
  BY RightTail DEF Fit
<1>2. Pending(x, a, m, R)
  BY DEF Watched
<1> HIDE DEF R, S, y
<1>3. Pending(y, OvertakeIn(a, Len(a)), m, S)
  BY <1>1, <1>2, PendingShown
<1>4. ASSUME st # <<>> PROVE Effective(d, Tail(q)) \/ Newest(d, OvertakeIn(a, Len(a)), st)
  <2>1. CASE Tail(q) # <<>>
    BY <2>1, Constants DEF Effective
  <2>2. CASE Tail(q) = <<>>
    <3>1. Current(d, Tail(q), st)
      BY CurrentTail
    <3>2. d = Last(st)
      BY <1>4, <2>2, <3>1, NothingToRead
    <3>3. d \in {None, Last(st)}
      BY <3>2
    <3>4. QED
      BY <3>3, NewestShown
  <2>3. QED
    BY <2>1, <2>2
<1>5. QED
  BY <1>3, <1>4 DEF Watched, S, y

\* The socket drops a change.
LEMMA WatchedSkip ==
  ASSUME NEW x, NEW c, NEW a, NEW m, NEW b \in Snapshot \cup {None},
         NEW q \in Seq(Event), q # <<>>, NEW st, NEW n, Watched(x, c, a, m, b, q, st, n), Skips(b, Head(q))
  PROVE  Watched(x, c, a, m, Folded(b, Head(q)), Tail(q), st, n)
<1> DEFINE d == Folded(b, Head(q))
           R == Fit(b, q, st, n)
           S == Fit(d, Tail(q), st, n)
<1>1. R \subseteq S
  BY RightTail DEF Fit
<1>2. Pending(x, a, m, R)
  BY DEF Watched
<1> HIDE DEF R, S
<1>3. Pending(x, a, m, S)
  BY <1>1, <1>2, PendingMore
<1>4. d = b
  BY DEF Folded, Skips
<1>5. Effective(b, q) => Effective(b, Tail(q))
  BY EffectiveSkip
<1>6. st # <<>> => Effective(b, Tail(q)) \/ Newest(c, a, st)
  BY <1>5 DEF Watched
<1>7. QED
  BY <1>3, <1>4, <1>6 DEF Watched, S

\* An answer is given.
LEMMA WatchedAnswer ==
  ASSUME NEW x, NEW c, NEW a \in Seq(Answer), NEW m, NEW k, NEW b, NEW q, NEW st, NEW n,
         Watched(x, c, a, m, b, q, st, n), NEW e \in Answer, e.history = st, ~e.overtaken,
         st \in Fit(b, q, st, n), st = <<>> => Foregone(a) /\ x = st
  PROVE  Watched(x, c, Append(a, e), k, b, q, st, n)
<1> DEFINE R == Fit(b, q, st, n)
           r == Append(a, e)
<1>1. e.history \in R /\ (e.history = <<>> => Foregone(a) /\ x \in R)
  OBVIOUS
<1> HIDE DEF R
<1>2. Pending(x, r, k, R)
  BY <1>1, PendingAnswer
<1>3. st # <<>> => Effective(b, q) \/ Newest(c, r, st)
  BY NewestAnswer DEF Watched
<1> HIDE DEF r
<1>4. QED
  BY <1>2, <1>3 DEF Watched, R, r

\* An answer arrives.
LEMMA WatchedArrives ==
  ASSUME NEW x, NEW c, NEW a \in Seq(Answer), NEW m, NEW b, NEW q, NEW st, NEW n,
         Watched(x, c, a, m, b, q, st, n), NEW i \in 1..Len(a), NEW y, NEW d,
         IF a[i].history = <<>> THEN y = x ELSE y = a[i].history /\ ~a[i].overtaken,
         d = c \/ (Fresh(a, i) /\ d = Last(a[i].history))
  PROVE  Watched(y, d, RemoveAt(OvertakeIn(a, i), i), m, b, q, st, n)
<1> DEFINE R == Fit(b, q, st, n)
           r == RemoveAt(OvertakeIn(a, i), i)
<1>1. Pending(x, a, m, R)
  BY DEF Watched
<1> HIDE DEF R
<1>2. Pending(y, r, m, R)
  BY <1>1, PendingArrives
<1>3. st # <<>> => Effective(b, q) \/ Newest(d, r, st)
  BY NewestArrives DEF Watched
<1> HIDE DEF r
<1>4. QED
  BY <1>2, <1>3 DEF Watched, R, r

Inv == TypeInv /\ ClosedInv /\ KeyInv /\ KnownInv /\ StreamInv /\ PageInv /\ WatchInv

\* The page's own steps, with its requests.
LEMMA WatchPage ==
  Inv /\ (PollArrives \/ PollFails \/ FillAnswered \/ FillFails \/ FillArrives) => WatchInv'
<1> SUFFICES ASSUME Inv, PollArrives \/ PollFails \/ FillAnswered \/ FillFails \/ FillArrives, Watching'
             PROVE  WatchInv'
  BY DEF WatchInv
<1> DEFINE q == wire \o pipe
           n == turns[1]
<1>1. /\ answers \in Seq(Answer) /\ stored \in Seq(Snapshot) /\ Numbered(stored)
      /\ turns \in OpenedAt /\ base \in Snapshot \cup {None} /\ wire \in Seq(Event) /\ pipe \in Seq(Event)
      /\ \A i \in 1..Len(stored) : stored[i].session = n
  BY DEF Inv, TypeInv, NodeTypes, SocketTypes, RestTypes
<1>2. UNCHANGED <<turns, stored, pipe, ws, wire, base, lost>>
  BY DEF PollArrives, PollFails, FillAnswered, FillFails, FillArrives, node, socket
<1>3. ASSUME Watched(shown', snapshot', answers', Due', base, q, stored, n) PROVE WatchInv'
  BY <1>2, <1>3 DEF WatchInv
<1>4. ASSUME UNCHANGED <<outdated, spoilt>>
      PROVE  Watching /\ Watched(shown, snapshot, answers, Due, base, q, stored, n)
  <2>1. Watching
    BY <1>2, <1>4 DEF Watching, Connected
  <2>2. QED
    BY <2>1 DEF Inv, WatchInv
<1>5. CASE PollArrives \/ PollFails
  <2>1. PICK answer : SetSerial(answer)
    BY <1>5 DEF PollArrives, PollFails
  <2>2. CASE UNCHANGED <<page, asked, answers, owed>>
    <3>1. UNCHANGED <<shown, snapshot, outdated, spoilt, answers>> /\ Due' = Due
      BY <2>2 DEF page, Due
    <3>2. QED
      BY <1>3, <1>4, <3>1
  <2>3. CASE snapshot' = None /\ owed' = TRUE /\ answers' = OvertakeIn(answers, Len(answers))
    <3> HIDE DEF q, n
    <3>1. Newest(None, OvertakeIn(answers, Len(answers)), stored)
      BY <1>1, NewestShown
    <3>2. Due' > 0
      BY <2>3 DEF Due
    <3>3. stored # <<>> => Effective(base, q) \/ Newest(snapshot', answers', stored)
      BY <2>3, <3>1
    <3>4. Watched(shown', snapshot', answers', Due', base, q, stored, n)
      BY <3>2, <3>3, WatchedAsked
    <3>5. QED
      BY <1>3, <3>4
  <2>4. QED
    BY <2>1, <2>2, <2>3, SetSerialCase
<1>6. CASE FillAnswered
  <2> DEFINE e == [history |-> stored, overtaken |-> FALSE]
  <2>1. answers' = Append(answers, e) /\ UNCHANGED <<shown, snapshot, outdated, spoilt>>
    BY <1>6 DEF FillAnswered, page
  <2>2. e \in Answer /\ e.history = stored /\ ~e.overtaken
    BY <1>1 DEF Answer
  <2> HIDE DEF e
  <2>3. Watching /\ Watched(shown, snapshot, answers, Due, base, q, stored, n)
    BY <1>4, <2>1
  <2>4. stored \in Fit(base, q, stored, n)
    <3>1. q \in Seq(Event)
      BY <1>1, UnderWay
    <3>2. KnownEvents(q, stored, n) /\ (base # None => Known(base, stored, n)) /\ Current(base, q, stored)
      BY <1>1, <2>3, KnownParts DEF Inv, KnownInv, StreamInv, Watching
    <3>3. n \in Sessions
      BY <1>1 DEF OpenedAt
    <3> HIDE DEF q, n
    <3>4. Right(stored, base, q, stored, n)
      BY <1>1, <3>1, <3>2, <3>3, StartRight
    <3>5. QED
      BY <1>1, <3>4 DEF Fit
  <2>5. stored = <<>> => Foregone(answers) /\ shown = stored
    BY <2>3 DEF Inv, PageInv, Watching
  <2> HIDE DEF q, n
  <2>6. Watched(shown, snapshot, Append(answers, e), Due', base, q, stored, n)
    BY <1>1, <2>2, <2>3, <2>4, <2>5, WatchedAnswer
  <2>7. QED
    BY <1>3, <2>1, <2>6
<1>7. CASE FillArrives
  <2>1. PICK i \in 1..Len(answers) :
          /\ answers' = RemoveAt(OvertakeIn(answers, i), i)
          /\ answers[i].history \in Seq(Snapshot)
          /\ \/ answers[i].history = <<>> /\ UNCHANGED page
             \/ /\ answers[i].history # <<>> /\ shown' = answers[i].history
                /\ snapshot' = SnapshotAfterFill(answers[i].history)
                /\ spoilt' = (spoilt \/ answers[i].overtaken) /\ UNCHANGED <<key, outdated>>
    BY <1>7, FillArrivesCase DEF Inv
  <2>2. /\ outdated' = outdated /\ spoilt' = spoilt
        /\ IF answers[i].history = <<>> THEN shown' = shown ELSE shown' = answers[i].history /\ ~answers[i].overtaken
        /\ snapshot' = snapshot \/ (Fresh(answers, i) /\ snapshot' = Last(answers[i].history))
    <3>1. CASE answers[i].history = <<>> /\ UNCHANGED page
      BY <3>1 DEF page
    <3>2. CASE /\ answers[i].history # <<>> /\ shown' = answers[i].history
               /\ snapshot' = SnapshotAfterFill(answers[i].history)
               /\ spoilt' = (spoilt \/ answers[i].overtaken) /\ UNCHANGED <<key, outdated>>
      <4>1. ~spoilt'
        BY DEF Watching
      <4>2. ~answers[i].overtaken /\ spoilt' = spoilt
        BY <3>2, <4>1 DEF Inv, TypeInv, PageTypes
      <4>3. Fresh(answers, i)
        BY <3>2, <4>2 DEF Fresh
      <4>4. snapshot' = snapshot \/ snapshot' = Last(answers[i].history)
        BY <3>2 DEF SnapshotAfterFill
      <4>5. QED
        BY <3>2, <4>2, <4>3, <4>4
    <3>3. QED
      BY <2>1, <3>1, <3>2
  <2>3. Watched(shown, snapshot, answers, Due, base, q, stored, n) /\ Due' = Due
    BY <1>4, <1>7, <2>2 DEF FillArrives, Due
  <2> HIDE DEF q, n
  <2>4. Watched(shown', snapshot', RemoveAt(OvertakeIn(answers, i), i), Due, base, q, stored, n)
    BY <1>1, <2>2, <2>3, WatchedArrives
  <2>5. QED
    BY <1>3, <2>1, <2>3, <2>4
<1>8. CASE FillFails
  <2>1. UNCHANGED <<shown, snapshot, outdated, spoilt, answers>> /\ Due' = Due
    BY <1>8 DEF FillFails, page, Due
  <2>2. QED
    BY <1>3, <1>4, <2>1
<1>9. QED
  BY <1>5, <1>6, <1>7, <1>8

\* The node's steps, while the page watches.
LEMMA WatchNode ==
  Inv /\ (PrintTest \/ PrintPart) => WatchInv'
<1> SUFFICES ASSUME Inv, PrintTest \/ PrintPart, Watching' PROVE WatchInv'
  BY DEF WatchInv
<1> DEFINE q == wire \o pipe
           n == turns[1]
<1>1. /\ stored \in Seq(Snapshot) /\ Numbered(stored) /\ TypeInv
      /\ base \in Snapshot \cup {None} /\ wire \in Seq(Event) /\ pipe \in Seq(Event)
  BY DEF Inv, TypeInv, NodeTypes, SocketTypes
<1>2. UNCHANGED <<board, turns, port, openedAt, openings, socket, page, rest>>
  BY <1>1, PrintTestCase, PrintPartCase
<1>3. UNCHANGED <<shown, snapshot, answers, base, wire, turns>> /\ Due' = Due /\ Watching
  BY <1>2 DEF socket, page, rest, Watching, Connected, Due
<1>4. Watched(shown, snapshot, answers, Due, base, q, stored, n)
  BY <1>3 DEF Inv, WatchInv
<1>5. q \in Seq(Event) /\ Current(base, q, stored)
  BY <1>1, <1>3, UnderWay DEF Inv, StreamInv, Watching
<1>6. ASSUME NEW r, r = wire' \o pipe', Watched(shown, snapshot, answers, Due, base, r, stored', n)
      PROVE  WatchInv'
  BY <1>3, <1>6 DEF WatchInv
<1>7. CASE PrintTest
  <2> DEFINE s == [session |-> turns[1], test |-> Len(stored) + 1, parts |-> {1}]
             e == [type |-> "update", snapshot |-> s]
  <2>1. s \in Snapshot /\ stored' = Append(stored, s) /\ pipe' = Append(pipe, e) /\ e \in Event
    BY <1>1, <1>7, PrintTestCase
  <2>2. e.type = "update" /\ e.snapshot = s /\ s.test = Len(stored) + 1
    OBVIOUS
  <2> HIDE DEF e, s
  <2>3. wire' \o pipe' = Append(q, e)
    <3>1. wire \in Seq(Event) /\ pipe \in Seq(Event) /\ e \in Event
      BY <1>1, <2>1
    <3>2. wire \o Append(pipe, e) = Append(q, e)
      BY ONLY <3>1, UnderWay
    <3>3. wire' = wire /\ pipe' = Append(pipe, e)
      BY <1>1, <1>3, <2>1
    <3>4. QED
      BY <3>2, <3>3
  <2> DEFINE r == Append(q, e)
             t == Append(stored, s)
  <2> HIDE DEF q, n
  <2>4. Effective(base, r)
    BY <1>5, <2>1, <2>2, EffectiveUpdate
  <2>5. \A y \in Seq(Snapshot) : Right(y, base, q, stored, n) => Right(y, base, r, t, n)
    BY <1>1, <1>5, <2>1, <2>2, RightUpdate
  <2> HIDE DEF r, t
  <2>6. Watched(shown, snapshot, answers, Due, base, r, t, n)
    BY <1>4, <2>4, <2>5, WatchedEmit
  <2>7. QED
    BY <1>6, <2>1, <2>3, <2>6 DEF r, t
<1>8. CASE PrintPart
  <2>1. PICK p \in 1..MaxParts, e \in Event :
          e.type = "delta" /\ e.part = p /\ pipe' = Append(pipe, e) /\ stored' = Grown(stored, p)
    BY <1>1, <1>8, PrintPartCase DEF Grown
  <2>2. stored # <<>>
    BY <1>1, <1>8, PrintPartCase
  <2>3. wire' \o pipe' = Append(q, e)
    BY <1>1, <1>3, <2>1, UnderWay
  <2> DEFINE r == Append(q, e)
             t == Grown(stored, p)
  <2> HIDE DEF q, n
  <2>4. Effective(base, r)
    BY <1>1, <1>5, <2>2, EffectivePart
  <2>5. \A y \in Seq(Snapshot) : Right(y, base, q, stored, n) => Right(y, base, r, t, n)
    BY <1>1, <1>5, <2>1, <2>2, RightPart
  <2> HIDE DEF r, t
  <2>6. Watched(shown, snapshot, answers, Due, base, r, t, n)
    BY <1>4, <2>4, <2>5, WatchedEmit
  <2>7. QED
    BY <1>6, <2>1, <2>3, <2>6 DEF r, t
<1>9. QED
  BY <1>7, <1>8

\* The socket's steps.
LEMMA WatchSocket ==
  Inv /\ [Next]_vars /\ (Broadcast \/ Opens \/ Receive) => WatchInv'
<1> SUFFICES ASSUME Inv, [Next]_vars, Broadcast \/ Opens \/ Receive, Watching' PROVE WatchInv'
  BY DEF WatchInv
<1> DEFINE q == wire \o pipe
           n == turns[1]
<1>1. /\ stored \in Seq(Snapshot) /\ TypeInv /\ answers \in Seq(Answer) /\ shown \in Seq(Snapshot)
      /\ base \in Snapshot \cup {None} /\ wire \in Seq(Event) /\ pipe \in Seq(Event) /\ q \in Seq(Event)
  BY UnderWay DEF Inv, TypeInv, NodeTypes, SocketTypes, RestTypes, PageTypes
<1>2. CASE Broadcast
  <2>1. /\ pipe # <<>> /\ pipe' = Tail(pipe)
        /\ wire' = IF ws = "open" THEN Append(wire, Head(pipe)) ELSE wire
        /\ UNCHANGED <<turns, stored, ws, base, lost, page, rest>>
    BY <1>2 DEF Broadcast
  <2>2. Watching /\ UNCHANGED <<shown, snapshot, answers>> /\ Due' = Due
    BY <2>1 DEF Watching, Connected, page, rest, Due
  <2>3. wire' \o pipe' = q
    BY <1>1, <2>1, <2>2, UnderWay DEF Watching, Connected
  <2>4. Watched(shown, snapshot, answers, Due, base, q, stored, n)
    BY <2>2 DEF Inv, WatchInv
  <2> HIDE DEF q
  <2>5. QED
    BY <2>1, <2>2, <2>3, <2>4 DEF WatchInv
<1>3. CASE Opens
  <2>1. wire' = Replay(stored) /\ owed' = TRUE /\ UNCHANGED <<turns, stored, pipe, base, page, answers>>
    BY <1>3 DEF Opens, Replay, Ask, node
  <2> DEFINE r == Replay(stored) \o pipe
  <2>2. stored # <<>> => Effective(base, r)
    BY <1>1, OpensEffective
  <2>3. Due' > 0
    BY <2>1 DEF Due
  <2>4. wire' \o pipe' = r
    BY <2>1
  <2> HIDE DEF r, n
  <2>5. Watched(shown, snapshot, answers, Due', base, r, stored, n)
    BY <2>2, <2>3, WatchedAsked
  <2>6. QED
    BY <2>1, <2>4, <2>5 DEF WatchInv, page, n
<1>4. CASE Receive
  <2> DEFINE h == Head(wire)
  <2>1. /\ wire # <<>> /\ base' = Folded(base, h) /\ wire' = Tail(wire)
        /\ UNCHANGED <<turns, stored, pipe, ws, lost>>
    BY <1>1, <1>4, ReceiveFolds DEF node
  <2>2. /\ outdated' = outdated /\ Due' = Due
        /\ \/ Skips(base, h) /\ UNCHANGED <<snapshot, shown, spoilt, answers>>
           \/ /\ ~Skips(base, h) /\ base' \in Snapshot
              /\ snapshot' = base' /\ shown' = UpsertIn(shown, base')
              /\ spoilt' = (spoilt \/ Older(base')) /\ answers' = OvertakeIn(answers, Len(answers))
    BY <1>1, <1>4, ReceiveDraws DEF Due
  <2>3. q # <<>> /\ Head(q) = h /\ wire' \o pipe' = Tail(q)
    BY <1>1, <2>1, UnderWay
  <2>4. spoilt \in BOOLEAN
    BY <1>1 DEF TypeInv, PageTypes
  <2>5. ~spoilt /\ (~Skips(base, h) => ~Older(base')) /\ Connected /\ ~outdated
    <3>1. ~spoilt' /\ Connected /\ ~outdated
      BY <2>1, <2>2 DEF Watching, Connected
    <3>2. CASE Skips(base, h)
      BY <2>2, <3>1, <3>2
    <3>3. CASE ~Skips(base, h)
      <4>1. spoilt' = (spoilt \/ Older(base'))
        BY <2>2, <3>3
      <4>2. QED
        BY <3>1, <4>1
    <3>4. QED
      BY <3>1, <3>2, <3>3
  <2>6. Watched(shown, snapshot, answers, Due, base, q, stored, n) /\ Current(base, q, stored)
    BY <2>5 DEF Inv, WatchInv, StreamInv, Watching
  <2> HIDE DEF q, h
  <2>7. CASE Skips(base, h)
    <3>1. Watched(shown, snapshot, answers, Due, Folded(base, Head(q)), Tail(q), stored, n)
      BY <1>1, <2>3, <2>6, <2>7, WatchedSkip
    <3>2. Watched(shown, snapshot, answers, Due, base', wire' \o pipe', stored, n)
      BY <2>1, <2>3, <3>1
    <3>3. QED
      BY <2>1, <2>2, <2>7, <3>2 DEF WatchInv
  <2>8. CASE ~Skips(base, h)
    <3> DEFINE d == Folded(base, Head(q))
    <3>1. d \in Snapshot /\ base' = d
      BY <2>1, <2>2, <2>3, <2>8
    <3>2. ~OlderIn(d, n, base, shown)
    BY <2>5, <2>8, <3>1 DEF Older, OlderIn
    <3>3. UpsertIn(shown, d) \in Seq(Snapshot)
      BY <1>1, <3>1, UpsertIs
    <3> HIDE DEF d
    <3>4. d = Folded(base, Head(q))
      BY DEF d
    <3> HIDE DEF n
    <3>5. Watched(UpsertIn(shown, d), d, OvertakeIn(answers, Len(answers)), Due, d, Tail(q), stored, n)
      <4>1. ~Skips(base, Head(q)) /\ ~OlderIn(Folded(base, Head(q)), n, base, shown)
        BY <2>3, <2>8, <3>2, <3>4
      <4>2. QED
        BY <1>1, <2>3, <2>6, <3>1, <3>3, <3>4, <4>1, WatchedShown
    <3>6. /\ shown' = UpsertIn(shown, d) /\ snapshot' = d /\ answers' = OvertakeIn(answers, Len(answers))
          /\ Due' = Due /\ wire' \o pipe' = Tail(q)
      BY <2>2, <2>3, <2>8, <3>1
    <3>7. QED
      BY <2>1, <3>1, <3>5, <3>6 DEF WatchInv, n
  <2>9. QED
    BY <2>7, <2>8
<1>5. QED
  BY <1>2, <1>3, <1>4

LEMMA WatchStep == Inv /\ [Next]_vars => WatchInv'
<1> SUFFICES ASSUME Inv, [Next]_vars PROVE WatchInv'
  OBVIOUS
<1>1. CASE OpenSession
  <2>1. outdated' = TRUE
    BY <1>1 DEF OpenSession
  <2>2. QED
    BY <2>1 DEF WatchInv, Watching
<1>2. CASE Lose \/ Closes \/ Retry \/ Leave
  <2>1. ~Connected'
    BY <1>2 DEF Lose, Closes, Retry, Leave, Connected
  <2>2. QED
    BY <2>1 DEF WatchInv, Watching
<1>3. CASE ResumeSession \/ UNCHANGED vars
  <2>1. UNCHANGED <<stored, pipe, socket, page, rest>> /\ turns'[1] = turns[1]
    <3>1. CASE ResumeSession
      BY <3>1, ResumeSessionIs DEF Inv
    <3>2. CASE UNCHANGED vars
      BY <3>2 DEF vars, node
    <3>3. QED
      BY <1>3, <3>1, <3>2
  <2>2. UNCHANGED <<ws, wire, base, lost, shown, snapshot, outdated, spoilt, answers>> /\ Due' = Due
    BY <2>1 DEF socket, page, rest, Due
  <2>3. QED
    BY <2>1, <2>2 DEF Inv, WatchInv, Watching, Connected
<1>4. QED
  BY <1>1, <1>2, <1>3, WatchPage, WatchNode, WatchSocket DEF Next

(* When nothing is under way, what the page shows (useDutMonitor(), with    *)
(* upsertSnapshot() and the backfill) is what the node has, unless an event *)
(* was lost on the connection, something overtaken was applied, the history *)
(* was asked for in vain, or there is no port after an /open that failed.   *)
THEOREM MonitorShows == Spec => []ShowsNode
<1>1. Init => Inv
  <2> SUFFICES ASSUME Init PROVE Inv
    OBVIOUS
  <2>1. TypeInv
    BY InitTyped
  <2>2. Len(<<>>) = 0
    OBVIOUS
  <2>3. ClosedInv /\ KeyInv
    BY DEF Init, ClosedInv, OneSocket, KeyInv, NotNewer
  <2>4. KnownInv
    BY <2>2 DEF Init, KnownInv, KnownEvents
  <2>5. StreamInv /\ WatchInv
    BY DEF Init, StreamInv, WatchInv, Watching, Connected, Harmless
  <2>6. PageInv
    BY <2>2 DEF Init, PageInv, Foregone
  <2>7. QED
    BY <2>1, <2>3, <2>4, <2>5, <2>6 DEF Inv
<1>2. Inv /\ [Next]_vars => Inv'
  BY StepTyped, ClosedStep, KeyStep, KnownStep, StreamStep, PageStep, WatchStep DEF Inv
<1>3. Inv => ShowsNode
  <2> SUFFICES ASSUME Inv, Quiet, ~lost, ~spoilt, ~owed, port = "open" \/ ~outdated
               PROVE  shown = stored /\ snapshot = IF stored = <<>> THEN None ELSE Last(stored)
    BY DEF ShowsNode
  <2>1. ~outdated
    BY DEF Quiet, Inv, KeyInv
  <2>2. /\ Watching /\ wire = <<>> /\ pipe = <<>> /\ Due = 0 /\ answers = <<>>
        /\ base \in Snapshot \cup {None}
    BY <2>1 DEF Quiet, Watching, Connected, Due, Inv, TypeInv, SocketTypes
  <2>3. wire \o pipe = <<>>
    BY <2>2
  <2>4. Watched(shown, snapshot, <<>>, 0, base, <<>>, stored, turns[1])
    BY <2>2, <2>3 DEF Inv, WatchInv
  <2>5. Len(<<>>) = 0 /\ ~(0 > 0)
    OBVIOUS
  <2>6. \A R : ~Later(<<>>, 0, 0, R)
    BY <2>5 DEF Later
  <2>7. shown \in Fit(base, <<>>, stored, turns[1])
    BY <2>4, <2>6 DEF Watched, Pending
  <2>8. shown = stored
    BY <2>2, <2>7, NothingToRead
  <2>9. stored # <<>> => Newest(snapshot, <<>>, stored)
    BY <2>2, <2>4, NothingToRead DEF Watched
  <2>20. (snapshot = None) <=> (shown = <<>>)
    BY DEF Inv, PageInv
  <2>21. QED
    BY <2>8, <2>9, <2>20 DEF Newest
<1>4. QED
  BY <1>1, <1>2, <1>3, PTL DEF Spec
=============================================================================
