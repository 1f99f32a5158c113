--------------------------- MODULE SnapshotsProofs ---------------------------
(* Proofs of properties of Snapshots, for any items, values, headers, sizes *)
(* of the history and numbers of boards and sessions.                       *)
EXTENDS Snapshots, SequenceTheorems, TLAPS

-----------------------------------------------------------------------------
(* The invariants.                                                          *)

(* The reader of the session under way runs while it is open, and those    *)
(* that are late; who has emitted is one of them, or the main thread at    *)
(* the end.                                                                *)
ReaderInv ==
  /\ readers \subseteq late \cup {session}
  /\ request # "idle" => readers \subseteq late
  /\ \A t \in Threads : out[t] # <<>> => t \in readers \/ (t = Main /\ request = "over")
  /\ \A t \in Threads : Len(out[t]) <= 1
  /\ \A t \in Threads : base[t] # <<>> => out[t] # <<>> /\ Len(base[t]) = 1
  /\ request = "idle" => boards[session] = board
  /\ request \in {"reset", "clear", "start"} => board < MaxBoards

TypeInv == TypeOK /\ ReaderInv

\* What is printed by boards of from: a snapshot, an event, a value.
Of(s, from) == s # None => PrintedBy(s, from)
EventOf(e, from) ==
  IF e.type = "update" THEN PrintedBy(e.snapshot, from)
  ELSE \A i \in Items : e.delta.changed[i] = Absent \/ e.delta.changed[i][1] \in from
ValueOf(p, from) == p # None => p[1] \in from

ParserOf(from, cur, em, id, cap) ==
  Of(cur, from) /\ Of(em, from) /\ ValueOf(id, from) /\ ValueOf(cap, from)
StoreOf(from, st, h) == Of(st, from) /\ \A i \in 1..Len(h) : Of(h[i], from)
ThreadsOf(from, o, b) ==
  \A t \in Threads : /\ \A i \in 1..Len(o[t]) : EventOf(o[t][i], from)
                     /\ \A i \in 1..Len(b[t]) : Of(b[t][i], from)

From == IF late = {} THEN {board} ELSE Beside

(* What is held is of the board, or of those beside a late reader; while   *)
(* /open clears it, nobody adds to it, unless a reader is late.            *)
LingerInv ==
  /\ ParserOf(From, current, emitted, identity, capabilities)
  /\ StoreOf(From, stored, history) /\ ThreadsOf(From, out, base)
  /\ late = {} /\ request \in {"clear", "start"} =>
       current = None /\ emitted = None /\ identity = None /\ capabilities = None
  /\ late = {} /\ request = "start" => stored = None /\ history = <<>>

\* The store and the history after event e.
Fold(s, e) == IF e.type = "update" THEN e.snapshot ELSE IF s = None THEN None ELSE Apply(s, e.delta)
RecordedIn(h, new) ==
  IF h # <<>> /\ Last(h).header[1] = new.header[1] THEN Append(Front(h), new)
  ELSE IF Len(Append(h, new)) > HistoryMax THEN Tail(Append(h, new)) ELSE Append(h, new)

\* The history h has an entry for the test under way.
Entered(h, new) == h # <<>> /\ Last(h).header[1] = new.header[1]

\* Tests in ts before the first in the history.
Gone(h, new, ts) == IF Entered(h, new) THEN Len(ts) - Len(h) ELSE Len(ts) - 1 - Len(h)

\* The history shows the tests before the one under way, new.
Aligned(h, new, ts) ==
  /\ ts # <<>> /\ Last(ts) = new
  /\ Gone(h, new, ts) = 0 \/ (Gone(h, new, ts) > 0 /\ Len(h) = HistoryMax)
  /\ \A i \in 1..Len(h) : Gone(h, new, ts) + i < Len(ts) => Shows(h[i], ts[Gone(h, new, ts) + i])

\* The newest entry is the snapshot stored.
Newest(s, h) == IF h = <<>> THEN s = None ELSE s # None /\ Last(h) = s

HasMetric(new) == \E i \in Items : new.items[i] # Absent

\* The store, a client and the history once ev has been observed.
After(s, ev) == IF ev = <<>> THEN s ELSE Fold(s, ev[1])
HistoryAfter(h, s, ev) == IF ev = <<>> THEN h ELSE RecordedIn(h, Fold(s, ev[1]))

\* Who has observed all that was emitted is level with the parser.
Agree(em, cur, ts, st, vi, h) ==
  /\ em # None => Shows(st, em) /\ Shows(vi, em)
  /\ Newest(st, h)
  /\ cur # None => Aligned(h, cur, ts)

\* Of every group of tests the last, as the history has them.
Lasts(groups) == [g \in 1..Len(groups) |-> Last(groups[g])]

\* new becomes the last of the tests ts: their last one, or one more.
Grown(ts, more, new) ==
  /\ more \in Seq(Snapshot) /\ more # <<>> /\ Last(more) = new
  /\ IF ts # <<>> /\ Last(ts).header[1] = new.header[1]
     THEN Len(more) = Len(ts) /\ \A i \in 1..Len(ts) : i # Len(ts) => more[i] = ts[i]
     ELSE Len(more) = Len(ts) + 1 /\ \A i \in 1..Len(ts) : more[i] = ts[i]

\* Agree, of the one thread that has anything to be observed, if there is one.
Level(o, em, cur, ts, st, vi, h) ==
  \A t \in Threads : (\A u \in Threads : u # t => o[u] = <<>>) =>
    /\ o[t] # <<>> => em # None
    /\ Agree(em, cur, ts, After(st, o[t]), After(vi, o[t]), HistoryAfter(h, st, o[t]))

(* With no reader late, the store and a client show what was emitted last, *)
(* or will once the event under way is observed, and what was emitted last *)
(* shows what was gathered.                                                *)
FoldInv ==
  late = {} =>
    /\ \A t \in Threads : base[t] # <<>> => base[t][1] = stored
    /\ Level(out, emitted, current, Lasts(tests), stored, viewer, history)
    /\ current # None /\ HasMetric(current) => emitted # None /\ Shows(emitted, current)
    /\ current = None => request \in {"clear", "over"} \/ (emitted = None /\ tests = <<>> /\ history = <<>>)

-----------------------------------------------------------------------------
(* Sequences.                                                               *)

LEMMA FrontAppend ==
  ASSUME NEW S, NEW seq \in Seq(S), seq # <<>>, NEW e \in S
  PROVE  LET r == Append(Front(seq), e)
         IN /\ r \in Seq(S) /\ Len(r) = Len(seq) /\ r # <<>> /\ Last(r) = e /\ r[Len(seq)] = e
            /\ \A i \in 1..Len(seq) : i # Len(seq) => r[i] = seq[i]
<1>1. Len(seq) \in Nat \ {0}
  BY EmptySeq
<1>2. /\ Front(seq) \in Seq(S) /\ Len(Front(seq)) = Len(seq) - 1
      /\ \A i \in 1..(Len(seq) - 1) : Front(seq)[i] = seq[i]
  <2> DEFINE m == Len(seq) - 1
             one == 1
  <2>1. /\ one \in 1..Len(seq) + 1 /\ m \in 0..Len(seq) /\ Front(seq) = SubSeq(seq, one, m)
        /\ one <= m + 1
    BY <1>1 DEF Front
  <2> HIDE DEF m, one
  <2>2. /\ SubSeq(seq, one, m) \in Seq(S)
        /\ Len(SubSeq(seq, one, m)) = IF one <= m THEN m - one + 1 ELSE 0
        /\ \A i \in 1..m - one + 1 : SubSeq(seq, one, m)[i] = seq[one + i - 1]
    BY <2>1, SubSeqProperties
  <2>3. m \in Nat /\ one = 1 /\ m - one + 1 = m /\ m = Len(seq) - 1
    BY <1>1 DEF m, one
  <2>4. Len(Front(seq)) = m
    BY <2>1, <2>2, <2>3
  <2>5. \A i \in 1..m : Front(seq)[i] = seq[i]
    BY <2>1, <2>2, <2>3
  <2>6. QED
    BY <2>1, <2>2, <2>3, <2>4, <2>5
<1> DEFINE r == Append(Front(seq), e)
<1>3. /\ r \in Seq(S) /\ Len(r) = Len(Front(seq)) + 1 /\ r[Len(Front(seq)) + 1] = e
      /\ \A i \in 1..Len(Front(seq)) : r[i] = Front(seq)[i]
  BY <1>2, AppendProperties
<1> HIDE DEF r
<1>4. Len(r) = Len(seq) /\ r[Len(seq)] = e /\ r # <<>>
  BY <1>1, <1>2, <1>3, EmptySeq
<1>5. \A i \in 1..Len(seq) : i # Len(seq) => r[i] = seq[i]
  BY <1>1, <1>2, <1>3
<1>6. QED
  BY <1>3, <1>4, <1>5 DEF r, Last

LEMMA AppendLast ==
  ASSUME NEW S, NEW seq \in Seq(S), NEW e \in S
  PROVE  LET r == Append(seq, e)
         IN /\ r \in Seq(S) /\ Len(r) = Len(seq) + 1 /\ r # <<>> /\ Last(r) = e
            /\ \A i \in 1..Len(seq) : r[i] = seq[i]
  BY AppendProperties, EmptySeq DEF Last

LEMMA TailLast ==
  ASSUME NEW S, NEW seq \in Seq(S), Len(seq) > 1
  PROVE  LET r == Tail(seq)
         IN /\ r \in Seq(S) /\ Len(r) = Len(seq) - 1 /\ r # <<>> /\ Last(r) = Last(seq)
            /\ \A i \in 1..Len(r) : r[i] = seq[i + 1]
<1>1. seq # <<>> /\ Len(seq) \in Nat
  BY EmptySeq
<1> DEFINE r == Tail(seq)
<1>2. r \in Seq(S) /\ Len(r) = Len(seq) - 1 /\ \A i \in 1..Len(r) : r[i] = seq[i + 1]
  BY <1>1, HeadTailProperties
<1> HIDE DEF r
<1>3. Len(r) # 0 /\ Len(r) \in 1..Len(r) /\ Len(r) + 1 = Len(seq)
  BY <1>1, <1>2
<1>4. r # <<>> /\ Last(r) = Last(seq)
  BY <1>2, <1>3, EmptySeq DEF Last
<1>5. QED
  BY <1>2, <1>4 DEF r

(* The history after it has recorded new.                                   *)
LEMMA RecordedProperties ==
  ASSUME NEW h \in Seq(Snapshot), Len(h) <= HistoryMax, NEW new \in Snapshot
  PROVE  LET r == RecordedIn(h, new)
         IN /\ r \in Seq(Snapshot) /\ Len(r) <= HistoryMax /\ r # <<>> /\ Last(r) = new
            /\ \A i \in 1..Len(r) : r[i] = new \/ \E j \in 1..Len(h) : r[i] = h[j]
<1> DEFINE r == RecordedIn(h, new)
<1>1. HistoryMax \in Nat \ {0} /\ Len(h) \in Nat
  BY SnapshotsAssumption
<1>2. CASE h # <<>> /\ Last(h).header[1] = new.header[1]
  <2>1. r = Append(Front(h), new)
    BY <1>2 DEF RecordedIn
  <2>2. /\ r \in Seq(Snapshot) /\ Len(r) = Len(h) /\ r # <<>> /\ Last(r) = new /\ r[Len(h)] = new
        /\ \A i \in 1..Len(h) : i # Len(h) => r[i] = h[i]
    BY <1>2, <2>1, FrontAppend
  <2>3. QED
    BY <1>1, <2>2
<1>3. CASE ~(h # <<>> /\ Last(h).header[1] = new.header[1])
  <2> DEFINE all == Append(h, new)
  <2>1. /\ all \in Seq(Snapshot) /\ Len(all) = Len(h) + 1 /\ all # <<>> /\ Last(all) = new
        /\ \A i \in 1..Len(h) : all[i] = h[i]
    BY AppendLast
  <2>2. \A i \in 1..Len(all) : all[i] = new \/ \E j \in 1..Len(h) : all[i] = h[j]
    BY <1>1, <2>1 DEF Last
  <2>3. r = IF Len(all) > HistoryMax THEN Tail(all) ELSE all
    BY <1>3 DEF RecordedIn
  <2> HIDE DEF all
  <2>4. CASE Len(all) > HistoryMax
    <3>1. Len(all) > 1
      BY <1>1, <2>1, <2>4
    <3>2. /\ r \in Seq(Snapshot) /\ Len(r) = Len(all) - 1 /\ r # <<>> /\ Last(r) = new
          /\ \A i \in 1..Len(r) : r[i] = all[i + 1]
      BY <2>1, <2>3, <2>4, <3>1, TailLast
    <3>3. \A i \in 1..Len(r) : i + 1 \in 1..Len(all)
      BY <1>1, <2>1, <3>2
    <3>4. \A i \in 1..Len(r) : r[i] = new \/ \E j \in 1..Len(h) : r[i] = h[j]
      BY <2>2, <3>2, <3>3
    <3>5. QED
      BY <1>1, <2>1, <3>2, <3>4
  <2>5. CASE ~(Len(all) > HistoryMax)
    <3>1. r = all
      BY <2>3, <2>5
    <3>2. QED
      BY <1>1, <2>1, <2>2, <2>5, <3>1
  <2>6. QED
    BY <2>4, <2>5
<1>4. QED
  BY <1>2, <1>3

LEMMA RecordedIs == \A new : Recorded(new) = RecordedIn(history, new)
  BY DEF Recorded, RecordedIn

-----------------------------------------------------------------------------
(* Snapshots and events.                                                    *)

LEMMA SnapshotIs ==
  /\ \A s \in Snapshot : s.header \in Headers /\ s.items \in [Items -> Printed \cup {Absent}]
  /\ \A h \in Headers, f \in [Items -> Printed \cup {Absent}] : [header |-> h, items |-> f] \in Snapshot
  /\ \A h \in Headers : Fresh(h) \in Snapshot
  /\ \A s \in Snapshot, i \in Items, v \in Printed : With(s, i, v) \in Snapshot
  BY DEF Snapshot, Fresh, With

LEMMA DeltaIs ==
  /\ \A old, new \in Snapshot : DeltaOf(old, new) \in Delta
  /\ \A s \in Snapshot, d \in Delta : Apply(s, d) \in Snapshot
  BY DEF Snapshot, Delta, DeltaOf, Apply, Items

LEMMA EventIs ==
  /\ \A s \in Snapshot : [type |-> "update", snapshot |-> s] \in Event
  /\ \A d \in Delta : [type |-> "delta", delta |-> d] \in Event
  /\ \A e \in Event : IF e.type = "update" THEN e.snapshot \in Snapshot ELSE e.type = "delta" /\ e.delta \in Delta
  BY DEF Event

(* What the parser emits for new: at most one event.                       *)
LEMMA EmitsTyped ==
  ASSUME emitted \in Snapshot \cup {None}, NEW new \in Snapshot
  PROVE  /\ Emits(new) \in Seq(Event) /\ Len(Emits(new)) <= 1
         /\ EmittedAfter(new) \in Snapshot \cup {None}
         /\ Emits(new) # <<>> => Emits(new) = <<Emits(new)[1]>> /\ Emits(new)[1] \in Event
<1>1. CASE NeedsFull(new)
  <2>1. Emits(new) = <<[type |-> "update", snapshot |-> new]>>
    BY <1>1 DEF Emits
  <2>2. QED
    BY <2>1, EventIs DEF EmittedAfter
<1>2. CASE ~NeedsFull(new)
  <2>1. emitted \in Snapshot /\ DeltaOf(emitted, new) \in Delta
    BY <1>2, DeltaIs DEF NeedsFull
  <2>2. Emits(new) = <<>> \/ Emits(new) = <<[type |-> "delta", delta |-> DeltaOf(emitted, new)]>>
    BY <1>2 DEF Emits
  <2> DEFINE d == [type |-> "delta", delta |-> DeltaOf(emitted, new)]
  <2>3. d \in Event
    BY <2>1, EventIs
  <2>4. Emits(new) = <<>> \/ Emits(new) = <<d>>
    BY <2>2
  <2> HIDE DEF d
  <2>5. EmittedAfter(new) \in Snapshot \cup {None}
    BY DEF EmittedAfter
  <2>6. CASE Emits(new) = <<>>
    <3>1. Emits(new) \in Seq(Event) /\ Len(Emits(new)) = 0
      BY <2>6
    <3>2. QED
      BY <2>5, <2>6, <3>1
  <2>7. CASE Emits(new) = <<d>>
    <3>1. Emits(new) \in Seq(Event) /\ Len(Emits(new)) = 1 /\ Emits(new)[1] = d
      BY <2>3, <2>7
    <3>2. QED
      BY <2>3, <2>5, <2>7, <3>1
  <2>8. QED
    BY <2>4, <2>6, <2>7
<1>3. QED
  BY <1>1, <1>2

LEMMA Constants ==
  /\ WaitLines \in Nat \ {0} /\ HistoryMax \in Nat \ {0} /\ MaxLines \in Nat
  /\ MaxBoards \in Nat \ {0} /\ MaxSessions \in Nat \ {0} /\ None \notin Snapshot
  /\ Main \in Threads /\ Sessions \subseteq Threads /\ Main \notin Sessions /\ Sessions \subseteq Nat \ {0}
  BY SnapshotsAssumption DEF Main, Threads, Sessions

-----------------------------------------------------------------------------
(* Types.                                                                   *)

ParserTypes ==
  /\ current \in Snapshot \cup {None} /\ emitted \in Snapshot \cup {None}
  /\ radio \in Radios \cup {None}
  /\ identity \in Printed \cup {None} /\ capabilities \in Printed \cup {None}
  /\ capWait \in 0..WaitLines
StoreTypes ==
  /\ stored \in Snapshot \cup {None} /\ viewer \in Snapshot \cup {None}
  /\ history \in Seq(Snapshot) /\ Len(history) <= HistoryMax
ThreadTypes ==
  out \in [Threads -> Seq(Event)] /\ base \in [Threads -> Seq(Snapshot \cup {None})]
SessionTypes ==
  /\ boards \in Seq(Boards) /\ Len(boards) \in Sessions
  /\ readers \subseteq DOMAIN boards /\ late \subseteq DOMAIN boards
  /\ board \in Boards
  /\ request \in {"idle", "reset", "clear", "start", "closed", "over"}
CountTypes == tests \in Seq(Seq(Snapshot) \ {<<>>}) /\ lines \in 0..MaxLines

LEMMA TypeParts ==
  TypeOK <=> ParserTypes /\ StoreTypes /\ ThreadTypes /\ SessionTypes /\ CountTypes
  BY DEF TypeOK, ParserTypes, StoreTypes, ThreadTypes, SessionTypes, CountTypes

LEMMA TypePartsNext ==
  ParserTypes' /\ StoreTypes' /\ ThreadTypes' /\ SessionTypes' /\ CountTypes' /\ ReaderInv' => TypeInv'
  BY DEF TypeInv, TypeOK, ParserTypes, StoreTypes, ThreadTypes, SessionTypes, CountTypes

\* Thread t has nothing under way.
Free(t) == out[t] = <<>> /\ base[t] = <<>>

LEMMA SessionFacts ==
  ASSUME TypeInv
  PROVE  /\ Sessions \subseteq Threads /\ DOMAIN boards = 1..session /\ session \in Sessions
         /\ readers \subseteq Sessions /\ late \subseteq Sessions /\ session \in DOMAIN boards
         /\ \A s \in DOMAIN boards : boards[s] \in Boards /\ s \in Nat
         /\ \A t \in Threads : out[t] = <<>> => base[t] = <<>>
         /\ \A s \in readers : boards[s] \in Boards
<1>1. /\ boards \in Seq(Boards) /\ Len(boards) \in Sessions
      /\ readers \subseteq DOMAIN boards /\ late \subseteq DOMAIN boards
  BY DEF TypeInv, TypeOK
<1>2. DOMAIN boards = 1..session /\ session \in Nat \ {0} /\ 1..session \subseteq Sessions
  BY <1>1, Constants DEF session, Sessions
<1>3. \A s \in DOMAIN boards : boards[s] \in Boards /\ s \in Nat
  BY <1>1, <1>2, ElementOfSeq DEF session
<1>4. \A t \in Threads : out[t] = <<>> => base[t] = <<>>
  BY DEF TypeInv, ReaderInv
<1>5. QED
  BY <1>1, <1>2, <1>3, <1>4, Constants DEF session

LEMMA LastsAre ==
  ASSUME NEW groups \in Seq(Seq(Snapshot) \ {<<>>})
  PROVE  /\ Lasts(groups) \in Seq(Snapshot) /\ Len(Lasts(groups)) = Len(groups)
         /\ \A g \in 1..Len(groups) : Lasts(groups)[g] = Last(groups[g])
         /\ Lasts(groups) = <<>> <=> groups = <<>>
         /\ groups # <<>> =>
              /\ Last(groups) \in Seq(Snapshot) /\ Last(groups) # <<>> /\ Last(groups) = groups[Len(groups)]
              /\ Last(Lasts(groups)) = Last(Last(groups))
<1>1. /\ Len(groups) \in Nat
      /\ \A g \in 1..Len(groups) : groups[g] \in Seq(Snapshot) /\ groups[g] # <<>>
  OBVIOUS
<1>2. ASSUME NEW g \in 1..Len(groups) PROVE Last(groups[g]) \in Snapshot
  <2> DEFINE group == groups[g]
  <2>1. group \in Seq(Snapshot) /\ group # <<>>
    BY <1>1
  <2> HIDE DEF group
  <2>2. Len(group) \in 1..Len(group)
    BY <2>1, EmptySeq
  <2>3. group[Len(group)] \in Snapshot
    BY <2>1, <2>2
  <2>4. QED
    BY <2>3 DEF Last, group
<1>3. Lasts(groups) \in Seq(Snapshot) /\ Len(Lasts(groups)) = Len(groups)
  BY <1>1, <1>2 DEF Lasts
<1>4. \A g \in 1..Len(groups) : Lasts(groups)[g] = Last(groups[g])
  BY DEF Lasts
<1>5. Lasts(groups) = <<>> <=> groups = <<>>
  BY <1>1, <1>3, EmptySeq
<1>6. ASSUME groups # <<>>
      PROVE  /\ Last(groups) \in Seq(Snapshot) /\ Last(groups) # <<>> /\ Last(groups) = groups[Len(groups)]
             /\ Last(Lasts(groups)) = Last(Last(groups))
  <2>1. Len(groups) \in 1..Len(groups)
    BY <1>1, <1>6, EmptySeq
  <2>2. Last(groups) = groups[Len(groups)] /\ Last(Lasts(groups)) = Lasts(groups)[Len(groups)]
    BY <1>3 DEF Last
  <2>3. QED
    BY <1>1, <1>4, <2>1, <2>2
<1>7. QED
  BY <1>3, <1>4, <1>5, <1>6

LEMMA TestsPrinted ==
  ASSUME tests \in Seq(Seq(Snapshot) \ {<<>>}), NEW new \in Snapshot, Prints(new)
  PROVE  tests' \in Seq(Seq(Snapshot) \ {<<>>}) /\ (late = {} => Grown(Lasts(tests), Lasts(tests'), new))
<1> DEFINE S == Seq(Snapshot) \ {<<>>}
           group == Last(tests)
           longer == IF Last(group).header = new.header THEN Append(Front(group), new)
                     ELSE Append(group, new)
<1>1. CASE late = {} /\ tests # <<>> /\ Last(group).header[1] = new.header[1]
  <2>1. /\ group \in Seq(Snapshot) /\ group # <<>> /\ Last(Lasts(tests)) = Last(group)
        /\ Len(Lasts(tests)) = Len(tests) /\ Lasts(tests) # <<>>
    BY <1>1, LastsAre
  <2>2. longer \in S /\ Last(longer) = new
    <3> HIDE DEF group
    <3> DEFINE again == Append(Front(group), new)
               more == Append(group, new)
    <3>0. group \in Seq(Snapshot) /\ group # <<>> /\ new \in Snapshot
      BY <2>1
    <3>1. again \in Seq(Snapshot) /\ again # <<>> /\ Last(again) = new
      BY ONLY <3>0, FrontAppend
    <3>2. more \in Seq(Snapshot) /\ more # <<>> /\ Last(more) = new
      BY ONLY <3>0, AppendLast
    <3>3. longer = again \/ longer = more
      OBVIOUS
    <3> HIDE DEF again, more, longer
    <3>4. QED
      BY <3>1, <3>2, <3>3
  <2>3. tests' = Append(Front(tests), longer)
    BY <1>1 DEF Prints
  <2> HIDE DEF longer
  <2>4. /\ tests' \in Seq(S) /\ Len(tests') = Len(tests) /\ tests' # <<>> /\ Last(tests') = longer
        /\ \A i \in 1..Len(tests) : i # Len(tests) => tests'[i] = tests[i]
    <3> HIDE DEF S
    <3>1. tests \in Seq(S)
      BY DEF S
    <3>2. tests # <<>> /\ longer \in S
      BY <1>1, <2>2
    <3> DEFINE r == Append(Front(tests), longer)
    <3>3. /\ r \in Seq(S) /\ Len(r) = Len(tests) /\ r # <<>> /\ Last(r) = longer
          /\ \A i \in 1..Len(tests) : i # Len(tests) => r[i] = tests[i]
      BY ONLY <3>1, <3>2, FrontAppend
    <3>4. tests' = r
      BY <2>3
    <3> HIDE DEF r
    <3>5. QED
      BY <3>3, <3>4
  <2> DEFINE more == Lasts(tests')
             ts == Lasts(tests)
  <2>5. /\ more \in Seq(Snapshot) /\ Len(more) = Len(ts) /\ more # <<>> /\ Last(more) = new
        /\ \A i \in 1..Len(tests) : more[i] = Last(tests'[i]) /\ ts[i] = Last(tests[i])
    BY <2>1, <2>2, <2>4, LastsAre
  <2>6. \A i \in 1..Len(ts) : i # Len(ts) => more[i] = ts[i]
    BY <2>1, <2>4, <2>5
  <2> HIDE DEF more, ts
  <2>7. Grown(ts, more, new)
    <3>1. ts # <<>> /\ Last(ts).header[1] = new.header[1]
      BY <1>1, <2>1 DEF ts
    <3>2. QED
      BY <2>5, <2>6, <3>1 DEF Grown
  <2>8. QED
    BY <2>4, <2>7 DEF ts, more
<1>2. CASE late = {} /\ ~(tests # <<>> /\ Last(group).header[1] = new.header[1])
  <2>1. tests' = Append(tests, <<new>>)
    BY <1>2 DEF Prints
  <2>2. <<new>> \in S /\ Last(<<new>>) = new
    BY DEF Last
  <2>3. /\ tests' \in Seq(S) /\ Len(tests') = Len(tests) + 1 /\ tests' # <<>> /\ Last(tests') = <<new>>
        /\ \A i \in 1..Len(tests) : tests'[i] = tests[i]
    <3> HIDE DEF S
    <3>1. tests \in Seq(S)
      BY DEF S
    <3>2. QED
      BY <2>1, <2>2, <3>1, AppendLast
  <2> DEFINE more == Lasts(tests')
             ts == Lasts(tests)
  <2>4. /\ Len(ts) = Len(tests) /\ (ts = <<>> <=> tests = <<>>)
        /\ tests # <<>> => Last(ts) = Last(group)
    BY LastsAre
  <2>5. /\ more \in Seq(Snapshot) /\ Len(more) = Len(ts) + 1 /\ more # <<>> /\ Last(more) = new
        /\ \A i \in 1..Len(tests) + 1 : more[i] = Last(tests'[i])
        /\ \A i \in 1..Len(tests) : ts[i] = Last(tests[i])
    BY <2>2, <2>3, <2>4, LastsAre
  <2>6. \A i \in 1..Len(ts) : more[i] = ts[i]
    BY <2>3, <2>4, <2>5
  <2> HIDE DEF more, ts
  <2>7. Grown(ts, more, new)
    <3>1. ~(ts # <<>> /\ Last(ts).header[1] = new.header[1])
      BY <1>2, <2>4
    <3>2. QED
      BY <2>5, <2>6, <3>1 DEF Grown
  <2>8. QED
    BY <2>3, <2>7 DEF ts, more
<1>3. CASE late # {}
  BY <1>3 DEF Prints
<1>4. QED
  BY <1>1, <1>2, <1>3

(* The ways in which a line changes what the parser gathers.               *)
FeedNothing(s) == UNCHANGED <<current, emitted, out, tests>>
FeedFresh(s) ==
  \E h \in Headers :
    /\ IF current = None THEN out' = [out EXCEPT ![s] = <<>>] /\ emitted' = emitted
       ELSE out' = [out EXCEPT ![s] = Emits(current)] /\ emitted' = EmittedAfter(current)
    /\ current' = Fresh(h) /\ Prints(Fresh(h))
FeedUpdate(s) ==
  /\ current # None
  /\ \E i \in Items, v \in Values :
       LET new == With(current, i, <<boards[s], v>>)
       IN /\ current' = new /\ Prints(new)
          /\ out' = [out EXCEPT ![s] = Emits(new)] /\ emitted' = EmittedAfter(new)

LEMMA FeedCases ==
  ASSUME TypeInv, NEW s \in Sessions, Feed(s)
  PROVE  /\ Reads(s) /\ s \in readers /\ s \in Threads /\ Free(s) /\ boards[s] \in Boards
         /\ lines' \in 0..MaxLines
         /\ UNCHANGED <<store, base, sessions, request, viewer>>
         /\ radio' \in Radios \cup {None} /\ capWait' \in 0..WaitLines
         /\ identity' = identity \/ \E v \in Values : identity' = <<boards[s], v>>
         /\ capabilities' = capabilities \/ \E v \in Values : capabilities' = <<boards[s], v>>
         /\ FeedNothing(s) \/ FeedFresh(s) \/ FeedUpdate(s)
<1>1. Reads(s)
  BY DEF Feed, FeedCapabilityMarker, FeedHeader, FeedClientsMarker, FeedMetric, FeedRows, FeedObject, FeedOther
<1>2. /\ s \in readers /\ out[s] = <<>> /\ lines < MaxLines /\ lines' = lines + 1
      /\ UNCHANGED <<store, base, sessions, request, viewer>>
  BY <1>1 DEF Reads
<1>3. s \in Threads /\ Free(s) /\ boards[s] \in Boards
  BY <1>2, SessionFacts DEF Free
<1>4. lines' \in 0..MaxLines
  BY <1>2, Constants DEF TypeInv, TypeOK
<1>5. radio \in Radios \cup {None} /\ capWait \in 0..WaitLines /\ WaitLines \in Nat \ {0}
  BY Constants DEF TypeInv, TypeOK
<1>6. CapWaits => capWait' \in 0..WaitLines /\ capabilities' = capabilities
  <2>1. CapWaitAfter \in 0..WaitLines
    BY <1>5 DEF CapWaitAfter
  <2>2. QED
    BY <2>1 DEF CapWaits
<1> USE DEF FeedNothing
<1>7. CASE FeedCapabilityMarker(s)
  BY <1>1, <1>2, <1>3, <1>4, <1>5, <1>7 DEF FeedCapabilityMarker
<1>8. ASSUME NEW h \in Headers, FeedHeader(s, h)
      PROVE  FeedFresh(s) /\ radio' = None /\ CapWaits /\ identity' = identity
  BY <1>8 DEF FeedHeader, FeedFresh, Emit
<1>9. ASSUME NEW r \in Radios, FeedClientsMarker(s, r)
      PROVE  FeedNothing(s) /\ radio' = r /\ CapWaits /\ identity' = identity
  BY <1>9 DEF FeedClientsMarker
<1>10. ASSUME NEW i \in Items, NEW v \in Values, current # None, Update(s, i, <<boards[s], v>>)
       PROVE  FeedUpdate(s)
  BY <1>10 DEF Update, FeedUpdate, Emit
<1>11. ASSUME NEW v \in Values, NEW i \in Cores \cup Keys, FeedMetric(s, i, v)
       PROVE  /\ FeedNothing(s) \/ FeedUpdate(s)
              /\ radio' = radio /\ CapWaits /\ identity' = identity
  BY <1>10, <1>11 DEF FeedMetric, Items
<1>12. ASSUME NEW v \in Values, FeedRows(s, v)
       PROVE  /\ FeedNothing(s) /\ radio' \in {radio, None} /\ capWait' \in 0..WaitLines /\ identity' = identity
              /\ capabilities' = capabilities \/ capabilities' = <<boards[s], v>>
  BY <1>5, <1>12 DEF FeedRows
<1>13. ASSUME NEW v \in Values, NEW isIdentity \in BOOLEAN, FeedObject(s, v, isIdentity)
       PROVE  /\ FeedNothing(s) \/ FeedUpdate(s)
              /\ radio' = None /\ CapWaits /\ (identity' = identity \/ identity' = <<boards[s], v>>)
  <2>1. radio' = None /\ CapWaits
    BY <1>13 DEF FeedObject
  <2>2. CASE radio # None
    <3>1. identity' = identity
      BY <1>13, <2>2 DEF FeedObject
    <3>2. radio \in Items
      BY <1>5, <2>2 DEF Items
    <3>3. FeedNothing(s) \/ FeedUpdate(s)
      BY <1>10, <1>13, <2>2, <3>2 DEF FeedObject
    <3>4. QED
      BY <2>1, <3>1, <3>3
  <2>3. CASE radio = None
    BY <1>13, <2>1, <2>3 DEF FeedObject
  <2>4. QED
    BY <2>2, <2>3
<1>14. ASSUME NEW json \in BOOLEAN, FeedOther(s, json)
       PROVE  FeedNothing(s) /\ radio' \in {radio, None} /\ CapWaits /\ identity' = identity
  BY <1>14 DEF FeedOther
<1>15. \/ FeedCapabilityMarker(s)
       \/ \E h \in Headers : FeedHeader(s, h)
       \/ \E r \in Radios : FeedClientsMarker(s, r)
       \/ \E v \in Values, i \in Cores \cup Keys : FeedMetric(s, i, v)
       \/ \E v \in Values : FeedRows(s, v)
       \/ \E v \in Values, isIdentity \in BOOLEAN : FeedObject(s, v, isIdentity)
       \/ \E json \in BOOLEAN : FeedOther(s, json)
  BY DEF Feed
<1> HIDE DEF FeedNothing
<1>16. CASE \E h \in Headers : FeedHeader(s, h)
  BY <1>1, <1>2, <1>3, <1>4, <1>5, <1>6, <1>8, <1>16
<1>17. CASE \E r \in Radios : FeedClientsMarker(s, r)
  BY <1>1, <1>2, <1>3, <1>4, <1>5, <1>6, <1>9, <1>17
<1>18. CASE \E v \in Values, i \in Cores \cup Keys : FeedMetric(s, i, v)
  BY <1>1, <1>2, <1>3, <1>4, <1>5, <1>6, <1>11, <1>18
<1>19. CASE \E v \in Values : FeedRows(s, v)
  BY <1>1, <1>2, <1>3, <1>4, <1>5, <1>12, <1>19
<1>20. CASE \E v \in Values, isIdentity \in BOOLEAN : FeedObject(s, v, isIdentity)
  BY <1>1, <1>2, <1>3, <1>4, <1>5, <1>6, <1>13, <1>20
<1>21. CASE \E json \in BOOLEAN : FeedOther(s, json)
  BY <1>1, <1>2, <1>3, <1>4, <1>5, <1>6, <1>14, <1>21
<1>22. QED
  BY <1>7, <1>15, <1>16, <1>17, <1>18, <1>19, <1>20, <1>21

LEMMA InitTyped == Init => TypeInv
<1> SUFFICES ASSUME Init PROVE TypeInv
  OBVIOUS
<1>1. ParserTypes
  BY Constants DEF Init, ParserTypes
<1>2. StoreTypes
  <2>1. history \in Seq(Snapshot) /\ Len(history) = 0
    BY DEF Init
  <2>2. QED
    BY <2>1, Constants DEF Init, StoreTypes
<1>3. ThreadTypes
  BY DEF Init, ThreadTypes
<1>4. /\ boards = <<1>> /\ Len(boards) = 1 /\ 1 \in Boards /\ boards \in Seq(Boards)
      /\ DOMAIN boards = {1} /\ 1 \in Sessions
  BY Constants DEF Init, Boards, Sessions
<1>5. SessionTypes
  BY <1>4 DEF Init, SessionTypes
<1>6. CountTypes
  BY Constants DEF Init, CountTypes
<1>7. ReaderInv
  <2>1. session = 1
    BY <1>4 DEF session
  <2>2. \A t \in Threads : out[t] = <<>> /\ base[t] = <<>>
    BY DEF Init
  <2>3. \A t \in Threads : Len(out[t]) <= 1
    BY <2>2
  <2>4. QED
    BY <2>1, <2>2, <2>3 DEF Init, ReaderInv
<1>8. QED
  BY <1>1, <1>2, <1>3, <1>5, <1>6, <1>7, TypeParts DEF TypeInv

LEMMA EmitsNone ==
  ASSUME NEW t, out' = [out EXCEPT ![t] = <<>>]
  PROVE  \E ev \in Seq(Event) : Len(ev) <= 1 /\ out' = [out EXCEPT ![t] = ev]
<1>1. <<>> \in Seq(Event) /\ Len(<<>>) <= 1
  OBVIOUS
<1>2. QED
  BY <1>1

(* A thread emits, when it has nothing under way.                          *)
LEMMA ThreadEmits ==
  ASSUME TypeInv, NEW s \in Threads, Free(s), s \in readers \/ (s = Main /\ request' = "over"),
         NEW ev \in Seq(Event), Len(ev) <= 1, out' = [out EXCEPT ![s] = ev],
         UNCHANGED <<base, sessions>>, request' = request \/ (request = "closed" /\ request' = "over")
  PROVE  ThreadTypes' /\ SessionTypes' /\ ReaderInv'
<1>1. ThreadTypes /\ SessionTypes /\ ReaderInv
  BY TypeParts DEF TypeInv
<1>2. ThreadTypes'
  BY <1>1 DEF ThreadTypes
<1>3. SessionTypes'
  BY <1>1 DEF SessionTypes, sessions
<1>4. \A t \in Threads : out'[t] = IF t = s THEN ev ELSE out[t]
  BY <1>1 DEF ThreadTypes
<1>5. /\ readers' \subseteq late' \cup {session'}
      /\ request' # "idle" => readers' \subseteq late'
      /\ request' = "idle" => boards'[session'] = board'
      /\ request' \in {"reset", "clear", "start"} => board' < MaxBoards
  BY <1>1 DEF ReaderInv, session, sessions
<1>6. \A t \in Threads : Len(out'[t]) <= 1
  BY <1>1, <1>4 DEF ReaderInv
<1>7. \A t \in Threads : out'[t] # <<>> => t \in readers' \/ (t = Main /\ request' = "over")
  BY <1>1, <1>4 DEF ReaderInv, sessions
<1>8. \A t \in Threads : base'[t] # <<>> => out'[t] # <<>> /\ Len(base'[t]) = 1
  <2>1. base'[s] = <<>> /\ base' = base
    BY DEF Free
  <2>2. QED
    BY <1>1, <1>4, <2>1 DEF ReaderInv
<1>9. QED
  BY <1>2, <1>3, <1>5, <1>6, <1>7, <1>8 DEF ReaderInv

(* A line moves the parser within its types and emits at most one event.   *)
LEMMA FeedTyped ==
  ASSUME TypeInv, NEW s \in Sessions, Feed(s)
  PROVE  TypeInv'
<1>1. ParserTypes /\ StoreTypes /\ ThreadTypes /\ SessionTypes /\ CountTypes
  BY TypeParts DEF TypeInv
<1>2. /\ s \in readers /\ s \in Threads /\ Free(s) /\ boards[s] \in Boards /\ lines' \in 0..MaxLines
      /\ UNCHANGED <<store, base, sessions, request, viewer>>
      /\ radio' \in Radios \cup {None} /\ capWait' \in 0..WaitLines
      /\ identity' = identity \/ \E v \in Values : identity' = <<boards[s], v>>
      /\ capabilities' = capabilities \/ \E v \in Values : capabilities' = <<boards[s], v>>
      /\ FeedNothing(s) \/ FeedFresh(s) \/ FeedUpdate(s)
  BY FeedCases
<1>3. \A v \in Values : <<boards[s], v>> \in Printed
  BY <1>2 DEF Printed
<1>4. identity' \in Printed \cup {None} /\ capabilities' \in Printed \cup {None}
  BY <1>1, <1>2, <1>3 DEF ParserTypes
<1>5. StoreTypes'
  BY <1>1, <1>2 DEF StoreTypes, store
<1>6. /\ current' \in Snapshot \cup {None} /\ emitted' \in Snapshot \cup {None} /\ tests' \in Seq(Seq(Snapshot) \ {<<>>})
      /\ \E ev \in Seq(Event) : Len(ev) <= 1 /\ out' = [out EXCEPT ![s] = ev]
  <2>1. emitted \in Snapshot \cup {None} /\ current \in Snapshot \cup {None} /\ tests \in Seq(Seq(Snapshot) \ {<<>>})
    BY <1>1 DEF ParserTypes, CountTypes
  <2>2. CASE FeedNothing(s)
    <3>1. out' = [out EXCEPT ![s] = <<>>]
      BY <1>1, <1>2, <2>2 DEF FeedNothing, Free, ThreadTypes
    <3>2. QED
      BY <2>1, <2>2, <3>1, EmitsNone DEF FeedNothing
  <2>3. CASE FeedFresh(s)
    <3>1. PICK h \in Headers :
            /\ IF current = None THEN out' = [out EXCEPT ![s] = <<>>] /\ emitted' = emitted
               ELSE out' = [out EXCEPT ![s] = Emits(current)] /\ emitted' = EmittedAfter(current)
            /\ current' = Fresh(h) /\ Prints(Fresh(h))
      BY <2>3 DEF FeedFresh
    <3>2. current' \in Snapshot /\ tests' \in Seq(Seq(Snapshot) \ {<<>>})
      BY <2>1, <3>1, SnapshotIs, TestsPrinted
    <3>3. CASE current = None
      BY <2>1, <3>1, <3>2, <3>3, EmitsNone
    <3>4. CASE current # None
      BY <2>1, <3>1, <3>2, <3>4, EmitsTyped
    <3>5. QED
      BY <3>3, <3>4
  <2>4. CASE FeedUpdate(s)
    <3>1. PICK i \in Items, v \in Values :
            LET new == With(current, i, <<boards[s], v>>)
            IN /\ current' = new /\ Prints(new)
               /\ out' = [out EXCEPT ![s] = Emits(new)] /\ emitted' = EmittedAfter(new)
      BY <2>4 DEF FeedUpdate
    <3> DEFINE new == With(current, i, <<boards[s], v>>)
    <3>2. new \in Snapshot
      BY <1>3, <2>1, <2>4, SnapshotIs DEF FeedUpdate
    <3>3. /\ current' = new /\ Prints(new)
          /\ out' = [out EXCEPT ![s] = Emits(new)] /\ emitted' = EmittedAfter(new)
      BY <3>1
    <3> HIDE DEF new
    <3>4. QED
      BY <2>1, <3>2, <3>3, TestsPrinted, EmitsTyped
  <2>5. QED
    BY <1>2, <2>2, <2>3, <2>4
<1>7. ParserTypes' /\ CountTypes'
  BY <1>2, <1>4, <1>6 DEF ParserTypes, CountTypes
<1>8. ThreadTypes' /\ SessionTypes' /\ ReaderInv'
  <2>1. PICK ev \in Seq(Event) : Len(ev) <= 1 /\ out' = [out EXCEPT ![s] = ev]
    BY <1>6
  <2>2. QED
    BY <1>2, <2>1, ThreadEmits
<1>9. QED
  BY <1>5, <1>7, <1>8, TypePartsNext

LEMMA FlushTyped ==
  ASSUME TypeInv, Flush
  PROVE  /\ TypeInv' /\ Free(Main)
         /\ \E ev \in Seq(Event) : Len(ev) <= 1 /\ out' = [out EXCEPT ![Main] = ev]
<1>1. ParserTypes /\ StoreTypes /\ ThreadTypes /\ SessionTypes /\ CountTypes
  BY TypeParts DEF TypeInv
<1>2. /\ request = "closed" /\ request' = "over" /\ current' = None
      /\ IF current = None THEN out' = out /\ emitted' = emitted
         ELSE out' = [out EXCEPT ![Main] = Emits(current)] /\ emitted' = EmittedAfter(current)
      /\ UNCHANGED <<radio, identity, capabilities, capWait, store, base, sessions, lines, viewer, tests>>
  BY DEF Flush, Emit
<1>3. Main \in Threads /\ Free(Main)
  <2>1. Main \in Threads /\ Main \notin readers
    BY Constants, SessionFacts
  <2>2. QED
    BY <1>2, <2>1, SessionFacts DEF TypeInv, ReaderInv, Free
<1>4. /\ emitted' \in Snapshot \cup {None}
      /\ \E ev \in Seq(Event) : Len(ev) <= 1 /\ out' = [out EXCEPT ![Main] = ev]
  <2>1. emitted \in Snapshot \cup {None} /\ current \in Snapshot \cup {None}
    BY <1>1 DEF ParserTypes
  <2>2. CASE current = None
    <3>1. out' = [out EXCEPT ![Main] = <<>>]
      BY <1>1, <1>2, <1>3, <2>2 DEF Free, ThreadTypes
    <3>2. QED
      BY <1>2, <2>1, <2>2, <3>1, EmitsNone
  <2>3. CASE current # None
    BY <1>2, <2>1, <2>3, EmitsTyped
  <2>4. QED
    BY <2>2, <2>3
<1>5. ParserTypes' /\ CountTypes' /\ StoreTypes'
  BY <1>1, <1>2, <1>4 DEF ParserTypes, CountTypes, StoreTypes, store
<1>6. ThreadTypes' /\ SessionTypes' /\ ReaderInv'
  <2>1. PICK ev \in Seq(Event) : Len(ev) <= 1 /\ out' = [out EXCEPT ![Main] = ev]
    BY <1>4
  <2>2. QED
    BY <1>2, <1>3, <2>1, ThreadEmits
<1>7. QED
  BY <1>3, <1>4, <1>5, <1>6, TypePartsNext

(* What a thread writes to the store when it observes an event.            *)
ObserveStores(s) ==
  LET e == Head(out[s])
      from == base[s][1]
  IN /\ IF e.type = "delta" /\ from = None THEN UNCHANGED store
        ELSE LET new == IF e.type = "update" THEN e.snapshot ELSE Apply(from, e.delta)
             IN new \in Snapshot /\ stored' = new /\ history' = RecordedIn(history, new)
     /\ viewer' = IF e.type = "update" THEN e.snapshot
                  ELSE IF viewer = None THEN None ELSE Apply(viewer, e.delta)

LEMMA ObserveCases ==
  ASSUME TypeInv, NEW s \in Threads, ObserveWrite(s)
  PROVE  /\ base[s] # <<>> /\ out[s] # <<>> /\ Len(base[s]) = 1 /\ Len(out[s]) = 1
         /\ base[s][1] \in Snapshot \cup {None} /\ Head(out[s]) = out[s][1] /\ out[s][1] \in Event
         /\ ObserveStores(s)
         /\ out' = [out EXCEPT ![s] = <<>>] /\ base' = [base EXCEPT ![s] = <<>>]
         /\ UNCHANGED <<parser, sessions, request, lines, tests>>
<1>1. base[s] # <<>> /\ out[s] # <<>> /\ Len(base[s]) = 1 /\ Len(out[s]) <= 1
  BY DEF ObserveWrite, TypeInv, ReaderInv
<1>2. base[s] \in Seq(Snapshot \cup {None}) /\ out[s] \in Seq(Event)
  BY DEF TypeInv, TypeOK
<1>3. Len(out[s]) = 1 /\ Head(out[s]) = out[s][1]
  BY <1>1, <1>2, EmptySeq
<1>4. base[s][1] \in Snapshot \cup {None} /\ out[s][1] \in Event
  <2>1. 1 \in 1..Len(base[s]) /\ 1 \in 1..Len(out[s])
    BY <1>1, <1>3
  <2>2. QED
    BY <1>2, <2>1, ElementOfSeq
<1>5. Tail(out[s]) = <<>>
  <2>1. Tail(out[s]) \in Seq(Event) /\ Len(Tail(out[s])) = Len(out[s]) - 1
    BY <1>1, <1>2, HeadTailProperties
  <2>2. Len(Tail(out[s])) = 0
    BY <1>3, <2>1
  <2>3. QED
    BY <2>1, <2>2, EmptySeq
<1>6. /\ out' = [out EXCEPT ![s] = Tail(out[s])] /\ base' = [base EXCEPT ![s] = <<>>]
      /\ UNCHANGED <<parser, sessions, request, lines, tests>>
  BY DEF ObserveWrite
<1>7. ObserveStores(s)
  <2> DEFINE e == Head(out[s])
             from == base[s][1]
             new == IF e.type = "update" THEN e.snapshot ELSE Apply(from, e.delta)
  <2>1. /\ IF e.type = "delta" /\ from = None THEN UNCHANGED store
           ELSE stored' = new /\ history' = Recorded(new)
        /\ viewer' = IF e.type = "update" THEN e.snapshot
                     ELSE IF viewer = None THEN None ELSE Apply(viewer, e.delta)
    BY DEF ObserveWrite
  <2>2. ~(e.type = "delta" /\ from = None) => new \in Snapshot
    BY <1>3, <1>4, EventIs, DeltaIs
  <2>3. QED
    BY <2>1, <2>2, RecordedIs DEF ObserveStores
<1>8. QED
  BY <1>1, <1>3, <1>4, <1>5, <1>6, <1>7

LEMMA ObserveTyped ==
  ASSUME TypeInv, NEW s \in Threads, ObserveRead(s) \/ ObserveWrite(s)
  PROVE  TypeInv'
<1>1. ParserTypes /\ StoreTypes /\ ThreadTypes /\ SessionTypes /\ CountTypes /\ ReaderInv
  BY TypeParts DEF TypeInv
<1>2. CASE ObserveRead(s)
  <2>1. /\ out[s] # <<>> /\ base[s] = <<>> /\ base' = [base EXCEPT ![s] = <<stored>>]
        /\ UNCHANGED <<parser, store, out, sessions, request, lines, viewer, tests>>
    BY <1>2 DEF ObserveRead
  <2>2. ParserTypes' /\ StoreTypes' /\ SessionTypes' /\ CountTypes'
    BY <1>1, <2>1 DEF ParserTypes, StoreTypes, SessionTypes, CountTypes, parser, store, sessions
  <2>3. ThreadTypes' /\ \A t \in Threads : base'[t] = IF t = s THEN <<stored>> ELSE base[t]
    <3>1. <<stored>> \in Seq(Snapshot \cup {None})
      BY <1>1 DEF StoreTypes
    <3>2. QED
      BY <1>1, <2>1, <3>1 DEF ThreadTypes
  <2>4. ReaderInv'
    <3>1. Len(<<stored>>) = 1
      OBVIOUS
    <3>2. \A t \in Threads : base'[t] # <<>> => out'[t] # <<>> /\ Len(base'[t]) = 1
      BY <1>1, <2>1, <2>3, <3>1 DEF ReaderInv
    <3>3. QED
      BY <1>1, <2>1, <3>2 DEF ReaderInv, session, sessions
  <2>5. QED
    BY <2>2, <2>3, <2>4, TypePartsNext
<1>3. CASE ObserveWrite(s)
  <2>1. /\ base[s][1] \in Snapshot \cup {None} /\ Head(out[s]) = out[s][1] /\ out[s][1] \in Event
        /\ ObserveStores(s)
        /\ out' = [out EXCEPT ![s] = <<>>] /\ base' = [base EXCEPT ![s] = <<>>]
        /\ UNCHANGED <<parser, sessions, request, lines, tests>>
    BY <1>3, ObserveCases
  <2>2. ParserTypes' /\ SessionTypes' /\ CountTypes'
    BY <1>1, <2>1 DEF ParserTypes, SessionTypes, CountTypes, parser, sessions
  <2>3. StoreTypes'
    <3> DEFINE e == Head(out[s])
               new == IF e.type = "update" THEN e.snapshot ELSE Apply(base[s][1], e.delta)
    <3>1. viewer' \in Snapshot \cup {None}
      <4>1. viewer' = IF e.type = "update" THEN e.snapshot
                      ELSE IF viewer = None THEN None ELSE Apply(viewer, e.delta)
        BY <2>1 DEF ObserveStores
      <4>2. QED
        BY <1>1, <2>1, <4>1, EventIs, DeltaIs DEF StoreTypes
    <3>2. \/ stored' = stored /\ history' = history
          \/ new \in Snapshot /\ stored' = new /\ history' = RecordedIn(history, new)
      BY <2>1 DEF ObserveStores, store
    <3> HIDE DEF new
    <3>3. QED
      BY <1>1, <3>1, <3>2, RecordedProperties DEF StoreTypes
  <2>4. /\ ThreadTypes' /\ \A t \in Threads : base'[t] = IF t = s THEN <<>> ELSE base[t]
        /\ \A t \in Threads : out'[t] = IF t = s THEN <<>> ELSE out[t]
    BY <1>1, <2>1 DEF ThreadTypes
  <2>5. ReaderInv'
    <3>1. Len(<<>>) = 0
      OBVIOUS
    <3>2. QED
      BY <1>1, <2>1, <2>4, <3>1 DEF ReaderInv, session, sessions
  <2>6. QED
    BY <2>2, <2>3, <2>4, <2>5, TypePartsNext
<1>4. QED
  BY <1>2, <1>3

(* What readers and requests do to the sessions, the rest left as it is.   *)
LEMMA RequestTyped ==
  ASSUME TypeInv, (\E s \in Sessions : LateEnds(s)) \/ OpenBegins \/ OpenEnds \/ CloseSession \/ Reacquire
  PROVE  TypeInv'
<1>1. ParserTypes /\ StoreTypes /\ ThreadTypes /\ SessionTypes /\ CountTypes /\ ReaderInv
  BY TypeParts DEF TypeInv
<1>2. UNCHANGED <<parser, store, out, base, lines, viewer, tests>>
  BY DEF LateEnds, OpenBegins, OpenEnds, CloseSession, Reacquire
<1>3. ParserTypes' /\ StoreTypes' /\ ThreadTypes' /\ CountTypes'
  BY <1>1, <1>2 DEF ParserTypes, StoreTypes, ThreadTypes, CountTypes, parser, store
<1>4. /\ \A t \in Threads : Len(out'[t]) <= 1
      /\ \A t \in Threads : base'[t] # <<>> => out'[t] # <<>> /\ Len(base'[t]) = 1
  BY <1>1, <1>2 DEF ReaderInv
<1>5. /\ session \in DOMAIN boards /\ session \in Sessions /\ session \in Threads /\ session \in Nat
      /\ DOMAIN boards = 1..session /\ boards \in Seq(Boards) /\ session = Len(boards) /\ session # Main
  BY <1>1, Constants, SessionFacts DEF session, SessionTypes
<1>6. ASSUME ReaderEnds, UNCHANGED <<boards, board>>, request = "idle", request' \in {"reset", "closed"},
             request' = "reset" => board < MaxBoards
      PROVE  SessionTypes' /\ ReaderInv'
  <2>1. readers' \subseteq readers /\ late \subseteq late' /\ late' \subseteq late \cup {session}
        /\ readers' \subseteq late' /\ \A t \in readers : t \notin readers' => out[t] = <<>>
    BY <1>1, <1>6 DEF ReaderEnds, ReaderInv
  <2>2. SessionTypes'
    BY <1>1, <1>5, <1>6, <2>1 DEF SessionTypes
  <2>3. \A t \in Threads : out'[t] # <<>> => t \in readers'
    BY <1>1, <1>2, <1>6, <2>1 DEF ReaderInv
  <2>4. QED
    BY <1>4, <1>6, <2>1, <2>2, <2>3 DEF ReaderInv, session
<1>7. ASSUME NEW b \in Boards, ReaderStarts(b), board' = b, request \in {"start", "closed"}, request' = "idle"
      PROVE  SessionTypes' /\ ReaderInv'
  <2>1. /\ session < MaxSessions /\ boards' = Append(boards, b) /\ late' = late
        /\ readers' = readers \cup {session + 1}
    BY <1>7 DEF ReaderStarts
  <2>2. /\ boards' \in Seq(Boards) /\ Len(boards') = session + 1 /\ boards'[session + 1] = b
        /\ DOMAIN boards' = 1..(session + 1) /\ session + 1 \in Sessions
    <3>1. boards' \in Seq(Boards) /\ Len(boards') = session + 1 /\ boards'[session + 1] = b
      BY <1>5, <2>1, AppendProperties
    <3>2. DOMAIN boards' = 1..(session + 1)
      BY <3>1, LenProperties
    <3>3. session + 1 \in Sessions
      BY <1>5, <2>1, Constants DEF Sessions
    <3>4. QED
      BY <3>1, <3>2, <3>3
  <2>3. SessionTypes'
    BY <1>1, <1>5, <1>7, <2>1, <2>2 DEF SessionTypes
  <2>4. session' = session + 1
    BY <2>2 DEF session
  <2>5. \A t \in Threads : out'[t] # <<>> => t \in readers'
    BY <1>1, <1>2, <1>7, <2>1 DEF ReaderInv
  <2>6. readers' \subseteq late' \cup {session'}
    BY <1>1, <1>7, <2>1, <2>4 DEF ReaderInv
  <2>7. boards'[session'] = board'
    BY <1>7, <2>2, <2>4
  <2>8. QED
    BY <1>4, <1>7, <2>3, <2>5, <2>6, <2>7 DEF ReaderInv
<1>8. CASE \E s \in Sessions : LateEnds(s)
  <2>1. PICK s \in Sessions : LateEnds(s)
    BY <1>8
  <2>2. /\ s \in late /\ out[s] = <<>> /\ readers' = readers \ {s}
        /\ UNCHANGED <<boards, late, board, request>>
    BY <2>1 DEF LateEnds
  <2>3. SessionTypes'
    BY <1>1, <2>2 DEF SessionTypes
  <2>4. \A t \in Threads : out'[t] # <<>> => t \in readers' \/ (t = Main /\ request' = "over")
    BY <1>1, <1>2, <2>2 DEF ReaderInv
  <2>5. QED
    BY <1>1, <1>3, <1>4, <2>2, <2>3, <2>4, TypePartsNext DEF ReaderInv, session
<1>9. CASE OpenBegins
  <2>1. board < MaxBoards /\ request' = "reset" /\ UNCHANGED <<boards, board>>
    BY <1>9 DEF OpenBegins
  <2>2. CASE request = "idle"
    <3>1. ReaderEnds
      BY <1>9, <2>2 DEF OpenBegins
    <3>2. QED
      BY <1>3, <1>6, <2>1, <2>2, <3>1, TypePartsNext
  <2>3. CASE request # "idle"
    <3>1. request = "closed" /\ UNCHANGED <<readers, late>>
      BY <1>9, <2>3 DEF OpenBegins
    <3>2. SessionTypes'
      BY <1>1, <2>1, <3>1 DEF SessionTypes
    <3>3. \A t \in Threads : out'[t] # <<>> => t \in readers'
      BY <1>1, <1>2, <3>1 DEF ReaderInv
    <3>4. ReaderInv'
      BY <1>1, <1>4, <2>1, <3>1, <3>3 DEF ReaderInv, session
    <3>5. QED
      BY <1>3, <3>2, <3>4, TypePartsNext
  <2>4. QED
    BY <2>2, <2>3
<1>10. CASE OpenEnds
  <2>1. request = "start" /\ board' = board + 1 /\ board' \in Boards
    BY <1>1, <1>10, Constants DEF OpenEnds, ReaderInv, SessionTypes, Boards
  <2>2. CASE request' = "idle"
    <3>1. ReaderStarts(board')
      BY <1>10, <2>2 DEF OpenEnds
    <3>2. QED
      BY <1>3, <1>7, <2>1, <2>2, <3>1, TypePartsNext
  <2>3. CASE request' # "idle"
    <3>1. request' = "closed" /\ UNCHANGED <<boards, readers, late>>
      BY <1>10, <2>3 DEF OpenEnds
    <3>2. SessionTypes'
      BY <1>1, <2>1, <3>1 DEF SessionTypes
    <3>3. \A t \in Threads : out'[t] # <<>> => t \in readers'
      BY <1>1, <1>2, <2>1, <3>1 DEF ReaderInv
    <3>4. ReaderInv'
      BY <1>1, <1>4, <2>1, <3>1, <3>3 DEF ReaderInv, session
    <3>5. QED
      BY <1>3, <3>2, <3>4, TypePartsNext
  <2>4. QED
    BY <2>2, <2>3
<1>11. CASE CloseSession
  <2>1. request = "idle" /\ request' = "closed" /\ ReaderEnds /\ UNCHANGED <<boards, board>>
    BY <1>11 DEF CloseSession
  <2>2. QED
    BY <1>3, <1>6, <2>1, TypePartsNext
<1>12. CASE Reacquire
  <2>1. request = "closed" /\ request' = "idle" /\ ReaderStarts(board) /\ board' = board /\ board \in Boards
    BY <1>1, <1>12 DEF Reacquire, SessionTypes
  <2>2. QED
    BY <1>3, <1>7, <2>1, TypePartsNext
<1>13. QED
  BY <1>8, <1>9, <1>10, <1>11, <1>12

LEMMA StepTyped == TypeInv /\ [Next]_vars => TypeInv'
<1> SUFFICES ASSUME TypeInv, [Next]_vars PROVE TypeInv'
  OBVIOUS
<1>1. ParserTypes /\ StoreTypes /\ ThreadTypes /\ SessionTypes /\ CountTypes /\ ReaderInv
  BY TypeParts DEF TypeInv
<1>2. CASE Reset \/ Clear
  <2>1. /\ UNCHANGED <<out, base, sessions, lines>>
        /\ \/ request = "reset" /\ request' = "clear"
           \/ request = "clear" /\ request' = "start"
    BY <1>2 DEF Reset, Clear
  <2>2. ParserTypes'
    <3>1. 0 \in 0..WaitLines
      BY Constants
    <3>2. QED
      BY <1>1, <1>2, <3>1 DEF Reset, Clear, ParserTypes, parser
  <2>3. StoreTypes' /\ CountTypes'
    <3>1. CASE Reset
      BY <1>1, <3>1 DEF Reset, StoreTypes, CountTypes, store
    <3>2. CASE Clear
      <4>1. history' = <<>> /\ tests' = <<>> /\ stored' = None /\ viewer' = viewer /\ lines' = lines
        BY <3>2 DEF Clear
      <4>2. <<>> \in Seq(Snapshot) /\ Len(<<>>) = 0 /\ 0 <= HistoryMax
        BY Constants
      <4>3. QED
        BY <1>1, <4>1, <4>2 DEF StoreTypes, CountTypes
    <3>3. QED
      BY <1>2, <3>1, <3>2
  <2>4. ThreadTypes' /\ SessionTypes'
    BY <1>1, <2>1 DEF ThreadTypes, SessionTypes, sessions
  <2>5. ReaderInv'
    BY <1>1, <2>1 DEF ReaderInv, session, sessions
  <2>6. QED
    BY <2>2, <2>3, <2>4, <2>5, TypePartsNext
<1>3. CASE UNCHANGED vars
  <2>1. ParserTypes' /\ StoreTypes' /\ ThreadTypes' /\ SessionTypes' /\ CountTypes'
    BY <1>1, <1>3 DEF vars, ParserTypes, StoreTypes, ThreadTypes, SessionTypes, CountTypes, parser, store, sessions
  <2>2. ReaderInv'
    BY <1>1, <1>3 DEF vars, ReaderInv, session, sessions
  <2>3. QED
    BY <2>1, <2>2, TypePartsNext
<1>4. QED
  BY <1>2, <1>3, FeedTyped, ObserveTyped, RequestTyped, FlushTyped DEF Next

(* Every variable keeps to its type, the history to its size.              *)
THEOREM SnapshotsTyped == Spec => []TypeOK
<1>1. TypeInv => TypeOK
  BY DEF TypeInv
<1>2. QED
  BY <1>1, InitTyped, StepTyped, PTL DEF Spec

-----------------------------------------------------------------------------
(* Whose values are held.                                                   *)

LEMMA OfMore ==
  ASSUME NEW F, NEW G, F \subseteq G
  PROVE  /\ \A cur, em, id, cap : ParserOf(F, cur, em, id, cap) => ParserOf(G, cur, em, id, cap)
         /\ \A st, h : StoreOf(F, st, h) => StoreOf(G, st, h)
         /\ \A o, b : ThreadsOf(F, o, b) => ThreadsOf(G, o, b)
<1>1. \A s : Of(s, F) => Of(s, G)
  BY DEF Of, PrintedBy
<1>2. \A e : EventOf(e, F) => EventOf(e, G)
  BY DEF EventOf, PrintedBy
<1>3. \A p : ValueOf(p, F) => ValueOf(p, G)
  BY DEF ValueOf
<1>4. QED
  BY <1>1, <1>2, <1>3 DEF ParserOf, StoreOf, ThreadsOf

LEMMA OfSteps ==
  ASSUME NEW F
  PROVE  /\ \A h : Of(Fresh(h), F)
         /\ \A s \in Snapshot, i \in Items, b \in F, v \in Values : Of(s, F) => Of(With(s, i, <<b, v>>), F)
         /\ \A s \in Snapshot, d \in Delta :
              Of(s, F) /\ (\A i \in Items : d.changed[i] = Absent \/ d.changed[i][1] \in F) => Of(Apply(s, d), F)
         /\ Of(None, F) /\ ValueOf(None, F)
         /\ \A b \in F, v \in Values : ValueOf(<<b, v>>, F)
<1>1. \A h : Of(Fresh(h), F)
  BY DEF Of, Fresh, PrintedBy
<1>2. ASSUME NEW s \in Snapshot, NEW i \in Items, NEW b \in F, NEW v \in Values, Of(s, F)
      PROVE  Of(With(s, i, <<b, v>>), F)
  <2>1. s # None /\ s.items \in [Items -> Printed \cup {Absent}]
    BY Constants, SnapshotIs
  <2>2. PrintedBy(s, F)
    BY <1>2, <2>1 DEF Of
  <2>3. \A j \in Items : With(s, i, <<b, v>>).items[j] = IF j = i THEN <<b, v>> ELSE s.items[j]
    BY <2>1 DEF With
  <2>4. PrintedBy(With(s, i, <<b, v>>), F)
    BY <2>2, <2>3 DEF PrintedBy
  <2>5. QED
    BY <2>4 DEF Of
<1>3. ASSUME NEW s \in Snapshot, NEW d \in Delta, Of(s, F),
             \A i \in Items : d.changed[i] = Absent \/ d.changed[i][1] \in F
      PROVE  Of(Apply(s, d), F)
  <2>1. PrintedBy(s, F)
    BY <1>3, Constants DEF Of
  <2>2. \A i \in Items : Apply(s, d).items[i] =
          IF d.changed[i] # Absent THEN d.changed[i] ELSE IF i \in d.removed THEN Absent ELSE s.items[i]
    BY DEF Apply
  <2>3. PrintedBy(Apply(s, d), F)
    BY <1>3, <2>1, <2>2 DEF PrintedBy
  <2>4. QED
    BY <2>3 DEF Of
<1>4. Of(None, F) /\ ValueOf(None, F)
  BY DEF Of, ValueOf
<1>5. \A b \in F, v \in Values : ValueOf(<<b, v>>, F)
  BY DEF ValueOf
<1>6. QED
  BY <1>1, <1>2, <1>3, <1>4, <1>5

LEMMA EmitsOf ==
  ASSUME NEW F, NEW new \in Snapshot, emitted \in Snapshot \cup {None}, Of(new, F), Of(emitted, F)
  PROVE  /\ \A i \in 1..Len(Emits(new)) : EventOf(Emits(new)[i], F)
         /\ Of(EmittedAfter(new), F)
<1>1. PrintedBy(new, F)
  BY Constants DEF Of
<1>2. Of(EmittedAfter(new), F)
  BY DEF EmittedAfter
<1>3. CASE NeedsFull(new)
  <2> DEFINE e == [type |-> "update", snapshot |-> new]
  <2>1. Emits(new) = <<e>>
    BY <1>3 DEF Emits
  <2>2. EventOf(e, F)
    BY <1>1 DEF EventOf
  <2> HIDE DEF e
  <2>3. QED
    BY <1>2, <2>1, <2>2
<1>4. CASE ~NeedsFull(new)
  <2> DEFINE d == DeltaOf(emitted, new)
             e == [type |-> "delta", delta |-> d]
  <2>1. Emits(new) = <<>> \/ Emits(new) = <<e>>
    BY <1>4 DEF Emits
  <2>2. \A i \in Items : d.changed[i] = Absent \/ d.changed[i][1] \in F
    BY <1>1 DEF DeltaOf, PrintedBy
  <2> HIDE DEF d
  <2>3. EventOf(e, F)
    BY <2>2 DEF EventOf
  <2> HIDE DEF e
  <2>4. QED
    BY <1>2, <2>1, <2>3
<1>5. QED
  BY <1>3, <1>4

LEMMA NoEvents ==
  ASSUME NEW F PROVE \A i \in 1..Len(<<>>) : EventOf(<<>>[i], F) /\ Of(<<>>[i], F)
  OBVIOUS

(* A thread that emits what is of F.                                       *)
LEMMA ThreadOf ==
  ASSUME NEW F, NEW o, NEW b, ThreadsOf(F, o, b), NEW s \in Threads, o \in [Threads -> Seq(Event)],
         NEW ev, \A i \in 1..Len(ev) : EventOf(ev[i], F)
  PROVE  ThreadsOf(F, [o EXCEPT ![s] = ev], b)
  BY DEF ThreadsOf

LEMMA ThreadRead ==
  ASSUME NEW F, NEW o, NEW b, ThreadsOf(F, o, b), NEW s \in Threads, b \in [Threads -> Seq(Snapshot \cup {None})],
         NEW from, \A i \in 1..Len(from) : Of(from[i], F)
  PROVE  ThreadsOf(F, o, [b EXCEPT ![s] = from])
  BY DEF ThreadsOf

\* The parser, the store and the threads hold what was printed by F.
Holds(F) ==
  /\ ParserOf(F, current, emitted, identity, capabilities)
  /\ StoreOf(F, stored, history) /\ ThreadsOf(F, out, base)

LEMMA FeedOf ==
  ASSUME TypeInv, NEW F, Holds(F), NEW s \in Sessions, Feed(s), boards[s] \in F
  PROVE  /\ ParserOf(F, current', emitted', identity', capabilities')
         /\ StoreOf(F, stored', history') /\ ThreadsOf(F, out', base')
<1>1. /\ s \in Threads /\ Free(s) /\ UNCHANGED <<store, base>>
      /\ identity' = identity \/ \E v \in Values : identity' = <<boards[s], v>>
      /\ capabilities' = capabilities \/ \E v \in Values : capabilities' = <<boards[s], v>>
      /\ FeedNothing(s) \/ FeedFresh(s) \/ FeedUpdate(s)
  BY FeedCases
<1>2. /\ Of(current, F) /\ Of(emitted, F) /\ ValueOf(identity, F) /\ ValueOf(capabilities, F)
      /\ current \in Snapshot \cup {None} /\ emitted \in Snapshot \cup {None} /\ out \in [Threads -> Seq(Event)]
  BY DEF Holds, ParserOf, TypeInv, TypeOK
<1>3. StoreOf(F, stored', history')
  BY <1>1 DEF Holds, store
<1>4. ValueOf(identity', F) /\ ValueOf(capabilities', F)
  <2>1. \A v \in Values : ValueOf(<<boards[s], v>>, F)
    BY OfSteps
  <2>2. QED
    BY <1>1, <1>2, <2>1
<1>5. base' = base /\ ThreadsOf(F, out, base)
  BY <1>1 DEF Holds
<1>6. Of(current', F) /\ Of(emitted', F) /\ ThreadsOf(F, out', base)
  <2>1. CASE FeedNothing(s)
    BY <1>2, <1>5, <2>1 DEF FeedNothing
  <2>2. CASE FeedFresh(s)
    <3>1. PICK h \in Headers :
            /\ IF current = None THEN out' = [out EXCEPT ![s] = <<>>] /\ emitted' = emitted
               ELSE out' = [out EXCEPT ![s] = Emits(current)] /\ emitted' = EmittedAfter(current)
            /\ current' = Fresh(h)
      BY <2>2 DEF FeedFresh
    <3>2. Of(current', F)
      BY <3>1, OfSteps
    <3>3. CASE current = None
      <4>1. out' = [out EXCEPT ![s] = <<>>] /\ emitted' = emitted
        BY <3>1, <3>3
      <4>2. ThreadsOf(F, [out EXCEPT ![s] = <<>>], base)
        BY <1>1, <1>2, <1>5, NoEvents, ThreadOf
      <4>3. QED
        BY <1>2, <3>2, <4>1, <4>2
    <3>4. CASE current # None
      <4>1. out' = [out EXCEPT ![s] = Emits(current)] /\ emitted' = EmittedAfter(current)
        BY <3>1, <3>4
      <4>2. Of(EmittedAfter(current), F) /\ \A i \in 1..Len(Emits(current)) : EventOf(Emits(current)[i], F)
        BY <1>2, <3>4, EmitsOf
      <4>3. ThreadsOf(F, [out EXCEPT ![s] = Emits(current)], base)
        BY <1>1, <1>2, <1>5, <4>2, ThreadOf
      <4>4. QED
        BY <3>2, <4>1, <4>2, <4>3
    <3>5. QED
      BY <3>3, <3>4
  <2>3. CASE FeedUpdate(s)
    <3>1. PICK i \in Items, v \in Values :
            LET new == With(current, i, <<boards[s], v>>)
            IN /\ current' = new
               /\ out' = [out EXCEPT ![s] = Emits(new)] /\ emitted' = EmittedAfter(new)
      BY <2>3 DEF FeedUpdate
    <3> DEFINE new == With(current, i, <<boards[s], v>>)
    <3>2. new \in Snapshot /\ Of(new, F)
      <4>1. current \in Snapshot /\ <<boards[s], v>> \in Printed
        BY <1>2, <2>3, FeedCases DEF FeedUpdate, Printed
      <4>2. QED
        BY <1>2, <4>1, SnapshotIs, OfSteps
    <3>3. current' = new /\ out' = [out EXCEPT ![s] = Emits(new)] /\ emitted' = EmittedAfter(new)
      BY <3>1
    <3> HIDE DEF new
    <3>4. Of(EmittedAfter(new), F) /\ \A j \in 1..Len(Emits(new)) : EventOf(Emits(new)[j], F)
      BY <1>2, <3>2, EmitsOf
    <3>5. ThreadsOf(F, [out EXCEPT ![s] = Emits(new)], base)
      BY <1>1, <1>2, <1>5, <3>4, ThreadOf
    <3>6. QED
      BY <3>2, <3>3, <3>4, <3>5
  <2>4. QED
    BY <1>1, <2>1, <2>2, <2>3
<1>7. QED
  BY <1>3, <1>4, <1>5, <1>6 DEF ParserOf

LEMMA ObserveOf ==
  ASSUME TypeInv, NEW F, Holds(F), NEW s \in Threads, ObserveRead(s) \/ ObserveWrite(s)
  PROVE  /\ ParserOf(F, current', emitted', identity', capabilities')
         /\ StoreOf(F, stored', history') /\ ThreadsOf(F, out', base')
<1>1. /\ ParserOf(F, current, emitted, identity, capabilities)
      /\ StoreOf(F, stored, history) /\ ThreadsOf(F, out, base)
      /\ out \in [Threads -> Seq(Event)] /\ base \in [Threads -> Seq(Snapshot \cup {None})]
      /\ history \in Seq(Snapshot) /\ Len(history) <= HistoryMax
  BY DEF Holds, TypeInv, TypeOK
<1>2. ParserOf(F, current', emitted', identity', capabilities')
  BY <1>1 DEF ObserveRead, ObserveWrite, parser
<1>3. CASE ObserveRead(s)
  <2>1. base' = [base EXCEPT ![s] = <<stored>>] /\ UNCHANGED <<store, out>>
    BY <1>3 DEF ObserveRead
  <2>2. \A i \in 1..Len(<<stored>>) : Of(<<stored>>[i], F)
    BY <1>1 DEF StoreOf
  <2>3. ThreadsOf(F, out, [base EXCEPT ![s] = <<stored>>])
    BY <1>1, <2>2, ThreadRead
  <2>4. QED
    BY <1>1, <1>2, <2>1, <2>3 DEF store
<1>4. CASE ObserveWrite(s)
  <2>1. /\ base[s] # <<>> /\ Len(base[s]) = 1 /\ Len(out[s]) = 1
        /\ base[s][1] \in Snapshot \cup {None} /\ Head(out[s]) = out[s][1] /\ out[s][1] \in Event
        /\ ObserveStores(s)
        /\ out' = [out EXCEPT ![s] = <<>>] /\ base' = [base EXCEPT ![s] = <<>>]
    BY <1>4, ObserveCases
  <2>2. EventOf(out[s][1], F) /\ Of(base[s][1], F)
    <3>1. 1 \in 1..Len(out[s]) /\ 1 \in 1..Len(base[s])
      BY <2>1
    <3>2. QED
      BY <1>1, <3>1 DEF ThreadsOf
  <2>3. ThreadsOf(F, out', base')
    <3>1. ThreadsOf(F, [out EXCEPT ![s] = <<>>], base)
      BY <1>1, NoEvents, ThreadOf
    <3>2. ThreadsOf(F, [out EXCEPT ![s] = <<>>], [base EXCEPT ![s] = <<>>])
      BY <1>1, <3>1, NoEvents, ThreadRead
    <3>3. QED
      BY <2>1, <3>2
  <2> DEFINE e == out[s][1]
             new == IF e.type = "update" THEN e.snapshot ELSE Apply(base[s][1], e.delta)
  <2>4. \/ stored' = stored /\ history' = history
        \/ /\ ~(e.type = "delta" /\ base[s][1] = None)
           /\ new \in Snapshot /\ stored' = new /\ history' = RecordedIn(history, new)
    BY <2>1 DEF ObserveStores, store
  <2>5. ASSUME ~(e.type = "delta" /\ base[s][1] = None) PROVE Of(new, F)
    <3>1. CASE e.type = "update"
      <4>1. new = e.snapshot /\ PrintedBy(e.snapshot, F)
        BY <2>2, <3>1 DEF EventOf
      <4>2. QED
        BY <4>1 DEF Of
    <3>2. CASE e.type # "update"
      <4>1. e.type = "delta" /\ e.delta \in Delta /\ base[s][1] \in Snapshot /\ new = Apply(base[s][1], e.delta)
        BY <2>1, <2>5, <3>2, EventIs
      <4>2. \A i \in Items : e.delta.changed[i] = Absent \/ e.delta.changed[i][1] \in F
        BY <2>2, <3>2 DEF EventOf
      <4>3. QED
        BY <2>2, <4>1, <4>2, OfSteps
    <3>3. QED
      BY <3>1, <3>2
  <2> HIDE DEF e, new
  <2>6. StoreOf(F, stored', history')
    <3>1. CASE stored' = stored /\ history' = history
      BY <1>1, <3>1
    <3>2. CASE Of(new, F) /\ new \in Snapshot /\ stored' = new /\ history' = RecordedIn(history, new)
      <4>1. \A i \in 1..Len(history') : history'[i] = new \/ \E j \in 1..Len(history) : history'[i] = history[j]
        BY <1>1, <3>2, RecordedProperties
      <4>2. QED
        BY <1>1, <3>2, <4>1 DEF StoreOf
    <3>3. QED
      BY <2>4, <2>5, <3>1, <3>2
  <2>7. QED
    BY <1>2, <2>3, <2>6
<1>5. QED
  BY <1>3, <1>4

LEMMA FromFacts ==
  ASSUME TypeInv
  PROVE  /\ \A s \in readers : (late # {} \/ request = "idle") => boards[s] \in From
         /\ late # {} => From = Beside
         /\ late = {} => From = {board}
         /\ late = {} /\ request # "idle" => readers = {}
<1>1. ReaderInv
  BY DEF TypeInv
<1>2. late = {} /\ request # "idle" => readers = {}
  BY <1>1 DEF ReaderInv
<1>3. ASSUME NEW s \in readers, late # {} PROVE boards[s] \in Beside
  <2>1. PICK l \in late : TRUE
    BY <1>3
  <2>2. s \in 1..session /\ l \in 1..session /\ session \in 1..session /\ s \in Nat /\ l \in Nat
    BY SessionFacts DEF TypeInv, TypeOK
  <2>3. s \in late \/ (s = session /\ l <= s)
    BY <1>1, <2>2 DEF ReaderInv
  <2>4. \E n \in late : n <= s
    BY <2>2, <2>3
  <2>5. QED
    BY <2>2, <2>4 DEF Beside
<1>4. ASSUME NEW s \in readers, late = {}, request = "idle" PROVE boards[s] = board
  BY <1>1, <1>4 DEF ReaderInv
<1>5. QED
  BY <1>2, <1>3, <1>4 DEF From

(* Requests leave what is held, and whose it may be grows.                 *)
LEMMA RequestFrom ==
  ASSUME TypeInv, (\E s \in Sessions : LateEnds(s)) \/ OpenBegins \/ CloseSession \/ Reacquire \/ OpenEnds
  PROVE  /\ UNCHANGED <<parser, store, out, base>>
         /\ late \subseteq late'
         /\ late # {} \/ board' = board => From \subseteq From'
<1>1. UNCHANGED <<parser, store, out, base>>
  BY DEF LateEnds, OpenBegins, OpenEnds, CloseSession, Reacquire
<1>2. late \subseteq late'
  BY DEF LateEnds, OpenBegins, OpenEnds, CloseSession, Reacquire, ReaderEnds, ReaderStarts
<1>3. /\ boards \in Seq(Boards) /\ session = Len(boards) /\ session \in Nat /\ session \in 1..session
      /\ late \subseteq 1..session /\ ReaderInv
  BY SessionFacts, Constants DEF TypeInv, TypeOK, session
<1>4. /\ session <= session' /\ session' \in Nat
      /\ \A n \in 1..session : boards'[n] = boards[n]
  <2>1. boards' = boards \/ \E b : b \in Boards /\ boards' = Append(boards, b)
    <3>1. CASE OpenEnds
      <4>1. board' \in Boards
        BY <3>1, Constants DEF OpenEnds, TypeInv, TypeOK, ReaderInv, Boards
      <4>2. boards' = boards \/ boards' = Append(boards, board')
        BY <3>1 DEF OpenEnds, ReaderStarts
      <4>3. QED
        BY <4>1, <4>2
    <3>2. CASE Reacquire
      <4>1. board \in Boards /\ boards' = Append(boards, board)
        BY <3>2 DEF Reacquire, ReaderStarts, TypeInv, TypeOK
      <4>2. QED
        BY <4>1
    <3>3. CASE (\E s \in Sessions : LateEnds(s)) \/ OpenBegins \/ CloseSession
      BY <3>3 DEF LateEnds, OpenBegins, CloseSession
    <3>4. QED
      BY <3>1, <3>2, <3>3
  <2>2. CASE boards' = boards
    BY <1>3, <2>2 DEF session
  <2>3. CASE \E b : b \in Boards /\ boards' = Append(boards, b)
    <3>1. PICK b : b \in Boards /\ boards' = Append(boards, b)
      BY <2>3
    <3>2. Len(boards') = Len(boards) + 1 /\ \A n \in 1..Len(boards) : boards'[n] = boards[n]
      BY <1>3, <3>1, AppendProperties
    <3>3. QED
      BY <1>3, <3>2 DEF session
  <2>4. QED
    BY <2>1, <2>2, <2>3
<1>5. Beside \subseteq Beside'
  <2>1. ASSUME NEW n \in 1..session, \E l \in late : l <= n
        PROVE  n \in 1..session' /\ boards'[n] = boards[n] /\ \E l \in late' : l <= n
    BY <1>2, <1>3, <1>4, <2>1
  <2>2. Beside' = {boards'[s] : s \in {n \in 1..session' : \E l \in late' : l <= n}}
    BY DEF Beside
  <2>3. QED
    BY <2>1, <2>2 DEF Beside
<1>6. CASE late # {}
  BY <1>1, <1>2, <1>5, <1>6 DEF From
<1>7. CASE late = {} /\ board' = board /\ late' = {}
  BY <1>1, <1>2, <1>7 DEF From
<1>8. CASE late = {} /\ board' = board /\ late' # {}
  <2>1. ReaderEnds /\ request = "idle" /\ UNCHANGED boards
    BY <1>8 DEF LateEnds, OpenBegins, OpenEnds, CloseSession, Reacquire, ReaderStarts
  <2>2. late' = {session}
    BY <1>8, <2>1 DEF ReaderEnds
  <2>3. boards'[session] = board /\ session' = session
    BY <1>3, <2>1 DEF ReaderInv, session
  <2>4. board \in Beside'
    <3>1. Beside' = {boards'[s] : s \in {n \in 1..session' : \E l \in late' : l <= n}}
      BY DEF Beside
    <3>2. session \in {n \in 1..session' : \E l \in late' : l <= n}
      BY <1>3, <2>2, <2>3
    <3>3. QED
      BY <2>3, <3>1, <3>2
  <2>5. QED
    BY <1>1, <1>2, <1>8, <2>4 DEF From
<1>9. QED
  BY <1>1, <1>2, <1>6, <1>7, <1>8

LEMMA LingerStep == TypeInv /\ LingerInv /\ [Next]_vars => LingerInv'
<1> SUFFICES ASSUME TypeInv, LingerInv, [Next]_vars PROVE LingerInv'
  OBVIOUS
<1> DEFINE Cleared ==
      /\ late = {} /\ request \in {"clear", "start"} =>
           current = None /\ emitted = None /\ identity = None /\ capabilities = None
      /\ late = {} /\ request = "start" => stored = None /\ history = <<>>
<1>1. Holds(From) /\ Cleared
  BY DEF LingerInv, Holds
<1>2. ASSUME ParserOf(From', current', emitted', identity', capabilities'),
             StoreOf(From', stored', history'), ThreadsOf(From', out', base'), Cleared'
      PROVE  LingerInv'
  BY <1>2 DEF LingerInv
<1>3. UNCHANGED <<sessions>> => From' = From
  BY DEF From, Beside, session, sessions
<1>4. CASE \E s \in Sessions : Feed(s)
  <2>1. PICK s \in Sessions : Feed(s)
    BY <1>4
  <2>2. s \in readers /\ UNCHANGED <<store, base, sessions, request>>
    BY <2>1, FeedCases
  <2>3. boards[s] \in From
    BY <2>2, FromFacts
  <2>4. Cleared'
    <3>1. ~(late = {} /\ request \in {"clear", "start"})
      BY <2>2, FromFacts
    <3>2. QED
      BY <2>2, <3>1 DEF sessions
  <2>5. QED
    BY <1>1, <1>2, <1>3, <2>1, <2>2, <2>3, <2>4, FeedOf
<1>5. CASE \E s \in Threads : ObserveRead(s) \/ ObserveWrite(s)
  <2>1. PICK s \in Threads : ObserveRead(s) \/ ObserveWrite(s)
    BY <1>5
  <2>2. out[s] # <<>> /\ UNCHANGED <<parser, sessions, request>>
    BY <2>1, ObserveCases DEF ObserveRead
  <2>3. ~(late = {} /\ request \in {"clear", "start"})
    BY <2>2, FromFacts DEF TypeInv, ReaderInv
  <2>4. Cleared'
    BY <2>2, <2>3 DEF sessions
  <2>5. QED
    BY <1>1, <1>2, <1>3, <2>1, <2>2, <2>4, ObserveOf
<1>6. CASE (\E s \in Sessions : LateEnds(s)) \/ OpenBegins \/ CloseSession \/ Reacquire
  <2>1. UNCHANGED <<parser, store, out, base>> /\ late \subseteq late' /\ board' = board
    BY <1>6, RequestFrom DEF LateEnds, OpenBegins, CloseSession, Reacquire
  <2>2. From \subseteq From'
    BY <1>6, <2>1, RequestFrom
  <2>3. Cleared'
    <3>1. CASE \E s \in Sessions : LateEnds(s)
      BY <1>1, <2>1, <3>1 DEF LateEnds, parser, store
    <3>2. CASE OpenBegins \/ CloseSession \/ Reacquire
      BY <3>2 DEF OpenBegins, CloseSession, Reacquire
    <3>3. QED
      BY <1>6, <3>1, <3>2
  <2>4. /\ ParserOf(From', current, emitted, identity, capabilities)
        /\ StoreOf(From', stored, history) /\ ThreadsOf(From', out, base)
    BY <1>1, <2>2, OfMore DEF Holds
  <2>5. /\ current' = current /\ emitted' = emitted /\ identity' = identity /\ capabilities' = capabilities
        /\ stored' = stored /\ history' = history /\ out' = out /\ base' = base
    BY <2>1 DEF parser, store
  <2>6. QED
    BY <1>2, <2>3, <2>4, <2>5
<1>7. CASE OpenEnds
  <2>1. /\ UNCHANGED <<parser, store, out, base>> /\ late' = late /\ request = "start"
        /\ request' \in {"idle", "closed"}
    BY <1>7 DEF OpenEnds, ReaderStarts
  <2>2. Cleared'
    BY <2>1
  <2>3. /\ current' = current /\ emitted' = emitted /\ identity' = identity /\ capabilities' = capabilities
        /\ stored' = stored /\ history' = history /\ out' = out /\ base' = base
    BY <2>1 DEF parser, store
  <2>4. /\ ParserOf(From', current, emitted, identity, capabilities)
        /\ StoreOf(From', stored, history) /\ ThreadsOf(From', out, base)
    <3>1. CASE late # {}
      <4>1. From \subseteq From'
        BY <1>7, <3>1, RequestFrom
      <4>2. QED
        BY <1>1, <4>1, OfMore DEF Holds
    <3>2. CASE late = {}
      <4>1. /\ current = None /\ emitted = None /\ identity = None /\ capabilities = None
            /\ stored = None /\ history = <<>>
        BY <1>1, <2>1, <3>2
      <4>2. \A t \in Threads : out[t] = <<>> /\ base[t] = <<>>
        BY <2>1, <3>2, FromFacts DEF TypeInv, ReaderInv
      <4>3. ThreadsOf(From', out, base)
        BY <4>2, NoEvents DEF ThreadsOf
      <4>4. StoreOf(From', stored, history)
        BY <4>1, NoEvents, OfSteps DEF StoreOf
      <4>5. QED
        BY <4>1, <4>3, <4>4, OfSteps DEF ParserOf
    <3>3. QED
      BY <3>1, <3>2
  <2>5. QED
    BY <1>2, <2>2, <2>3, <2>4
<1>8. CASE Reset
  <2>1. /\ current' = None /\ emitted' = None /\ identity' = None /\ capabilities' = None
        /\ request' = "clear" /\ UNCHANGED <<store, out, base, sessions>>
    BY <1>8 DEF Reset
  <2>2. Cleared'
    BY <2>1
  <2>3. ParserOf(From, None, None, None, None)
    BY OfSteps DEF ParserOf
  <2>4. QED
    BY <1>1, <1>2, <1>3, <2>1, <2>2, <2>3 DEF Holds, store
<1>9. CASE Clear
  <2>1. /\ stored' = None /\ history' = <<>> /\ request = "clear" /\ request' = "start"
        /\ UNCHANGED <<parser, out, base, sessions>>
    BY <1>9 DEF Clear
  <2>2. Cleared'
    BY <1>1, <2>1 DEF parser, sessions
  <2>3. StoreOf(From, None, <<>>)
    BY OfSteps, NoEvents DEF StoreOf
  <2>4. QED
    BY <1>1, <1>2, <1>3, <2>1, <2>2, <2>3 DEF Holds, parser
<1>10. CASE Flush
  <2>1. /\ request' = "over" /\ current' = None
        /\ IF current = None THEN out' = out /\ emitted' = emitted
           ELSE out' = [out EXCEPT ![Main] = Emits(current)] /\ emitted' = EmittedAfter(current)
        /\ UNCHANGED <<identity, capabilities, store, base, sessions>>
    BY <1>10 DEF Flush, Emit
  <2>2. /\ Of(current, From) /\ Of(emitted, From) /\ ThreadsOf(From, out, base)
        /\ ValueOf(identity, From) /\ ValueOf(capabilities, From) /\ StoreOf(From, stored, history)
        /\ current \in Snapshot \cup {None} /\ emitted \in Snapshot \cup {None}
        /\ out \in [Threads -> Seq(Event)] /\ Main \in Threads
    BY <1>1, Constants DEF Holds, ParserOf, TypeInv, TypeOK
  <2>3. Of(emitted', From) /\ ThreadsOf(From, out', base)
    <3>1. CASE current = None
      BY <2>1, <2>2, <3>1
    <3>2. CASE current # None
      <4>1. out' = [out EXCEPT ![Main] = Emits(current)] /\ emitted' = EmittedAfter(current)
        BY <2>1, <3>2
      <4>2. Of(EmittedAfter(current), From) /\ \A i \in 1..Len(Emits(current)) : EventOf(Emits(current)[i], From)
        BY <2>2, <3>2, EmitsOf
      <4>3. ThreadsOf(From, [out EXCEPT ![Main] = Emits(current)], base)
        BY <2>2, <4>2, ThreadOf
      <4>4. QED
        BY <4>1, <4>2, <4>3
    <3>3. QED
      BY <3>1, <3>2
  <2>4. ParserOf(From, current', emitted', identity', capabilities')
    BY <2>1, <2>2, <2>3, OfSteps DEF ParserOf
  <2>5. Cleared'
    BY <2>1
  <2>6. QED
    BY <1>2, <1>3, <2>1, <2>2, <2>3, <2>4, <2>5 DEF store
<1>11. CASE UNCHANGED vars
  BY <1>1, <1>2, <1>3, <1>11 DEF vars, parser, store, sessions, Holds
<1>12. QED
  BY <1>4, <1>5, <1>6, <1>7, <1>8, <1>9, <1>10, <1>11 DEF Next

LEMMA LingerInit == Init => LingerInv
<1> SUFFICES ASSUME Init PROVE LingerInv
  OBVIOUS
<1>1. /\ current = None /\ emitted = None /\ identity = None /\ capabilities = None
      /\ stored = None /\ history = <<>> /\ request = "idle"
      /\ \A t \in Threads : out[t] = <<>> /\ base[t] = <<>>
  BY DEF Init
<1>2. ThreadsOf(From, out, base)
  BY <1>1, NoEvents DEF ThreadsOf
<1>3. StoreOf(From, None, <<>>) /\ ParserOf(From, None, None, None, None)
  BY NoEvents, OfSteps DEF StoreOf, ParserOf
<1>4. QED
  BY <1>1, <1>2, <1>3 DEF LingerInv

(* In a session parser and store hold what its own board printed, and,     *)
(* once a reader has outlived join(), nothing older than its session       *)
(* (open_serial(), SysMonParser.reset(), SnapshotStore.clear(), and the    *)
(* read of _current before the lock in observe()).                         *)
THEOREM NothingOlder == Spec => []NothingLingers
<1>1. TypeInv /\ LingerInv => NothingLingers
  <2> SUFFICES ASSUME TypeInv, LingerInv, NEW from, from = {board} \cup Beside
               PROVE  /\ \A s \in ({current, emitted, stored} \cup ToSet(history)) \ {None} : PrintedBy(s, from)
                      /\ \A p \in {identity, capabilities} \ {None} : p[1] \in from
    BY DEF NothingLingers
  <2>1. From \subseteq from
    BY DEF From
  <2>2. /\ ParserOf(from, current, emitted, identity, capabilities) /\ StoreOf(from, stored, history)
    BY <2>1, OfMore DEF LingerInv
  <2>3. ToSet(history) = {history[i] : i \in 1..Len(history)}
    BY DEF ToSet, TypeInv, TypeOK
  <2>4. \A s \in {current, emitted, stored} \cup ToSet(history) : Of(s, from)
    BY <2>2, <2>3 DEF ParserOf, StoreOf
  <2>5. \A s \in ({current, emitted, stored} \cup ToSet(history)) \ {None} : PrintedBy(s, from)
    BY <2>4 DEF Of
  <2>6. \A p \in {identity, capabilities} \ {None} : p[1] \in from
    BY <2>2 DEF ParserOf, ValueOf
  <2>7. QED
    BY <2>5, <2>6
<1>2. QED
  BY <1>1, InitTyped, StepTyped, LingerInit, LingerStep, PTL DEF Spec

-----------------------------------------------------------------------------
(* What is shown.                                                           *)

LEMMA ShowsTransitive ==
  ASSUME NEW a, NEW b, NEW c, Shows(a, b), Shows(b, c) PROVE Shows(a, c)
  BY DEF Shows

(* The contract of emit and fold: who shows the snapshot before, and folds *)
(* what _build_snapshot_delta() says has changed, shows the one after; and *)
(* when nothing is emitted because nothing has changed, nothing is missed. *)
THEOREM FoldContract ==
  ASSUME NEW s \in Snapshot, NEW old \in Snapshot, NEW new \in Snapshot,
         old.header = new.header, Shows(s, old)
  PROVE  /\ Shows(Apply(s, DeltaOf(old, new)), new)
         /\ IsEmpty(DeltaOf(old, new)) => Shows(old, new)
<1> DEFINE d == DeltaOf(old, new)
           r == Apply(s, d)
<1>1. /\ \A i \in Items : d.changed[i] = IF old.items[i] # new.items[i] THEN new.items[i] ELSE Absent
      /\ d.removed = {i \in Cores \cup Radios : old.items[i] # Absent /\ new.items[i] = Absent}
  BY DEF DeltaOf
<1> HIDE DEF d
<1>2. /\ r.header = s.header /\ r # None
      /\ \A i \in Items : r.items[i] = IF d.changed[i] # Absent THEN d.changed[i]
                                       ELSE IF i \in d.removed THEN Absent ELSE s.items[i]
  <2>1. /\ r.header = s.header
        /\ \A i \in Items : r.items[i] = IF d.changed[i] # Absent THEN d.changed[i]
                                         ELSE IF i \in d.removed THEN Absent ELSE s.items[i]
    BY DEF Apply
  <2>2. r # None
    BY Constants, DeltaIs DEF d
  <2>3. QED
    BY <2>1, <2>2
<1> HIDE DEF r
<1>3. \A i \in Cores \cup Radios : r.items[i] = new.items[i]
  BY <1>1, <1>2 DEF Shows, Items
<1>4. \A i \in Keys : new.items[i] # Absent => r.items[i] = new.items[i]
  BY <1>1, <1>2 DEF Shows, Items
<1>5. IsEmpty(d) => Shows(old, new)
  <2>1. old # None
    BY Constants
  <2>2. QED
    BY <1>1, <2>1 DEF Shows, Items, IsEmpty
<1>6. Shows(r, new)
  BY <1>2, <1>3, <1>4 DEF Shows
<1>7. QED
  BY <1>5, <1>6 DEF r, d

(* Who has folded what was emitted last shows, with what is emitted for    *)
(* new, what has been emitted then, and that shows new.                    *)
LEMMA EmitsShow ==
  ASSUME emitted \in Snapshot \cup {None}, NEW new \in Snapshot, NEW st \in Snapshot \cup {None},
         emitted # None => Shows(st, emitted)
  PROVE  /\ EmittedAfter(new) \in Snapshot /\ EmittedAfter(new).header = new.header
         /\ Shows(EmittedAfter(new), new) /\ Shows(After(st, Emits(new)), EmittedAfter(new))
         /\ After(st, Emits(new)) \in Snapshot /\ After(st, Emits(new)).header = new.header
<1>1. CASE NeedsFull(new)
  <2> DEFINE e == [type |-> "update", snapshot |-> new]
  <2>1. Emits(new) = <<e>>
    BY <1>1 DEF Emits
  <2>2. EmittedAfter(new) = new /\ After(st, Emits(new)) = new
    BY <2>1 DEF EmittedAfter, After, Fold
  <2>3. Shows(new, new)
    BY Constants DEF Shows
  <2>4. QED
    BY <2>2, <2>3
<1>2. CASE ~NeedsFull(new)
  <2> DEFINE d == DeltaOf(emitted, new)
             e == [type |-> "delta", delta |-> d]
  <2>1. emitted \in Snapshot /\ emitted # None /\ emitted.header = new.header
    BY <1>2 DEF NeedsFull, IsBoundary
  <2>2. Shows(st, emitted) /\ st \in Snapshot /\ st.header = new.header
    BY <2>1 DEF Shows
  <2>3. Shows(Apply(st, d), new) /\ (IsEmpty(d) => Shows(emitted, new)) /\ Apply(st, d) \in Snapshot
    BY <2>1, <2>2, FoldContract, DeltaIs
  <2>4. Emits(new) = IF IsEmpty(d) THEN <<>> ELSE <<e>>
    BY <1>2 DEF Emits
  <2>5. CASE IsEmpty(d)
    <3>1. EmittedAfter(new) = emitted /\ After(st, Emits(new)) = st
      BY <2>4, <2>5 DEF EmittedAfter, After
    <3>2. QED
      BY <2>1, <2>2, <2>3, <2>5, <3>1
  <2>6. CASE ~IsEmpty(d)
    <3>1. Emits(new) = <<e>>
      BY <2>4, <2>6
    <3>2. EmittedAfter(new) = new /\ After(st, Emits(new)) = Apply(st, d)
      <4>1. Fold(st, e) = Apply(st, d)
        BY <2>2, Constants DEF Fold
      <4> HIDE DEF e
      <4>2. QED
        BY <3>1, <4>1 DEF EmittedAfter, After
    <3>3. Shows(new, new) /\ Apply(st, d).header = new.header
      BY <2>3, Constants DEF Shows
    <3>4. QED
      BY <2>3, <3>2, <3>3
  <2>7. QED
    BY <2>5, <2>6
<1>3. QED
  BY <1>1, <1>2

-----------------------------------------------------------------------------
(* The history and the tests.                                               *)

(* The entry of the test under way, cur, replaces the one before or is     *)
(* added; what was shown of the tests before stays.                        *)
LEMMA AlignedRecorded ==
  ASSUME NEW h \in Seq(Snapshot), Len(h) <= HistoryMax, NEW cur \in Snapshot, NEW ts \in Seq(Snapshot),
         Aligned(h, cur, ts), NEW st \in Snapshot, st.header = cur.header
  PROVE  LET r == RecordedIn(h, st)
         IN Aligned(r, cur, ts) /\ Entered(r, cur) /\ Newest(st, r)
<1> DEFINE r == RecordedIn(h, st)
           g == Gone(h, cur, ts)
<1>1. r # <<>> /\ Last(r) = st /\ st # None
  BY RecordedProperties, Constants
<1>2. Entered(r, cur) /\ Newest(st, r) /\ Gone(r, cur, ts) = Len(ts) - Len(r)
  BY <1>1 DEF Entered, Newest, Gone
<1>3. HistoryMax \in Nat \ {0} /\ Len(h) \in Nat /\ Len(ts) \in Nat
  BY SnapshotsAssumption
<1>4. /\ ts # <<>> /\ Last(ts) = cur
      /\ g = 0 \/ (g > 0 /\ Len(h) = HistoryMax)
      /\ \A i \in 1..Len(h) : g + i < Len(ts) => Shows(h[i], ts[g + i])
  BY DEF Aligned
<1>5. CASE Entered(h, cur)
  <2>1. r = Append(Front(h), st) /\ h # <<>> /\ g = Len(ts) - Len(h)
    BY <1>5 DEF RecordedIn, Entered, Gone
  <2>2. Len(r) = Len(h) /\ \A i \in 1..Len(h) : i # Len(h) => r[i] = h[i]
    BY <2>1, FrontAppend
  <2>3. Gone(r, cur, ts) = g
    BY <1>2, <2>1, <2>2
  <2> HIDE DEF r, g
  <2>4. \A i \in 1..Len(r) : g + i < Len(ts) => Shows(r[i], ts[g + i])
    <3> SUFFICES ASSUME NEW i \in 1..Len(r), g + i < Len(ts) PROVE Shows(r[i], ts[g + i])
      OBVIOUS
    <3>1. i \in 1..Len(h) /\ i # Len(h)
      <4>1. i # Len(h)
        BY <1>3, <2>1
      <4>2. QED
        BY <2>2, <4>1
    <3>2. r[i] = h[i]
      BY <2>2, <3>1
    <3>3. QED
      BY <1>4, <3>1, <3>2
  <2>5. Aligned(r, cur, ts)
    BY <1>4, <2>2, <2>3, <2>4 DEF Aligned
  <2>6. QED
    BY <1>2, <2>5 DEF r
<1>6. CASE ~Entered(h, cur)
  <2> DEFINE all == Append(h, st)
  <2>1. g = Len(ts) - 1 - Len(h)
    BY <1>6 DEF Gone
  <2>2. /\ all \in Seq(Snapshot) /\ Len(all) = Len(h) + 1
        /\ \A i \in 1..Len(h) : all[i] = h[i]
    BY AppendLast
  <2>3. r = IF Len(all) > HistoryMax THEN Tail(all) ELSE all
    BY <1>6 DEF RecordedIn, Entered
  <2> HIDE DEF all, r, g
  <2>4. CASE Len(all) > HistoryMax
    <3>1. Len(all) > 1 /\ Len(h) = HistoryMax
      BY <1>3, <2>2, <2>4
    <3>2. Len(r) = Len(h) /\ \A i \in 1..Len(r) : r[i] = all[i + 1]
      BY <1>3, <2>2, <2>3, <2>4, <3>1, TailLast
    <3>3. Gone(r, cur, ts) = g + 1 /\ g \in Nat
      BY <1>2, <1>3, <1>4, <2>1, <3>2
    <3>4. ASSUME NEW i \in 1..Len(r), g + 1 + i < Len(ts)
          PROVE  Shows(r[i], ts[g + 1 + i])
      <4>1. i + 1 \in 1..Len(h) /\ g + (i + 1) < Len(ts) /\ g + (i + 1) = g + 1 + i
        BY <1>3, <2>1, <3>2, <3>3, <3>4
      <4>2. r[i] = h[i + 1]
        BY <2>2, <3>2, <4>1
      <4>3. QED
        BY <1>4, <4>1, <4>2
    <3>5. Aligned(r, cur, ts)
      BY <1>3, <1>4, <3>1, <3>2, <3>3, <3>4 DEF Aligned
    <3>6. QED
      BY <1>2, <3>5 DEF r
  <2>5. CASE ~(Len(all) > HistoryMax)
    <3>1. r = all /\ Len(r) = Len(h) + 1 /\ g = 0
      BY <1>3, <1>4, <2>2, <2>3, <2>5
    <3>2. Gone(r, cur, ts) = 0
      BY <1>2, <1>3, <2>1, <3>1
    <3>3. \A i \in 1..Len(r) : 0 + i < Len(ts) => Shows(r[i], ts[0 + i])
      <4> SUFFICES ASSUME NEW i \in 1..Len(r), 0 + i < Len(ts) PROVE Shows(r[i], ts[0 + i])
        OBVIOUS
      <4>1. 0 + i = i /\ g + i = i /\ i < Len(ts)
        BY <3>1
      <4>2. i \in 1..Len(h)
        <5>1. Len(ts) = Len(h) + 1
          BY ONLY <1>3, <2>1, <3>1
        <5>2. QED
          BY <1>3, <3>1, <4>1, <5>1
      <4>3. r[i] = h[i]
        BY <2>2, <3>1, <4>2
      <4>4. QED
        BY <1>4, <4>1, <4>2, <4>3
    <3>4. Aligned(r, cur, ts)
      BY <1>4, <3>2, <3>3 DEF Aligned
    <3>5. QED
      BY <1>2, <3>4 DEF r
  <2>6. QED
    BY <2>4, <2>5
<1>7. QED
  BY <1>5, <1>6

(* When new is printed, the test before is shown by the entry it has, if   *)
(* new counts another.                                                     *)
LEMMA AlignedPrinted ==
  ASSUME NEW h \in Seq(Snapshot), NEW cur \in Snapshot, NEW ts \in Seq(Snapshot), Aligned(h, cur, ts),
         NEW new \in Snapshot, NEW more, Grown(ts, more, new),
         new.header = cur.header \/ (Entered(h, cur) /\ Shows(Last(h), cur))
  PROVE  Aligned(h, new, more)
<1> DEFINE g == Gone(h, cur, ts)
           k == Gone(h, new, more)
<1>1. /\ ts # <<>> /\ Last(ts) = cur
      /\ g = 0 \/ (g > 0 /\ Len(h) = HistoryMax)
      /\ \A i \in 1..Len(h) : g + i < Len(ts) => Shows(h[i], ts[g + i])
  BY DEF Aligned
<1>2. Len(h) \in Nat /\ Len(ts) \in Nat
  OBVIOUS
<1>3. more # <<>> /\ Last(more) = new
  BY DEF Grown
<1>4. ASSUME k = g, \A i \in 1..Len(h) : g + i < Len(more) => Shows(h[i], more[g + i])
      PROVE  Aligned(h, new, more)
  BY <1>1, <1>3, <1>4 DEF Aligned
<1>5. CASE cur.header[1] = new.header[1]
  <2>1. Len(more) = Len(ts) /\ \A i \in 1..Len(ts) : i # Len(ts) => more[i] = ts[i]
    BY <1>1, <1>5 DEF Grown
  <2>2. k = g /\ g \in Int
    BY <1>2, <1>5, <2>1 DEF Gone, Entered
  <2> HIDE DEF k, g
  <2>3. \A i \in 1..Len(h) : g + i < Len(more) => Shows(h[i], more[g + i])
    BY <1>1, <1>2, <2>1, <2>2
  <2>4. QED
    BY <1>4, <2>2, <2>3
<1>6. CASE cur.header[1] # new.header[1]
  <2>1. Len(more) = Len(ts) + 1 /\ \A i \in 1..Len(ts) : more[i] = ts[i]
    BY <1>1, <1>6 DEF Grown
  <2>2. /\ Entered(h, cur) /\ Shows(Last(h), cur) /\ ~Entered(h, new)
        /\ g = Len(ts) - Len(h) /\ k = Len(more) - 1 - Len(h)
    BY <1>6 DEF Entered, Gone
  <2>3. k = g /\ g \in Nat /\ Last(h) = h[Len(h)] /\ Last(ts) = ts[Len(ts)]
    BY <1>1, <1>2, <2>1, <2>2 DEF Last
  <2> HIDE DEF k, g
  <2>4. ASSUME NEW i \in 1..Len(h), g + i < Len(more) PROVE Shows(h[i], more[g + i])
    <3>1. g + i \in 1..Len(ts)
      BY <1>2, <2>1, <2>3, <2>4
    <3>2. CASE g + i < Len(ts)
      BY <1>1, <2>1, <3>1, <3>2
    <3>3. CASE g + i = Len(ts)
      <4>1. i = Len(h)
        BY <1>2, <2>2, <3>3
      <4>2. QED
        BY <1>1, <2>1, <2>2, <2>3, <3>1, <3>3, <4>1
    <3>4. QED
      BY <1>2, <3>1, <3>2, <3>3
  <2>5. QED
    BY <1>4, <2>3, <2>4
<1>7. QED
  BY <1>5, <1>6

-----------------------------------------------------------------------------
(* Store and client are level with the parser.                              *)

LEMMA LevelOne ==
  ASSUME NEW o \in [Threads -> Seq(Event)], \A t \in Threads : o[t] = <<>>, NEW s \in Threads, NEW ev,
         NEW em, NEW cur, NEW ts, NEW st, NEW vi, NEW h,
         ev # <<>> => em # None,
         Agree(em, cur, ts, After(st, ev), After(vi, ev), HistoryAfter(h, st, ev))
  PROVE  Level([o EXCEPT ![s] = ev], em, cur, ts, st, vi, h)
<1> DEFINE p == [o EXCEPT ![s] = ev]
<1>1. \A t \in Threads : p[t] = IF t = s THEN ev ELSE <<>>
  OBVIOUS
<1> HIDE DEF p
<1>2. ASSUME NEW t \in Threads, \A u \in Threads : u # t => p[u] = <<>>
      PROVE  p[t] = ev
  BY <1>1, <1>2
<1>3. QED
  BY <1>2 DEF Level, p

LEMMA LevelNone ==
  ASSUME NEW o, \A t \in Threads : o[t] = <<>>,
         NEW em, NEW cur, NEW ts, NEW st, NEW vi, NEW h
  PROVE  Level(o, em, cur, ts, st, vi, h) <=> Agree(em, cur, ts, st, vi, h)
<1>1. \A x : After(x, <<>>) = x /\ HistoryAfter(h, x, <<>>) = h
  BY DEF After, HistoryAfter
<1>2. Main \in Threads
  BY Constants
<1>3. QED
  BY <1>1, <1>2 DEF Level

LEMMA AgreeParts ==
  ASSUME NEW em, NEW cur, NEW ts, NEW st, NEW vi, NEW h
  PROVE  /\ Agree(em, cur, ts, st, vi, h) => (em # None => Shows(st, em) /\ Shows(vi, em)) /\ Newest(st, h)
         /\ Agree(em, cur, ts, st, vi, h) => (cur # None => Aligned(h, cur, ts))
         /\ (em # None => Shows(st, em) /\ Shows(vi, em)) /\ Newest(st, h) /\ (cur # None => Aligned(h, cur, ts))
              => Agree(em, cur, ts, st, vi, h)
  BY DEF Agree

(* What is emitted for new brings store and client level with it.          *)
LEMMA EmitsAgree ==
  ASSUME TypeInv, NEW new \in Snapshot, NEW ts \in Seq(Snapshot),
         Agree(emitted, new, ts, stored, viewer, history)
  PROVE  LET ev == Emits(new)
             h == HistoryAfter(history, stored, ev)
         IN /\ Agree(EmittedAfter(new), new, ts, After(stored, ev), After(viewer, ev), h)
            /\ EmittedAfter(new) # None /\ Shows(EmittedAfter(new), new)
            /\ h \in Seq(Snapshot) /\ Entered(h, new) /\ Shows(Last(h), new)
<1> DEFINE ev == Emits(new)
           em == EmittedAfter(new)
           st == After(stored, ev)
           vi == After(viewer, ev)
           h == HistoryAfter(history, stored, ev)
<1>1. /\ emitted \in Snapshot \cup {None} /\ stored \in Snapshot \cup {None} /\ viewer \in Snapshot \cup {None}
      /\ history \in Seq(Snapshot) /\ Len(history) <= HistoryMax /\ new # None
  BY Constants DEF TypeInv, TypeOK
<1>2. /\ emitted # None => Shows(stored, emitted) /\ Shows(viewer, emitted)
      /\ Newest(stored, history) /\ Aligned(history, new, ts)
  BY <1>1, AgreeParts
<1>3. /\ em \in Snapshot /\ Shows(em, new)
      /\ Shows(st, em) /\ st \in Snapshot /\ st.header = new.header /\ Shows(vi, em)
  BY <1>1, <1>2, EmitsShow
<1>4. Shows(st, new) /\ em # None /\ st # None
  BY <1>3, ShowsTransitive, Constants
<1>5. Aligned(h, new, ts) /\ Entered(h, new) /\ Newest(st, h) /\ h \in Seq(Snapshot)
  <2>1. CASE ev = <<>>
    <3>1. st = stored /\ h = history
      BY <2>1 DEF After, HistoryAfter
    <3>2. Last(history).header[1] = new.header[1] /\ history # <<>>
      BY <1>2, <1>3, <1>4, <3>1 DEF Newest
    <3>3. QED
      BY <1>1, <1>2, <3>1, <3>2 DEF Entered
  <2>2. CASE ev # <<>>
    <3>1. h = RecordedIn(history, st)
      BY <2>2 DEF After, HistoryAfter
    <3>2. RecordedIn(history, st) \in Seq(Snapshot)
      BY <1>1, <1>3, RecordedProperties
    <3> HIDE DEF h, st
    <3>3. QED
      BY <1>1, <1>2, <1>3, <3>1, <3>2, AlignedRecorded
  <2>3. QED
    BY <2>1, <2>2
<1>6. Shows(Last(h), new)
  <2>1. Last(h) = st
    BY <1>4, <1>5 DEF Newest, Entered
  <2>2. QED
    BY <1>4, <2>1
<1> HIDE DEF ev, em, st, vi, h
<1>7. Agree(em, new, ts, st, vi, h)
  BY <1>3, <1>5 DEF Agree
<1>8. QED
  BY <1>3, <1>4, <1>5, <1>6, <1>7 DEF ev, em, st, vi, h

(* With no reader late, one thread at most has anything under way: the     *)
(* reader of the session, or the main thread at the end.                   *)
LEMMA OneUnderWay ==
  ASSUME TypeInv, late = {}, NEW t \in Threads, out[t] # <<>>
  PROVE  \A u \in Threads : u # t => out[u] = <<>> /\ base[u] = <<>>
<1>1. ReaderInv
  BY DEF TypeInv
<1>2. Main \notin Sessions /\ readers \subseteq {session} /\ request # "idle" => readers = {}
  BY <1>1, Constants DEF ReaderInv
<1>3. \A u, v \in Threads : out[u] # <<>> /\ out[v] # <<>> => u = v
  BY <1>1, <1>2 DEF ReaderInv
<1>4. QED
  BY <1>3, SessionFacts

LEMMA FeedAgrees ==
  ASSUME TypeInv, FoldInv, NEW s \in Sessions, Feed(s)
  PROVE  FoldInv'
<1> SUFFICES ASSUME late' = {} PROVE FoldInv'
  BY DEF FoldInv
<1>1. /\ s \in readers /\ s \in Threads /\ Free(s)
      /\ stored' = stored /\ history' = history /\ base' = base /\ late' = late /\ request' = request
      /\ viewer' = viewer
      /\ FeedNothing(s) \/ FeedFresh(s) \/ FeedUpdate(s)
  BY FeedCases DEF store, sessions
<1>2. request = "idle"
  BY <1>1, FromFacts
<1>3. \A t \in Threads : out[t] = <<>> /\ base[t] = <<>>
  <2>1. \A t \in Threads : out[t] # <<>> => out[s] = <<>> /\ t = s
    BY <1>1, <1>2, Constants DEF TypeInv, ReaderInv, Free
  <2>2. QED
    BY <1>1, <2>1, SessionFacts DEF Free
<1>4. /\ out \in [Threads -> Seq(Event)] /\ current \in Snapshot \cup {None} /\ tests \in Seq(Seq(Snapshot) \ {<<>>})
      /\ emitted \in Snapshot \cup {None} /\ history \in Seq(Snapshot) /\ Len(history) <= HistoryMax
      /\ stored \in Snapshot \cup {None}
  BY DEF TypeInv, TypeOK
<1>5. Agree(emitted, current, Lasts(tests), stored, viewer, history)
  BY <1>1, <1>3, LevelNone DEF FoldInv
<1>6. \A t \in Threads : base'[t] = <<>>
  BY <1>1, <1>3
<1>7. ASSUME current' # None, Level(out', emitted', current', Lasts(tests'), stored, viewer, history),
             HasMetric(current') => emitted' # None /\ Shows(emitted', current')
      PROVE  FoldInv'
  BY <1>1, <1>6, <1>7 DEF FoldInv
<1>8. CASE FeedNothing(s)
  BY <1>1, <1>8 DEF FeedNothing, FoldInv
<1>9. CASE FeedFresh(s)
  <2>1. PICK h \in Headers :
          /\ IF current = None THEN out' = [out EXCEPT ![s] = <<>>] /\ emitted' = emitted
             ELSE out' = [out EXCEPT ![s] = Emits(current)] /\ emitted' = EmittedAfter(current)
          /\ current' = Fresh(h) /\ Prints(Fresh(h))
    BY <1>9 DEF FeedFresh
  <2>2. Fresh(h) \in Snapshot /\ Fresh(h) # None /\ ~HasMetric(Fresh(h))
    <3>1. \A i \in Items : Fresh(h).items[i] = Absent
      BY DEF Fresh
    <3>2. QED
      BY <3>1, SnapshotIs, Constants DEF HasMetric
  <2>3. CASE current = None
    <3>1. tests = <<>> /\ history = <<>>
      BY <1>1, <1>2, <2>3 DEF FoldInv
    <3>2. LET ts == Lasts(tests') IN ts # <<>> /\ Last(ts) = Fresh(h) /\ Len(ts) = 1
      <4>1. Lasts(tests) = <<>> /\ Len(Lasts(tests)) = 0
        BY <1>4, <3>1, LastsAre
      <4>2. Grown(Lasts(tests), Lasts(tests'), Fresh(h))
        BY <1>1, <1>4, <2>1, <2>2, TestsPrinted
      <4>3. QED
        BY <4>1, <4>2 DEF Grown
    <3>3. Aligned(history, Fresh(h), Lasts(tests'))
      <4>1. Len(history) = 0 /\ ~Entered(history, Fresh(h))
        BY <3>1 DEF Entered
      <4>2. Gone(history, Fresh(h), Lasts(tests')) = 0
        BY <3>2, <4>1 DEF Gone
      <4>3. QED
        BY <3>2, <4>1, <4>2 DEF Aligned
    <3>4. emitted' = emitted /\ current' = Fresh(h) /\ out' = [out EXCEPT ![s] = <<>>]
      BY <2>1, <2>3
    <3>5. Agree(emitted, Fresh(h), Lasts(tests'), stored, viewer, history)
      BY <1>5, <3>3 DEF Agree
    <3>6. \A t \in Threads : out'[t] = <<>>
      BY <1>3, <1>4, <3>4
    <3>7. Level(out', emitted', current', Lasts(tests'), stored, viewer, history)
      BY <3>4, <3>5, <3>6, LevelNone
    <3>8. QED
      BY <1>7, <2>2, <3>4, <3>7
  <2>4. CASE current # None
    <3> DEFINE ev == Emits(current)
               h2 == HistoryAfter(history, stored, ev)
    <3>1. out' = [out EXCEPT ![s] = ev] /\ emitted' = EmittedAfter(current) /\ current' = Fresh(h)
      BY <2>1, <2>4
    <3>2. /\ Agree(EmittedAfter(current), current, Lasts(tests), After(stored, ev), After(viewer, ev), h2)
          /\ EmittedAfter(current) # None
          /\ h2 \in Seq(Snapshot) /\ Entered(h2, current) /\ Shows(Last(h2), current)
      <4> DEFINE ts == Lasts(tests)
      <4>1. ts \in Seq(Snapshot) /\ Agree(emitted, current, ts, stored, viewer, history)
        BY <1>4, <1>5, LastsAre
      <4> HIDE DEF ts
      <4>2. /\ Agree(EmittedAfter(current), current, ts, After(stored, ev), After(viewer, ev), h2)
            /\ EmittedAfter(current) # None
            /\ h2 \in Seq(Snapshot) /\ Entered(h2, current) /\ Shows(Last(h2), current)
        BY <1>4, <2>4, <4>1, EmitsAgree
      <4>3. QED
        BY <4>2 DEF ts
    <3> HIDE DEF ev, h2
    <3>3. Aligned(h2, current, Lasts(tests))
      BY <2>4, <3>2, AgreeParts
    <3>4. Aligned(h2, Fresh(h), Lasts(tests'))
      <4>1. Grown(Lasts(tests), Lasts(tests'), Fresh(h))
        BY <1>1, <1>4, <2>1, <2>2, TestsPrinted
      <4>2. Lasts(tests) \in Seq(Snapshot)
        BY <1>4, LastsAre
      <4>3. QED
        BY <1>4, <2>2, <2>4, <3>2, <3>3, <4>1, <4>2, AlignedPrinted
    <3>5. Agree(emitted', current', Lasts(tests'), After(stored, ev), After(viewer, ev), h2)
      BY <3>1, <3>2, <3>4 DEF Agree
    <3>6. Level(out', emitted', current', Lasts(tests'), stored, viewer, history)
      <4>1. Level([out EXCEPT ![s] = ev], emitted', current', Lasts(tests'), stored, viewer, history)
        BY <1>1, <1>3, <1>4, <3>1, <3>2, <3>5, LevelOne DEF h2
      <4>2. QED
        BY <3>1, <4>1
    <3>7. QED
      BY <1>7, <2>2, <3>1, <3>6
  <2>5. QED
    BY <2>3, <2>4
<1>10. CASE FeedUpdate(s)
  <2>1. PICK i \in Items, v \in Values :
          LET new == With(current, i, <<boards[s], v>>)
          IN /\ current' = new /\ Prints(new)
             /\ out' = [out EXCEPT ![s] = Emits(new)] /\ emitted' = EmittedAfter(new)
    BY <1>10 DEF FeedUpdate
  <2> DEFINE new == With(current, i, <<boards[s], v>>)
  <2>2. current # None /\ new \in Snapshot /\ new # None /\ new.header = current.header
    <3>1. current # None /\ <<boards[s], v>> \in Printed
      BY <1>10, FeedCases DEF FeedUpdate, Printed
    <3>2. new.header = current.header
      BY DEF With
    <3>3. QED
      BY <1>4, <3>1, <3>2, SnapshotIs, Constants
  <2>3. current' = new /\ Prints(new) /\ out' = [out EXCEPT ![s] = Emits(new)] /\ emitted' = EmittedAfter(new)
    BY <2>1
  <2> HIDE DEF new
  <2>4. Grown(Lasts(tests), Lasts(tests'), new) /\ Lasts(tests') \in Seq(Snapshot)
    BY <1>1, <1>4, <2>2, <2>3, TestsPrinted DEF Grown
  <2>5. Aligned(history, new, Lasts(tests'))
    <3>1. Aligned(history, current, Lasts(tests))
      BY <1>5, <2>2, AgreeParts
    <3>2. Lasts(tests) \in Seq(Snapshot)
      BY <1>4, LastsAre
    <3>3. QED
      BY <1>4, <2>2, <2>4, <3>1, <3>2, AlignedPrinted
  <2>6. Agree(emitted, new, Lasts(tests'), stored, viewer, history)
    BY <1>5, <2>5 DEF Agree
  <2> DEFINE ev == Emits(new)
  <2>7. /\ Agree(EmittedAfter(new), new, Lasts(tests'), After(stored, ev), After(viewer, ev), HistoryAfter(history, stored, ev))
        /\ EmittedAfter(new) # None /\ Shows(EmittedAfter(new), new)
    <3> DEFINE ts == Lasts(tests')
    <3>1. ts \in Seq(Snapshot) /\ Agree(emitted, new, ts, stored, viewer, history)
      BY <2>4, <2>6
    <3> HIDE DEF ts
    <3>2. /\ Agree(EmittedAfter(new), new, ts, After(stored, ev), After(viewer, ev), HistoryAfter(history, stored, ev))
          /\ EmittedAfter(new) # None /\ Shows(EmittedAfter(new), new)
      BY <2>2, <3>1, EmitsAgree
    <3>3. QED
      BY <3>2 DEF ts
  <2> HIDE DEF ev
  <2>8. Level([out EXCEPT ![s] = ev], EmittedAfter(new), new, Lasts(tests'), stored, viewer, history)
    BY <1>1, <1>3, <1>4, <2>7, LevelOne
  <2>9. Level(out', emitted', current', Lasts(tests'), stored, viewer, history)
    BY <2>3, <2>8 DEF ev
  <2>10. QED
    BY <1>7, <2>2, <2>3, <2>7, <2>9
<1>11. QED
  BY <1>1, <1>8, <1>9, <1>10

LEMMA ObserveAgrees ==
  ASSUME TypeInv, FoldInv, NEW s \in Threads, ObserveRead(s) \/ ObserveWrite(s)
  PROVE  FoldInv'
<1> SUFFICES ASSUME late' = {} PROVE FoldInv'
  BY DEF FoldInv
<1>1. out[s] # <<>> /\ UNCHANGED <<parser, sessions, request, tests>>
  BY ObserveCases DEF ObserveRead
<1>2. /\ late = {} /\ emitted' = emitted /\ current' = current /\ tests' = tests /\ request' = request
      /\ out \in [Threads -> Seq(Event)] /\ base \in [Threads -> Seq(Snapshot \cup {None})]
  BY <1>1 DEF TypeInv, TypeOK, parser, sessions
<1>3. /\ \A t \in Threads : base[t] # <<>> => base[t][1] = stored
      /\ Level(out, emitted, current, Lasts(tests), stored, viewer, history)
      /\ current # None /\ HasMetric(current) => emitted # None /\ Shows(emitted, current)
      /\ current = None => request \in {"clear", "over"} \/ (emitted = None /\ tests = <<>> /\ history = <<>>)
  BY <1>2 DEF FoldInv
<1>4. request \notin {"clear"} /\ \A u \in Threads : u # s => out[u] = <<>> /\ base[u] = <<>>
  BY <1>1, <1>2, OneUnderWay, FromFacts DEF TypeInv, ReaderInv
<1>5. CASE ObserveRead(s)
  <2>1. base' = [base EXCEPT ![s] = <<stored>>] /\ UNCHANGED <<store, out, viewer>>
    BY <1>5 DEF ObserveRead
  <2>2. \A t \in Threads : base'[t] # <<>> => base'[t][1] = stored
    BY <1>2, <1>3, <2>1
  <2>3. QED
    BY <1>2, <1>3, <2>1, <2>2 DEF FoldInv, store
<1>6. CASE ObserveWrite(s)
  <2>1. /\ base[s] # <<>> /\ Len(out[s]) = 1 /\ Head(out[s]) = out[s][1] /\ out[s][1] \in Event
        /\ ObserveStores(s)
        /\ out' = [out EXCEPT ![s] = <<>>] /\ base' = [base EXCEPT ![s] = <<>>]
    BY <1>6, ObserveCases
  <2>2. \A t \in Threads : out'[t] = <<>> /\ base'[t] = <<>>
    BY <1>2, <1>4, <2>1
  <2> DEFINE e == out[s][1]
             st == After(stored, out[s])
             vi == After(viewer, out[s])
             h == HistoryAfter(history, stored, out[s])
  <2>3. emitted # None /\ Agree(emitted, current, Lasts(tests), st, vi, h)
    BY <1>1, <1>3, <1>4 DEF Level
  <2>4. st # None /\ st = Fold(stored, e) /\ vi = Fold(viewer, e) /\ h = RecordedIn(history, st)
    <3>1. st = Fold(stored, e) /\ vi = Fold(viewer, e) /\ h = RecordedIn(history, Fold(stored, e))
      BY <1>1 DEF After, HistoryAfter
    <3> HIDE DEF st, vi, h, e
    <3>2. Shows(st, emitted)
      BY <2>3, AgreeParts
    <3>3. QED
      BY <3>1, <3>2 DEF Shows
  <2>5. base[s][1] = stored
    BY <1>3, <2>1
  <2>6. /\ IF e.type = "delta" /\ stored = None THEN UNCHANGED store
           ELSE LET new == IF e.type = "update" THEN e.snapshot ELSE Apply(stored, e.delta)
                IN stored' = new /\ history' = RecordedIn(history, new)
        /\ viewer' = IF e.type = "update" THEN e.snapshot
                     ELSE IF viewer = None THEN None ELSE Apply(viewer, e.delta)
    BY <2>1, <2>5 DEF ObserveStores
  <2>7. viewer' = vi
    BY <2>4, <2>6 DEF Fold
  <2>8. stored' = st /\ history' = h
    <3>1. e.type = "update" \/ stored # None
      BY <2>4 DEF Fold
    <3>2. Fold(stored, e) = IF e.type = "update" THEN e.snapshot ELSE Apply(stored, e.delta)
      BY <3>1 DEF Fold
    <3>3. ~(e.type = "delta" /\ stored = None)
      BY <3>1
    <3>4. stored' = Fold(stored, e) /\ history' = RecordedIn(history, Fold(stored, e))
      BY <2>6, <3>2, <3>3
    <3>5. QED
      BY <2>4, <3>4
  <2>9. Level(out', emitted, current, Lasts(tests), st, vi, h)
    <3> HIDE DEF st, vi, h
    <3>1. QED
      BY <2>2, <2>3, LevelNone
  <2>10. QED
    <3> HIDE DEF st, vi, h, e
    <3>1. current = None => request = "over"
      BY <1>3, <1>4, <2>3
    <3>2. QED
      BY <1>2, <1>3, <2>2, <2>7, <2>8, <2>9, <3>1 DEF FoldInv
<1>7. QED
  BY <1>5, <1>6

(* Requests that change neither the parser nor the store.                   *)
LEMMA SessionAgrees ==
  ASSUME TypeInv, FoldInv,
         (\E s \in Sessions : LateEnds(s)) \/ OpenBegins \/ OpenEnds \/ CloseSession \/ Reacquire
  PROVE  FoldInv'
<1> SUFFICES ASSUME late' = {} PROVE FoldInv'
  BY DEF FoldInv
<1>1. /\ UNCHANGED <<parser, store, out, base, viewer, tests>>
      /\ late \subseteq late' /\ request \notin {"clear", "over"}
  <2>1. CASE \E s \in Sessions : LateEnds(s)
    <3>1. late # {} /\ late' = late
      BY <2>1 DEF LateEnds
    <3>2. QED
      BY <3>1
  <2>2. CASE OpenBegins \/ OpenEnds \/ CloseSession \/ Reacquire
    <3>1. UNCHANGED <<parser, store, out, base, viewer, tests>> /\ request \notin {"clear", "over"}
      BY <2>2 DEF OpenBegins, OpenEnds, CloseSession, Reacquire
    <3>2. QED
      BY <2>2, <3>1, RequestFrom
  <2>3. QED
    BY <2>1, <2>2
<1>2. /\ late = {} /\ current' = current /\ emitted' = emitted /\ stored' = stored /\ history' = history
      /\ out' = out /\ base' = base /\ viewer' = viewer /\ tests' = tests
  BY <1>1 DEF parser, store
<1>3. QED
  BY <1>1, <1>2 DEF FoldInv

LEMMA FlushAgrees ==
  ASSUME TypeInv, FoldInv, Flush
  PROVE  FoldInv'
<1> SUFFICES ASSUME late' = {} PROVE FoldInv'
  BY DEF FoldInv
<1>1. /\ request = "closed" /\ request' = "over" /\ current' = None
      /\ IF current = None THEN out' = out /\ emitted' = emitted
         ELSE out' = [out EXCEPT ![Main] = Emits(current)] /\ emitted' = EmittedAfter(current)
      /\ UNCHANGED <<store, base, sessions, viewer, tests>>
  BY DEF Flush, Emit
<1>2. /\ late = {} /\ stored' = stored /\ history' = history /\ base' = base /\ viewer' = viewer /\ tests' = tests
      /\ out \in [Threads -> Seq(Event)] /\ tests \in Seq(Seq(Snapshot) \ {<<>>}) /\ current \in Snapshot \cup {None}
      /\ Main \in Threads
  BY <1>1, Constants DEF store, sessions, TypeInv, TypeOK
<1>3. \A t \in Threads : out[t] = <<>> /\ base[t] = <<>>
  <2>1. readers = {}
    BY <1>1, <1>2, FromFacts
  <2>2. QED
    BY <1>1, <2>1 DEF TypeInv, ReaderInv
<1>4. Agree(emitted, current, Lasts(tests), stored, viewer, history)
  BY <1>2, <1>3, LevelNone DEF FoldInv
<1>5. Level(out', emitted', None, Lasts(tests), stored, viewer, history)
  <2>1. CASE current = None
    BY <1>1, <1>3, <1>4, <2>1, LevelNone
  <2>2. CASE current # None
    <3> DEFINE ev == Emits(current)
    <3>1. /\ EmittedAfter(current) # None
          /\ Agree(EmittedAfter(current), current, Lasts(tests), After(stored, ev), After(viewer, ev),
                   HistoryAfter(history, stored, ev))
      <4> DEFINE ts == Lasts(tests)
      <4>1. ts \in Seq(Snapshot) /\ Agree(emitted, current, ts, stored, viewer, history)
        BY <1>2, <1>4, LastsAre
      <4> HIDE DEF ts
      <4>2. /\ EmittedAfter(current) # None
            /\ Agree(EmittedAfter(current), current, ts, After(stored, ev), After(viewer, ev),
                     HistoryAfter(history, stored, ev))
        BY <1>2, <2>2, <4>1, EmitsAgree
      <4>3. QED
        BY <4>2 DEF ts
    <3> HIDE DEF ev
    <3>2. Agree(EmittedAfter(current), None, Lasts(tests), After(stored, ev), After(viewer, ev),
                HistoryAfter(history, stored, ev))
      BY <3>1 DEF Agree
    <3>3. Level([out EXCEPT ![Main] = ev], EmittedAfter(current), None, Lasts(tests), stored, viewer, history)
      BY <1>2, <1>3, <3>1, <3>2, LevelOne
    <3>4. QED
      BY <1>1, <2>2, <3>3 DEF ev
  <2>3. QED
    BY <2>1, <2>2
<1>6. QED
  BY <1>1, <1>2, <1>3, <1>5 DEF FoldInv

LEMMA FoldStep == TypeInv /\ LingerInv /\ FoldInv /\ [Next]_vars => FoldInv'
<1> SUFFICES ASSUME TypeInv, LingerInv, FoldInv, [Next]_vars PROVE FoldInv'
  OBVIOUS
<1>1. ASSUME late = {}, request # "idle", request # "over"
      PROVE  \A t \in Threads : out[t] = <<>> /\ base[t] = <<>>
  BY <1>1, FromFacts DEF TypeInv, ReaderInv
<1>2. CASE Reset
  <2>1. /\ request = "reset" /\ request' = "clear" /\ current' = None /\ emitted' = None
        /\ late' = late /\ stored' = stored /\ history' = history /\ out' = out /\ base' = base
        /\ viewer' = viewer /\ tests' = tests
    BY <1>2 DEF Reset, store, sessions
  <2>2. ASSUME late = {}
        PROVE  /\ \A t \in Threads : base[t] = <<>>
               /\ Level(out, None, None, Lasts(tests), stored, viewer, history)
    <3>1. \A t \in Threads : out[t] = <<>> /\ base[t] = <<>>
      BY <1>1, <2>1, <2>2
    <3>2. Agree(emitted, current, Lasts(tests), stored, viewer, history)
      BY <2>2, <3>1, LevelNone DEF FoldInv
    <3>3. Agree(None, None, Lasts(tests), stored, viewer, history)
      BY <3>2 DEF Agree
    <3>4. QED
      BY <3>1, <3>3, LevelNone
  <2>3. QED
    BY <2>1, <2>2 DEF FoldInv
<1>3. CASE Clear
  <2>1. /\ request = "clear" /\ stored' = None /\ history' = <<>> /\ tests' = <<>>
        /\ late' = late /\ current' = current /\ emitted' = emitted /\ out' = out /\ base' = base
        /\ viewer' = viewer
    BY <1>3 DEF Clear, parser, sessions
  <2>2. ASSUME late = {}
        PROVE  /\ \A t \in Threads : base[t] = <<>>
               /\ current = None /\ emitted = None
               /\ Level(out, None, None, Lasts(<<>>), None, viewer, <<>>)
    <3>1. \A t \in Threads : out[t] = <<>> /\ base[t] = <<>>
      BY <1>1, <2>1, <2>2
    <3>2. Agree(None, None, Lasts(<<>>), None, viewer, <<>>)
      BY DEF Agree, Newest
    <3>3. QED
      BY <2>1, <2>2, <3>1, <3>2, LevelNone DEF LingerInv
  <2>3. QED
    BY <2>1, <2>2 DEF FoldInv
<1>4. CASE UNCHANGED vars
  BY <1>4 DEF vars, parser, store, sessions, FoldInv
<1>5. QED
  BY <1>2, <1>3, <1>4, FeedAgrees, ObserveAgrees, SessionAgrees, FlushAgrees DEF Next

LEMMA FoldInit == Init => FoldInv
<1> SUFFICES ASSUME Init PROVE FoldInv
  OBVIOUS
<1>1. /\ current = None /\ emitted = None /\ stored = None /\ history = <<>> /\ tests = <<>>
      /\ \A t \in Threads : out[t] = <<>> /\ base[t] = <<>>
  BY DEF Init
<1>2. Agree(None, None, Lasts(<<>>), None, viewer, <<>>)
  BY DEF Agree, Newest
<1>3. Level(out, None, None, Lasts(<<>>), None, viewer, <<>>)
  BY <1>1, <1>2, LevelNone
<1>4. QED
  BY <1>1, <1>3 DEF FoldInv

\* What FoldInv says once all is observed and a metric is gathered.
LEMMA SettledFacts ==
  ASSUME TypeInv, FoldInv, late = {}, Settled, Gathered
  PROVE  /\ Shows(stored, current) /\ Shows(viewer, current) /\ current # None
         /\ Newest(stored, history) /\ Aligned(history, current, Lasts(tests))
<1>1. current # None /\ HasMetric(current)
  BY DEF Gathered, HasMetric
<1>2. emitted # None /\ Shows(emitted, current)
  BY <1>1 DEF FoldInv
<1>3. Agree(emitted, current, Lasts(tests), stored, viewer, history)
  BY LevelNone DEF FoldInv, Settled
<1>4. QED
  BY <1>1, <1>2, <1>3, AgreeParts, ShowsTransitive

(* Once what was emitted is observed, the store, and whoever folds every   *)
(* event, hold what was printed under the header (emit whole or delta, and *)
(* the folds of snapshot_store.py and of a client).                        *)
THEOREM FoldsShow == Spec => []FoldsAgree
<1>1. TypeInv /\ FoldInv => FoldsAgree
  BY SettledFacts DEF FoldsAgree
<1>2. QED
  BY <1>1, InitTyped, StepTyped, LingerInit, LingerStep, FoldInit, FoldStep, PTL DEF Spec

(* The history then is the last tests, entry for entry and none twice, but *)
(* of tests of one count in a row only the last, for every size of the     *)
(* history and order of lines: observe() goes by the count, the boundary   *)
(* rule of the parser by count and Test Time.                              *)
THEOREM HistoryShows == Spec => []HistoryComplete
<1>1. ASSUME TypeInv, FoldInv PROVE HistoryComplete
  <2> SUFFICES ASSUME late = {}, Settled, Gathered, NEW gone, gone = Len(tests) - Len(history)
               PROVE  /\ gone = 0 \/ (gone > 0 /\ Len(history) = HistoryMax)
                      /\ \A i \in 1..Len(history) : Shows(history[i], Last(tests[gone + i]))
    BY DEF HistoryComplete
  <2> DEFINE ts == Lasts(tests)
  <2>0. history \in Seq(Snapshot) /\ ts \in Seq(Snapshot) /\ Len(ts) = Len(tests) /\ Len(tests) \in Nat
        /\ \A g \in 1..Len(tests) : ts[g] = Last(tests[g])
    BY <1>1, LastsAre DEF TypeInv, TypeOK
  <2>1. /\ Shows(stored, current) /\ current # None
        /\ Newest(stored, history) /\ Aligned(history, current, ts)
    BY <1>1, SettledFacts
  <2>2. history # <<>> /\ Last(history) = stored /\ Entered(history, current)
    BY <2>1 DEF Newest, Shows, Entered
  <2> HIDE DEF ts
  <2>3. Gone(history, current, ts) = gone
    BY <2>0, <2>2 DEF Gone
  <2>4. /\ gone = 0 \/ (gone > 0 /\ Len(history) = HistoryMax)
        /\ \A i \in 1..Len(history) : gone + i < Len(ts) => Shows(history[i], ts[gone + i])
        /\ Last(ts) = current
    BY <2>1, <2>3 DEF Aligned
  <2>5. ASSUME NEW i \in 1..Len(history) PROVE Shows(history[i], Last(tests[gone + i]))
    <3>1. gone + i \in 1..Len(tests) /\ ts[gone + i] = Last(tests[gone + i])
      <4>1. gone + i \in 1..Len(tests)
        BY <2>0, <2>4
      <4>2. QED
        BY <2>0, <4>1
    <3>2. CASE gone + i < Len(ts)
      BY <2>4, <3>1, <3>2
    <3>3. CASE ~(gone + i < Len(ts))
      <4>1. i = Len(history) /\ gone + i = Len(ts)
        BY <2>0, <3>3
      <4>2. QED
        BY <2>1, <2>2, <2>4, <3>1, <4>1 DEF Last
    <3>4. QED
      BY <3>2, <3>3
  <2>6. QED
    BY <2>4, <2>5
<1>2. QED
  BY <1>1, InitTyped, StepTyped, LingerInit, LingerStep, FoldInit, FoldStep, PTL DEF Spec
=============================================================================
