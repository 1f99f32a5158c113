----------------------- MODULE WebSocketManagerProofs -----------------------
(* Proofs of properties of WebSocketManager, for any number of emitting    *)
(* threads, events and clients, and every size of the queues.              *)
EXTENDS WebSocketManager, SequenceTheorems, TLAPS

-----------------------------------------------------------------------------
(* The invariants.                                                          *)

Emitting(s) == producer[s] \in {"check", "submit"}
Scheduling(s) == producer[s] \in {"schedule", "discard"}

(* The flag goes with one drain: one thread is about to ask for it, or one *)
(* callback is on its way, and never both.                                 *)
DrainInv ==
  /\ callbacks > 0 => drainScheduled
  /\ \A s \in Sources : Scheduling(s) => drainScheduled /\ callbacks = 0
  /\ \A s, t \in Sources : Scheduling(s) /\ Scheduling(t) => s = t

TypeInv ==
  /\ TypeOK /\ DrainInv
  /\ \A s \in Sources : Emitting(s) => stored[s] > 0
  /\ broadcaster \in {"acquire", "send"} => current # <<>>
  /\ broadcaster = "get" => current = <<>>

Distinct(seq) == \A i, j \in 1..Len(seq) : seq[i] = seq[j] => i = j

(* The lock: who waits is in the queue, once, and who works is its head.   *)
LockInv ==
  /\ Distinct(sendLock)
  /\ Caster \in Elements(sendLock) <=> broadcaster \in {"acquire", "send"}
  /\ \A c \in Clients : c \in Elements(sendLock) <=> endpoint[c] \in {"acquire", "replay"}
  /\ broadcaster = "send" => Holds(Caster)
  /\ \A c \in Clients : endpoint[c] = "replay" => Holds(c)

(* A client is entered while its endpoint replays or receives, and nothing *)
(* is broadcast to it before it receives.                                  *)
EndpointInv ==
  /\ \A c \in clients : endpoint[c] \in {"replay", "receive"}
  /\ \A c \in clients : endpoint[c] = "receive" => replay[c] = {}
  /\ \A c \in Clients : endpoint[c] \in {"none", "acquire", "replay"} => live[c] = <<>>
  /\ broadcaster = "send" => \A c \in toSend : endpoint[c] \in {"receive", "done"}

Before(e, f) == e[1] = f[1] => e[2] < f[2]
Ordered(seq) == \A i, j \in 1..Len(seq) : i < j => Before(seq[i], seq[j])
Precedes(s, t) == \A i \in 1..Len(s), j \in 1..Len(t) : Before(s[i], t[j])

(* e was emitted, and is not what its thread has in hand.                  *)
Past(e) == e[2] <= stored[e[1]] /\ (Emitting(e[1]) => e[2] < stored[e[1]])

(* The events of a source keep their order through the ingress, the queue  *)
(* and the broadcast.                                                      *)
PipeInv ==
  /\ Ordered(broadcasts) /\ Ordered(queue) /\ Ordered(ingress)
  /\ Precedes(broadcasts, queue) /\ Precedes(broadcasts, ingress) /\ Precedes(queue, ingress)
  /\ \A e \in Elements(submitted) : Past(e)
  /\ Elements(broadcasts) \cup Elements(queue) \cup Elements(ingress) \subseteq Elements(submitted)

Awaits(c) == broadcaster = "acquire" \/ (broadcaster = "send" /\ c \in toSend)

\* How many of the broadcasts c may have had.
Sent(c) == IF Awaits(c) THEN Len(broadcasts) - 1 ELSE Len(broadcasts)

(* What is being broadcast is the last event taken, and a client has had   *)
(* some of those before it, in order.                                      *)
LiveInv ==
  /\ current # <<>> => broadcasts # <<>> /\ current = <<broadcasts[Len(broadcasts)]>>
  /\ \A c \in Clients :
       /\ Ordered(live[c])
       /\ \A i \in 1..Len(live[c]) : \E k \in 1..Sent(c) : live[c][i] = broadcasts[k]

FanOutInv == TypeInv /\ LockInv /\ EndpointInv /\ PipeInv /\ LiveInv

-----------------------------------------------------------------------------
(* Sequences and events.                                                    *)

LEMMA EventPair ==
  /\ \A s \in Sources : \A n \in 1..MaxEvents[s] : <<s, n>> \in Event
  /\ \A e \in Event : e[1] \in Sources /\ e[2] \in 1..MaxEvents[e[1]] /\ e = <<e[1], e[2]>>
  /\ \A e \in Event : e[2] \in Nat
  /\ \A s \in Sources : MaxEvents[s] \in Nat
<1>1. \A s \in Sources : MaxEvents[s] \in Nat
  BY FanOutAssumption
<1>2. \A s \in Sources : \A n \in 1..MaxEvents[s] : <<s, n>> \in Event
  BY DEF Event
<1>3. ASSUME NEW e \in Event
      PROVE  e[1] \in Sources /\ e[2] \in 1..MaxEvents[e[1]] /\ e = <<e[1], e[2]>> /\ e[2] \in Nat
  <2>1. PICK s \in Sources : e \in {s} \X (1..MaxEvents[s])
    BY DEF Event
  <2>2. QED
    BY <1>1, <2>1
<1>4. QED
  BY <1>1, <1>2, <1>3

LEMMA ElementsAppend ==
  ASSUME NEW S, NEW seq \in Seq(S), NEW e \in S
  PROVE  Elements(Append(seq, e)) = Elements(seq) \cup {e}
  BY AppendProperties DEF Elements

LEMMA ElementsTail ==
  ASSUME NEW S, NEW seq \in Seq(S), seq # <<>>
  PROVE  Elements(seq) = {Head(seq)} \cup Elements(Tail(seq))
<1>1. /\ Len(seq) \in Nat \ {0} /\ Len(Tail(seq)) = Len(seq) - 1
      /\ \A i \in 1..Len(Tail(seq)) : Tail(seq)[i] = seq[i + 1]
  BY HeadTailProperties, EmptySeq
<1>2. Head(seq) = seq[1]
  OBVIOUS
<1>3. ASSUME NEW i \in 1..Len(seq) PROVE seq[i] \in {Head(seq)} \cup Elements(Tail(seq))
  <2>1. CASE i = 1
    BY <1>2, <2>1
  <2>2. CASE i # 1
    <3>1. i - 1 \in 1..Len(Tail(seq)) /\ Tail(seq)[i - 1] = seq[i]
      BY <1>1, <2>2
    <3>2. QED
      BY <3>1 DEF Elements
  <2>3. QED
    BY <2>1, <2>2
<1>4. ASSUME NEW i \in 1..Len(Tail(seq)) PROVE Tail(seq)[i] \in Elements(seq)
  BY <1>1 DEF Elements
<1>5. QED
  BY <1>1, <1>2, <1>3, <1>4 DEF Elements

LEMMA ElementsConcat ==
  ASSUME NEW S, NEW s \in Seq(S), NEW t \in Seq(S)
  PROVE  Elements(s \o t) = Elements(s) \cup Elements(t)
<1> DEFINE c == s \o t
<1>1. /\ Len(c) = Len(s) + Len(t) /\ Len(s) \in Nat /\ Len(t) \in Nat
      /\ \A i \in 1..Len(c) : c[i] = IF i <= Len(s) THEN s[i] ELSE t[i - Len(s)]
  BY ConcatProperties
<1> HIDE DEF c
<1>2. ASSUME NEW i \in 1..Len(c) PROVE c[i] \in Elements(s) \cup Elements(t)
  <2>1. CASE i <= Len(s)
    BY <1>1, <2>1 DEF Elements
  <2>2. CASE i > Len(s)
    <3>1. i - Len(s) \in 1..Len(t) /\ c[i] = t[i - Len(s)]
      BY <1>1, <2>2
    <3>2. QED
      BY <3>1 DEF Elements
  <2>3. QED
    BY <1>1, <2>1, <2>2
<1>3. ASSUME NEW i \in 1..Len(s) PROVE s[i] \in Elements(c)
  BY <1>1 DEF Elements
<1>4. ASSUME NEW i \in 1..Len(t) PROVE t[i] \in Elements(c)
  <2>1. Len(s) + i \in 1..Len(c) /\ c[Len(s) + i] = t[i]
    BY <1>1
  <2>2. QED
    BY <2>1 DEF Elements
<1>5. Elements(c) = Elements(s) \cup Elements(t)
  BY <1>2, <1>3, <1>4 DEF Elements
<1>6. QED
  BY <1>5 DEF c

(* What is left of a queue that is cut to its newest events.               *)
LEMMA NewestProperties ==
  ASSUME NEW S, NEW seq \in Seq(S), NEW max \in Nat
  PROVE  /\ Newest(seq, max) \in Seq(S) /\ Len(Newest(seq, max)) <= max
         /\ Excess(seq, max) \in 0..Len(seq)
         /\ Len(Newest(seq, max)) = Len(seq) - Excess(seq, max)
         /\ \A i \in 1..Len(Newest(seq, max)) : Newest(seq, max)[i] = seq[i + Excess(seq, max)]
<1> DEFINE x == Excess(seq, max)
<1>1. Len(seq) \in Nat /\ \A i \in 1..Len(seq) : seq[i] \in S
  OBVIOUS
<1>2. x \in 0..Len(seq) /\ Len(seq) - x <= max
  BY <1>1 DEF Excess
<1> HIDE DEF x
<1>3. \A i \in (x + 1)..Len(seq) : seq[i] \in S
  BY <1>1, <1>2
<1>4. /\ SubSeq(seq, x + 1, Len(seq)) \in Seq(S)
      /\ Len(SubSeq(seq, x + 1, Len(seq))) = IF x + 1 <= Len(seq) THEN Len(seq) - (x + 1) + 1 ELSE 0
      /\ \A i \in 1..(Len(seq) - (x + 1) + 1) : SubSeq(seq, x + 1, Len(seq))[i] = seq[x + 1 + i - 1]
  BY <1>1, <1>2, <1>3, SubSeqProperties
<1>5. Newest(seq, max) = SubSeq(seq, x + 1, Len(seq))
  BY DEF Newest, x
<1>6. Len(Newest(seq, max)) = Len(seq) - x
  BY <1>1, <1>2, <1>4, <1>5
<1>7. \A i \in 1..Len(Newest(seq, max)) : Newest(seq, max)[i] = seq[i + x]
  BY <1>1, <1>2, <1>4, <1>5, <1>6
<1>8. Newest(seq, max) \in Seq(S) /\ Len(Newest(seq, max)) <= max
  BY <1>1, <1>2, <1>4, <1>5, <1>6
<1>9. QED
  BY <1>2, <1>6, <1>7, <1>8 DEF x

LEMMA NewestElements ==
  ASSUME NEW S, NEW seq \in Seq(S), NEW max \in Nat
  PROVE  Elements(Newest(seq, max)) \subseteq Elements(seq)
<1>1. Len(seq) \in Nat
  OBVIOUS
<1>2. \A i \in 1..Len(Newest(seq, max)) :
        i + Excess(seq, max) \in 1..Len(seq) /\ Newest(seq, max)[i] = seq[i + Excess(seq, max)]
  BY <1>1, NewestProperties
<1>3. QED
  BY <1>2 DEF Elements

(* Cutting keeps order.                                                    *)
LEMMA NewestOrdered ==
  ASSUME NEW seq \in Seq(Event), NEW max \in Nat, Ordered(seq)
  PROVE  Ordered(Newest(seq, max))
<1> DEFINE x == Excess(seq, max)
           t == Newest(seq, max)
<1>1. /\ x \in 0..Len(seq) /\ Len(t) = Len(seq) - x /\ Len(seq) \in Nat
      /\ \A i \in 1..Len(t) : t[i] = seq[i + x]
  BY NewestProperties
<1> HIDE DEF x, t
<1>2. ASSUME NEW i \in 1..Len(t), NEW j \in 1..Len(t), i < j PROVE Before(t[i], t[j])
  <2>1. i + x \in 1..Len(seq) /\ j + x \in 1..Len(seq) /\ i + x < j + x
    BY <1>1, <1>2
  <2>2. QED
    BY <1>1, <2>1 DEF Ordered
<1>3. QED
  BY <1>2 DEF Ordered, t

LEMMA PrecedesElements ==
  ASSUME NEW s, NEW t
  PROVE  Precedes(s, t) <=> \A e \in Elements(s), f \in Elements(t) : Before(e, f)
  BY DEF Precedes, Elements

LEMMA ConcatOrdered ==
  ASSUME NEW s \in Seq(Event), NEW t \in Seq(Event), Ordered(s), Ordered(t), Precedes(s, t)
  PROVE  Ordered(s \o t)
<1> DEFINE c == s \o t
<1>1. /\ Len(c) = Len(s) + Len(t) /\ Len(s) \in Nat /\ Len(t) \in Nat
      /\ \A i \in 1..Len(c) : c[i] = IF i <= Len(s) THEN s[i] ELSE t[i - Len(s)]
  BY ConcatProperties
<1> HIDE DEF c
<1>2. ASSUME NEW i \in 1..Len(c), NEW j \in 1..Len(c), i < j PROVE Before(c[i], c[j])
  <2>1. CASE j <= Len(s)
    BY <1>1, <1>2, <2>1 DEF Ordered
  <2>2. CASE i <= Len(s) /\ ~(j <= Len(s))
    <3>1. i \in 1..Len(s) /\ j - Len(s) \in 1..Len(t)
      BY <1>1, <2>2
    <3>2. QED
      BY <1>1, <2>2, <3>1 DEF Precedes
  <2>3. CASE ~(i <= Len(s))
    <3>1. i - Len(s) \in 1..Len(t) /\ j - Len(s) \in 1..Len(t) /\ i - Len(s) < j - Len(s)
      BY <1>1, <1>2, <2>3
    <3>2. c[i] = t[i - Len(s)] /\ c[j] = t[j - Len(s)]
      BY <1>1, <1>2, <2>3
    <3>3. QED
      BY <3>1, <3>2 DEF Ordered
  <2>4. QED
    BY <2>1, <2>2, <2>3
<1>3. QED
  BY <1>2 DEF Ordered, c

LEMMA AppendOrdered ==
  ASSUME NEW seq \in Seq(Event), NEW e \in Event, Ordered(seq),
         \A f \in Elements(seq) : Before(f, e)
  PROVE  Ordered(Append(seq, e))
<1> DEFINE c == Append(seq, e)
<1>1. /\ Len(c) = Len(seq) + 1 /\ Len(seq) \in Nat /\ c[Len(c)] = e
      /\ \A i \in 1..Len(seq) : c[i] = seq[i]
  BY AppendProperties
<1> HIDE DEF c
<1>2. ASSUME NEW i \in 1..Len(c), NEW j \in 1..Len(c), i < j PROVE Before(c[i], c[j])
  <2>1. i \in 1..Len(seq) /\ c[i] = seq[i] /\ seq[i] \in Elements(seq)
    BY <1>1, <1>2 DEF Elements
  <2>2. CASE j = Len(c)
    BY <1>1, <2>1, <2>2
  <2>3. CASE j # Len(c)
    BY <1>1, <1>2, <2>1, <2>3 DEF Ordered
  <2>4. QED
    BY <2>2, <2>3
<1>3. QED
  BY <1>2 DEF Ordered, c

LEMMA TailOrdered ==
  ASSUME NEW seq \in Seq(Event), seq # <<>>, Ordered(seq)
  PROVE  Ordered(Tail(seq)) /\ \A e \in Elements(Tail(seq)) : Before(Head(seq), e)
<1>1. /\ Len(seq) \in Nat \ {0} /\ Len(Tail(seq)) = Len(seq) - 1
      /\ \A i \in 1..Len(Tail(seq)) : Tail(seq)[i] = seq[i + 1]
  BY HeadTailProperties, EmptySeq
<1>2. Head(seq) = seq[1]
  OBVIOUS
<1>3. \A i \in 1..Len(Tail(seq)) : i + 1 \in 1..Len(seq) /\ Tail(seq)[i] = seq[i + 1] /\ 1 < i + 1
  BY <1>1
<1>4. Ordered(Tail(seq))
  BY <1>1, <1>3 DEF Ordered
<1>5. 1 \in 1..Len(seq)
  BY <1>1
<1>6. \A i \in 1..Len(Tail(seq)) : Before(seq[1], Tail(seq)[i])
  BY <1>3, <1>5 DEF Ordered
<1>7. QED
  BY <1>2, <1>4, <1>6 DEF Elements

-----------------------------------------------------------------------------
(* Types.                                                                   *)

LEMMA InitTyped == Init => TypeInv
<1> SUFFICES ASSUME Init PROVE TypeInv
  OBVIOUS
<1>1. Len(<<>>) = 0 /\ QueueMax \in Nat /\ \A s \in Sources : MaxEvents[s] \in Nat
  BY FanOutAssumption
<1>2. stored \in [Sources -> Nat] /\ \A s \in Sources : stored[s] <= MaxEvents[s]
  BY <1>1 DEF Init
<1>3. producer \in [Sources -> {"idle", "check", "submit", "schedule", "discard"}]
  BY DEF Init
<1>4. ingress \in Seq(Event) /\ Len(ingress) <= QueueMax /\ queue \in Seq(Event) /\ Len(queue) <= QueueMax
  BY <1>1 DEF Init
<1>5. /\ endpoint \in [Clients -> {"none", "acquire", "replay", "receive", "done"}]
      /\ replay \in [Clients -> SUBSET Event] /\ replayed \in [Clients -> SUBSET Event]
  BY DEF Init
<1>6. live \in [Clients -> Seq(Event)] /\ broadcasts \in Seq(Event) /\ submitted \in Seq(Event)
  BY DEF Init
<1>7. /\ dropped \in Nat /\ callbacks \in 0..1
      /\ broadcaster \in {"get", "acquire", "send", "cancelled"}
      /\ toSend \subseteq Clients /\ dead \subseteq Clients
      /\ clients \subseteq Clients /\ open \subseteq Clients
  BY DEF Init
<1>8. TypeOK
  <2>1. current = <<>> /\ sendLock = <<>>
    BY DEF Init
  <2>2. current \in {<<>>} \cup {<<e>> : e \in Event} /\ sendLock \in Seq(Clients \cup {Caster})
    BY <2>1
  <2>3. drainScheduled \in BOOLEAN /\ loopRuns \in BOOLEAN
    BY DEF Init
  <2>4. QED
    BY <1>2, <1>3, <1>4, <1>5, <1>6, <1>7, <2>2, <2>3 DEF TypeOK
<1>9. DrainInv /\ (\A s \in Sources : Emitting(s) => stored[s] > 0)
      /\ (broadcaster \in {"acquire", "send"} => current # <<>>)
      /\ (broadcaster = "get" => current = <<>>)
  BY DEF Init, DrainInv, Emitting, Scheduling
<1>10. QED
  BY <1>8, <1>9 DEF TypeInv

(* What a thread submits is an event.                                      *)
LEMMA SubmittedEvent ==
  ASSUME TypeInv, NEW s \in Sources, Emitting(s)
  PROVE  /\ <<s, stored[s]>> \in Event
         /\ stored[s] \in 1..MaxEvents[s] /\ stored[s] \in Nat /\ MaxEvents[s] \in Nat
<1>1. stored[s] \in 1..MaxEvents[s] /\ stored[s] \in Nat /\ MaxEvents[s] \in Nat
  BY EventPair DEF TypeInv, TypeOK
<1>2. QED
  BY <1>1, EventPair

(* Whoever is in the lock leaves it, and the others keep their places.     *)
LEMMA ReleaseProperties ==
  ASSUME NEW S, sendLock \in Seq(S), NEW w
  PROVE  /\ Release(w) \in Seq(S)
         /\ w \notin Elements(sendLock) => Release(w) = sendLock
         /\ w \in Elements(sendLock) =>
              \E p \in 1..Len(sendLock) :
                /\ sendLock[p] = w /\ Len(Release(w)) = Len(sendLock) - 1
                /\ \A i \in 1..Len(Release(w)) :
                     Release(w)[i] = IF i < p THEN sendLock[i] ELSE sendLock[i + 1]
<1>1. CASE w \notin Elements(sendLock)
  BY <1>1 DEF Release
<1>2. CASE w \in Elements(sendLock)
  <2> DEFINE p == CHOOSE i \in 1..Len(sendLock) : sendLock[i] = w
             l == SubSeq(sendLock, 1, p - 1)
             r == SubSeq(sendLock, p + 1, Len(sendLock))
  <2>1. p \in 1..Len(sendLock) /\ sendLock[p] = w
    BY <1>2 DEF Elements
  <2>2. Release(w) = l \o r
    BY <1>2 DEF Release
  <2> HIDE DEF p
  <2>3. Len(sendLock) \in Nat /\ \A i \in 1..Len(sendLock) : sendLock[i] \in S
    OBVIOUS
  <2>4. /\ l \in Seq(S) /\ Len(l) = p - 1 /\ \A i \in 1..(p - 1) : l[i] = sendLock[i]
    <3>1. \A i \in 1..(p - 1) : sendLock[i] \in S
      BY <2>1, <2>3
    <3>2. QED
      BY <2>1, <2>3, <3>1, SubSeqProperties
  <2>5. /\ r \in Seq(S) /\ Len(r) = Len(sendLock) - p
        /\ \A i \in 1..(Len(sendLock) - p) : r[i] = sendLock[p + i]
    <3>1. \A i \in (p + 1)..Len(sendLock) : sendLock[i] \in S
      BY <2>1, <2>3
    <3>2. /\ r \in Seq(S)
          /\ Len(r) = IF p + 1 <= Len(sendLock) THEN Len(sendLock) - (p + 1) + 1 ELSE 0
          /\ \A i \in 1..(Len(sendLock) - (p + 1) + 1) : r[i] = sendLock[p + 1 + i - 1]
      BY <2>1, <2>3, <3>1, SubSeqProperties
    <3> HIDE DEF r
    <3>3. p \in Nat /\ p <= Len(sendLock) /\ Len(sendLock) \in Nat
      BY <2>1, <2>3
    <3>4. /\ (IF p + 1 <= Len(sendLock) THEN Len(sendLock) - (p + 1) + 1 ELSE 0) = Len(sendLock) - p
          /\ Len(sendLock) - (p + 1) + 1 = Len(sendLock) - p
      BY ONLY <3>3
    <3>5. ASSUME NEW i \in 1..(Len(sendLock) - p) PROVE r[i] = sendLock[p + i]
      <4>1. p + 1 + i - 1 = p + i
        BY ONLY <3>3, i \in 1..(Len(sendLock) - p)
      <4>2. QED
        BY <3>2, <3>4, <4>1
    <3>6. QED
      BY <3>2, <3>4, <3>5
  <2> HIDE DEF l, r
  <2>6. /\ l \o r \in Seq(S) /\ Len(l \o r) = Len(l) + Len(r)
        /\ \A i \in 1..Len(l \o r) : (l \o r)[i] = IF i <= Len(l) THEN l[i] ELSE r[i - Len(l)]
    <3>1. l \in Seq(S) /\ r \in Seq(S)
      BY <2>4, <2>5
    <3>2. /\ l \o r \in Seq(S) /\ Len(l \o r) = Len(l) + Len(r)
          /\ \A i \in 1..(Len(l) + Len(r)) : (l \o r)[i] = IF i <= Len(l) THEN l[i] ELSE r[i - Len(l)]
      BY ONLY <3>1, ConcatProperties
    <3>3. QED
      BY ONLY <3>2
  <2>7. Len(Release(w)) = Len(sendLock) - 1
    BY <2>1, <2>2, <2>3, <2>4, <2>5, <2>6
  <2>8. ASSUME NEW i \in 1..Len(Release(w))
        PROVE  Release(w)[i] = IF i < p THEN sendLock[i] ELSE sendLock[i + 1]
    <3>1. CASE i < p
      BY <2>1, <2>2, <2>3, <2>4, <2>6, <3>1
    <3>2. CASE ~(i < p)
      <4>1. i - Len(l) \in 1..(Len(sendLock) - p) /\ ~(i <= Len(l)) /\ p + (i - Len(l)) = i + 1
        BY <2>1, <2>3, <2>4, <2>7, <3>2
      <4>2. (l \o r)[i] = r[i - Len(l)]
        BY <2>2, <2>6, <4>1
      <4>3. r[i - Len(l)] = sendLock[p + (i - Len(l))]
        BY <2>5, <4>1
      <4>4. QED
        BY <2>2, <3>2, <4>1, <4>2, <4>3
    <3>3. QED
      BY <3>1, <3>2
  <2>9. QED
    BY <1>2, <2>1, <2>2, <2>6, <2>7, <2>8
<1>3. QED
  BY <1>1, <1>2

(* The invariant of types by the groups of variables the actions leave     *)
(* alone, so that a step has only to look at the groups it changes.        *)
StoreTypes ==
  /\ stored \in [Sources -> Nat] /\ \A s \in Sources : stored[s] <= MaxEvents[s]
  /\ producer \in [Sources -> {"idle", "check", "submit", "schedule", "discard"}]
  /\ \A s \in Sources : Emitting(s) => stored[s] > 0

InboxTypes ==
  /\ ingress \in Seq(Event) /\ Len(ingress) <= QueueMax /\ submitted \in Seq(Event)
  /\ dropped \in Nat /\ callbacks \in 0..1 /\ drainScheduled \in BOOLEAN

QueueTypes == queue \in Seq(Event) /\ Len(queue) <= QueueMax /\ broadcasts \in Seq(Event)

CasterTypes ==
  /\ broadcaster \in {"get", "acquire", "send", "cancelled"}
  /\ current \in {<<>>} \cup {<<e>> : e \in Event}
  /\ toSend \subseteq Clients /\ dead \subseteq Clients
  /\ broadcaster \in {"acquire", "send"} => current # <<>>
  /\ broadcaster = "get" => current = <<>>

LockTypes == sendLock \in Seq(Clients \cup {Caster})

PeerTypes ==
  /\ clients \subseteq Clients
  /\ endpoint \in [Clients -> {"none", "acquire", "replay", "receive", "done"}]
  /\ replay \in [Clients -> SUBSET Event] /\ replayed \in [Clients -> SUBSET Event]

EndTypes == open \subseteq Clients /\ live \in [Clients -> Seq(Event)]

RunTypes == loopRuns \in BOOLEAN

LEMMA TypeParts ==
  TypeInv <=> /\ StoreTypes /\ InboxTypes /\ DrainInv /\ QueueTypes /\ CasterTypes
              /\ LockTypes /\ PeerTypes /\ EndTypes /\ RunTypes
<1>1. ASSUME TypeInv
      PROVE  /\ StoreTypes /\ InboxTypes /\ DrainInv /\ QueueTypes /\ CasterTypes
             /\ LockTypes /\ PeerTypes /\ EndTypes /\ RunTypes
  <2>1. TypeOK /\ DrainInv
    BY <1>1 DEF TypeInv
  <2>2. StoreTypes
    BY <1>1, <2>1 DEF TypeInv, TypeOK, StoreTypes
  <2>3. InboxTypes /\ QueueTypes /\ RunTypes
    BY <2>1 DEF TypeOK, InboxTypes, QueueTypes, RunTypes
  <2>4. CasterTypes
    BY <1>1, <2>1 DEF TypeInv, TypeOK, CasterTypes
  <2>5. LockTypes /\ PeerTypes /\ EndTypes
    BY <2>1 DEF TypeOK, LockTypes, PeerTypes, EndTypes
  <2>6. QED
    BY <2>1, <2>2, <2>3, <2>4, <2>5
<1>2. ASSUME StoreTypes, InboxTypes, DrainInv, QueueTypes, CasterTypes, LockTypes, PeerTypes, EndTypes,
             RunTypes
      PROVE  TypeInv
  <2>1. TypeOK
    BY <1>2 DEF TypeOK, StoreTypes, InboxTypes, QueueTypes, CasterTypes, LockTypes, PeerTypes, EndTypes, RunTypes
  <2>2. \A s \in Sources : Emitting(s) => stored[s] > 0
    BY <1>2 DEF StoreTypes
  <2>3. /\ broadcaster \in {"acquire", "send"} => current # <<>>
        /\ broadcaster = "get" => current = <<>>
    BY <1>2 DEF CasterTypes
  <2>4. QED
    BY <1>2, <2>1, <2>2, <2>3 DEF TypeInv
<1>3. QED
  BY <1>1, <1>2

(* A step that leaves a group alone leaves its part standing.              *)
LEMMA PartsKept ==
  ASSUME TypeInv
  PROVE  /\ UNCHANGED producers => StoreTypes'
         /\ UNCHANGED inbox => InboxTypes'
         /\ UNCHANGED <<queue, broadcasts>> => QueueTypes'
         /\ UNCHANGED caster => CasterTypes'
         /\ UNCHANGED sendLock => LockTypes'
         /\ UNCHANGED peers => PeerTypes'
         /\ UNCHANGED <<open, live>> => EndTypes'
         /\ UNCHANGED loopRuns => RunTypes'
<1>1. UNCHANGED producers => StoreTypes'
  BY TypeParts DEF StoreTypes, producers, Emitting
<1>2. UNCHANGED inbox => InboxTypes'
  BY TypeParts DEF InboxTypes, inbox
<1>3. UNCHANGED <<queue, broadcasts>> => QueueTypes'
  BY TypeParts DEF QueueTypes
<1>4. UNCHANGED caster => CasterTypes'
  BY TypeParts DEF CasterTypes, caster
<1>5. UNCHANGED sendLock => LockTypes'
  BY TypeParts DEF LockTypes
<1>6. UNCHANGED peers => PeerTypes'
  BY TypeParts DEF PeerTypes, peers
<1>7. UNCHANGED <<open, live>> => EndTypes'
  BY TypeParts DEF EndTypes
<1>8. UNCHANGED loopRuns => RunTypes'
  BY TypeParts DEF RunTypes
<1>9. QED
  BY <1>1, <1>2, <1>3, <1>4, <1>5, <1>6, <1>7, <1>8

(* The drain stays accounted for as long as no thread begins to ask.       *)
LEMMA DrainStays ==
  ASSUME TypeInv, callbacks' = callbacks, drainScheduled' = drainScheduled,
         \A s \in Sources : producer'[s] \in {"schedule", "discard"} => Scheduling(s)
  PROVE  DrainInv'
<1>1. DrainInv
  BY TypeParts
<1>2. \A s \in Sources : Scheduling(s)' => Scheduling(s)
  BY DEF Scheduling
<1>3. callbacks' > 0 => drainScheduled'
  BY <1>1 DEF DrainInv
<1>4. \A s \in Sources : Scheduling(s)' => drainScheduled' /\ callbacks' = 0
  BY <1>1, <1>2 DEF DrainInv
<1>5. \A s, t \in Sources : Scheduling(s)' /\ Scheduling(t)' => s = t
  BY <1>1, <1>2 DEF DrainInv
<1>6. QED
  BY <1>3, <1>4, <1>5 DEF DrainInv

(* A thread goes from one of its places to another.                        *)
LEMMA ThreadGoes ==
  ASSUME TypeInv, NEW s \in Sources, NEW from, NEW to \in {"idle", "check", "submit", "schedule", "discard"},
         At(s, from, to), stored' = stored, to \in {"check", "submit"} => stored[s] > 0
  PROVE  /\ StoreTypes' /\ producer[s] = from /\ producer'[s] = to
         /\ \A t \in Sources : t # s => producer'[t] = producer[t]
<1> StoreTypes
  BY TypeParts
<1>1. /\ producer' \in [Sources -> {"idle", "check", "submit", "schedule", "discard"}]
      /\ producer[s] = from /\ producer'[s] = to
      /\ \A t \in Sources : t # s => producer'[t] = producer[t]
  BY DEF StoreTypes, At
<1>2. \A t \in Sources : Emitting(t)' => stored'[t] > 0
  BY <1>1 DEF StoreTypes, Emitting
<1>3. QED
  BY <1>1, <1>2 DEF StoreTypes

LEMMA ObserveTyped ==
  ASSUME TypeInv, NEW s \in Sources, Observe(s)
  PROVE  TypeInv'
<1> StoreTypes
  BY TypeParts
<1>1. /\ stored[s] < MaxEvents[s] /\ producer[s] = "idle" /\ producer' = [producer EXCEPT ![s] = "check"]
      /\ stored' = [stored EXCEPT ![s] = @ + 1]
      /\ UNCHANGED <<inbox, queue, broadcasts, caster, sendLock, peers, open, live, loopRuns>>
  BY DEF Observe, At
<1>2. stored[s] \in Nat /\ MaxEvents[s] \in Nat
  BY FanOutAssumption DEF StoreTypes
<1>3. stored' \in [Sources -> Nat] /\ stored'[s] = stored[s] + 1
      /\ \A t \in Sources : t # s => stored'[t] = stored[t]
  BY <1>1, <1>2 DEF StoreTypes
<1>4. \A t \in Sources : stored'[t] <= MaxEvents[t]
  BY <1>1, <1>2, <1>3 DEF StoreTypes
<1>5. /\ producer' \in [Sources -> {"idle", "check", "submit", "schedule", "discard"}]
      /\ producer'[s] = "check" /\ \A t \in Sources : t # s => producer'[t] = producer[t]
  BY <1>1 DEF StoreTypes
<1>6. \A t \in Sources : Emitting(t)' => stored'[t] > 0
  BY <1>2, <1>3, <1>5 DEF StoreTypes, Emitting
<1>7. StoreTypes'
  BY <1>3, <1>4, <1>5, <1>6 DEF StoreTypes
<1>8. DrainInv'
  <2>1. callbacks' = callbacks /\ drainScheduled' = drainScheduled
    BY <1>1 DEF inbox
  <2>2. \A t \in Sources : producer'[t] \in {"schedule", "discard"} => Scheduling(t)
    BY <1>5 DEF Scheduling
  <2>3. QED
    BY <2>1, <2>2, DrainStays
<1>9. /\ InboxTypes' /\ QueueTypes' /\ CasterTypes' /\ LockTypes' /\ PeerTypes' /\ EndTypes' /\ RunTypes'
  BY <1>1, PartsKept
<1>10. QED
  BY <1>7, <1>8, <1>9, TypeParts, PTL

LEMMA CheckTyped ==
  ASSUME TypeInv, NEW s \in Sources, Check(s)
  PROVE  TypeInv'
<1> DEFINE to == IF NoListeners THEN "idle" ELSE "submit"
<1>1. /\ At(s, "check", to) /\ stored' = stored
      /\ UNCHANGED <<inbox, queue, broadcasts, caster, sendLock, peers, open, live, loopRuns>>
  BY DEF Check
<1>2. to \in {"idle", "submit"}
  OBVIOUS
<1> HIDE DEF to
<1>3. stored[s] > 0
  BY <1>1, TypeParts DEF StoreTypes, Emitting, At
<1>4. /\ StoreTypes' /\ producer'[s] = to /\ \A t \in Sources : t # s => producer'[t] = producer[t]
  BY <1>1, <1>2, <1>3, ThreadGoes
<1>5. DrainInv'
  <2>1. callbacks' = callbacks /\ drainScheduled' = drainScheduled
    BY <1>1 DEF inbox
  <2>2. \A t \in Sources : producer'[t] \in {"schedule", "discard"} => Scheduling(t)
    BY <1>2, <1>4 DEF Scheduling
  <2>3. QED
    BY <2>1, <2>2, DrainStays
<1>6. /\ InboxTypes' /\ QueueTypes' /\ CasterTypes' /\ LockTypes' /\ PeerTypes' /\ EndTypes' /\ RunTypes'
  BY <1>1, PartsKept
<1>7. QED
  BY <1>4, <1>5, <1>6, TypeParts, PTL

LEMMA SubmitTyped ==
  ASSUME TypeInv, NEW s \in Sources, Submit(s)
  PROVE  TypeInv'
<1> StoreTypes /\ InboxTypes /\ DrainInv
  BY TypeParts
<1> DEFINE e == <<s, stored[s]>>
           all == Append(ingress, e)
           to == IF drainScheduled THEN "idle" ELSE "schedule"
<1>1. /\ At(s, "submit", to) /\ ingress' = Newest(all, QueueMax)
      /\ dropped' = dropped + Excess(all, QueueMax) /\ drainScheduled' = TRUE
      /\ submitted' = Append(submitted, e)
      /\ UNCHANGED <<stored, callbacks, queue, broadcasts, caster, sendLock, peers, open, live, loopRuns>>
  BY DEF Submit, CountDropped
<1>2. to \in {"idle", "schedule"} /\ (to = "schedule" => ~drainScheduled)
  OBVIOUS
<1> HIDE DEF to
<1>3. e \in Event
  BY <1>1, SubmittedEvent DEF At, Emitting
<1> HIDE DEF e
<1>4. ingress \in Seq(Event) /\ submitted \in Seq(Event) /\ QueueMax \in Nat \ {0}
  BY FanOutAssumption DEF InboxTypes
<1>5. all \in Seq(Event) /\ Append(submitted, e) \in Seq(Event)
  BY <1>3, <1>4, AppendProperties
<1> HIDE DEF all
<1>6. /\ Newest(all, QueueMax) \in Seq(Event) /\ Len(Newest(all, QueueMax)) <= QueueMax
      /\ Excess(all, QueueMax) \in Nat
  BY <1>4, <1>5, NewestProperties
<1>7. InboxTypes'
  <2>1. dropped' \in Nat /\ callbacks' \in 0..1 /\ drainScheduled' \in BOOLEAN
    BY <1>1, <1>6 DEF InboxTypes
  <2>2. QED
    BY <1>1, <1>5, <1>6, <2>1 DEF InboxTypes
<1>8. /\ StoreTypes' /\ producer'[s] = to /\ \A t \in Sources : t # s => producer'[t] = producer[t]
  BY <1>1, <1>2, ThreadGoes
<1>9. DrainInv'
  <2>1. \A t \in Sources : producer'[t] \in {"schedule", "discard"} => (t = s /\ ~drainScheduled) \/ Scheduling(t)
    BY <1>2, <1>8 DEF Scheduling
  <2>2. ~drainScheduled => callbacks = 0 /\ \A t \in Sources : ~Scheduling(t)
    BY DEF DrainInv, InboxTypes
  <2>3. \A t \in Sources : Scheduling(t)' => drainScheduled' /\ callbacks' = 0
    BY <1>1, <2>1, <2>2 DEF DrainInv, Scheduling
  <2>4. \A t, u \in Sources : Scheduling(t)' /\ Scheduling(u)' => t = u
    BY <2>1, <2>2 DEF DrainInv, Scheduling
  <2>5. QED
    BY <1>1, <2>3, <2>4 DEF DrainInv
<1>10. QueueTypes' /\ CasterTypes' /\ LockTypes' /\ PeerTypes' /\ EndTypes' /\ RunTypes'
  BY <1>1, PartsKept
<1>11. QED
  BY <1>7, <1>8, <1>9, <1>10, TypeParts, PTL

LEMMA ScheduleTyped ==
  ASSUME TypeInv, NEW s \in Sources, Schedule(s)
  PROVE  TypeInv'
<1> StoreTypes /\ InboxTypes /\ DrainInv /\ RunTypes
  BY TypeParts
<1> DEFINE to == IF loopRuns THEN "idle" ELSE "discard"
<1>1. /\ At(s, "schedule", to) /\ callbacks' = IF loopRuns THEN callbacks + 1 ELSE callbacks
      /\ UNCHANGED <<stored, ingress, drainScheduled, dropped, submitted, queue, broadcasts,
                     caster, sendLock, peers, open, live, loopRuns>>
  BY DEF Schedule
<1>2. to \in {"idle", "discard"} /\ (to = "discard" => ~loopRuns)
  OBVIOUS
<1> HIDE DEF to
<1>3. /\ StoreTypes' /\ producer[s] = "schedule" /\ producer'[s] = to
      /\ \A t \in Sources : t # s => producer'[t] = producer[t]
  BY <1>1, <1>2, ThreadGoes
<1>4. drainScheduled /\ callbacks = 0 /\ \A t \in Sources : Scheduling(t) => t = s
  BY <1>3 DEF DrainInv, Scheduling
<1>5. callbacks' \in 0..1 /\ (~loopRuns => callbacks' = 0)
  BY <1>1, <1>4
<1>6. InboxTypes'
  BY <1>1, <1>5 DEF InboxTypes
<1>7. \A t \in Sources : Scheduling(t)' => t = s /\ ~loopRuns
  BY <1>2, <1>3, <1>4 DEF Scheduling
<1>8. DrainInv'
  BY <1>1, <1>4, <1>5, <1>7 DEF DrainInv
<1>9. QueueTypes' /\ CasterTypes' /\ LockTypes' /\ PeerTypes' /\ EndTypes' /\ RunTypes'
  BY <1>1, PartsKept
<1>10. QED
  BY <1>3, <1>6, <1>8, <1>9, TypeParts, PTL

LEMMA DiscardTyped ==
  ASSUME TypeInv, NEW s \in Sources, Discard(s)
  PROVE  TypeInv'
<1> StoreTypes /\ InboxTypes /\ DrainInv
  BY TypeParts
<1>1. /\ At(s, "discard", "idle") /\ ingress' = <<>> /\ drainScheduled' = FALSE
      /\ dropped' = dropped + Excess(ingress, 0)
      /\ UNCHANGED <<stored, callbacks, submitted, queue, broadcasts, caster, sendLock, peers, open, live,
                     loopRuns>>
  BY DEF Discard, CountDropped
<1>2. /\ StoreTypes' /\ producer[s] = "discard" /\ producer'[s] = "idle"
      /\ \A t \in Sources : t # s => producer'[t] = producer[t]
  BY <1>1, ThreadGoes
<1>3. callbacks = 0 /\ \A t \in Sources : Scheduling(t) => t = s
  BY <1>2 DEF DrainInv, Scheduling
<1>4. \A t \in Sources : ~Scheduling(t)'
  BY <1>2, <1>3 DEF Scheduling
<1>5. DrainInv'
  BY <1>1, <1>3, <1>4 DEF DrainInv
<1>6. InboxTypes'
  <2>1. ingress \in Seq(Event) /\ dropped \in Nat
    BY DEF InboxTypes
  <2>2. Excess(ingress, 0) \in Nat
    BY <2>1, NewestProperties
  <2>3. dropped' \in Nat
    BY <1>1, <2>1, <2>2
  <2>4. <<>> \in Seq(Event) /\ Len(<<>>) = 0 /\ QueueMax \in Nat
    BY FanOutAssumption
  <2>5. ingress' \in Seq(Event) /\ Len(ingress') <= QueueMax
    BY <1>1, <2>4
  <2>6. QED
    BY <1>1, <2>3, <2>5 DEF InboxTypes
<1>7. QueueTypes' /\ CasterTypes' /\ LockTypes' /\ PeerTypes' /\ EndTypes' /\ RunTypes'
  BY <1>1, PartsKept
<1>8. QED
  BY <1>2, <1>5, <1>6, <1>7, TypeParts, PTL

LEMMA DrainTyped ==
  ASSUME TypeInv, Drain
  PROVE  TypeInv'
<1> InboxTypes /\ QueueTypes /\ DrainInv
  BY TypeParts
<1> DEFINE all == queue \o ingress
<1>1. /\ callbacks > 0 /\ callbacks' = callbacks - 1 /\ ingress' = <<>> /\ drainScheduled' = FALSE
      /\ queue' = Newest(all, QueueMax) /\ dropped' = dropped + Excess(all, QueueMax)
      /\ UNCHANGED <<producers, submitted, broadcasts, caster, sendLock, peers, open, live, loopRuns>>
  BY DEF Drain, CountDropped, ScheduledAfterDrain
<1>2. all \in Seq(Event)
  BY ConcatProperties DEF InboxTypes, QueueTypes
<1> HIDE DEF all
<1>3. /\ Newest(all, QueueMax) \in Seq(Event) /\ Len(Newest(all, QueueMax)) <= QueueMax
      /\ Excess(all, QueueMax) \in Nat
  BY <1>2, FanOutAssumption, NewestProperties
<1>4. <<>> \in Seq(Event) /\ Len(<<>>) = 0 /\ QueueMax \in Nat
  BY FanOutAssumption
<1>5. callbacks' = 0
  BY <1>1 DEF InboxTypes
<1>6. InboxTypes'
  <2>1. ingress' \in Seq(Event) /\ Len(ingress') <= QueueMax
    BY <1>1, <1>4
  <2>2. dropped' \in Nat /\ callbacks' \in 0..1
    BY <1>1, <1>3, <1>5 DEF InboxTypes
  <2>3. QED
    BY <1>1, <2>1, <2>2 DEF InboxTypes
<1>7. QueueTypes'
  BY <1>1, <1>3 DEF QueueTypes
<1>8. \A t \in Sources : ~Scheduling(t)
  BY <1>1 DEF DrainInv, InboxTypes
<1>9. \A t \in Sources : ~Scheduling(t)'
  BY <1>1, <1>8 DEF Scheduling, producers
<1>10. DrainInv'
  BY <1>1, <1>5, <1>9 DEF DrainInv
<1>11. StoreTypes' /\ CasterTypes' /\ LockTypes' /\ PeerTypes' /\ EndTypes' /\ RunTypes'
  BY <1>1, PartsKept
<1>12. QED
  BY <1>6, <1>7, <1>10, <1>11, TypeParts, PTL

(* The steps of the loop's tasks leave the threads and the ingress alone.  *)
LEMMA LoopKeeps ==
  ASSUME TypeInv, UNCHANGED <<producers, inbox>>
  PROVE  StoreTypes' /\ InboxTypes' /\ DrainInv'
<1>1. StoreTypes' /\ InboxTypes'
  BY PartsKept
<1>2. callbacks' = callbacks /\ drainScheduled' = drainScheduled /\ producer' = producer
  BY DEF producers, inbox
<1>3. DrainInv'
  BY <1>2, DrainStays DEF Scheduling
<1>4. QED
  BY <1>1, <1>3

LEMMA GetTyped ==
  ASSUME TypeInv, Get
  PROVE  TypeInv'
<1> QueueTypes /\ CasterTypes /\ LockTypes
  BY TypeParts
<1>1. /\ queue # <<>> /\ broadcaster' = "acquire" /\ current' = <<Head(queue)>> /\ queue' = Tail(queue)
      /\ broadcasts' = Append(broadcasts, Head(queue)) /\ sendLock' = Append(sendLock, Caster)
      /\ UNCHANGED <<producers, inbox, toSend, dead, peers, open, live, loopRuns>>
  BY DEF Get
<1>2. queue \in Seq(Event) /\ broadcasts \in Seq(Event) /\ Len(queue) <= QueueMax /\ QueueMax \in Nat
  BY FanOutAssumption DEF QueueTypes
<1>3. /\ Head(queue) \in Event /\ Tail(queue) \in Seq(Event) /\ Len(Tail(queue)) = Len(queue) - 1
      /\ Len(queue) \in Nat
  BY <1>1, <1>2, HeadTailProperties
<1> DEFINE e == Head(queue)
<1>4. Append(broadcasts, e) \in Seq(Event)
  BY <1>2, <1>3, AppendProperties
<1>5. QueueTypes'
  <2>1. Len(Tail(queue)) <= QueueMax
    BY <1>2, <1>3
  <2>2. QED
    BY <1>1, <1>3, <1>4, <2>1 DEF QueueTypes
<1>6. LockTypes'
  <2>1. Caster \in Clients \cup {Caster}
    OBVIOUS
  <2>2. Append(sendLock, Caster) \in Seq(Clients \cup {Caster})
    BY <2>1, AppendProperties DEF LockTypes
  <2>3. QED
    BY <1>1, <2>2 DEF LockTypes
<1> HIDE DEF e
<1>7. CasterTypes'
  <2>1. current' = <<e>> /\ e \in Event
    BY <1>1, <1>3 DEF e
  <2>2. current' \in {<<>>} \cup {<<f>> : f \in Event} /\ current' # <<>>
    BY <2>1
  <2>3. QED
    BY <1>1, <2>2 DEF CasterTypes
<1>8. PeerTypes' /\ EndTypes' /\ RunTypes'
  BY <1>1, PartsKept
<1>9. StoreTypes' /\ InboxTypes' /\ DrainInv'
  BY <1>1, LoopKeeps
<1>10. QED
  BY <1>1, <1>5, <1>6, <1>7, <1>8, <1>9, TypeParts, PTL

LEMMA StartSendingTyped ==
  ASSUME TypeInv, StartSending
  PROVE  TypeInv'
<1> CasterTypes /\ PeerTypes
  BY TypeParts
<1>1. /\ broadcaster = "acquire" /\ broadcaster' = "send" /\ toSend' = clients
      /\ UNCHANGED <<producers, inbox, queue, broadcasts, current, dead, sendLock, peers, open, live, loopRuns>>
  BY DEF StartSending
<1>2. CasterTypes'
  BY <1>1 DEF CasterTypes, PeerTypes
<1>3. QueueTypes' /\ LockTypes' /\ PeerTypes' /\ EndTypes' /\ RunTypes'
  BY <1>1, PartsKept
<1>4. StoreTypes' /\ InboxTypes' /\ DrainInv'
  BY <1>1, LoopKeeps
<1>5. QED
  BY <1>1, <1>2, <1>3, <1>4, TypeParts, PTL

LEMMA SendLiveTyped ==
  ASSUME TypeInv, NEW c \in Clients, SendLive(c)
  PROVE  TypeInv'
<1> CasterTypes /\ EndTypes
  BY TypeParts
<1>1. /\ broadcaster = "send" /\ toSend' = toSend \ {c}
      /\ UNCHANGED <<producers, inbox, queue, broadcasts, broadcaster, current, sendLock, peers, open, loopRuns>>
  BY DEF SendLive
<1>2. dead' \subseteq Clients /\ live' \in [Clients -> Seq(Event)]
  <2>1. CASE c \in open
    <3>1. current # <<>> /\ current \in {<<>>} \cup {<<e>> : e \in Event}
      BY <1>1 DEF CasterTypes
    <3>2. PICK e \in Event : current = <<e>>
      BY <3>1
    <3>3. current[1] = e
      BY <3>2
    <3>4. live[c] \in Seq(Event)
      BY DEF EndTypes
    <3>5. Append(live[c], e) \in Seq(Event)
      BY <3>4, AppendProperties
    <3>6. live' = [live EXCEPT ![c] = Append(@, e)] /\ dead' = dead
      BY <2>1, <3>3 DEF SendLive
    <3>7. QED
      BY <3>5, <3>6 DEF CasterTypes, EndTypes
  <2>2. CASE c \notin open
    <3>1. dead' \in {dead, dead \cup {c}} /\ live' = live
      BY <2>2 DEF SendLive
    <3>2. QED
      BY <3>1 DEF CasterTypes, EndTypes
  <2>3. QED
    BY <2>1, <2>2
<1>3. CasterTypes'
  BY <1>1, <1>2 DEF CasterTypes
<1>4. EndTypes'
  BY <1>1, <1>2 DEF EndTypes
<1>5. QueueTypes' /\ LockTypes' /\ PeerTypes' /\ RunTypes'
  BY <1>1, PartsKept
<1>6. StoreTypes' /\ InboxTypes' /\ DrainInv'
  BY <1>1, LoopKeeps
<1>7. QED
  BY <1>1, <1>3, <1>4, <1>5, <1>6, TypeParts, PTL

(* The lock, one waiter longer or shorter.                                 *)
LEMMA LockTyped ==
  ASSUME TypeInv
  PROVE  /\ \A w : Release(w) \in Seq(Clients \cup {Caster})
         /\ \A c \in Clients : Append(sendLock, c) \in Seq(Clients \cup {Caster})
<1>1. sendLock \in Seq(Clients \cup {Caster})
  BY TypeParts DEF LockTypes
<1>2. \A w : Release(w) \in Seq(Clients \cup {Caster})
  BY <1>1, ReleaseProperties
<1>3. ASSUME NEW c \in Clients PROVE Append(sendLock, c) \in Seq(Clients \cup {Caster})
  <2>1. c \in Clients \cup {Caster}
    OBVIOUS
  <2>2. QED
    BY <1>1, <2>1, AppendProperties
<1>4. QED
  BY <1>2, <1>3

LEMMA FinishSendingTyped ==
  ASSUME TypeInv, FinishSending
  PROVE  TypeInv'
<1> CasterTypes /\ PeerTypes
  BY TypeParts
<1>1. /\ clients' = clients \ dead /\ dead' = {} /\ broadcaster' = "get" /\ current' = <<>>
      /\ sendLock' = Release(Caster)
      /\ UNCHANGED <<producers, inbox, queue, broadcasts, toSend, endpoint, replay, replayed, open, live, loopRuns>>
  BY DEF FinishSending
<1>2. CasterTypes'
  BY <1>1 DEF CasterTypes
<1>3. PeerTypes'
  BY <1>1 DEF PeerTypes
<1>4. LockTypes'
  BY <1>1, LockTyped DEF LockTypes
<1>5. QueueTypes' /\ EndTypes' /\ RunTypes'
  BY <1>1, PartsKept
<1>6. StoreTypes' /\ InboxTypes' /\ DrainInv'
  BY <1>1, LoopKeeps
<1>7. QED
  BY <1>1, <1>2, <1>3, <1>4, <1>5, <1>6, TypeParts, PTL

LEMMA CloseTyped ==
  ASSUME TypeInv, Close
  PROVE  TypeInv'
<1> CasterTypes
  BY TypeParts
<1>1. /\ broadcaster' = "cancelled" /\ toSend' = {} /\ dead' = {} /\ sendLock' = Release(Caster)
      /\ UNCHANGED <<producers, inbox, queue, broadcasts, current, peers, open, live, loopRuns>>
  BY DEF Close
<1>2. CasterTypes'
  BY <1>1 DEF CasterTypes
<1>3. LockTypes'
  BY <1>1, LockTyped DEF LockTypes
<1>4. QueueTypes' /\ PeerTypes' /\ EndTypes' /\ RunTypes'
  BY <1>1, PartsKept
<1>5. StoreTypes' /\ InboxTypes' /\ DrainInv'
  BY <1>1, LoopKeeps
<1>6. QED
  BY <1>1, <1>2, <1>3, <1>4, <1>5, TypeParts, PTL

LEMMA LoopClosesTyped ==
  ASSUME TypeInv, LoopCloses
  PROVE  TypeInv'
<1>1. /\ loopRuns' = FALSE
      /\ UNCHANGED <<producers, inbox, queue, broadcasts, caster, sendLock, peers, open, live>>
  BY DEF LoopCloses
<1>2. RunTypes'
  BY <1>1 DEF RunTypes
<1>3. QueueTypes' /\ CasterTypes' /\ LockTypes' /\ PeerTypes' /\ EndTypes'
  BY <1>1, PartsKept
<1>4. StoreTypes' /\ InboxTypes' /\ DrainInv'
  BY <1>1, LoopKeeps
<1>5. QED
  BY <1>1, <1>2, <1>3, <1>4, TypeParts, PTL

(* The steps of the clients' tasks, which broadcast nothing.               *)
LEMMA ServeKeeps ==
  ASSUME TypeInv, UNCHANGED <<producers, inbox, queue, broadcasts, caster, loopRuns>>
  PROVE  StoreTypes' /\ InboxTypes' /\ DrainInv' /\ QueueTypes' /\ CasterTypes' /\ RunTypes'
  BY LoopKeeps, PartsKept

LEMMA AfterReplayTyped ==
  ASSUME TypeInv, NEW c \in Clients, AfterReplay(c)
  PROVE  endpoint' \in [Clients -> {"none", "acquire", "replay", "receive", "done"}] /\ LockTypes'
<1>1. endpoint \in [Clients -> {"none", "acquire", "replay", "receive", "done"}] /\ LockTypes
  BY TypeParts DEF PeerTypes
<1>2. CASE replay'[c] = {}
  <2>1. endpoint' = [endpoint EXCEPT ![c] = "receive"] /\ sendLock' = Release(c)
    BY <1>2 DEF AfterReplay
  <2>2. QED
    BY <1>1, <2>1, LockTyped DEF LockTypes
<1>3. CASE replay'[c] # {}
  <2>1. endpoint' = [endpoint EXCEPT ![c] = "replay"] /\ sendLock' = sendLock
    BY <1>3 DEF AfterReplay
  <2>2. QED
    BY <1>1, <2>1 DEF LockTypes
<1>4. QED
  BY <1>2, <1>3

LEMMA AcceptTyped ==
  ASSUME TypeInv, NEW c \in Clients, Accept(c)
  PROVE  TypeInv'
<1> PeerTypes /\ EndTypes
  BY TypeParts
<1>1. /\ endpoint' = [endpoint EXCEPT ![c] = "acquire"] /\ open' = open \cup {c} /\ sendLock' = Append(sendLock, c)
      /\ UNCHANGED <<producers, inbox, queue, broadcasts, caster, clients, replay, replayed, live, loopRuns>>
  BY DEF Accept
<1>2. PeerTypes'
  BY <1>1 DEF PeerTypes
<1>3. EndTypes'
  BY <1>1 DEF EndTypes
<1>4. LockTypes'
  BY <1>1, LockTyped DEF LockTypes
<1>5. StoreTypes' /\ InboxTypes' /\ DrainInv' /\ QueueTypes' /\ CasterTypes' /\ RunTypes'
  BY <1>1, ServeKeeps
<1>6. QED
  BY <1>1, <1>2, <1>3, <1>4, <1>5, TypeParts, PTL

LEMMA EnterTyped ==
  ASSUME TypeInv, NEW c \in Clients, Enter(c)
  PROVE  TypeInv'
<1> PeerTypes
  BY TypeParts
<1>1. /\ clients' = clients \cup {c} /\ replay' = [replay EXCEPT ![c] = ReplayEvents] /\ AfterReplay(c)
      /\ UNCHANGED <<producers, inbox, queue, broadcasts, caster, replayed, open, live, loopRuns>>
  BY DEF Enter
<1>2. ReplayEvents \subseteq Event
  <2>1. ASSUME NEW s \in Sources, stored[s] > 0 PROVE <<s, stored[s]>> \in Event
    <3>1. stored[s] \in 1..MaxEvents[s]
      BY <2>1, TypeParts, FanOutAssumption DEF StoreTypes
    <3>2. QED
      BY <3>1, EventPair
  <2>2. QED
    BY <2>1 DEF ReplayEvents
<1>3. PeerTypes' /\ LockTypes'
  BY <1>1, <1>2, AfterReplayTyped DEF PeerTypes
<1>4. EndTypes'
  BY <1>1, PartsKept
<1>5. StoreTypes' /\ InboxTypes' /\ DrainInv' /\ QueueTypes' /\ CasterTypes' /\ RunTypes'
  BY <1>1, ServeKeeps
<1>6. QED
  BY <1>1, <1>3, <1>4, <1>5, TypeParts, PTL

LEMMA SendReplayTyped ==
  ASSUME TypeInv, NEW c \in Clients, SendReplay(c)
  PROVE  TypeInv'
<1> PeerTypes
  BY TypeParts
<1>1. /\ AfterReplay(c)
      /\ UNCHANGED <<producers, inbox, queue, broadcasts, caster, clients, open, live, loopRuns>>
  BY DEF SendReplay
<1>2. PICK m \in replay[c] :
        /\ replay' = [replay EXCEPT ![c] = @ \ {m}]
        /\ replayed' = IF c \in open THEN [replayed EXCEPT ![c] = @ \cup {m}] ELSE replayed
  BY DEF SendReplay
<1>3. m \in Event
  BY DEF PeerTypes
<1>4. replay' \in [Clients -> SUBSET Event]
  BY <1>2 DEF PeerTypes
<1>5. replayed' \in [Clients -> SUBSET Event]
  BY <1>2, <1>3 DEF PeerTypes
<1>6. PeerTypes' /\ LockTypes'
  BY <1>1, <1>4, <1>5, AfterReplayTyped DEF PeerTypes
<1>7. EndTypes'
  BY <1>1, PartsKept
<1>8. StoreTypes' /\ InboxTypes' /\ DrainInv' /\ QueueTypes' /\ CasterTypes' /\ RunTypes'
  BY <1>1, ServeKeeps
<1>9. QED
  BY <1>1, <1>6, <1>7, <1>8, TypeParts, PTL

LEMMA ReplayFailsTyped ==
  ASSUME TypeInv, NEW c \in Clients, ReplayFails(c)
  PROVE  TypeInv'
<1> PeerTypes
  BY TypeParts
<1>1. /\ clients' = clients \ {c} /\ endpoint' = [endpoint EXCEPT ![c] = "receive"] /\ sendLock' = Release(c)
      /\ UNCHANGED <<producers, inbox, queue, broadcasts, caster, replay, replayed, open, live, loopRuns>>
  BY DEF ReplayFails
<1>2. PeerTypes'
  BY <1>1 DEF PeerTypes
<1>3. LockTypes'
  BY <1>1, LockTyped DEF LockTypes
<1>4. EndTypes'
  BY <1>1, PartsKept
<1>5. StoreTypes' /\ InboxTypes' /\ DrainInv' /\ QueueTypes' /\ CasterTypes' /\ RunTypes'
  BY <1>1, ServeKeeps
<1>6. QED
  BY <1>1, <1>2, <1>3, <1>4, <1>5, TypeParts, PTL

LEMMA DisconnectTyped ==
  ASSUME TypeInv, NEW c \in Clients, Disconnect(c)
  PROVE  TypeInv'
<1> PeerTypes
  BY TypeParts
<1>1. /\ clients' = clients \ {c} /\ endpoint' = [endpoint EXCEPT ![c] = "done"]
      /\ UNCHANGED <<producers, inbox, queue, broadcasts, caster, sendLock, replay, replayed, open, live, loopRuns>>
  BY DEF Disconnect
<1>2. PeerTypes'
  BY <1>1 DEF PeerTypes
<1>3. LockTypes' /\ EndTypes'
  BY <1>1, PartsKept
<1>4. StoreTypes' /\ InboxTypes' /\ DrainInv' /\ QueueTypes' /\ CasterTypes' /\ RunTypes'
  BY <1>1, ServeKeeps
<1>5. QED
  BY <1>1, <1>2, <1>3, <1>4, TypeParts, PTL

LEMMA LeaveTyped ==
  ASSUME TypeInv, NEW c \in Clients, Leave(c)
  PROVE  TypeInv'
<1> PeerTypes /\ EndTypes
  BY TypeParts
<1>1. /\ open' = open \ {c} /\ live' = [live EXCEPT ![c] = <<>>] /\ replayed' = [replayed EXCEPT ![c] = {}]
      /\ UNCHANGED <<producers, inbox, queue, broadcasts, caster, sendLock, clients, endpoint, replay, loopRuns>>
  BY DEF Leave
<1>2. PeerTypes'
  BY <1>1 DEF PeerTypes
<1>3. EndTypes'
  BY <1>1 DEF EndTypes
<1>4. LockTypes'
  BY <1>1, PartsKept
<1>5. StoreTypes' /\ InboxTypes' /\ DrainInv' /\ QueueTypes' /\ CasterTypes' /\ RunTypes'
  BY <1>1, ServeKeeps
<1>6. QED
  BY <1>1, <1>2, <1>3, <1>4, <1>5, TypeParts, PTL

LEMMA StepTyped == TypeInv /\ [Next]_vars => TypeInv'
<1> SUFFICES ASSUME TypeInv, [Next]_vars PROVE TypeInv'
  OBVIOUS
<1>1. CASE UNCHANGED vars
  <2>1. UNCHANGED <<producers, inbox, queue, broadcasts, caster, sendLock, peers, open, live, loopRuns>>
    BY <1>1 DEF vars
  <2>2. LockTypes' /\ PeerTypes' /\ EndTypes'
    BY <2>1, PartsKept
  <2>3. StoreTypes' /\ InboxTypes' /\ DrainInv' /\ QueueTypes' /\ CasterTypes' /\ RunTypes'
    BY <2>1, ServeKeeps
  <2>4. QED
    BY <2>1, <2>2, <2>3, TypeParts, PTL
<1>2. ASSUME NEW s \in Sources, Emit(s) PROVE TypeInv'
  BY <1>2, ObserveTyped, CheckTyped, SubmitTyped, ScheduleTyped, DiscardTyped DEF Emit
<1>3. CASE Drain \/ Broadcast \/ Close \/ LoopCloses
  BY <1>3, DrainTyped, GetTyped, StartSendingTyped, FinishSendingTyped, SendLiveTyped, CloseTyped,
     LoopClosesTyped DEF Broadcast
<1>4. ASSUME NEW c \in Clients, Accept(c) \/ Serve(c) \/ ReplayFails(c) \/ Leave(c) PROVE TypeInv'
  BY <1>4, AcceptTyped, EnterTyped, SendReplayTyped, DisconnectTyped, ReplayFailsTyped, LeaveTyped DEF Serve
<1>5. QED
  BY <1>1, <1>2, <1>3, <1>4 DEF Next

(* Every variable keeps to its type, neither the ingress nor the queue     *)
(* outgrows _QUEUE_MAX, and there is never more than one drain on its way. *)
THEOREM FanOutTyped == Spec => []TypeOK
<1>1. TypeInv => TypeOK
  BY DEF TypeInv
<1>2. QED
  BY <1>1, InitTyped, StepTyped, PTL DEF Spec

-----------------------------------------------------------------------------
(* The lock.                                                                *)

LEMMA LockReleased ==
  ASSUME TypeInv, LockInv, NEW w
  PROVE  /\ Distinct(Release(w)) /\ Elements(Release(w)) = Elements(sendLock) \ {w}
         /\ \A v : v # w /\ Holds(v) => Release(w) # <<>> /\ Head(Release(w)) = v
<1> DEFINE lock == Release(w)
<1>1. sendLock \in Seq(Clients \cup {Caster})
  BY DEF TypeInv, TypeOK
<1>2. CASE w \notin Elements(sendLock)
  BY <1>1, <1>2, ReleaseProperties DEF LockInv, Holds
<1>3. CASE w \in Elements(sendLock)
  <2>1. PICK p \in 1..Len(sendLock) :
          /\ sendLock[p] = w /\ Len(lock) = Len(sendLock) - 1
          /\ \A i \in 1..Len(lock) : lock[i] = IF i < p THEN sendLock[i] ELSE sendLock[i + 1]
    BY <1>1, <1>3, ReleaseProperties
  <2>2. lock \in Seq(Clients \cup {Caster}) /\ Len(sendLock) \in Nat
    BY <1>1, ReleaseProperties
  <2> HIDE DEF lock
  <2>3. \A i, j \in 1..Len(sendLock) : sendLock[i] = sendLock[j] => i = j
    BY DEF LockInv, Distinct
  <2> DEFINE at == [i \in 1..Len(lock) |-> IF i < p THEN i ELSE i + 1]
  <2>4. /\ \A i \in 1..Len(lock) : at[i] \in 1..Len(sendLock) /\ at[i] # p /\ lock[i] = sendLock[at[i]]
        /\ \A i, j \in 1..Len(lock) : at[i] = at[j] => i = j
        /\ \A k \in 1..Len(sendLock) : k # p => \E i \in 1..Len(lock) : at[i] = k
    <3>1. ASSUME NEW i \in 1..Len(lock)
          PROVE  at[i] \in 1..Len(sendLock) /\ at[i] # p /\ lock[i] = sendLock[at[i]]
      BY <2>1, <2>2
    <3>2. ASSUME NEW i \in 1..Len(lock), NEW j \in 1..Len(lock), at[i] = at[j] PROVE i = j
      BY <2>1, <2>2, <3>2
    <3>3. ASSUME NEW k \in 1..Len(sendLock), k # p PROVE \E i \in 1..Len(lock) : at[i] = k
      <4>1. CASE k < p
        <5>1. k \in 1..Len(lock) /\ at[k] = k
          BY <2>1, <2>2, <4>1
        <5>2. QED
          BY <5>1
      <4>2. CASE ~(k < p)
        <5>1. k - 1 \in 1..Len(lock) /\ at[k - 1] = k
          BY <2>1, <2>2, <3>3, <4>2
        <5>2. QED
          BY <5>1
      <4>3. QED
        BY <4>1, <4>2
    <3>4. QED
      BY <3>1, <3>2, <3>3
  <2> HIDE DEF at
  <2>5. Distinct(lock)
    <3>1. ASSUME NEW i \in 1..Len(lock), NEW j \in 1..Len(lock), lock[i] = lock[j] PROVE i = j
      <4>1. at[i] \in 1..Len(sendLock) /\ at[j] \in 1..Len(sendLock) /\ sendLock[at[i]] = sendLock[at[j]]
        BY <2>4, <3>1
      <4>2. at[i] = at[j]
        BY <2>3, <4>1
      <4>3. QED
        BY <2>4, <4>2
    <3>2. QED
      BY <3>1 DEF Distinct
  <2>6. Elements(lock) = Elements(sendLock) \ {w}
    <3>1. ASSUME NEW i \in 1..Len(lock) PROVE lock[i] \in Elements(sendLock) /\ lock[i] # w
      BY <2>1, <2>3, <2>4 DEF Elements
    <3>2. ASSUME NEW k \in 1..Len(sendLock), sendLock[k] # w PROVE sendLock[k] \in Elements(lock)
      <4>1. PICK i \in 1..Len(lock) : at[i] = k
        BY <2>1, <2>4, <3>2
      <4>2. QED
        BY <2>4, <4>1 DEF Elements
    <3>3. QED
      BY <3>1, <3>2 DEF Elements
  <2>7. ASSUME NEW v, v # w, Holds(v) PROVE lock # <<>> /\ Head(lock) = v
    <3>1. sendLock # <<>> /\ sendLock[1] = v
      BY <2>7, <1>1 DEF Holds
    <3>2. 1 \in 1..Len(sendLock) /\ p # 1
      BY <2>1, <2>2, <2>7, <3>1, EmptySeq
    <3>3. 1 \in 1..Len(lock) /\ 1 < p
      BY <2>1, <2>2, <3>2
    <3>4. lock[1] = v
      BY <2>1, <3>1, <3>3
    <3>5. Len(lock) # 0
      BY <3>3
    <3>6. lock # <<>>
      BY <3>5
    <3>7. QED
      BY <2>2, <3>4, <3>6
  <2>8. QED
    BY <2>5, <2>6, <2>7 DEF lock
<1>4. QED
  BY <1>2, <1>3

LEMMA LockAppended ==
  ASSUME TypeInv, LockInv, NEW w \in Clients \cup {Caster}, w \notin Elements(sendLock)
  PROVE  /\ Distinct(Append(sendLock, w)) /\ Elements(Append(sendLock, w)) = Elements(sendLock) \cup {w}
         /\ \A v : Holds(v) => Append(sendLock, w) # <<>> /\ Head(Append(sendLock, w)) = v
<1> DEFINE lock == Append(sendLock, w)
<1>1. sendLock \in Seq(Clients \cup {Caster})
  BY DEF TypeInv, TypeOK
<1>2. /\ lock \in Seq(Clients \cup {Caster}) /\ Len(lock) = Len(sendLock) + 1 /\ Len(sendLock) \in Nat
      /\ lock[Len(lock)] = w /\ \A i \in 1..Len(sendLock) : lock[i] = sendLock[i]
  BY <1>1, AppendProperties
<1>3. Elements(lock) = Elements(sendLock) \cup {w}
  BY <1>1, ElementsAppend
<1> HIDE DEF lock
<1>4. ASSUME NEW i \in 1..Len(lock), NEW j \in 1..Len(lock), lock[i] = lock[j] PROVE i = j
  <2>1. \A k \in 1..Len(sendLock) : sendLock[k] # w
    BY DEF Elements
  <2>2. \A k \in 1..Len(lock) : k \in 1..Len(sendLock) \/ k = Len(lock)
    BY <1>2
  <2>3. QED
    BY <1>2, <1>4, <2>1, <2>2 DEF LockInv, Distinct
<1>5. ASSUME NEW v, Holds(v) PROVE lock # <<>> /\ Head(lock) = v
  <2>1. sendLock # <<>> /\ sendLock[1] = v
    BY <1>1, <1>5 DEF Holds
  <2>2. 1 \in 1..Len(sendLock) /\ lock[1] = v /\ Len(lock) # 0
    BY <1>1, <1>2, <2>1, EmptySeq
  <2>3. lock # <<>>
    BY <2>2
  <2>4. QED
    BY <1>2, <2>2, <2>3
<1>6. QED
  BY <1>3, <1>4, <1>5 DEF lock, Distinct

(* Nobody else holds what one holds.                                       *)
LEMMA OneHolder ==
  ASSUME TypeInv, LockInv
  PROVE  /\ \A v, w : Holds(v) /\ Holds(w) => v = w
         /\ \A w : Holds(w) => w \in Elements(sendLock)
         /\ \A c \in Clients : c # Caster
<1>1. sendLock \in Seq(Clients \cup {Caster})
  BY DEF TypeInv, TypeOK
<1>2. ASSUME NEW w, Holds(w) PROVE w \in Elements(sendLock)
  <2>1. sendLock # <<>> /\ sendLock[1] = w
    BY <1>1, <1>2 DEF Holds
  <2>2. 1 \in 1..Len(sendLock)
    BY <1>1, <2>1, EmptySeq
  <2>3. QED
    BY <2>1, <2>2 DEF Elements
<1>3. QED
  BY <1>2, FanOutAssumption DEF Holds

LEMMA InitLocked == Init => LockInv
<1> SUFFICES ASSUME Init PROVE LockInv
  OBVIOUS
<1>1. Len(sendLock) = 0
  BY DEF Init
<1>2. Elements(sendLock) = {} /\ Distinct(sendLock)
  BY <1>1 DEF Elements, Distinct
<1>3. QED
  BY <1>2 DEF Init, LockInv

LEMMA StepLocked == TypeInv /\ LockInv /\ [Next]_vars => LockInv'
<1> SUFFICES ASSUME TypeInv, LockInv, [Next]_vars PROVE LockInv'
  OBVIOUS
<1> USE DEF LockInv
<1>1. endpoint \in [Clients -> {"none", "acquire", "replay", "receive", "done"}]
  BY DEF TypeInv, TypeOK
<1>2. CASE sendLock' = sendLock /\ broadcaster' = broadcaster /\ endpoint' = endpoint
  BY <1>2 DEF Distinct, Holds
<1>3. ASSUME NEW s \in Sources, Emit(s) PROVE LockInv'
  BY <1>2, <1>3 DEF Emit, Observe, Check, Submit, Schedule, Discard, caster, peers
<1>4. CASE Drain \/ LoopCloses \/ UNCHANGED vars
  BY <1>2, <1>4 DEF Drain, LoopCloses, vars, caster, peers
<1>5. CASE Get
  <2>1. Caster \notin Elements(sendLock)
    BY <1>5 DEF Get
  <2>2. broadcaster' = "acquire" /\ sendLock' = Append(sendLock, Caster) /\ endpoint' = endpoint
    BY <1>5 DEF Get, peers
  <2>3. QED
    BY <2>1, <2>2, LockAppended, OneHolder DEF Holds
<1>6. CASE StartSending
  BY <1>6 DEF StartSending, peers, Holds
<1>7. ASSUME NEW c \in Clients, SendLive(c) PROVE LockInv'
  BY <1>2, <1>7 DEF SendLive, peers
<1>8. CASE FinishSending \/ Close
  <2>1. sendLock' = Release(Caster) /\ endpoint' = endpoint /\ broadcaster' \in {"get", "cancelled"}
    BY <1>8 DEF FinishSending, Close, peers
  <2>2. QED
    BY <2>1, LockReleased, OneHolder DEF Holds
<1>9. ASSUME NEW c \in Clients, Accept(c) PROVE LockInv'
  <2>1. c \notin Elements(sendLock)
    BY <1>9 DEF Accept
  <2>2. /\ sendLock' = Append(sendLock, c) /\ broadcaster' = broadcaster
        /\ endpoint' = [endpoint EXCEPT ![c] = "acquire"]
    BY <1>9 DEF Accept, caster
  <2>3. QED
    BY <1>1, <2>1, <2>2, LockAppended, OneHolder DEF Holds
<1>10. ASSUME NEW c \in Clients, Holds(c), broadcaster' = broadcaster, sendLock' = Release(c),
              endpoint' = [endpoint EXCEPT ![c] = "receive"]
       PROVE  LockInv'
  BY <1>1, <1>10, LockReleased, OneHolder DEF Holds
<1>11. ASSUME NEW c \in Clients, Holds(c), broadcaster' = broadcaster, AfterReplay(c)
       PROVE  LockInv'
  <2>1. CASE replay'[c] = {}
    BY <1>10, <1>11, <2>1 DEF AfterReplay
  <2>2. CASE replay'[c] # {}
    <3>1. sendLock' = sendLock /\ endpoint' = [endpoint EXCEPT ![c] = "replay"]
      BY <1>11, <2>2 DEF AfterReplay
    <3>2. QED
      BY <1>1, <1>11, <3>1, OneHolder DEF Holds
  <2>3. QED
    BY <2>1, <2>2
<1>12. ASSUME NEW c \in Clients, Serve(c) \/ ReplayFails(c) \/ Leave(c) PROVE LockInv'
  <2>1. CASE Enter(c)
    BY <1>11, <2>1 DEF Enter, MayConnect, caster
  <2>2. CASE SendReplay(c)
    <3>1. Holds(c) /\ broadcaster' = broadcaster /\ AfterReplay(c)
      BY <2>2 DEF SendReplay, caster
    <3>2. QED
      BY <1>11, <3>1
  <2>3. CASE ReplayFails(c)
    BY <1>10, <2>3 DEF ReplayFails, caster
  <2>4. CASE Disconnect(c)
    <3>1. /\ sendLock' = sendLock /\ broadcaster' = broadcaster /\ endpoint[c] = "receive"
          /\ endpoint' = [endpoint EXCEPT ![c] = "done"]
      BY <2>4 DEF Disconnect, caster
    <3>2. QED
      BY <1>1, <3>1 DEF Holds
  <2>5. CASE Leave(c)
    BY <1>2, <2>5 DEF Leave, caster
  <2>6. QED
    BY <1>12, <2>1, <2>2, <2>3, <2>4, <2>5 DEF Serve
<1>13. QED
  BY <1>3, <1>4, <1>5, <1>6, <1>7, <1>8, <1>9, <1>12 DEF Next, Broadcast

-----------------------------------------------------------------------------
(* The endpoints.                                                           *)

LEMMA StepServed == TypeInv /\ LockInv /\ EndpointInv /\ [Next]_vars => EndpointInv'
<1> SUFFICES ASSUME TypeInv, LockInv, EndpointInv, [Next]_vars PROVE EndpointInv'
  OBVIOUS
<1> USE DEF EndpointInv
<1>1. /\ endpoint \in [Clients -> {"none", "acquire", "replay", "receive", "done"}]
      /\ clients \subseteq Clients /\ toSend \subseteq Clients
      /\ replay \in [Clients -> SUBSET Event] /\ live \in [Clients -> Seq(Event)]
  BY DEF TypeInv, TypeOK
<1>2. CASE UNCHANGED <<peers, broadcaster, toSend, live>>
  BY <1>2 DEF peers
<1>3. ASSUME NEW s \in Sources, Emit(s) PROVE EndpointInv'
  BY <1>2, <1>3 DEF Emit, Observe, Check, Submit, Schedule, Discard, caster
<1>4. CASE Drain \/ LoopCloses \/ UNCHANGED vars
  BY <1>2, <1>4 DEF Drain, LoopCloses, vars, caster
<1>5. CASE Get \/ Close
  BY <1>5 DEF Get, Close, peers
<1>6. CASE StartSending
  <2>1. Holds(Caster)
    BY <1>6 DEF StartSending
  <2>2. \A c \in clients : endpoint[c] = "receive"
    BY <1>1, <2>1, OneHolder DEF LockInv
  <2>3. QED
    BY <1>6, <2>2 DEF StartSending, peers
<1>7. ASSUME NEW c \in Clients, SendLive(c) PROVE EndpointInv'
  BY <1>1, <1>7 DEF SendLive, peers
<1>8. CASE FinishSending
  BY <1>8 DEF FinishSending
<1>9. ASSUME NEW c \in Clients, Accept(c) PROVE EndpointInv'
  BY <1>1, <1>9 DEF Accept, caster
<1>10. ASSUME NEW c \in Clients, Enter(c) PROVE EndpointInv'
  <2>1. /\ clients' = clients \cup {c} /\ live' = live /\ toSend' = toSend /\ broadcaster' = broadcaster
        /\ replay' = [replay EXCEPT ![c] = ReplayEvents] /\ endpoint[c] = "acquire"
    BY <1>10 DEF Enter, caster
  <2>2. \/ endpoint' = [endpoint EXCEPT ![c] = "receive"] /\ replay'[c] = {}
        \/ endpoint' = [endpoint EXCEPT ![c] = "replay"]
    BY <1>10 DEF Enter, AfterReplay
  <2>3. /\ endpoint'[c] \in {"replay", "receive"} /\ (endpoint'[c] = "receive" => replay'[c] = {})
        /\ \A d \in Clients : d # c => endpoint'[d] = endpoint[d] /\ replay'[d] = replay[d]
    BY <1>1, <2>1, <2>2
  <2>4. \A d \in clients' : endpoint'[d] \in {"replay", "receive"} /\ (endpoint'[d] = "receive" => replay'[d] = {})
    BY <1>1, <2>1, <2>3
  <2>5. \A d \in Clients : endpoint'[d] \in {"none", "acquire", "replay"} => live'[d] = <<>>
    BY <2>1, <2>3
  <2>6. broadcaster' = "send" => \A d \in toSend' : endpoint'[d] \in {"receive", "done"}
    BY <1>1, <2>1, <2>3
  <2>7. QED
    BY <2>4, <2>5, <2>6
<1>11. ASSUME NEW c \in Clients, SendReplay(c) PROVE EndpointInv'
  <2>1. /\ clients' = clients /\ live' = live /\ toSend' = toSend /\ broadcaster' = broadcaster
        /\ (\E m \in replay[c] : replay' = [replay EXCEPT ![c] = @ \ {m}]) /\ endpoint[c] = "replay"
    BY <1>11 DEF SendReplay, caster
  <2>2. \/ endpoint' = [endpoint EXCEPT ![c] = "receive"] /\ replay'[c] = {}
        \/ endpoint' = [endpoint EXCEPT ![c] = "replay"]
    BY <1>11 DEF SendReplay, AfterReplay
  <2>3. QED
    BY <1>1, <2>1, <2>2
<1>12. ASSUME NEW c \in Clients, ReplayFails(c) \/ Disconnect(c) PROVE EndpointInv'
  <2>1. /\ clients' = clients \ {c} /\ live' = live /\ toSend' = toSend /\ broadcaster' = broadcaster
        /\ replay' = replay /\ endpoint[c] \in {"replay", "receive"}
        /\ \E p \in {"receive", "done"} : endpoint' = [endpoint EXCEPT ![c] = p]
    BY <1>12 DEF ReplayFails, Disconnect, caster
  <2>2. endpoint'[c] \in {"receive", "done"} /\ \A d \in Clients : d # c => endpoint'[d] = endpoint[d]
    BY <1>1, <2>1
  <2>3. QED
    BY <1>1, <2>1, <2>2
<1>13. ASSUME NEW c \in Clients, Leave(c) PROVE EndpointInv'
  BY <1>1, <1>13 DEF Leave, caster
<1>14. QED
  BY <1>3, <1>4, <1>5, <1>6, <1>7, <1>8, <1>9, <1>10, <1>11, <1>12, <1>13 DEF Next, Broadcast, Serve

-----------------------------------------------------------------------------
(* The order of the events.                                                 *)

(* Order between two sequences goes by their elements.                     *)
LEMMA PrecedesSubset ==
  ASSUME NEW s, NEW t, NEW u, NEW v, Precedes(s, t),
         Elements(u) \subseteq Elements(s), Elements(v) \subseteq Elements(t)
  PROVE  Precedes(u, v)
  BY PrecedesElements

LEMMA ElementsEvents ==
  ASSUME NEW s \in Seq(Event)
  PROVE  Elements(s) \subseteq Event
  BY DEF Elements

LEMMA InitPiped == Init => PipeInv
<1> SUFFICES ASSUME Init PROVE PipeInv
  OBVIOUS
<1>1. Len(broadcasts) = 0 /\ Len(queue) = 0 /\ Len(ingress) = 0 /\ Len(submitted) = 0
  BY DEF Init
<1>2. QED
  BY <1>1 DEF PipeInv, Ordered, Precedes, Elements

LEMMA StepPiped == TypeInv /\ PipeInv /\ [Next]_vars => PipeInv'
<1> SUFFICES ASSUME TypeInv, PipeInv, [Next]_vars PROVE PipeInv'
  OBVIOUS
<1>1. /\ broadcasts \in Seq(Event) /\ queue \in Seq(Event) /\ ingress \in Seq(Event)
      /\ submitted \in Seq(Event) /\ stored \in [Sources -> Nat] /\ QueueMax \in Nat
      /\ producer \in [Sources -> {"idle", "check", "submit", "schedule", "discard"}]
  BY FanOutAssumption DEF TypeInv, TypeOK
<1>2. ASSUME UNCHANGED <<broadcasts, queue, ingress, submitted>>,
             \A e \in Elements(submitted) : Past(e)'
      PROVE  PipeInv'
  <2>1. /\ Elements(submitted)' = Elements(submitted) /\ Elements(broadcasts)' = Elements(broadcasts)
        /\ Elements(queue)' = Elements(queue) /\ Elements(ingress)' = Elements(ingress)
    BY <1>2 DEF Elements
  <2>2. (\A e \in Elements(submitted) : Past(e))'
    BY <1>2, <2>1
  <2>3. QED
    <3>1. (Ordered(broadcasts) /\ Ordered(queue) /\ Ordered(ingress))'
      BY <1>2 DEF PipeInv, Ordered
    <3>2. (Precedes(broadcasts, queue) /\ Precedes(broadcasts, ingress) /\ Precedes(queue, ingress))'
      BY <1>2 DEF PipeInv, Precedes
    <3>3. (Elements(broadcasts) \cup Elements(queue) \cup Elements(ingress) \subseteq Elements(submitted))'
      BY <2>1 DEF PipeInv
    <3>4. QED
      BY <2>2, <3>1, <3>2, <3>3 DEF PipeInv
<1>3. CASE UNCHANGED <<producers, broadcasts, queue, ingress, submitted>>
  <2>1. \A e \in Elements(submitted) : Past(e)'
    BY <1>3 DEF producers, PipeInv, Past, Emitting
  <2>2. QED
    BY <1>2, <1>3, <2>1
<1>4. \A e \in Elements(submitted) : e[1] \in Sources /\ e[2] \in Nat /\ Past(e)
  BY <1>1, ElementsEvents, EventPair DEF PipeInv
<1>5. ASSUME NEW s \in Sources, Observe(s) PROVE PipeInv'
  <2>1. /\ producer' = [producer EXCEPT ![s] = "check"] /\ stored' = [stored EXCEPT ![s] = stored[s] + 1]
        /\ UNCHANGED <<broadcasts, queue, ingress, submitted>>
    BY <1>5 DEF Observe, At, inbox
  <2>2. ASSUME NEW e \in Elements(submitted) PROVE Past(e)'
    BY <1>1, <1>4, <2>1 DEF Past, Emitting
  <2>3. QED
    BY <1>2, <2>1, <2>2
<1>6. ASSUME NEW s \in Sources, Check(s) \/ Schedule(s) PROVE PipeInv'
  <2>1. /\ stored' = stored /\ UNCHANGED <<broadcasts, queue, ingress, submitted>>
        /\ \/ Emitting(s) /\ \E x : producer' = [producer EXCEPT ![s] = x]
           \/ ~Emitting(s) /\ \E x \in {"idle", "discard"} : producer' = [producer EXCEPT ![s] = x]
    BY <1>6 DEF Check, Schedule, At, inbox, Emitting
  <2>2. ASSUME NEW e \in Elements(submitted) PROVE Past(e)'
    BY <1>1, <1>4, <2>1 DEF Past, Emitting
  <2>3. QED
    BY <1>2, <2>1, <2>2
<1>7. ASSUME NEW s \in Sources, Submit(s) PROVE PipeInv'
  <2> DEFINE e == <<s, stored[s]>>
             all == Append(ingress, e)
  <2>1. producer[s] = "submit" /\ Emitting(s)
    BY <1>7 DEF Submit, At, Emitting
  <2>2. e \in Event /\ e[1] = s /\ e[2] = stored[s] /\ stored[s] \in Nat
    BY <2>1, SubmittedEvent
  <2>3. /\ ingress' = Newest(all, QueueMax) /\ submitted' = Append(submitted, e)
        /\ stored' = stored /\ queue' = queue /\ broadcasts' = broadcasts
        /\ \E x \in {"idle", "schedule"} : producer' = [producer EXCEPT ![s] = x]
    BY <1>7 DEF Submit, At
  <2> HIDE DEF e
  <2>4. all \in Seq(Event) /\ Elements(all) = Elements(ingress) \cup {e}
        /\ Elements(submitted') = Elements(submitted) \cup {e}
    BY <1>1, <2>2, <2>3, ElementsAppend, AppendProperties
  <2>5. \A f \in Elements(submitted) : Before(f, e)
    BY <1>4, <2>1, <2>2 DEF Past, Before
  <2>6. Ordered(all)
    BY <1>1, <2>2, <2>5, AppendOrdered DEF PipeInv
  <2> HIDE DEF all
  <2>7. Elements(ingress') \subseteq Elements(ingress) \cup {e} /\ Ordered(ingress')
    BY <1>1, <2>3, <2>4, <2>6, NewestElements, NewestOrdered
  <2>8. Precedes(broadcasts, ingress') /\ Precedes(queue, ingress')
    BY <2>5, <2>7, PrecedesElements DEF PipeInv
  <2>9. ASSUME NEW f \in Elements(submitted') PROVE Past(f)'
    <3>1. CASE f = e
      BY <1>1, <2>2, <2>3, <3>1 DEF Past, Emitting
    <3>2. CASE f \in Elements(submitted)
      BY <1>1, <1>4, <2>3, <3>2 DEF Past, Emitting
    <3>3. QED
      BY <2>4, <2>9, <3>1, <3>2
  <2>10. QED
    <3>1. /\ Elements(broadcasts') = Elements(broadcasts) /\ Elements(queue') = Elements(queue)
          /\ Ordered(broadcasts') /\ Ordered(queue') /\ Precedes(broadcasts', queue')
          /\ Precedes(broadcasts', ingress') /\ Precedes(queue', ingress')
      BY <2>3, <2>8 DEF PipeInv
    <3>2. (\A f \in Elements(submitted) : Past(f))'
      BY <2>9
    <3>3. (Elements(broadcasts) \cup Elements(queue) \cup Elements(ingress) \subseteq Elements(submitted))'
      BY <2>4, <2>7, <3>1 DEF PipeInv
    <3>4. QED
      BY <2>7, <3>1, <3>2, <3>3 DEF PipeInv
<1>8. ASSUME NEW s \in Sources, Discard(s) PROVE PipeInv'
  <2>1. /\ ingress' = <<>> /\ producer' = [producer EXCEPT ![s] = "idle"]
        /\ UNCHANGED <<stored, broadcasts, queue, submitted>>
    BY <1>8 DEF Discard, At
  <2>2. Len(ingress') = 0
    BY <2>1
  <2>3. \A e \in Elements(submitted) : Past(e)'
    BY <1>1, <1>4, <2>1 DEF Past, Emitting
  <2>4. QED
    BY <2>1, <2>2, <2>3 DEF PipeInv, Ordered, Precedes, Elements
<1>9. CASE Drain
  <2> DEFINE all == queue \o ingress
  <2>1. all \in Seq(Event) /\ Elements(all) = Elements(queue) \cup Elements(ingress)
    BY <1>1, ElementsConcat, ConcatProperties
  <2>2. Ordered(all)
    BY <1>1, ConcatOrdered DEF PipeInv
  <2>3. /\ queue' = Newest(all, QueueMax) /\ ingress' = <<>>
        /\ UNCHANGED <<producers, submitted, broadcasts>>
    BY <1>9 DEF Drain
  <2> HIDE DEF all
  <2>4. Elements(queue') \subseteq Elements(queue) \cup Elements(ingress) /\ Ordered(queue')
    BY <1>1, <2>1, <2>2, <2>3, NewestElements, NewestOrdered
  <2>5. Len(ingress') = 0
    BY <2>3
  <2>6. Elements(ingress') = {} /\ Ordered(ingress')
    BY <2>5 DEF Elements, Ordered
  <2>7. Precedes(broadcasts, queue') /\ Precedes(broadcasts, ingress') /\ Precedes(queue', ingress')
    BY <2>4, <2>6, PrecedesElements DEF PipeInv
  <2>8. (\A e \in Elements(submitted) : Past(e))'
    BY <1>4, <2>3 DEF producers, Past, Emitting
  <2>9. QED
    BY <2>3, <2>4, <2>6, <2>7, <2>8 DEF PipeInv
<1>10. CASE Get
  <2>1. /\ queue # <<>> /\ queue' = Tail(queue) /\ broadcasts' = Append(broadcasts, Head(queue))
        /\ UNCHANGED <<producers, ingress, submitted>>
    BY <1>10 DEF Get, inbox
  <2>2. Head(queue) \in Event /\ Elements(queue) = {Head(queue)} \cup Elements(queue')
    BY <1>1, <2>1, ElementsTail, HeadTailProperties
  <2>3. Elements(broadcasts') = Elements(broadcasts) \cup {Head(queue)}
    BY <1>1, <2>1, <2>2, ElementsAppend
  <2>4. Ordered(queue') /\ \A e \in Elements(queue') : Before(Head(queue), e)
    BY <1>1, <2>1, TailOrdered DEF PipeInv
  <2>5. \A e \in Elements(broadcasts) : Before(e, Head(queue))
    BY <2>2, PrecedesElements DEF PipeInv
  <2>6. Ordered(broadcasts')
    BY <1>1, <2>1, <2>2, <2>5, AppendOrdered DEF PipeInv
  <2>7. Precedes(broadcasts', queue') /\ Precedes(broadcasts', ingress) /\ Precedes(queue', ingress)
    BY <2>2, <2>3, <2>4, PrecedesElements DEF PipeInv
  <2>8. (\A e \in Elements(submitted) : Past(e))'
    BY <1>4, <2>1 DEF producers, Past, Emitting
  <2>9. QED
    BY <2>1, <2>2, <2>3, <2>4, <2>6, <2>7, <2>8 DEF PipeInv
<1>11. CASE StartSending \/ FinishSending \/ Close \/ LoopCloses \/ UNCHANGED vars
  BY <1>3, <1>11 DEF StartSending, FinishSending, Close, LoopCloses, vars, inbox
<1>12. ASSUME NEW c \in Clients, SendLive(c) \/ Accept(c) \/ Serve(c) \/ ReplayFails(c) \/ Leave(c)
       PROVE  PipeInv'
  BY <1>3, <1>12 DEF SendLive, Accept, Serve, Enter, SendReplay, Disconnect, ReplayFails, Leave, inbox
<1>13. QED
  BY <1>5, <1>6, <1>7, <1>8, <1>9, <1>10, <1>11, <1>12 DEF Next, Emit, Broadcast

-----------------------------------------------------------------------------
(* What a client has had.                                                   *)

\* What c has had, when it may have had the first n broadcasts.
LiveOf(c, n) ==
  /\ Ordered(live[c])
  /\ \A i \in 1..Len(live[c]) : \E k \in 1..n : live[c][i] = broadcasts[k]

CurrentInv == current # <<>> => broadcasts # <<>> /\ current = <<broadcasts[Len(broadcasts)]>>

LEMMA LiveInvParts == LiveInv <=> CurrentInv /\ \A c \in Clients : LiveOf(c, Sent(c))
  BY DEF LiveInv, CurrentInv, LiveOf

(* A client that may have had more is still in order.                      *)
LEMMA LiveKept ==
  ASSUME TypeInv, NEW c \in Clients, LiveOf(c, Sent(c)), live'[c] = live[c],
         NEW n \in Int, n >= Sent(c),
         \A k \in 1..Len(broadcasts) : broadcasts'[k] = broadcasts[k]
  PROVE  Ordered(live'[c]) /\ \A i \in 1..Len(live'[c]) : \E k \in 1..n : live'[c][i] = broadcasts'[k]
<1>1. Len(broadcasts) \in Nat
  BY DEF TypeInv, TypeOK
<1>2. Sent(c) \in Int /\ Sent(c) <= Len(broadcasts)
  BY <1>1 DEF Sent
<1>3. ASSUME NEW i \in 1..Len(live[c]) PROVE \E k \in 1..n : live[c][i] = broadcasts'[k]
  <2>1. PICK k \in 1..Sent(c) : live[c][i] = broadcasts[k]
    BY DEF LiveOf
  <2>2. k \in 1..n /\ k \in 1..Len(broadcasts)
    BY <1>1, <1>2, <2>1
  <2>3. QED
    BY <2>1, <2>2
<1>4. Ordered(live[c])
  BY DEF LiveOf
<1>5. QED
  BY <1>3, <1>4

LEMMA InitLive == Init => LiveInv
<1> SUFFICES ASSUME Init PROVE LiveInv
  OBVIOUS
<1>1. ASSUME NEW c \in Clients PROVE Len(live[c]) = 0
  <2>1. live[c] = <<>>
    BY DEF Init
  <2>2. QED
    BY <2>1
<1>2. current = <<>>
  BY DEF Init
<1>3. QED
  BY <1>1, <1>2 DEF LiveInv, Ordered

LEMMA StepLive == TypeInv /\ PipeInv /\ LiveInv /\ [Next]_vars => LiveInv'
<1> SUFFICES ASSUME TypeInv, PipeInv, LiveInv, [Next]_vars PROVE LiveInv'
  OBVIOUS
<1>1. /\ broadcasts \in Seq(Event) /\ Len(broadcasts) \in Nat /\ queue \in Seq(Event)
      /\ live \in [Clients -> Seq(Event)] /\ toSend \subseteq Clients
  BY DEF TypeInv, TypeOK
<1>2. CurrentInv /\ \A c \in Clients : LiveOf(c, Sent(c))
  BY LiveInvParts
<1>3. ASSUME CurrentInv', \A c \in Clients : LiveOf(c, Sent(c))' PROVE LiveInv'
  BY <1>3 DEF LiveInv, CurrentInv, LiveOf
<1>4. ASSUME NEW c \in Clients PROVE Sent(c) \in Int
  BY <1>1 DEF Sent
\* A step after which nobody may have had less.
<1>5. ASSUME CurrentInv', UNCHANGED broadcasts,
             \A c \in Clients : live'[c] = live[c] /\ Sent(c)' >= Sent(c) /\ Sent(c)' \in Int
      PROVE  LiveInv'
  <2>1. ASSUME NEW c \in Clients PROVE LiveOf(c, Sent(c))'
    <3>1. \A k \in 1..Len(broadcasts) : broadcasts'[k] = broadcasts[k]
      BY <1>5
    <3>2. Sent(c)' >= Sent(c) /\ Sent(c)' \in Int /\ live'[c] = live[c]
      BY <1>5
    <3>3. /\ Ordered(live'[c])
          /\ \A i \in 1..Len(live'[c]) : \E k \in 1..Sent(c)' : live'[c][i] = broadcasts'[k]
      BY <1>2, <3>1, <3>2, LiveKept
    <3>4. QED
      BY <3>3 DEF LiveOf
  <2>2. QED
    BY <1>3, <1>5, <2>1
<1>6. CASE UNCHANGED <<broadcasts, current, broadcaster, toSend, live>>
  <2>1. CurrentInv'
    BY <1>2, <1>6 DEF CurrentInv
  <2>2. ASSUME NEW c \in Clients PROVE Sent(c)' = Sent(c)
    BY <1>6 DEF Sent, Awaits
  <2>3. QED
    BY <1>4, <1>5, <1>6, <2>1, <2>2
<1>7. CASE Get
  <2>1. /\ queue # <<>> /\ broadcaster = "get" /\ broadcaster' = "acquire"
        /\ current' = <<Head(queue)>> /\ broadcasts' = Append(broadcasts, Head(queue)) /\ live' = live
    BY <1>7 DEF Get
  <2>2. Head(queue) \in Event
    BY <1>1, <2>1, HeadTailProperties
  <2>3. /\ broadcasts' # <<>> /\ Len(broadcasts') = Len(broadcasts) + 1
        /\ broadcasts'[Len(broadcasts')] = Head(queue)
        /\ \A k \in 1..Len(broadcasts) : broadcasts'[k] = broadcasts[k]
    BY <1>1, <2>1, <2>2, AppendProperties
  <2>4. CurrentInv'
    BY <2>1, <2>3 DEF CurrentInv
  <2>5. ASSUME NEW c \in Clients PROVE LiveOf(c, Sent(c))'
    <3>1. Sent(c)' = Len(broadcasts) /\ Sent(c) = Len(broadcasts)
      BY <1>1, <2>1, <2>3 DEF Sent, Awaits
    <3>2. /\ Ordered(live'[c])
          /\ \A i \in 1..Len(live'[c]) : \E k \in 1..Sent(c)' : live'[c][i] = broadcasts'[k]
      BY <1>1, <1>2, <2>1, <2>3, <3>1, LiveKept
    <3>3. QED
      BY <3>2 DEF LiveOf
  <2>6. QED
    BY <1>3, <2>4, <2>5
<1>8. CASE StartSending \/ FinishSending \/ Close
  <2>1. UNCHANGED <<broadcasts, live>>
    BY <1>8 DEF StartSending, FinishSending, Close
  <2>2. CurrentInv'
    BY <1>2, <1>8 DEF StartSending, FinishSending, Close, CurrentInv
  <2>3. ASSUME NEW c \in Clients PROVE Sent(c)' >= Sent(c) /\ Sent(c)' \in Int
    BY <1>1, <1>8 DEF StartSending, FinishSending, Close, Sent, Awaits
  <2>4. QED
    BY <1>5, <2>1, <2>2, <2>3
<1>9. ASSUME NEW c \in Clients, SendLive(c) PROVE LiveInv'
  <2>1. /\ broadcaster = "send" /\ c \in toSend /\ toSend' = toSend \ {c}
        /\ UNCHANGED <<broadcasts, broadcaster, current>>
    BY <1>9 DEF SendLive
  <2>2. CurrentInv'
    BY <1>2, <2>1 DEF CurrentInv
  <2>3. ASSUME NEW d \in Clients PROVE Sent(d)' >= Sent(d) /\ Sent(d)' \in Int
    BY <1>1, <2>1 DEF Sent, Awaits
  <2>4. CASE c \in open
    <3>1. live' = [live EXCEPT ![c] = Append(live[c], current[1])]
      BY <1>9, <2>4 DEF SendLive
    <3>2. current # <<>>
      BY <2>1 DEF TypeInv
    <3> DEFINE last == Len(broadcasts)
               e == broadcasts[last]
    <3>3. broadcasts # <<>> /\ current[1] = e
      BY <1>2, <3>2 DEF CurrentInv
    <3>4. last \in 1..Len(broadcasts) /\ e \in Event
      BY <1>1, <3>3, EmptySeq
    <3>5. Sent(c) = last - 1 /\ Sent(c)' = last
      BY <1>1, <2>1 DEF Sent, Awaits
    <3> HIDE DEF e, last
    <3>6. /\ live'[c] = Append(live[c], e) /\ live[c] \in Seq(Event)
          /\ Len(live'[c]) = Len(live[c]) + 1 /\ live'[c][Len(live'[c])] = e
          /\ \A i \in 1..Len(live[c]) : live'[c][i] = live[c][i]
      BY <1>1, <3>1, <3>3, <3>4, AppendProperties
    <3>7. ASSUME NEW f \in Elements(live[c]) PROVE Before(f, e)
      <4>1. PICK k \in 1..Sent(c) : f = broadcasts[k]
        BY <1>2 DEF LiveOf, Elements
      <4>2. k \in 1..Len(broadcasts) /\ last \in 1..Len(broadcasts) /\ k < last
        BY <1>1, <3>4, <3>5, <4>1 DEF last
      <4>3. QED
        BY <4>1, <4>2 DEF PipeInv, Ordered, e
    <3>8. Ordered(live'[c])
      BY <1>2, <3>4, <3>6, <3>7, AppendOrdered DEF LiveOf
    <3>9. ASSUME NEW i \in 1..Len(live'[c]) PROVE \E k \in 1..Sent(c)' : live'[c][i] = broadcasts'[k]
      <4>1. CASE i = Len(live'[c])
        BY <1>1, <2>1, <3>4, <3>5, <3>6, <4>1 DEF e, last
      <4>2. CASE i # Len(live'[c])
        <5>1. i \in 1..Len(live[c])
          BY <3>6, <4>2
        <5>2. PICK k \in 1..Sent(c) : live[c][i] = broadcasts[k]
          BY <1>2, <5>1 DEF LiveOf
        <5>3. k \in 1..Sent(c)' /\ live'[c][i] = broadcasts'[k]
          BY <1>1, <2>1, <3>5, <3>6, <5>1, <5>2 DEF last
        <5>4. QED
          BY <5>3
      <4>3. QED
        BY <4>1, <4>2
    <3>10. LiveOf(c, Sent(c))'
      BY <3>8, <3>9 DEF LiveOf
    <3>11. ASSUME NEW d \in Clients, d # c PROVE LiveOf(d, Sent(d))'
      <4>1. live'[d] = live[d]
        BY <1>1, <3>1, <3>11
      <4>2. \A k \in 1..Len(broadcasts) : broadcasts'[k] = broadcasts[k]
        BY <2>1
      <4>3. /\ Ordered(live'[d])
            /\ \A i \in 1..Len(live'[d]) : \E k \in 1..Sent(d)' : live'[d][i] = broadcasts'[k]
        BY <1>2, <2>3, <4>1, <4>2, LiveKept
      <4>4. QED
        BY <4>3 DEF LiveOf
    <3>12. QED
      BY <1>3, <2>2, <3>10, <3>11
  <2>5. CASE c \notin open
    <3>1. live' = live
      BY <1>9, <2>5 DEF SendLive
    <3>2. QED
      BY <1>5, <2>1, <2>2, <2>3, <3>1
  <2>6. QED
    BY <2>4, <2>5
<1>10. ASSUME NEW c \in Clients, Leave(c) PROVE LiveInv'
  <2>1. /\ live' = [live EXCEPT ![c] = <<>>]
        /\ UNCHANGED <<broadcasts, current, broadcaster, toSend>>
    BY <1>10 DEF Leave, caster
  <2>2. CurrentInv'
    BY <1>2, <2>1 DEF CurrentInv
  <2>3. ASSUME NEW d \in Clients PROVE LiveOf(d, Sent(d))'
    <3>1. Sent(d)' = Sent(d) /\ \A k \in 1..Len(broadcasts) : broadcasts'[k] = broadcasts[k]
      BY <2>1 DEF Sent, Awaits
    <3>2. CASE d = c
      <4>1. Len(live'[d]) = 0
        BY <1>1, <2>1, <3>2
      <4>2. QED
        BY <4>1 DEF LiveOf, Ordered
    <3>3. CASE d # c
      <4>1. live'[d] = live[d]
        BY <1>1, <2>1, <3>3
      <4>2. /\ Ordered(live'[d])
            /\ \A i \in 1..Len(live'[d]) : \E k \in 1..Sent(d)' : live'[d][i] = broadcasts'[k]
        BY <1>2, <1>4, <3>1, <4>1, LiveKept
      <4>3. QED
        BY <4>2 DEF LiveOf
    <3>4. QED
      BY <3>2, <3>3
  <2>4. QED
    BY <1>3, <2>2, <2>3
<1>11. ASSUME NEW s \in Sources, Emit(s) PROVE LiveInv'
  BY <1>6, <1>11 DEF Emit, Observe, Check, Submit, Schedule, Discard, caster
<1>12. CASE Drain \/ LoopCloses \/ UNCHANGED vars
  BY <1>6, <1>12 DEF Drain, LoopCloses, vars, caster
<1>13. ASSUME NEW c \in Clients, Accept(c) \/ Serve(c) \/ ReplayFails(c) PROVE LiveInv'
  BY <1>6, <1>13 DEF Accept, Serve, Enter, SendReplay, Disconnect, ReplayFails, caster
<1>14. QED
  BY <1>7, <1>8, <1>9, <1>10, <1>11, <1>12, <1>13 DEF Next, Broadcast

(* The invariant as a whole.                                               *)
LEMMA FanOutHolds == Spec => []FanOutInv
<1>1. Init => FanOutInv
  <2>1. Init => EndpointInv
    BY DEF Init, EndpointInv
  <2>2. QED
    BY <2>1, InitTyped, InitLocked, InitPiped, InitLive DEF FanOutInv
<1>2. FanOutInv /\ [Next]_vars => FanOutInv'
  BY StepTyped, StepLocked, StepServed, StepPiped, StepLive DEF FanOutInv
<1>3. QED
  BY <1>1, <1>2, PTL DEF Spec

(* No client gets a live event before its replay is complete, and each     *)
(* gets live events once each and those of a source in the order they were *)
(* emitted, whoever connects or goes and whatever the queues drop          *)
(* (connect(), broadcast()).                                               *)
THEOREM LiveOrdered == Spec => []LiveInOrder
<1>1. ASSUME FanOutInv PROVE LiveInOrder
  <2> SUFFICES ASSUME NEW c \in Clients
               PROVE  /\ live[c] # <<>> /\ c \in clients => replay[c] = {}
                      /\ \A i, j \in 1..Len(live[c]) :
                           i < j => /\ live[c][i] # live[c][j]
                                    /\ live[c][i][1] = live[c][j][1] => live[c][i][2] < live[c][j][2]
    BY DEF LiveInOrder
  <2>1. live[c] # <<>> /\ c \in clients => replay[c] = {}
    BY <1>1 DEF FanOutInv, EndpointInv
  <2>2. ASSUME NEW i \in 1..Len(live[c]), NEW j \in 1..Len(live[c]), i < j
        PROVE  /\ live[c][i] # live[c][j]
               /\ live[c][i][1] = live[c][j][1] => live[c][i][2] < live[c][j][2]
    <3>1. Before(live[c][i], live[c][j])
      BY <1>1, <2>2 DEF FanOutInv, LiveInv, Ordered
    <3>2. live[c] \in Seq(Event)
      BY <1>1 DEF FanOutInv, TypeInv, TypeOK
    <3>3. live[c][i] \in Event /\ live[c][j] \in Event
      BY <3>2
    <3>4. live[c][i][2] \in Nat
      BY <3>3, EventPair
    <3>5. QED
      BY <3>1, <3>4 DEF Before
  <2>3. QED
    BY <2>1, <2>2
<1>2. QED
  BY <1>1, FanOutHolds, PTL

-----------------------------------------------------------------------------
(* No gap.                                                                  *)

LEMMA ElementsThree ==
  ASSUME NEW s \in Seq(Event), NEW t \in Seq(Event), NEW u \in Seq(Event)
  PROVE  Elements(s \o t \o u) = Elements(s) \cup Elements(t) \cup Elements(u)
<1> DEFINE st == s \o t
<1>1. st \in Seq(Event) /\ Elements(st) = Elements(s) \cup Elements(t)
  BY ElementsConcat, ConcatProperties
<1> HIDE DEF st
<1>2. Elements(st \o u) = Elements(st) \cup Elements(u)
  BY <1>1, ElementsConcat
<1>3. QED
  BY <1>1, <1>2 DEF st

LEMMA ElementsOne ==
  /\ Elements(<<>>) = {}
  /\ \A e : Elements(<<e>>) = {e}
  /\ \A e : <<e>>[1] = e
  BY DEF Elements

\* What NoGap says of one event and one client.
Covered(c, s, n) ==
  \/ \E k \in n..MaxEvents[s] : <<s, k>> \in replay[c] \cup replayed[c]
  \/ <<s, n>> \in Elements(live[c]) \cup Lost
  \/ OnItsWay(<<s, n>>, c)

LEMMA NoGapParts ==
  NoGap <=> \A c \in clients \cap open : \A s \in Sources : \A n \in 1..stored[s] : Covered(c, s, n)
  BY DEF NoGap, Covered

LEMMA OnItsWayOf ==
  \A c, s, n :
    OnItsWay(<<s, n>>, c) <=>
      \/ <<s, n>> \in Elements(ingress) \cup Elements(queue)
      \/ <<s, n>> \in Elements(current) /\ (broadcaster # "send" \/ c \in toSend)
      \/ n = stored[s] /\ Emitting(s)
  BY DEF OnItsWay, Emitting

(* The steps after which the pipe is as it was.                            *)
LEMMA PipeStands ==
  ASSUME UNCHANGED <<stored, ingress, queue, broadcasts, submitted>>
  PROVE  /\ Lost' = Lost
         /\ Elements(ingress)' = Elements(ingress) /\ Elements(queue)' = Elements(queue)
  BY DEF Lost

(* A client keeps what it had when only others move.                       *)
LEMMA CoveredStands ==
  ASSUME NEW c, NEW s, NEW n, Covered(c, s, n),
         UNCHANGED <<stored, producer, ingress, queue, broadcasts, submitted>>,
         replay'[c] = replay[c], replayed'[c] = replayed[c], live'[c] = live[c],
         <<s, n>> \in Elements(current) /\ (broadcaster # "send" \/ c \in toSend) =>
           <<s, n>> \in Elements(current') /\ (broadcaster' # "send" \/ c \in toSend')
  PROVE  Covered(c, s, n)'
  BY PipeStands DEF Covered, OnItsWay

(* The events of the pipe are distinct: one that leaves the ingress or the *)
(* queue is nowhere else in it.                                            *)
LEMMA PipeDistinct ==
  ASSUME TypeInv, PipeInv
  PROVE  /\ \A e \in Elements(ingress) \cup Elements(queue) : e \notin Elements(broadcasts)
         /\ \A e \in Elements(submitted) : e \in Event /\ Past(e)
         /\ Elements(broadcasts) \cup Elements(queue) \cup Elements(ingress) \subseteq Elements(submitted)
<1>1. submitted \in Seq(Event)
  BY DEF TypeInv, TypeOK
<1>2. \A e \in Elements(submitted) : e \in Event /\ Past(e) /\ e[2] \in Nat
  BY <1>1, ElementsEvents, EventPair DEF PipeInv
<1>3. \A e \in Elements(submitted) : ~Before(e, e)
  BY <1>2 DEF Before
<1>4. QED
  BY <1>2, <1>3, PrecedesElements DEF PipeInv

(* A step that may add one event to the pipe, may move events along it and *)
(* drops some: what was covered is still covered.                          *)
LEMMA PipeStep ==
  ASSUME TypeInv, PipeInv, ingress' \in Seq(Event), queue' \in Seq(Event),
         UNCHANGED <<stored, broadcasts, current, broadcaster, toSend, replay, replayed, live>>,
         Elements(submitted) \subseteq Elements(submitted'),
         Elements(ingress') \cup Elements(queue') \subseteq
           Elements(ingress) \cup Elements(queue) \cup (Elements(submitted') \ Elements(submitted)),
         NEW c, NEW s, NEW n, Covered(c, s, n),
         n = stored[s] /\ Emitting(s) =>
           (n = stored'[s] /\ Emitting(s)') \/ <<s, n>> \in Elements(submitted') \ Elements(submitted)
  PROVE  Covered(c, s, n)'
<1> DEFINE e == <<s, n>>
<1>1. /\ Lost = Elements(submitted) \ (Elements(ingress) \cup Elements(queue) \cup Elements(broadcasts))
      /\ Lost' = Elements(submitted') \ (Elements(ingress') \cup Elements(queue') \cup Elements(broadcasts))
  BY ElementsThree DEF Lost, TypeInv, TypeOK
<1>2. ASSUME e \in Elements(submitted'), e \notin Elements(broadcasts)
      PROVE  Covered(c, s, n)'
  <2>1. e \in Lost' \/ e \in Elements(ingress') \cup Elements(queue')
    BY <1>1, <1>2
  <2>2. QED
    BY <2>1 DEF Covered, OnItsWay
<1>3. CASE e \in Elements(ingress) \cup Elements(queue) \cup (Elements(submitted') \ Elements(submitted)) \cup Lost
  BY <1>1, <1>2, <1>3, PipeDistinct
<1>4. CASE n = stored[s] /\ Emitting(s)
  <2>1. CASE n = stored'[s] /\ Emitting(s)'
    BY <2>1 DEF Covered, OnItsWay, Emitting
  <2>2. QED
    BY <1>3, <1>4, <2>1
<1>5. CASE \E k \in n..MaxEvents[s] : <<s, k>> \in replay[c] \cup replayed[c]
  BY <1>5 DEF Covered
<1>6. CASE e \in Elements(live[c])
  BY <1>6 DEF Covered
<1>7. CASE e \in Elements(current) /\ (broadcaster # "send" \/ c \in toSend)
  BY <1>7 DEF Covered, OnItsWay
<1>8. QED
  BY <1>3, <1>4, <1>5, <1>6, <1>7, OnItsWayOf DEF Covered

LEMMA StepCovered == FanOutInv /\ FanOutInv' /\ NoGap /\ [Next]_vars => NoGap'
<1> SUFFICES ASSUME FanOutInv, FanOutInv', NoGap, [Next]_vars,
                    NEW c \in clients' \cap open', NEW s \in Sources, NEW n \in 1..stored'[s]
             PROVE  Covered(c, s, n)'
  BY DEF NoGap, Covered
<1>1. TypeInv /\ LockInv /\ EndpointInv /\ PipeInv /\ LiveInv /\ TypeInv'
  BY DEF FanOutInv
<1>2. /\ stored \in [Sources -> Nat] /\ broadcasts \in Seq(Event) /\ queue \in Seq(Event)
      /\ ingress \in Seq(Event) /\ submitted \in Seq(Event) /\ clients \subseteq Clients
      /\ producer \in [Sources -> {"idle", "check", "submit", "schedule", "discard"}]
      /\ ingress' \in Seq(Event) /\ queue' \in Seq(Event) /\ QueueMax \in Nat
      /\ live \in [Clients -> Seq(Event)]
      /\ replay \in [Clients -> SUBSET Event] /\ replayed \in [Clients -> SUBSET Event]
  BY <1>1, FanOutAssumption DEF TypeInv, TypeOK
<1>3. c \in clients \cap open /\ n \in 1..stored[s] => Covered(c, s, n)
  BY NoGapParts
<1>4. CASE UNCHANGED <<stored, producer, ingress, queue, broadcasts, submitted, clients, open, replay,
                       replayed, live, broadcaster, current, toSend>>
  BY <1>3, <1>4, CoveredStands
<1>5. ASSUME NEW p \in Sources, Observe(p) PROVE Covered(c, s, n)'
  <2>1. /\ producer[p] = "idle" /\ producer' = [producer EXCEPT ![p] = "check"]
        /\ stored' = [stored EXCEPT ![p] = stored[p] + 1]
        /\ UNCHANGED <<ingress, queue, broadcasts, submitted, clients, open, replay, replayed, live,
                       broadcaster, current, toSend>>
    BY <1>5 DEF Observe, At, inbox, caster, peers
  <2>2. CASE s = p /\ n = stored'[p]
    <3>1. Emitting(s)' /\ n = stored'[s]
      BY <1>2, <2>1, <2>2 DEF Emitting
    <3>2. QED
      BY <3>1 DEF Covered, OnItsWay, Emitting
  <2>3. CASE ~(s = p /\ n = stored'[p])
    <3>1. n \in 1..stored[s]
      BY <1>2, <2>1, <2>3
    <3>2. Covered(c, s, n)
      BY <1>3, <2>1, <3>1
    <3>3. Lost' = Lost
      BY <2>1 DEF Lost
    <3>4. n = stored[s] /\ Emitting(s) => n = stored'[s] /\ Emitting(s)'
      BY <1>2, <2>1 DEF Emitting
    <3>5. QED
      BY <2>1, <3>2, <3>3, <3>4 DEF Covered, OnItsWay, Emitting
  <2>4. QED
    BY <2>2, <2>3
<1>6. ASSUME NEW p \in Sources, Check(p) \/ Schedule(p) \/ Submit(p) \/ Discard(p), 
             Covered(c, s, n),
             Check(p) => ~NoListeners
      PROVE  Covered(c, s, n)'
  <2>1. /\ UNCHANGED <<stored, broadcasts, current, broadcaster, toSend, replay, replayed, live, queue>>
    BY <1>6 DEF Check, Schedule, Submit, Discard, inbox, caster, peers
  <2>2. CASE Check(p) \/ Schedule(p)
    <3>1. UNCHANGED <<ingress, submitted>>
      BY <2>2 DEF Check, Schedule, inbox
    <3>2. n = stored[s] /\ Emitting(s) => n = stored'[s] /\ Emitting(s)'
      <4>1. \/ producer[p] = "check" /\ producer' = [producer EXCEPT ![p] = "submit"]
            \/ /\ producer[p] = "schedule"
               /\ \E x \in {"idle", "discard"} : producer' = [producer EXCEPT ![p] = x]
        BY <1>6, <2>2 DEF Check, Schedule, At
      <4>2. QED
        BY <1>2, <2>1, <4>1 DEF Emitting
    <3>3. /\ Elements(submitted') = Elements(submitted) /\ Elements(ingress') = Elements(ingress)
          /\ Elements(queue') = Elements(queue)
      BY <2>1, <3>1
    <3>4. QED
      BY <1>1, <1>2, <1>6, <2>1, <3>2, <3>3, PipeStep
  <2>3. CASE Submit(p)
    <3> DEFINE e == <<p, stored[p]>>
               all == Append(ingress, e)
    <3>1. /\ producer[p] = "submit" /\ ingress' = Newest(all, QueueMax) /\ submitted' = Append(submitted, e)
          /\ \E x \in {"idle", "schedule"} : producer' = [producer EXCEPT ![p] = x]
      BY <2>3 DEF Submit, At
    <3>2. e \in Event /\ e[1] = p /\ e[2] = stored[p] /\ stored[p] \in Nat
      BY <1>1, <3>1, SubmittedEvent DEF Emitting
    <3> HIDE DEF e
    <3>3. /\ all \in Seq(Event) /\ Elements(all) = Elements(ingress) \cup {e}
          /\ Elements(submitted') = Elements(submitted) \cup {e}
      BY <1>2, <3>1, <3>2, ElementsAppend, AppendProperties
    <3>4. Elements(ingress') \subseteq Elements(ingress) \cup {e}
      BY <1>2, <3>1, <3>3, NewestElements
    <3>5. ~Past(e)
      BY <1>2, <3>1, <3>2 DEF Past, Emitting
    <3>6. e \notin Elements(submitted)
      BY <1>1, <3>5, PipeDistinct
    <3> HIDE DEF all
    <3>7. n = stored[s] /\ Emitting(s) =>
            (n = stored'[s] /\ Emitting(s)') \/ <<s, n>> \in Elements(submitted') \ Elements(submitted)
      BY <1>2, <2>1, <3>1, <3>3, <3>6 DEF Emitting, e
    <3>8. Elements(queue') = Elements(queue)
      BY <2>1
    <3>9. Elements(ingress') \cup Elements(queue') \subseteq
            Elements(ingress) \cup Elements(queue) \cup (Elements(submitted') \ Elements(submitted))
      BY <3>3, <3>4, <3>6, <3>8
    <3>10. QED
      BY <1>1, <1>2, <1>6, <2>1, <3>3, <3>7, <3>9, PipeStep
  <2>4. CASE Discard(p)
    <3>1. /\ ingress' = <<>> /\ submitted' = submitted /\ producer[p] = "discard"
          /\ producer' = [producer EXCEPT ![p] = "idle"]
      BY <2>4 DEF Discard, At
    <3>2. n = stored[s] /\ Emitting(s) => n = stored'[s] /\ Emitting(s)'
      BY <1>2, <2>1, <3>1 DEF Emitting
    <3>3. /\ Elements(submitted') = Elements(submitted) /\ Elements(ingress') = {}
          /\ Elements(queue') = Elements(queue)
      BY <2>1, <3>1, ElementsOne
    <3>4. QED
      BY <1>1, <1>2, <1>6, <2>1, <3>2, <3>3, PipeStep
  <2>5. QED
    BY <1>6, <2>2, <2>3, <2>4
<1>7. ASSUME NEW p \in Sources, Emit(p) PROVE Covered(c, s, n)'
  <2>1. CASE Observe(p)
    BY <1>5, <2>1
  <2>2. CASE Check(p) \/ Schedule(p) \/ Submit(p) \/ Discard(p)
    <3>1. clients' = clients /\ open' = open /\ stored' = stored
      BY <2>2 DEF Check, Schedule, Submit, Discard, peers
    <3>2. Covered(c, s, n) /\ ~NoListeners
      BY <1>3, <3>1 DEF NoListeners
    <3>3. QED
      BY <1>6, <2>2, <3>2
  <2>3. QED
    BY <1>7, <2>1, <2>2 DEF Emit
<1>8. CASE Drain
  <2>1. /\ queue' = Newest(queue \o ingress, QueueMax) /\ ingress' = <<>>
        /\ UNCHANGED <<stored, producer, submitted, broadcasts, current, broadcaster, toSend, clients,
                       open, replay, replayed, live>>
    BY <1>8 DEF Drain, producers, caster, peers
  <2>2. Covered(c, s, n)
    BY <1>3, <2>1
  <2>3. queue \o ingress \in Seq(Event) /\ Elements(queue \o ingress) = Elements(queue) \cup Elements(ingress)
    BY <1>2, ElementsConcat, ConcatProperties
  <2>4. Elements(queue') \subseteq Elements(queue) \cup Elements(ingress) /\ Elements(ingress') = {}
    BY <1>2, <2>1, <2>3, NewestElements, ElementsOne
  <2>5. n = stored[s] /\ Emitting(s) => n = stored'[s] /\ Emitting(s)'
    BY <2>1 DEF Emitting
  <2>6. Elements(submitted') = Elements(submitted)
    BY <2>1
  <2>7. QED
    BY <1>1, <1>2, <2>1, <2>2, <2>4, <2>5, <2>6, PipeStep
<1>9. CASE Get
  <2>1. /\ queue # <<>> /\ broadcaster = "get" /\ broadcaster' = "acquire" /\ current' = <<Head(queue)>>
        /\ queue' = Tail(queue) /\ broadcasts' = Append(broadcasts, Head(queue))
        /\ UNCHANGED <<stored, producer, ingress, submitted, clients, open, replay, replayed, live>>
    BY <1>9 DEF Get, producers, inbox, peers
  <2>2. Covered(c, s, n)
    BY <1>3, <2>1
  <2>3. Head(queue) \in Event /\ Elements(queue) = {Head(queue)} \cup Elements(queue')
    BY <1>2, <2>1, ElementsTail, HeadTailProperties
  <2>4. broadcasts' \in Seq(Event) /\ Elements(broadcasts') = Elements(broadcasts) \cup {Head(queue)}
    BY <1>2, <2>1, <2>3, ElementsAppend, AppendProperties
  <2>5. Elements(current') = {Head(queue)} /\ Elements(current) = {}
    BY <1>1, <2>1, ElementsOne DEF TypeInv
  <2>6. Lost' = Lost
    <3>1. /\ Lost = Elements(submitted) \ (Elements(ingress) \cup Elements(queue) \cup Elements(broadcasts))
          /\ Lost' = Elements(submitted') \ (Elements(ingress') \cup Elements(queue') \cup Elements(broadcasts'))
      BY <1>2, <2>4, ElementsThree DEF Lost
    <3>2. Elements(submitted') = Elements(submitted) /\ Elements(ingress') = Elements(ingress)
      BY <2>1
    <3>3. QED
      BY <2>3, <2>4, <3>1, <3>2
  <2>7. OnItsWay(<<s, n>>, c) => OnItsWay(<<s, n>>, c)'
    BY <2>1, <2>3, <2>5 DEF OnItsWay
  <2>8. QED
    BY <2>1, <2>2, <2>6, <2>7 DEF Covered
<1>10. CASE StartSending \/ FinishSending \/ Close
  <2>1. /\ UNCHANGED <<stored, producer, ingress, queue, broadcasts, submitted, open, replay, replayed, live>>
        /\ clients' \subseteq clients
    BY <1>10 DEF StartSending, FinishSending, Close, producers, inbox, peers
  <2>2. Covered(c, s, n)
    BY <1>3, <2>1
  <2>3. <<s, n>> \in Elements(current) /\ (broadcaster # "send" \/ c \in toSend) =>
          <<s, n>> \in Elements(current') /\ (broadcaster' # "send" \/ c \in toSend')
    BY <1>10 DEF StartSending, FinishSending, Close, peers
  <2>4. QED
    BY <2>1, <2>2, <2>3, CoveredStands
<1>11. ASSUME NEW d \in Clients, SendLive(d) PROVE Covered(c, s, n)'
  <2>1. /\ broadcaster = "send" /\ d \in toSend /\ toSend' = toSend \ {d}
        /\ UNCHANGED <<stored, producer, ingress, queue, broadcasts, submitted, clients, open, replay,
                       replayed, broadcaster, current>>
    BY <1>11 DEF SendLive, producers, inbox, peers
  <2>2. Covered(c, s, n)
    BY <1>3, <2>1
  <2>3. CASE d = c
    <3>1. live'[c] = Append(live[c], current[1])
      BY <1>2, <1>11, <2>1, <2>3 DEF SendLive
    <3>2. PICK e \in Event : current = <<e>>
      BY <1>1, <2>1 DEF TypeInv, TypeOK
    <3>3. live[c] \in Seq(Event) /\ current[1] = e /\ Elements(current) = {e}
      BY <1>2, <2>3, <3>2, ElementsOne
    <3>4. Elements(live'[c]) = Elements(live[c]) \cup Elements(current)
      BY <3>1, <3>3, ElementsAppend
    <3>5. Lost' = Lost
      BY <2>1 DEF Lost
    <3>6. QED
      BY <2>1, <2>2, <3>4, <3>5 DEF Covered, OnItsWay
  <2>4. CASE d # c
    <3>1. live'[c] = live[c]
      BY <1>2, <1>11, <2>1, <2>4 DEF SendLive
    <3>2. QED
      BY <2>1, <2>2, <2>4, <3>1, CoveredStands
  <2>5. QED
    BY <2>3, <2>4
<1>12. CASE LoopCloses \/ UNCHANGED vars
  BY <1>4, <1>12 DEF LoopCloses, vars, producers, inbox, caster, peers
<1>13. ASSUME NEW d \in Clients, Accept(d) PROVE Covered(c, s, n)'
  <2>1. /\ clients' = clients /\ open' = open \cup {d} /\ endpoint[d] = "none"
        /\ UNCHANGED <<stored, producer, ingress, queue, broadcasts, submitted, replay, replayed, live,
                       broadcaster, current, toSend>>
    BY <1>13 DEF Accept, producers, inbox, caster
  <2>2. d \notin clients
    BY <1>1, <2>1 DEF EndpointInv
  <2>3. Covered(c, s, n)
    BY <1>3, <2>1, <2>2
  <2>4. QED
    BY <2>1, <2>3, CoveredStands
<1>14. ASSUME NEW d \in Clients, Enter(d) PROVE Covered(c, s, n)'
  <2>1. /\ clients' = clients \cup {d} /\ replay' = [replay EXCEPT ![d] = ReplayEvents]
        /\ UNCHANGED <<stored, producer, ingress, queue, broadcasts, submitted, replayed, live, open,
                       broadcaster, current, toSend>>
    BY <1>14 DEF Enter, producers, inbox, caster
  <2>2. CASE c = d
    <3>1. replay'[c] = ReplayEvents
      BY <1>2, <2>1, <2>2
    <3>2. stored[s] > 0 /\ stored[s] \in n..MaxEvents[s]
      <4>1. stored[s] \in Nat /\ stored[s] <= MaxEvents[s] /\ n \in 1..stored[s] /\ MaxEvents[s] \in Nat
        BY <1>1, <2>1, FanOutAssumption DEF TypeInv, TypeOK
      <4>2. QED
        BY <4>1
    <3>3. <<s, stored[s]>> \in replay'[c]
      BY <3>1, <3>2 DEF ReplayEvents
    <3>4. QED
      BY <3>2, <3>3 DEF Covered
  <2>3. CASE c # d
    <3>1. replay'[c] = replay[c] /\ Covered(c, s, n)
      BY <1>2, <1>3, <2>1, <2>3
    <3>2. QED
      BY <2>1, <3>1, CoveredStands
  <2>4. QED
    BY <2>2, <2>3
<1>15. ASSUME NEW d \in Clients, SendReplay(d) PROVE Covered(c, s, n)'
  <2>1. PICK m \in replay[d] :
          /\ replay' = [replay EXCEPT ![d] = replay[d] \ {m}]
          /\ replayed' = IF d \in open THEN [replayed EXCEPT ![d] = replayed[d] \cup {m}] ELSE replayed
    BY <1>15 DEF SendReplay
  <2>2. UNCHANGED <<stored, producer, ingress, queue, broadcasts, submitted, live, open, clients,
                    broadcaster, current, toSend>>
    BY <1>15 DEF SendReplay, producers, inbox, caster
  <2>3. Covered(c, s, n)
    BY <1>3, <2>2
  <2>4. replay'[c] \cup replayed'[c] = replay[c] \cup replayed[c]
    <3>1. CASE c = d
      BY <1>2, <2>1, <2>2, <3>1
    <3>2. CASE c # d
      BY <1>2, <2>1, <3>2
    <3>3. QED
      BY <3>1, <3>2
  <2>5. Lost' = Lost
    BY <2>2 DEF Lost
  <2>6. QED
    BY <2>2, <2>3, <2>4, <2>5 DEF Covered, OnItsWay
<1>16. ASSUME NEW d \in Clients, ReplayFails(d) \/ Disconnect(d) PROVE Covered(c, s, n)'
  <2>1. /\ clients' = clients \ {d}
        /\ UNCHANGED <<stored, producer, ingress, queue, broadcasts, submitted, replay, replayed, live,
                       open, broadcaster, current, toSend>>
    BY <1>16 DEF ReplayFails, Disconnect, producers, inbox, caster
  <2>2. Covered(c, s, n)
    BY <1>3, <2>1
  <2>3. QED
    BY <2>1, <2>2, CoveredStands
<1>17. ASSUME NEW d \in Clients, Leave(d) PROVE Covered(c, s, n)'
  <2>1. /\ clients' = clients /\ open' = open \ {d}
        /\ live' = [live EXCEPT ![d] = <<>>] /\ replayed' = [replayed EXCEPT ![d] = {}]
        /\ UNCHANGED <<stored, producer, ingress, queue, broadcasts, submitted, replay, broadcaster,
                       current, toSend>>
    BY <1>17 DEF Leave, producers, inbox, caster
  <2>2. live'[c] = live[c] /\ replayed'[c] = replayed[c] /\ Covered(c, s, n)
    BY <1>2, <1>3, <2>1
  <2>3. QED
    BY <2>1, <2>2, CoveredStands
<1>18. QED
  BY <1>7, <1>8, <1>9, <1>10, <1>11, <1>12, <1>13, <1>14, <1>15, <1>16, <1>17 DEF Next, Broadcast, Serve

(* Whatever a store holds, a client that is entered and has not gone has   *)
(* been replayed, or will be, or has had live, or it is on its way, or it  *)
(* was dropped and counted (on_event(), connect()).                        *)
THEOREM NothingMissed == Spec => []NoGap
<1>1. Init => NoGap
  BY DEF Init, NoGap
<1>2. QED
  BY <1>1, StepCovered, FanOutHolds, PTL DEF Spec

-----------------------------------------------------------------------------
(* From the lock of the ingress to the broadcast task: one LossyFeed.       *)

(* A sequence that has lost x elements after the k-th.                     *)
LEMMA CutThinned ==
  ASSUME NEW s \in Seq(Event), NEW t \in Seq(Event), NEW k \in Nat, NEW x \in Nat,
         Len(t) = Len(s) - x,
         \A j \in 1..Len(t) : t[j] = IF j <= k THEN s[j] ELSE s[j + x]
  PROVE  Feed!Thinned(s, t)
<1> DEFINE at == [j \in 1..Len(t) |-> IF j <= k THEN j ELSE j + x]
<1>1. Len(s) \in Nat /\ Len(t) \in Nat
  OBVIOUS
<1>2. at \in [1..Len(t) -> 1..Len(s)]
  BY <1>1
<1>3. \A i, j \in 1..Len(t) : i < j => at[i] < at[j]
  BY <1>1
<1>4. \A i \in 1..Len(t) : t[i] = s[at[i]]
  BY <1>1
<1> HIDE DEF at
<1>5. QED
  BY <1>2, <1>3, <1>4 DEF Feed!Thinned

FeedStep == Feed!Next \/ UNCHANGED Feed!feedVars

LEMMA FeedStands ==
  ASSUME UNCHANGED <<submitted, ingress, queue, broadcasts, dropped>>
  PROVE  FeedStep
  BY DEF FeedStep, Feed!feedVars

LEMMA SubmitOffers ==
  ASSUME TypeInv, NEW s \in Sources, Submit(s)
  PROVE  Feed!Offer
<1> DEFINE e == <<s, stored[s]>>
           all == Append(ingress, e)
           x == Excess(all, QueueMax)
           new == Newest(all, QueueMax)
           w == queue \o ingress
           w2 == queue \o new
           last == Len(w2)
           kept == SubSeq(w2, 1, last - 1)
<1>1. /\ ingress' = new /\ queue' = queue /\ broadcasts' = broadcasts
      /\ submitted' = Append(submitted, e) /\ dropped' = dropped + x
  BY DEF Submit, CountDropped
<1>2. e \in Event
  BY SubmittedEvent DEF Submit, At, Emitting
<1> HIDE DEF e
<1>3. /\ queue \in Seq(Event) /\ ingress \in Seq(Event) /\ Len(queue) <= QueueMax /\ Len(ingress) <= QueueMax
      /\ QueueMax \in Nat \ {0} /\ Len(queue) \in Nat /\ Len(ingress) \in Nat /\ dropped \in Nat
  BY FanOutAssumption DEF TypeInv, TypeOK
<1>4. /\ all \in Seq(Event) /\ Len(all) = Len(ingress) + 1 /\ all[Len(all)] = e
      /\ \A i \in 1..Len(ingress) : all[i] = ingress[i]
  BY <1>2, <1>3, AppendProperties
<1> HIDE DEF all
<1>5. /\ new \in Seq(Event) /\ Len(new) <= QueueMax /\ x \in 0..Len(all) /\ Len(new) = Len(all) - x
      /\ \A i \in 1..Len(new) : new[i] = all[i + x]
  BY <1>3, <1>4, NewestProperties
<1>6. x <= Len(ingress)
  BY <1>3, <1>4 DEF Excess
<1> HIDE DEF new, x
<1>7. /\ w \in Seq(Event) /\ Len(w) = Len(queue) + Len(ingress)
      /\ \A i \in 1..Len(w) : w[i] = IF i <= Len(queue) THEN queue[i] ELSE ingress[i - Len(queue)]
  BY <1>3, ConcatProperties
<1>8. /\ w2 \in Seq(Event) /\ Len(w2) = Len(queue) + Len(new)
      /\ \A i \in 1..Len(w2) : w2[i] = IF i <= Len(queue) THEN queue[i] ELSE new[i - Len(queue)]
  <2>1. queue \in Seq(Event) /\ new \in Seq(Event)
    BY <1>3, <1>5
  <2>2. QED
    BY ONLY <2>1, ConcatProperties
<1> HIDE DEF w, w2
<1>9. last \in Nat \ {0} /\ last = Len(queue) + Len(ingress) + 1 - x /\ last <= 2 * QueueMax
  <2>1. last = Len(queue) + Len(new) /\ Len(new) = Len(ingress) + 1 - x /\ Len(new) <= QueueMax
        /\ x \in Nat /\ Len(new) \in Nat
    BY <1>3, <1>4, <1>5, <1>8
  <2>2. QED
    BY ONLY <1>3, <1>6, <2>1
<1>10. w2 # <<>> /\ w2[last] = e
  <2>1. last \in 1..Len(w2) /\ ~(last <= Len(queue)) /\ last - Len(queue) = Len(new)
    BY <1>3, <1>4, <1>5, <1>6, <1>8, <1>9
  <2>2. w2[last] = new[Len(new)]
    BY <1>8, <2>1
  <2>3. Len(new) \in 1..Len(new) /\ Len(new) + x = Len(all)
    BY <1>3, <1>4, <1>5, <1>6
  <2>4. w2 # <<>>
    BY <1>9
  <2>5. QED
    BY <1>4, <1>5, <2>2, <2>3, <2>4
<1>11. /\ kept \in Seq(Event) /\ Len(kept) = last - 1 /\ \A i \in 1..Len(kept) : kept[i] = w2[i]
  <2>1. \A i \in 1..(last - 1) : w2[i] \in Event
    BY <1>8, <1>9
  <2>2. /\ kept \in Seq(Event)
        /\ Len(kept) = IF 1 <= last - 1 THEN last - 1 - 1 + 1 ELSE 0
        /\ \A i \in 1..(last - 1 - 1 + 1) : kept[i] = w2[1 + i - 1]
    BY <1>9, <2>1, SubSeqProperties
  <2> HIDE DEF kept
  <2>3. QED
    BY <1>9, <2>2
<1> HIDE DEF kept, last
<1>12. ASSUME NEW j \in 1..Len(kept) PROVE kept[j] = IF j <= Len(queue) THEN w[j] ELSE w[j + x]
  <2>1. j \in 1..Len(w2) /\ kept[j] = w2[j]
    BY <1>9, <1>11 DEF last
  <2>2. CASE j <= Len(queue)
    BY <1>3, <1>7, <1>8, <2>1, <2>2
  <2>3. CASE ~(j <= Len(queue))
    <3> DEFINE i == j - Len(queue)
    <3>1. i \in 1..Len(new) /\ i + x \in 1..Len(ingress)
      <4>1. /\ x \in Nat /\ x <= Len(ingress) /\ Len(new) = Len(ingress) + 1 - x /\ Len(new) \in Nat
            /\ Len(kept) = Len(queue) + Len(ingress) - x
        <5>1. x \in Nat /\ Len(new) = Len(ingress) + 1 - x
          BY <1>3, <1>4, <1>5
        <5>2. Len(kept) = Len(queue) + Len(ingress) - x
          BY <1>3, <1>9, <1>11, <5>1
        <5>3. QED
          BY <1>3, <1>6, <5>1, <5>2
      <4>2. j \in Nat /\ j <= Len(kept) /\ j > Len(queue)
        BY <1>3, <1>11, <2>3, <4>1
      <4>3. i \in Nat /\ i >= 1 /\ i <= Len(ingress) - x
        BY <1>3, <4>1, <4>2
      <4>4. QED
        BY ONLY <1>3, <4>1, <4>3
    <3>2. w2[j] = new[i] /\ new[i] = all[i + x] /\ all[i + x] = ingress[i + x]
      BY <1>4, <1>5, <1>8, <2>1, <2>3, <3>1
    <3>3. j + x \in 1..Len(w) /\ ~(j + x <= Len(queue)) /\ j + x - Len(queue) = i + x
      <4>1. /\ x \in Nat /\ j \in Nat /\ Len(queue) \in Nat /\ Len(ingress) \in Nat
            /\ Len(w) = Len(queue) + Len(ingress) /\ i = j - Len(queue)
        BY <1>3, <1>4, <1>5, <1>7, <1>11
      <4>2. j > Len(queue) /\ i + x <= Len(ingress)
        BY <2>3, <3>1, <4>1
      <4>3. QED
        BY ONLY <4>1, <4>2
    <3>4. w[j + x] = ingress[i + x]
      <4> DEFINE m == j + x
      <4>1. m \in 1..Len(w) /\ ~(m <= Len(queue)) /\ m - Len(queue) = i + x
        BY <1>3, <1>5, <1>11, <3>1, <3>3
      <4> HIDE DEF m
      <4>2. w[m] = ingress[m - Len(queue)]
        BY <1>7, <4>1
      <4>3. QED
        BY <4>1, <4>2 DEF m
    <3>5. QED
      BY <2>1, <2>3, <3>2, <3>4
  <2>4. QED
    BY <2>2, <2>3
<1>13. Len(kept) = Len(w) - x /\ x \in Nat
  <2>1. x \in Nat
    BY <1>3, <1>4, <1>5
  <2>2. Len(kept) = last - 1
    BY <1>11
  <2>3. QED
    BY ONLY <1>3, <1>7, <1>9, <2>1, <2>2
<1>14. Feed!Thinned(w, kept)
  <2>1. /\ w \in Seq(Event) /\ kept \in Seq(Event) /\ Len(queue) \in Nat
        /\ \A j \in 1..Len(kept) : kept[j] = IF j <= Len(queue) THEN w[j] ELSE w[j + x]
    BY <1>3, <1>7, <1>11, <1>12
  <2>2. QED
    BY ONLY <1>13, <2>1, CutThinned
<1>15. Len(kept) <= Len(w) /\ dropped' = dropped + Len(w) - Len(kept)
  <2>1. Len(w) \in Nat /\ dropped \in Nat /\ dropped' = dropped + x
    BY <1>1, <1>3, <1>7
  <2>2. QED
    BY ONLY <1>13, <2>1
<1>16. (queue \o ingress)' = w2 /\ queue \o ingress = w
  BY <1>1 DEF w, w2
<1>17. /\ (queue \o ingress)' # <<>> /\ (queue \o ingress)'[Len((queue \o ingress)')] \in Event
       /\ submitted' = Append(submitted, (queue \o ingress)'[Len((queue \o ingress)')])
       /\ Len((queue \o ingress)') <= 2 * QueueMax
  BY <1>1, <1>2, <1>9, <1>10, <1>16 DEF last
<1>18. SubSeq((queue \o ingress)', 1, Len((queue \o ingress)') - 1) = kept
  BY <1>16 DEF kept, last
<1>19. Len(kept) <= Len(queue \o ingress) /\ dropped' = dropped + Len(queue \o ingress) - Len(kept)
       /\ Feed!Thinned(queue \o ingress, kept) /\ UNCHANGED broadcasts
  BY <1>1, <1>14, <1>15, <1>16
<1>20. QED
  BY <1>17, <1>18, <1>19 DEF Feed!Offer

LEMMA DiscardLoses ==
  ASSUME TypeInv, NEW s \in Sources, Discard(s)
  PROVE  FeedStep
<1> DEFINE w == queue \o ingress
<1>1. /\ ingress' = <<>> /\ queue' = queue /\ broadcasts' = broadcasts /\ submitted' = submitted
      /\ dropped' = dropped + Excess(ingress, 0)
  BY DEF Discard, CountDropped
<1>2. queue \in Seq(Event) /\ ingress \in Seq(Event) /\ Len(queue) \in Nat /\ Len(ingress) \in Nat /\ dropped \in Nat
  BY DEF TypeInv, TypeOK
<1>3. Excess(ingress, 0) = Len(ingress)
  BY <1>2 DEF Excess
<1>4. /\ w \in Seq(Event) /\ Len(w) = Len(queue) + Len(ingress)
      /\ \A i \in 1..Len(w) : w[i] = IF i <= Len(queue) THEN queue[i] ELSE ingress[i - Len(queue)]
  BY <1>2, ConcatProperties
<1>5. (queue \o ingress)' = queue
  BY <1>1, <1>2
<1> HIDE DEF w
<1>6. CASE ingress = <<>>
  <2>1. UNCHANGED <<submitted, ingress, queue, broadcasts>>
    BY <1>1, <1>6
  <2>2. Len(ingress) = 0
    BY <1>6
  <2>3. dropped' = dropped
    BY <1>1, <1>2, <1>3, <2>2
  <2>4. QED
    BY <2>1, <2>3, FeedStands
<1>7. CASE ingress # <<>>
  <2>1. Len(ingress) # 0
    BY <1>2, <1>7, EmptySeq
  <2>2. Feed!Thinned(w, queue)
    <3>1. \A j \in 1..Len(queue) : queue[j] = IF j <= Len(queue) THEN w[j] ELSE w[j + Len(ingress)]
      BY <1>2, <1>4
    <3>2. Len(queue) = Len(w) - Len(ingress)
      BY <1>2, <1>4
    <3>3. w \in Seq(Event) /\ queue \in Seq(Event) /\ Len(queue) \in Nat /\ Len(ingress) \in Nat
      BY <1>2, <1>4
    <3>4. QED
      BY ONLY <3>1, <3>2, <3>3, CutThinned
  <2>3. Len(queue) < Len(w) /\ dropped' = dropped + Len(w) - Len(queue)
    <3>1. dropped' = dropped + Len(ingress)
      BY <1>1, <1>3
    <3>2. Len(w) = Len(queue) + Len(ingress)
      BY <1>4
    <3>3. QED
      BY <1>2, <2>1, <3>1, <3>2
  <2>4. /\ Len((queue \o ingress)') < Len(queue \o ingress)
        /\ dropped' = dropped + Len(queue \o ingress) - Len((queue \o ingress)')
    BY <1>5, <2>3 DEF w
  <2>5. Feed!Thinned(queue \o ingress, (queue \o ingress)')
    BY <1>5, <2>2 DEF w
  <2>6. QED
    BY <1>1, <2>4, <2>5 DEF FeedStep, Feed!Next, Feed!Lose
<1>8. QED
  BY <1>6, <1>7

LEMMA DrainLoses ==
  ASSUME TypeInv, Drain
  PROVE  FeedStep
<1> DEFINE w == queue \o ingress
           x == Excess(w, QueueMax)
           new == Newest(w, QueueMax)
<1>1. /\ ingress' = <<>> /\ queue' = new /\ broadcasts' = broadcasts /\ submitted' = submitted
      /\ dropped' = dropped + x
  BY DEF Drain, CountDropped
<1>2. queue \in Seq(Event) /\ ingress \in Seq(Event) /\ dropped \in Nat /\ QueueMax \in Nat
  BY FanOutAssumption DEF TypeInv, TypeOK
<1>3. w \in Seq(Event) /\ Len(w) \in Nat
  BY <1>2, ConcatProperties
<1> HIDE DEF w
<1>4. /\ new \in Seq(Event) /\ x \in 0..Len(w) /\ Len(new) = Len(w) - x
      /\ \A i \in 1..Len(new) : new[i] = w[i + x]
  BY <1>2, <1>3, NewestProperties
<1> HIDE DEF x, new
<1>5. (queue \o ingress)' = new
  BY <1>1, <1>4
<1>6. CASE x = 0
  <2>1. \A i \in 1..Len(new) : new[i] = w[i]
    BY <1>3, <1>4, <1>6
  <2>2. new = w
    BY <1>3, <1>4, <1>6, <2>1, SeqEqual
  <2>3. QED
    BY <1>1, <1>2, <1>5, <1>6, <2>2 DEF w, FeedStep, Feed!feedVars
<1>7. CASE x # 0
  <2>1. Feed!Thinned(w, new)
    <3> DEFINE k == 0
    <3>1. k \in Nat /\ x \in Nat /\ \A j \in 1..Len(new) : new[j] = IF j <= k THEN w[j] ELSE w[j + x]
      BY <1>3, <1>4
    <3> HIDE DEF k
    <3>2. QED
      BY <1>3, <1>4, <3>1, CutThinned
  <2>2. Len(new) < Len(w) /\ dropped' = dropped + Len(w) - Len(new)
    BY <1>1, <1>2, <1>3, <1>4, <1>7
  <2>3. /\ Len((queue \o ingress)') < Len(queue \o ingress)
        /\ dropped' = dropped + Len(queue \o ingress) - Len((queue \o ingress)')
    BY <1>5, <2>2 DEF w
  <2>4. Feed!Thinned(queue \o ingress, (queue \o ingress)')
    BY <1>5, <2>1 DEF w
  <2>5. QED
    BY <1>1, <2>3, <2>4 DEF FeedStep, Feed!Next, Feed!Lose
<1>8. QED
  BY <1>6, <1>7

LEMMA GetDelivers ==
  ASSUME TypeInv, Get
  PROVE  Feed!Deliver
<1>1. /\ queue # <<>> /\ queue' = Tail(queue) /\ ingress' = ingress /\ submitted' = submitted
      /\ broadcasts' = Append(broadcasts, Head(queue)) /\ dropped' = dropped
  BY DEF Get, inbox
<1>2. queue \in Seq(Event) /\ ingress \in Seq(Event)
  BY DEF TypeInv, TypeOK
<1>3. queue \o ingress # <<>> /\ Head(queue \o ingress) = Head(queue)
      /\ Tail(queue \o ingress) = Tail(queue) \o ingress
  <2> DEFINE w == queue \o ingress
             t == Tail(queue)
             r == t \o ingress
  <2>1. /\ w \in Seq(Event) /\ Len(w) = Len(queue) + Len(ingress)
        /\ \A i \in 1..Len(w) : w[i] = IF i <= Len(queue) THEN queue[i] ELSE ingress[i - Len(queue)]
    BY <1>2, ConcatProperties
  <2>2. /\ t \in Seq(Event) /\ Len(t) = Len(queue) - 1 /\ \A i \in 1..Len(t) : t[i] = queue[i + 1]
        /\ Len(queue) \in Nat \ {0} /\ Len(ingress) \in Nat
    BY <1>1, <1>2, HeadTailProperties, EmptySeq
  <2> HIDE DEF t
  <2>3. /\ r \in Seq(Event) /\ Len(r) = Len(t) + Len(ingress)
        /\ \A i \in 1..Len(r) : r[i] = IF i <= Len(t) THEN t[i] ELSE ingress[i - Len(t)]
    <3>1. t \in Seq(Event) /\ ingress \in Seq(Event)
      BY <1>2, <2>2
    <3>2. QED
      BY <3>1, ConcatProperties
  <2> HIDE DEF w, r
  <2>4. w # <<>>
    <3>1. Len(w) # 0
      BY <2>1, <2>2
    <3>2. QED
      BY <3>1
  <2>5. Head(w) = Head(queue)
    BY <1>2, <2>1, <2>2, <2>4
  <2>6. /\ Tail(w) \in Seq(Event) /\ Len(Tail(w)) = Len(w) - 1
        /\ \A i \in 1..Len(Tail(w)) : Tail(w)[i] = w[i + 1]
    BY <2>1, <2>4, HeadTailProperties
  <2>7. ASSUME NEW i \in 1..Len(r) PROVE Tail(w)[i] = r[i]
    <3> DEFINE m == i + 1
    <3>1. m \in 1..Len(w) /\ i \in 1..Len(Tail(w)) /\ Len(t) \in Nat
      BY <2>1, <2>2, <2>3, <2>6
    <3>2. Tail(w)[i] = w[m]
      BY <2>6, <3>1
    <3> HIDE DEF m
    <3>3. w[m] = IF m <= Len(queue) THEN queue[m] ELSE ingress[m - Len(queue)]
      BY <2>1, <3>1
    <3>4. CASE i <= Len(t)
      <4>1. m <= Len(queue) /\ i \in 1..Len(t)
        BY <2>2, <3>1, <3>4 DEF m
      <4>2. r[i] = t[i] /\ t[i] = queue[m]
        BY <2>2, <2>3, <3>4, <4>1 DEF m
      <4>3. QED
        BY <3>2, <3>3, <4>1, <4>2
    <3>5. CASE ~(i <= Len(t))
      <4>1. ~(m <= Len(queue)) /\ m - Len(queue) = i - Len(t)
        BY <2>2, <3>1, <3>5 DEF m
      <4>2. r[i] = ingress[i - Len(t)]
        BY <2>3, <3>5
      <4>3. QED
        BY <3>2, <3>3, <4>1, <4>2
    <3>6. QED
      BY <3>4, <3>5
  <2>8. Len(Tail(w)) = Len(r)
    BY <2>1, <2>2, <2>3, <2>6
  <2>9. Tail(w) = r
    BY <2>3, <2>6, <2>7, <2>8, SeqEqual
  <2>10. QED
    BY <2>4, <2>5, <2>9 DEF w, r, t
<1>4. (queue \o ingress)' = Tail(queue) \o ingress
  BY <1>1
<1>5. /\ queue \o ingress # <<>> /\ broadcasts' = Append(broadcasts, Head(queue \o ingress))
      /\ (queue \o ingress)' = Tail(queue \o ingress) /\ UNCHANGED <<submitted, dropped>>
  BY <1>1, <1>3, <1>4
<1>6. QED
  BY <1>5 DEF Feed!Deliver

LEMMA StepFeeds == TypeInv /\ [Next]_vars => FeedStep
<1> SUFFICES ASSUME TypeInv, [Next]_vars PROVE FeedStep
  OBVIOUS
<1>1. ASSUME NEW s \in Sources, Emit(s) PROVE FeedStep
  <2>1. CASE Submit(s)
    BY <2>1, SubmitOffers DEF FeedStep, Feed!Next
  <2>2. CASE Discard(s)
    BY <2>2, DiscardLoses
  <2>3. CASE Observe(s) \/ Check(s) \/ Schedule(s)
    BY <2>3, FeedStands DEF Observe, Check, Schedule, inbox
  <2>4. QED
    BY <1>1, <2>1, <2>2, <2>3 DEF Emit
<1>2. CASE Drain
  BY <1>2, DrainLoses
<1>3. CASE Get
  BY <1>3, GetDelivers DEF FeedStep, Feed!Next
<1>4. CASE StartSending \/ FinishSending \/ Close \/ LoopCloses \/ UNCHANGED vars
  BY <1>4, FeedStands DEF StartSending, FinishSending, Close, LoopCloses, vars, inbox
<1>5. ASSUME NEW c \in Clients, SendLive(c) \/ Accept(c) \/ Serve(c) \/ ReplayFails(c) \/ Leave(c)
      PROVE  FeedStep
  BY <1>5, FeedStands DEF SendLive, Accept, Serve, Enter, SendReplay, Disconnect, ReplayFails, Leave, inbox
<1>6. QED
  BY <1>1, <1>2, <1>3, <1>4, <1>5 DEF Next, Broadcast

(* From emit() to broadcast() the events are one LossyFeed: in order, each *)
(* once, never more than the two queues hold, and _dropped_events counts   *)
(* exactly what they and the shutdown gave up.                             *)
THEOREM FanOutIsFeed == Spec => FeedSpec
<1>1. Init => Feed!Init
  <2>1. ASSUME Init PROVE Feed!Init
    <3>1. submitted = <<>> /\ queue = <<>> /\ ingress = <<>> /\ broadcasts = <<>> /\ dropped = 0
      BY <2>1 DEF Init
    <3>2. queue \o ingress = <<>>
      BY <3>1
    <3>3. QED
      BY <3>1, <3>2 DEF Feed!Init
  <2>2. QED
    BY <2>1
<1>2. TypeInv /\ [Next]_vars => [Feed!Next]_(Feed!feedVars)
  BY StepFeeds DEF FeedStep
<1>3. QED
  BY <1>1, <1>2, InitTyped, StepTyped, PTL DEF Spec, FeedSpec, Feed!Spec
=============================================================================
