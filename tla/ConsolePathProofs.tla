------------------------- MODULE ConsolePathProofs -------------------------
(* Proofs of invariants of ConsolePath, for every size of the ring and any *)
(* number of lines and sessions.                                           *)
EXTENDS ConsolePath, SequenceTheorems, TLAPS

----------------------------------------------------------------------------
(* Sequences of lines.                                                     *)

LEMMA Numbers ==
    /\ Lines \subseteq Nat \ {0} /\ Flushers \subseteq Nat /\ Lines \subseteq Flushers
    /\ Sessions \subseteq Nat \ {0} /\ None \notin Lines /\ Request \in Flushers
    /\ None \in Flushers
  BY ConsoleAssumption DEF Lines, Flushers, Sessions, None, Request

LEMMA ToSetEmpty == ToSet(<<>>) = {}
  BY DEF ToSet

LEMMA ToSetAppend ==
  ASSUME NEW S, NEW seq \in Seq(S), NEW e \in S
  PROVE  ToSet(Append(seq, e)) = ToSet(seq) \cup {e}
  BY AppendProperties DEF ToSet

LEMMA ToSetConcat ==
  ASSUME NEW S, NEW s \in Seq(S), NEW t \in Seq(S)
  PROVE  ToSet(s \o t) = ToSet(s) \cup ToSet(t)
<1> DEFINE c == s \o t
<1>1. c \in Seq(S) /\ Len(c) = Len(s) + Len(t) /\ Len(s) \in Nat /\ Len(t) \in Nat
  BY ConcatProperties
<1>2. \A i \in 1..Len(c) : c[i] = IF i <= Len(s) THEN s[i] ELSE t[i - Len(s)]
  BY ConcatProperties
<1>3. DOMAIN c = 1..Len(c) /\ DOMAIN s = 1..Len(s) /\ DOMAIN t = 1..Len(t)
  BY <1>1
<1> HIDE DEF c
<1>4. ASSUME NEW i \in DOMAIN c PROVE c[i] \in ToSet(s) \cup ToSet(t)
  <2>1. CASE i <= Len(s)
    <3>1. i \in DOMAIN s /\ c[i] = s[i]
      BY <1>1, <1>2, <1>3, <2>1
    <3>2. QED
      BY <3>1 DEF ToSet
  <2>2. CASE i > Len(s)
    <3>1. i - Len(s) \in DOMAIN t /\ c[i] = t[i - Len(s)]
      BY <1>1, <1>2, <1>3, <2>2
    <3>2. QED
      BY <3>1 DEF ToSet
  <2>3. QED
    BY <1>1, <1>3, <2>1, <2>2
<1>5. ASSUME NEW i \in DOMAIN s PROVE s[i] \in ToSet(c)
  <2>1. i \in DOMAIN c /\ i <= Len(s)
    BY <1>1, <1>3
  <2>2. c[i] = s[i]
    BY <1>2, <1>3, <2>1
  <2>3. QED
    BY <2>1, <2>2 DEF ToSet
<1>6. ASSUME NEW i \in DOMAIN t PROVE t[i] \in ToSet(c)
  <2>1. Len(s) + i \in DOMAIN c /\ c[Len(s) + i] = t[i]
    BY <1>1, <1>2, <1>3, <1>6
  <2>2. QED
    BY <2>1 DEF ToSet
<1>7. QED
  BY <1>4, <1>5, <1>6 DEF ToSet, c

LEMMA DistinctAppend ==
  ASSUME NEW S, NEW seq \in Seq(S), NEW e \in S, Distinct(seq), e \notin ToSet(seq)
  PROVE  Distinct(Append(seq, e))
  BY AppendProperties DEF Distinct, ToSet

LEMMA DistinctConcat ==
  ASSUME NEW S, NEW s \in Seq(S), NEW t \in Seq(S),
         Distinct(s), Distinct(t), Disjoint(s, t)
  PROVE  Distinct(s \o t)
<1> DEFINE c == s \o t
<1>1. c \in Seq(S) /\ Len(c) = Len(s) + Len(t) /\ Len(s) \in Nat /\ Len(t) \in Nat
  BY ConcatProperties
<1>2. \A i \in 1..Len(c) : c[i] = IF i <= Len(s) THEN s[i] ELSE t[i - Len(s)]
  BY ConcatProperties
<1>3. DOMAIN c = 1..Len(c) /\ DOMAIN s = 1..Len(s) /\ DOMAIN t = 1..Len(t)
  BY <1>1
<1> HIDE DEF c
<1>4. \A i \in DOMAIN s, j \in DOMAIN t : s[i] # t[j]
  BY DEF Disjoint, ToSet
<1> SUFFICES ASSUME NEW i \in DOMAIN c, NEW j \in DOMAIN c, c[i] = c[j] PROVE i = j
  BY DEF Distinct, c
<1>5. CASE i <= Len(s) /\ j <= Len(s)
  BY <1>1, <1>2, <1>3, <1>5 DEF Distinct
<1>6. CASE i > Len(s) /\ j > Len(s)
  <2>1. i - Len(s) \in DOMAIN t /\ j - Len(s) \in DOMAIN t
    BY <1>1, <1>3, <1>6
  <2>2. t[i - Len(s)] = t[j - Len(s)]
    BY <1>1, <1>2, <1>3, <1>6
  <2>3. i - Len(s) = j - Len(s)
    BY <2>1, <2>2 DEF Distinct
  <2>4. QED
    BY <1>1, <1>3, <2>3
<1>7. CASE i <= Len(s) /\ j > Len(s)
  <2>1. i \in DOMAIN s /\ j - Len(s) \in DOMAIN t
    BY <1>1, <1>3, <1>7
  <2>2. QED
    BY <2>1, <1>1, <1>2, <1>3, <1>4, <1>7
<1>8. CASE i > Len(s) /\ j <= Len(s)
  <2>1. j \in DOMAIN s /\ i - Len(s) \in DOMAIN t
    BY <1>1, <1>3, <1>8
  <2>2. QED
    BY <2>1, <1>1, <1>2, <1>3, <1>4, <1>8
<1>9. QED
  BY <1>1, <1>3, <1>5, <1>6, <1>7, <1>8

LEMMA KeptTyped ==
  ASSUME NEW seq \in Seq(Lines)
  PROVE  /\ Kept(seq) \in Seq(Lines)
         /\ Len(Kept(seq)) <= RingMax
         /\ Len(Kept(seq)) < RingMax => Kept(seq) = seq
<1>1. Len(seq) \in Nat /\ RingMax \in Nat
  BY ConsoleAssumption
<1> DEFINE m == Len(seq) - RingMax + 1
           new == SubSeq(seq, m, Len(seq))
<1>2. CASE Len(seq) > RingMax
  <2>1. m \in 1..(Len(seq) + 1) /\ m \in Int
    BY <1>1, <1>2
  <2>2. \A i \in m..Len(seq) : seq[i] \in Lines
    BY <1>1, <2>1
  <2> HIDE DEF m
  <2>3. new \in Seq(Lines) /\ Len(new) = IF m <= Len(seq) THEN Len(seq) - m + 1 ELSE 0
    BY <1>1, <2>1, <2>2, SubSeqProperties
  <2>4. Len(new) = RingMax
    BY <1>1, <1>2, <2>3 DEF m
  <2>5. Kept(seq) = new
    BY <1>2 DEF Kept, m
  <2> HIDE DEF new
  <2>6. QED
    BY <1>1, <2>3, <2>4, <2>5
<1>3. CASE ~(Len(seq) > RingMax)
  BY <1>1, <1>3 DEF Kept
<1>4. QED
  BY <1>2, <1>3

----------------------------------------------------------------------------
(* Types.                                                                  *)

(* A session that runs, or whose unfinished line is awaited, was started.  *)
SessionInv == session <= started /\ (reqPc = "drain" => started # 0)

TypeInv == TypeOK /\ SessionInv

LEMMA InitTyped == Init => TypeInv
<1> SUFFICES ASSUME Init PROVE TypeInv
  OBVIOUS
<1>1. <<>> \in Seq(Lines) /\ <<>> \in Seq(Sessions) /\ Len(<<>>) = 0
  BY EmptySeq
<1>2. QED
  BY <1>1, Numbers, ConsoleAssumption
  DEF Init, TypeInv, TypeOK, SessionInv, FlushPcs, Ops, None

LEMMA CancelledTyped ==
  ASSUME NEW pcs \in [Flushers -> FlushPcs]
  PROVE  /\ Cancelled(pcs) \in [Flushers -> FlushPcs]
         /\ \A t \in Flushers : Cancelled(pcs)[t] \in {pcs[t], "none"}
         /\ \A t \in Flushers : t # timer \/ pcs[t] # "armed" => Cancelled(pcs)[t] = pcs[t]
         /\ timer \in Flushers \ {None} => Cancelled(pcs)[timer] # "armed"
  BY DEF Cancelled, FlushPcs

LEMMA FeedTyped ==
  ASSUME TypeInv, NEW s \in Sessions, Feed(s)
  PROVE  /\ pending' \in Seq(Lines) /\ timer' \in Flushers
         /\ flushPc' \in [Flushers -> FlushPcs]
         /\ src' \in Seq(Sessions) /\ Len(src') <= MaxLines
         /\ Len(src') = Len(src) + 1 /\ Len(src') \in Lines
         /\ UNCHANGED <<batch, ring, live, raced>>
<1>1. Len(src) \in Nat
  BY DEF TypeInv, TypeOK
<1>2. Len(src) + 1 \in Lines
  BY <1>1, ConsoleAssumption DEF Feed, Lines
<1>3. src' \in Seq(Sessions) /\ Len(src') = Len(src) + 1
  BY AppendProperties DEF Feed, TypeInv, TypeOK
<1>4. pending' \in Seq(Lines)
  BY <1>2, AppendProperties DEF Feed, Queued, TypeInv, TypeOK
<1>5. timer' \in Flushers /\ flushPc' \in [Flushers -> FlushPcs]
  BY <1>2, Numbers DEF Feed, FlushPcs, TypeInv, TypeOK
<1>6. QED
  BY <1>1, <1>2, <1>3, <1>4, <1>5, ConsoleAssumption DEF Feed, Lines

LEMMA RequestStepTyped ==
  ASSUME TypeInv, RequestStep
  PROVE  TypeInv'
<1> USE DEF TypeInv
<1>1. CASE DrainLine
  <2>1. started \in Sessions
    BY <1>1, ConsoleAssumption DEF DrainLine, SessionInv, TypeOK, Sessions
  <2>2. CASE Feed(started)
    BY <1>1, <2>1, <2>2, FeedTyped DEF DrainLine, TypeOK, SessionInv, worker
  <2>3. CASE UNCHANGED <<batcher, flushes, ring, src, live, raced>>
    BY <1>1, <2>3 DEF DrainLine, TypeOK, SessionInv, worker, batcher, flushes
  <2>4. QED
    BY <1>1, <2>2, <2>3 DEF DrainLine
<1>2. CASE Return
  BY <1>2 DEF Return, TypeOK, SessionInv, batcher, flushes
<1>3. CASE CallFlush
  BY <1>3, Numbers DEF CallFlush, TypeOK, SessionInv, worker, batcher, FlushPcs
<1>4. CASE ClearRing
  <2>1. ring' \in Seq(Lines) /\ Len(ring') <= RingMax
    BY <1>4, EmptySeq, ConsoleAssumption DEF ClearRing, RingAtOpen
  <2>2. QED
    BY <1>4, <2>1 DEF ClearRing, TypeOK, SessionInv, worker, batcher, flushes
<1>5. CASE StartSession
  <2>1. started' \in Sessions /\ started' \in 0..MaxSessions /\ session' = started'
    BY <1>5, ConsoleAssumption DEF StartSession, TypeOK, Sessions
  <2>2. QED
    BY <1>5, <2>1 DEF StartSession, TypeOK, SessionInv, batcher, flushes
<1>6. CASE StartFails
  BY <1>6 DEF StartFails, TypeOK, SessionInv, batcher, flushes
<1>7. CASE Reset
  <2>1. flushPc' \in [Flushers -> FlushPcs]
    BY <1>7, CancelledTyped DEF Reset, TypeOK
  <2>2. QED
    BY <1>7, <2>1, EmptySeq, Numbers DEF Reset, TypeOK, SessionInv, worker
<1>8. QED
  BY <1>1, <1>2, <1>3, <1>4, <1>5, <1>6, <1>7 DEF RequestStep

LEMMA FlushStepTyped ==
  ASSUME TypeInv, NEW t \in Flushers, FlushStep(t)
  PROVE  TypeInv'
<1> USE DEF TypeInv
<1>1. CASE TimerWakes(t)
  BY <1>1 DEF TimerWakes, TypeOK, SessionInv, worker, batcher, request, FlushPcs
<1>2. CASE TakeBatch(t)
  <2>1. flushPc' \in [Flushers -> FlushPcs]
    <3>1. [flushPc EXCEPT ![t] = AfterTake] \in [Flushers -> FlushPcs]
      BY DEF AfterTake, FlushPcs, TypeOK
    <3>2. QED
      BY <1>2, <3>1, CancelledTyped DEF TakeBatch
  <2>2. batch' \in [Flushers -> Seq(Lines)] /\ pending' \in Seq(Lines) /\ timer' \in Flushers
    BY <1>2, EmptySeq, Numbers DEF TakeBatch, Remaining, TimerAfterFlush, TypeOK
  <2>3. QED
    BY <1>2, <2>1, <2>2 DEF TakeBatch, TypeOK, SessionInv, worker, request
<1>3. CASE Observe(t)
  <2>1. ring \o batch[t] \in Seq(Lines)
    BY ConcatProperties DEF TypeOK
  <2>2. ring' \in Seq(Lines) /\ Len(ring') <= RingMax
    BY <1>3, <2>1, KeptTyped DEF Observe
  <2>3. flushPc' \in [Flushers -> FlushPcs]
    BY <1>3 DEF Observe, FlushPcs, TypeOK
  <2>4. QED
    BY <1>3, <2>2, <2>3 DEF Observe, TypeOK, SessionInv, worker, batcher, request
<1>4. CASE Send(t)
  <2>1. live' \in Seq(Lines)
    BY <1>4, ConcatProperties DEF Send, TypeOK
  <2>2. batch' \in [Flushers -> Seq(Lines)] /\ flushPc' \in [Flushers -> FlushPcs]
    BY <1>4, EmptySeq DEF Send, FlushPcs, TypeOK
  <2>3. QED
    BY <1>4, <2>1, <2>2 DEF Send, TypeOK, SessionInv, worker, batcher, request
<1>5. QED
  BY <1>1, <1>2, <1>3, <1>4 DEF FlushStep

LEMMA TypeStep == TypeInv /\ [Next]_vars => TypeInv'
<1> SUFFICES ASSUME TypeInv, [Next]_vars PROVE TypeInv'
  OBVIOUS
<1>1. CASE ReadLine
  <2>1. session \in Sessions
    BY <1>1 DEF ReadLine, TypeInv, TypeOK
  <2>2. QED
    BY <1>1, <2>1, FeedTyped DEF ReadLine, TypeInv, TypeOK, SessionInv, worker, request
<1>2. ASSUME NEW op \in Ops, EndSession(op) PROVE TypeInv'
  <2>1. session # None => started # 0
    BY ConsoleAssumption DEF TypeInv, TypeOK, SessionInv, None, Sessions
  <2>2. None <= started
    BY ConsoleAssumption DEF TypeInv, TypeOK, None
  <2>3. QED
    BY <1>2, <2>1, <2>2 DEF EndSession, TypeInv, TypeOK, SessionInv, batcher, flushes
<1>3. CASE RequestStep
  BY <1>3, RequestStepTyped
<1>4. ASSUME NEW t \in Flushers, FlushStep(t) PROVE TypeInv'
  BY <1>4, FlushStepTyped
<1>5. CASE UNCHANGED vars
  BY <1>5 DEF vars, worker, batcher, flushes, request, TypeInv, TypeOK, SessionInv
<1>6. QED
  BY <1>1, <1>2, <1>3, <1>4, <1>5 DEF Next

(* Every variable of the console path holds a value of its kind.           *)
THEOREM ConsoleTyped == Spec => []TypeOK
<1>1. Spec => []TypeInv
  BY InitTyped, TypeStep, PTL DEF Spec
<1>2. TypeInv => TypeOK
  BY DEF TypeInv
<1>3. QED
  BY <1>1, <1>2, PTL

----------------------------------------------------------------------------
(* Timers.                                                                 *)

(* A line numbered beyond the last one has started no timer.               *)
TimersOfLines == \A t \in Flushers : t > Len(src) => t = Request \/ flushPc[t] = "none"

(* The timer the batcher knows of is going to flush.                       *)
TimerRuns == timer # None => timer <= Len(src) /\ flushPc[timer] \in {"armed", "woken"}

(* Only the timer the batcher knows of sleeps.                             *)
OneSleeps == \A t \in Flushers : flushPc[t] = "armed" => t = timer /\ t # None

(* The request flushes where it says so only.                              *)
RequestFlushes == reqPc # "flush" => flushPc[Request] = "none"

TimerInv ==
    /\ TimersOfLines /\ TimerRuns /\ OneSleeps /\ RequestFlushes
    /\ pending # <<>> => timer # None

LEMMA InitTimer == Init => TimerInv
  BY Numbers DEF Init, TimerInv, TimersOfLines, TimerRuns, OneSleeps, RequestFlushes

LEMMA TimerUntouched ==
  ASSUME TimerInv, UNCHANGED <<pending, timer, flushPc, src>>,
         reqPc' # "flush" => flushPc[Request] = "none"
  PROVE  TimerInv'
  BY DEF TimerInv, TimersOfLines, TimerRuns, OneSleeps, RequestFlushes

LEMMA FeedTimer ==
  ASSUME TypeInv, TimerInv, NEW s \in Sessions, Feed(s), reqPc' # "flush" => reqPc # "flush"
  PROVE  TimerInv'
<1>1. Len(src) \in Nat /\ Len(src') = Len(src) + 1 /\ Len(src') \in Lines
  BY FeedTyped DEF TypeInv, TypeOK
<1> DEFINE n == Len(src')
<1>2. n \in Flushers /\ n # Request /\ n # None /\ flushPc[n] = "none"
  BY <1>1, Numbers DEF TimerInv, TimersOfLines, Lines, Request, None
<1>3. CASE NeedsTimer
  <2>1. timer' = n /\ flushPc' = [flushPc EXCEPT ![n] = "armed"]
    BY <1>1, <1>3 DEF Feed
  <2>2. \A t \in Flushers : flushPc[t] # "armed"
    BY <1>3 DEF NeedsTimer, TimerInv, OneSleeps
  <2>3. \A t \in Flushers : flushPc'[t] = IF t = n THEN "armed" ELSE flushPc[t]
    BY <2>1 DEF TypeInv, TypeOK
  <2> HIDE DEF n
  <2>4. TimersOfLines'
    BY <1>1, <2>3, Numbers DEF TimerInv, TimersOfLines, n
  <2>5. TimerRuns'
    BY <1>1, <1>2, <2>1, <2>3 DEF TimerRuns, n, Lines
  <2>6. OneSleeps'
    BY <1>2, <2>1, <2>2, <2>3 DEF OneSleeps
  <2>7. RequestFlushes'
    BY <1>2, <2>3, Numbers DEF TimerInv, RequestFlushes
  <2>8. QED
    BY <1>2, <2>1, <2>4, <2>5, <2>6, <2>7 DEF TimerInv
<1>4. CASE ~NeedsTimer
  <2>1. UNCHANGED <<timer, flushPc>>
    BY <1>4 DEF Feed
  <2>2. TimersOfLines'
    BY <1>1, <2>1, Numbers DEF TimerInv, TimersOfLines
  <2>3. TimerRuns'
    BY <1>1, <2>1, Numbers DEF TimerInv, TimerRuns, TypeInv, TypeOK
  <2>4. OneSleeps' /\ RequestFlushes'
    BY <2>1 DEF TimerInv, OneSleeps, RequestFlushes
  <2>5. QED
    BY <1>4, <2>1, <2>2, <2>3, <2>4 DEF TimerInv, NeedsTimer
<1>5. QED
  BY <1>3, <1>4

LEMMA CancelledTimer ==
  ASSUME TypeInv, TimerInv, NEW pcs \in [Flushers -> FlushPcs],
         \A t \in Flushers : pcs[t] = "armed" => flushPc[t] = "armed"
  PROVE  \A t \in Flushers : Cancelled(pcs)[t] # "armed"
  BY CancelledTyped DEF TimerInv, OneSleeps, TypeInv, TypeOK, Cancelled

LEMMA RequestStepTimer ==
  ASSUME TypeInv, TimerInv, RequestStep
  PROVE  TimerInv'
<1>1. CASE DrainLine
  <2>1. started \in Sessions
    BY <1>1, ConsoleAssumption DEF DrainLine, TypeInv, SessionInv, TypeOK, Sessions
  <2>2. CASE Feed(started)
    BY <1>1, <2>1, <2>2, FeedTimer DEF DrainLine
  <2>3. CASE UNCHANGED <<batcher, flushes, ring, src, live, raced>>
    BY <1>1, <2>3, TimerUntouched DEF DrainLine, batcher, flushes, TimerInv, RequestFlushes
  <2>4. QED
    BY <1>1, <2>2, <2>3 DEF DrainLine
<1>2. CASE Return
  BY <1>2, TimerUntouched DEF Return, batcher, flushes, TimerInv, RequestFlushes
<1>3. CASE CallFlush
  <2>1. \A t \in Flushers : flushPc'[t] = IF t = Request THEN "woken" ELSE flushPc[t]
    BY <1>3 DEF CallFlush, TypeInv, TypeOK
  <2>2. UNCHANGED <<pending, timer, src>> /\ reqPc' = "flush"
    BY <1>3 DEF CallFlush, batcher
  <2>3. QED
    BY <2>1, <2>2, Numbers
    DEF TimerInv, TimersOfLines, TimerRuns, OneSleeps, RequestFlushes, TypeInv, TypeOK, None, Request
<1>4. CASE ClearRing
  BY <1>4, TimerUntouched DEF ClearRing, Flushed, Flushes, batcher, flushes
<1>5. CASE StartSession
  BY <1>5, TimerUntouched
  DEF StartSession, MayStart, batcher, flushes, TimerInv, RequestFlushes
<1>6. CASE StartFails
  BY <1>6, TimerUntouched
  DEF StartFails, MayStart, batcher, flushes, TimerInv, RequestFlushes
<1>7. CASE Reset
  <2>1. \A t \in Flushers : flushPc'[t] \in {flushPc[t], "none"}
    BY <1>7, CancelledTyped DEF Reset, TypeInv, TypeOK
  <2>2. \A t \in Flushers : flushPc'[t] # "armed"
    BY <1>7, CancelledTimer DEF Reset, TypeInv, TypeOK
  <2>3. flushPc[Request] = "none" /\ UNCHANGED src /\ timer' = None /\ pending' = <<>>
    BY <1>7 DEF Reset, Flushed, Flushes
  <2>4. QED
    BY <2>1, <2>2, <2>3, Numbers DEF TimerInv, TimersOfLines, TimerRuns, OneSleeps, RequestFlushes
<1>8. QED
  BY <1>1, <1>2, <1>3, <1>4, <1>5, <1>6, <1>7 DEF RequestStep

LEMMA FlushStepTimer ==
  ASSUME TypeInv, TimerInv, NEW t \in Flushers, FlushStep(t)
  PROVE  TimerInv'
<1> flushPc[t] # "none" /\ UNCHANGED <<src, reqPc>>
  BY DEF FlushStep, TimerWakes, TakeBatch, Observe, Send, request
<1>1. CASE TimerWakes(t)
  <2>1. \A u \in Flushers : flushPc'[u] = IF u = t THEN "woken" ELSE flushPc[u]
    BY <1>1 DEF TimerWakes, TypeInv, TypeOK
  <2>2. UNCHANGED <<pending, timer>>
    BY <1>1 DEF TimerWakes, batcher
  <2>3. QED
    BY <2>1, <2>2, <1>1, Numbers
    DEF TimerWakes, TimerInv, TimersOfLines, TimerRuns, OneSleeps, RequestFlushes, TypeInv, TypeOK
<1>2. CASE TakeBatch(t)
  <2> DEFINE pcs == [flushPc EXCEPT ![t] = AfterTake]
  <2>1. pcs \in [Flushers -> FlushPcs] /\ AfterTake # "armed"
    BY DEF AfterTake, FlushPcs, TypeInv, TypeOK
  <2>2. \A u \in Flushers : flushPc'[u] \in {pcs[u], "none"} /\ flushPc'[u] # "armed"
    <3>1. \A u \in Flushers : pcs[u] = "armed" => flushPc[u] = "armed"
      BY <2>1 DEF TypeInv, TypeOK
    <3> HIDE DEF pcs
    <3>2. flushPc' = Cancelled(pcs)
      BY <1>2 DEF TakeBatch, pcs
    <3>3. QED
      BY <2>1, <3>1, <3>2, CancelledTyped, CancelledTimer
  <2>3. \A u \in Flushers \ {t} : pcs[u] = flushPc[u]
    BY DEF TypeInv, TypeOK
  <2>4. timer' = None /\ pending' = <<>>
    BY <1>2 DEF TakeBatch, TimerAfterFlush, Remaining
  <2> HIDE DEF pcs
  <2>5. QED
    BY <2>2, <2>3, <2>4, Numbers DEF TimerInv, TimersOfLines, TimerRuns, OneSleeps, RequestFlushes
<1>3. CASE Observe(t)
  <2>1. \A u \in Flushers : flushPc'[u] = IF u = t THEN "send" ELSE flushPc[u]
    BY <1>3 DEF Observe, TypeInv, TypeOK
  <2>2. UNCHANGED <<pending, timer>> /\ flushPc[t] = "ring"
    BY <1>3 DEF Observe, batcher
  <2>3. QED
    BY <2>1, <2>2, Numbers
    DEF TimerInv, TimersOfLines, TimerRuns, OneSleeps, RequestFlushes, TypeInv, TypeOK
<1>4. CASE Send(t)
  <2>1. \A u \in Flushers : flushPc'[u] = IF u = t THEN "none" ELSE flushPc[u]
    BY <1>4 DEF Send, TypeInv, TypeOK
  <2>2. UNCHANGED <<pending, timer>> /\ flushPc[t] = "send"
    BY <1>4 DEF Send, batcher
  <2>3. QED
    BY <2>1, <2>2, Numbers
    DEF TimerInv, TimersOfLines, TimerRuns, OneSleeps, RequestFlushes, TypeInv, TypeOK
<1>5. QED
  BY <1>1, <1>2, <1>3, <1>4 DEF FlushStep

LEMMA TimerStep == TypeInv /\ TimerInv /\ [Next]_vars => TimerInv'
<1> SUFFICES ASSUME TypeInv, TimerInv, [Next]_vars PROVE TimerInv'
  OBVIOUS
<1>1. CASE ReadLine
  <2>1. session \in Sessions
    BY <1>1 DEF ReadLine, TypeInv, TypeOK
  <2>2. QED
    BY <1>1, <2>1, FeedTimer DEF ReadLine, request
<1>2. ASSUME NEW op \in Ops, EndSession(op) PROVE TimerInv'
  BY <1>2, TimerUntouched DEF EndSession, batcher, flushes, TimerInv, RequestFlushes
<1>3. CASE RequestStep
  BY <1>3, RequestStepTimer
<1>4. ASSUME NEW t \in Flushers, FlushStep(t) PROVE TimerInv'
  BY <1>4, FlushStepTimer
<1>5. CASE UNCHANGED vars
  BY <1>5, TimerUntouched DEF vars, batcher, flushes, request, TimerInv, RequestFlushes
<1>6. QED
  BY <1>1, <1>2, <1>3, <1>4, <1>5 DEF Next

(* Lines that wait in the batcher always have a timer that is going to     *)
(* flush them: no order of feeds, late timers and requests strands them.   *)
THEOREM BatchesHaveTimers == Spec => []BatchWaits
<1>1. Init => TypeInv /\ TimerInv
  BY InitTyped, InitTimer
<1>2. TypeInv /\ TimerInv /\ [Next]_vars => (TypeInv /\ TimerInv)'
  BY TypeStep, TimerStep
<1>3. TypeInv /\ TimerInv => BatchWaits
  BY DEF TimerInv, TimerRuns, BatchWaits
<1>4. QED
  BY <1>1, <1>2, <1>3, PTL DEF Spec

(* A timer the batcher has forgotten is not asleep: it has been cancelled, *)
(* or has woken up before it could be.                                     *)
THEOREM TimersAreKnown == Spec => []NoStrayTimer
<1>1. Init => TypeInv /\ TimerInv
  BY InitTyped, InitTimer
<1>2. TypeInv /\ TimerInv /\ [Next]_vars => (TypeInv /\ TimerInv)'
  BY TypeStep, TimerStep
<1>3. TypeInv /\ TimerInv => NoStrayTimer
  BY DEF TimerInv, OneSleeps, NoStrayTimer
<1>4. QED
  BY <1>1, <1>2, <1>3, PTL DEF Spec

----------------------------------------------------------------------------
(* The places of a line.                                                   *)

(* A flusher holds lines while it emits them only.                         *)
EmptyHanded == \A t \in Flushers : ~Emitting(t) => batch[t] = <<>>

PlaceInv == EmptyHanded /\ EachLineOnce /\ NoLineLost

LEMMA InitPlace == Init => PlaceInv
<1> SUFFICES ASSUME Init PROVE PlaceInv
  OBVIOUS
<1>1. Distinct(<<>>) /\ DOMAIN <<>> = {}
  BY DEF Distinct
<1>2. EachLineOnce
  BY <1>1, ToSetEmpty DEF Init, EachLineOnce, Disjoint
<1>3. UNION {ToSet(batch[t]) : t \in Flushers} = {}
  BY ToSetEmpty DEF Init
<1>4. NoLineLost
  BY <1>1, <1>3, ToSetEmpty DEF Init, NoLineLost
<1>5. QED
  BY <1>2, <1>4 DEF Init, PlaceInv, EmptyHanded

(* What is held by nobody changes nothing.                                 *)
LEMMA PlaceUntouched ==
  ASSUME PlaceInv, Running, UNCHANGED <<pending, live, batch, src>>,
         \A t \in Flushers : Emitting(t) => Emitting(t)'
  PROVE  PlaceInv'
<1>1. EmptyHanded' /\ EachLineOnce'
  BY DEF PlaceInv, EmptyHanded, EachLineOnce
<1>2. NoLineLost'
  BY DEF PlaceInv, NoLineLost, Running
<1>3. QED
  BY <1>1, <1>2 DEF PlaceInv

(* A line of which the batcher has not heard yet is in none of its places. *)
LEMMA FeedPlace ==
  ASSUME TypeInv, PlaceInv, TimerInv, Running, NEW s \in Sessions, Feed(s)
  PROVE  PlaceInv'
<1> DEFINE n == Len(src) + 1
<1>1. Len(src) \in Nat /\ n \in Lines /\ DOMAIN src = 1..Len(src) /\ DOMAIN src' = 1..n
  BY FeedTyped DEF TypeInv, TypeOK
<1>2. n \notin DOMAIN src /\ DOMAIN src' = DOMAIN src \cup {n}
  BY <1>1
<1>3. pending' = Append(pending, n) /\ UNCHANGED <<batch, live>>
  BY DEF Feed, Queued
<1>4. pending \in Seq(Lines) /\ ToSet(pending') = ToSet(pending) \cup {n}
  BY <1>1, <1>3, ToSetAppend DEF TypeInv, TypeOK
<1>5. DOMAIN src = ToSet(pending) \cup ToSet(live) \cup UNION {ToSet(batch[t]) : t \in Flushers}
  BY DEF PlaceInv, NoLineLost, Running
<1> HIDE DEF n
<1>6. n \notin ToSet(pending) /\ n \notin ToSet(live) /\ \A t \in Flushers : n \notin ToSet(batch[t])
  BY <1>2, <1>5
<1>7. Distinct(pending')
  BY <1>1, <1>3, <1>4, <1>6, DistinctAppend DEF PlaceInv, EachLineOnce
<1>8. EachLineOnce'
  BY <1>3, <1>4, <1>6, <1>7 DEF PlaceInv, EachLineOnce, Disjoint
<1>9. NoLineLost'
  BY <1>2, <1>3, <1>4, <1>5 DEF NoLineLost
<1>10. EmptyHanded'
  <2>1. \A t \in Flushers : Emitting(t) => Emitting(t)'
    <3>1. flushPc[n] = "none" \/ n = Request
      BY <1>1, Numbers DEF TimerInv, TimersOfLines, n
    <3>2. n # Request
      BY <1>1, Numbers DEF Lines, Request
    <3>3. UNCHANGED flushPc \/ flushPc' = [flushPc EXCEPT ![n] = "armed"]
      BY DEF Feed, n
    <3>4. QED
      BY <3>1, <3>2, <3>3 DEF Emitting, TypeInv, TypeOK
  <2>2. QED
    BY <1>3, <2>1 DEF PlaceInv, EmptyHanded
<1>11. QED
  BY <1>8, <1>9, <1>10 DEF PlaceInv

LEMMA RequestStepPlace ==
  ASSUME TypeInv, TimerInv, PlaceInv, RequestStep
  PROVE  PlaceInv'
<1> Running
  BY DEF RequestStep, DrainLine, Return, CallFlush, ClearRing, StartSession, StartFails, Reset
<1>1. CASE DrainLine
  <2>1. started \in Sessions
    BY <1>1, ConsoleAssumption DEF DrainLine, TypeInv, SessionInv, TypeOK, Sessions
  <2>2. CASE Feed(started)
    BY <2>1, <2>2, FeedPlace
  <2>3. CASE UNCHANGED <<batcher, flushes, ring, src, live, raced>>
    BY <2>3, PlaceUntouched DEF batcher, flushes, Emitting
  <2>4. QED
    BY <1>1, <2>2, <2>3 DEF DrainLine
<1>2. CASE Return \/ ClearRing \/ StartSession \/ StartFails
  BY <1>2, PlaceUntouched
  DEF Return, ClearRing, StartSession, StartFails, batcher, flushes, Emitting
<1>3. CASE CallFlush
  <2>1. flushPc[Request] = "none"
    BY <1>3 DEF CallFlush, TimerInv, RequestFlushes
  <2>2. \A t \in Flushers : Emitting(t) => Emitting(t)'
    BY <1>3, <2>1 DEF CallFlush, Emitting, TypeInv, TypeOK
  <2>3. QED
    BY <1>3, <2>2, PlaceUntouched DEF CallFlush, batcher
<1>4. CASE Reset
  <2>1. UNCHANGED <<live, batch>> /\ pending' = <<>> /\ reqPc' = "down"
    BY <1>4 DEF Reset
  <2>2. EachLineOnce'
    BY <2>1, ToSetEmpty DEF PlaceInv, EachLineOnce, Distinct, Disjoint
  <2>3. NoLineLost'
    BY <2>1 DEF NoLineLost
  <2>4. \A t \in Flushers : Emitting(t) => Emitting(t)'
    BY <1>4 DEF Reset, Cancelled, Emitting, TypeInv, TypeOK
  <2>5. QED
    BY <2>1, <2>2, <2>3, <2>4 DEF PlaceInv, EmptyHanded
<1>5. QED
  BY <1>1, <1>2, <1>3, <1>4 DEF RequestStep

(* The lines change hands.                                                 *)
LEMMA TakeBatchPlace ==
  ASSUME TypeInv, PlaceInv, NEW t \in Flushers, TakeBatch(t)
  PROVE  PlaceInv'
<1>1. batch[t] = <<>> /\ ToSet(batch[t]) = {}
  BY ToSetEmpty DEF TakeBatch, PlaceInv, EmptyHanded, Emitting
<1>2. \A u \in Flushers : batch'[u] = IF u = t THEN pending ELSE batch[u]
  BY DEF TakeBatch, TypeInv, TypeOK
<1>3. pending' = <<>> /\ ToSet(pending') = {} /\ Distinct(pending') /\ UNCHANGED <<live, src, reqPc>>
  BY ToSetEmpty DEF TakeBatch, Remaining, Distinct, request
<1>4. EachLineOnce'
  <2>1. Disjoint(pending', live')
    BY <1>3 DEF Disjoint
  <2>2. \A u \in Flushers : Distinct(batch'[u]) /\ Disjoint(batch'[u], live')
    BY <1>2, <1>3 DEF PlaceInv, EachLineOnce, Disjoint
  <2>3. \A u \in Flushers : Disjoint(batch'[u], pending')
    BY <1>3 DEF Disjoint
  <2>4. \A u, v \in Flushers : u # v => Disjoint(batch'[u], batch'[v])
    BY <1>2 DEF PlaceInv, EachLineOnce, Disjoint
  <2>5. QED
    BY <1>3, <2>1, <2>2, <2>3, <2>4 DEF PlaceInv, EachLineOnce
<1>5. NoLineLost'
  <2>1. UNION {ToSet(batch'[u]) : u \in Flushers}
          = ToSet(pending) \cup UNION {ToSet(batch[u]) : u \in Flushers}
    BY <1>1, <1>2
  <2>2. QED
    BY <1>3, <2>1 DEF PlaceInv, NoLineLost
<1>6. EmptyHanded'
  <2>1. \A u \in Flushers \ {t} : Emitting(u) => Emitting(u)'
    BY DEF TakeBatch, Cancelled, Emitting, TypeInv, TypeOK
  <2>2. ~Emitting(t)' => pending = <<>>
    BY DEF TakeBatch, Cancelled, AfterTake, Emitting, TypeInv, TypeOK
  <2>3. QED
    BY <1>2, <2>1, <2>2 DEF PlaceInv, EmptyHanded
<1>7. QED
  BY <1>4, <1>5, <1>6 DEF PlaceInv

LEMMA SendPlace ==
  ASSUME TypeInv, PlaceInv, NEW t \in Flushers, Send(t)
  PROVE  PlaceInv'
<1>1. \A u \in Flushers : batch'[u] = IF u = t THEN <<>> ELSE batch[u]
  BY DEF Send, TypeInv, TypeOK
<1>2. live' = live \o batch[t] /\ UNCHANGED <<pending, src, reqPc>>
  BY DEF Send, batcher, request
<1>3. ToSet(live') = ToSet(live) \cup ToSet(batch[t])
  BY <1>2, ToSetConcat DEF TypeInv, TypeOK
<1>4. Distinct(live')
  <2>1. Distinct(live) /\ Distinct(batch[t]) /\ Disjoint(live, batch[t])
    BY DEF PlaceInv, EachLineOnce, Disjoint
  <2>2. QED
    BY <1>2, <2>1, DistinctConcat DEF TypeInv, TypeOK
<1>5. EachLineOnce'
  <2>1. Disjoint(pending', live')
    BY <1>2, <1>3 DEF PlaceInv, EachLineOnce, Disjoint
  <2>2. \A u \in Flushers : Distinct(batch'[u]) /\ Disjoint(batch'[u], pending')
    BY <1>1, <1>2, ToSetEmpty DEF PlaceInv, EachLineOnce, Distinct, Disjoint
  <2>3. \A u \in Flushers : Disjoint(batch'[u], live')
    BY <1>1, <1>3, ToSetEmpty DEF PlaceInv, EachLineOnce, Disjoint
  <2>4. \A u, v \in Flushers : u # v => Disjoint(batch'[u], batch'[v])
    BY <1>1, ToSetEmpty DEF PlaceInv, EachLineOnce, Disjoint
  <2>5. QED
    BY <1>2, <1>4, <2>1, <2>2, <2>3, <2>4 DEF PlaceInv, EachLineOnce
<1>6. NoLineLost'
  <2>1. UNION {ToSet(batch[u]) : u \in Flushers}
          = ToSet(batch[t]) \cup UNION {ToSet(batch'[u]) : u \in Flushers}
    BY <1>1, ToSetEmpty
  <2>2. QED
    BY <1>2, <1>3, <2>1 DEF PlaceInv, NoLineLost
<1>7. EmptyHanded'
  <2>1. \A u \in Flushers \ {t} : Emitting(u) => Emitting(u)'
    BY DEF Send, Emitting, TypeInv, TypeOK
  <2>2. QED
    BY <1>1, <2>1 DEF PlaceInv, EmptyHanded
<1>8. QED
  BY <1>5, <1>6, <1>7 DEF PlaceInv

LEMMA PlaceStep == TypeInv /\ TimerInv /\ PlaceInv /\ [Next]_vars => PlaceInv'
<1> SUFFICES ASSUME TypeInv, TimerInv, PlaceInv, [Next]_vars PROVE PlaceInv'
  OBVIOUS
<1>1. CASE ReadLine
  <2>1. session \in Sessions /\ Running
    BY <1>1 DEF ReadLine, TypeInv, TypeOK
  <2>2. QED
    BY <1>1, <2>1, FeedPlace DEF ReadLine
<1>2. ASSUME NEW op \in Ops, EndSession(op) PROVE PlaceInv'
  BY <1>2, PlaceUntouched DEF EndSession, batcher, flushes, Emitting
<1>3. CASE RequestStep
  BY <1>3, RequestStepPlace
<1>4. ASSUME NEW t \in Flushers, TimerWakes(t) \/ Observe(t) PROVE PlaceInv'
  <2>1. \A u \in Flushers : Emitting(u) => Emitting(u)'
    BY <1>4 DEF TimerWakes, Observe, Emitting, TypeInv, TypeOK
  <2>2. QED
    BY <1>4, <2>1, PlaceUntouched DEF TimerWakes, Observe, batcher
<1>5. ASSUME NEW t \in Flushers, TakeBatch(t) PROVE PlaceInv'
  BY <1>5, TakeBatchPlace
<1>6. ASSUME NEW t \in Flushers, Send(t) PROVE PlaceInv'
  BY <1>6, SendPlace
<1>7. CASE UNCHANGED vars
  <2>1. EmptyHanded' /\ EachLineOnce' /\ NoLineLost'
    BY <1>7 DEF vars, batcher, flushes, request, PlaceInv, EmptyHanded, EachLineOnce,
                NoLineLost, Emitting
  <2>2. QED
    BY <2>1 DEF PlaceInv
<1>8. QED
  BY <1>1, <1>2, <1>3, <1>4, <1>5, <1>6, <1>7 DEF Next, FlushStep

LEMMA PlacesKept == Spec => [](TypeInv /\ TimerInv /\ PlaceInv)
<1>1. Init => TypeInv /\ TimerInv /\ PlaceInv
  BY InitTyped, InitTimer, InitPlace
<1>2. TypeInv /\ TimerInv /\ PlaceInv /\ [Next]_vars => (TypeInv /\ TimerInv /\ PlaceInv)'
  BY TypeStep, TimerStep, PlaceStep
<1>3. QED
  BY <1>1, <1>2, PTL DEF Spec

(* However flushes, feeds and requests interleave, until the process ends  *)
(* every line that was fed is in the batcher, in a batch or with the       *)
(* clients.                                                                *)
THEOREM LinesAreKept == Spec => []NoLineLost
<1>1. PlaceInv => NoLineLost
  BY DEF PlaceInv
<1>2. QED
  BY PlacesKept, <1>1, PTL

(* ... and no line goes out twice.                                         *)
THEOREM LinesGoOutOnce == Spec => []EachLineOnce
<1>1. PlaceInv => EachLineOnce
  BY DEF PlaceInv
<1>2. QED
  BY PlacesKept, <1>1, PTL

----------------------------------------------------------------------------
(* The order of the lines.                                                 *)

Increasing(seq) == \A i, j \in DOMAIN seq : i < j => seq[i] < seq[j]
Before(seq1, seq2) == \A m \in ToSet(seq1), n \in ToSet(seq2) : m < n

(* While no flush has been overtaken one flusher emits at a time, and the  *)
(* lines are in order across the three places they pass through.           *)
OneEmits == \A t, u \in Flushers : Emitting(t) /\ Emitting(u) => t = u

InOrder ==
    /\ Increasing(pending) /\ Increasing(live) /\ Before(live, pending)
    /\ \A t \in Flushers :
          Increasing(batch[t]) /\ Before(live, batch[t]) /\ Before(batch[t], pending)

OrderInv == ~raced => OneEmits /\ InOrder

LEMMA IncreasingConcat ==
  ASSUME NEW s \in Seq(Lines), NEW t \in Seq(Lines),
         Increasing(s), Increasing(t), Before(s, t)
  PROVE  Increasing(s \o t)
<1> DEFINE c == s \o t
<1>1. c \in Seq(Lines) /\ Len(c) = Len(s) + Len(t) /\ Len(s) \in Nat /\ Len(t) \in Nat
  BY ConcatProperties
<1>2. \A i \in 1..Len(c) : c[i] = IF i <= Len(s) THEN s[i] ELSE t[i - Len(s)]
  BY ConcatProperties
<1>3. DOMAIN c = 1..Len(c) /\ DOMAIN s = 1..Len(s) /\ DOMAIN t = 1..Len(t)
  BY <1>1
<1> HIDE DEF c
<1>4. \A i \in DOMAIN s, j \in DOMAIN t : s[i] < t[j]
  BY DEF Before, ToSet
<1> SUFFICES ASSUME NEW i \in DOMAIN c, NEW j \in DOMAIN c, i < j PROVE c[i] < c[j]
  BY DEF Increasing, c
<1>5. CASE j <= Len(s)
  <2>1. i \in DOMAIN s /\ j \in DOMAIN s /\ c[i] = s[i] /\ c[j] = s[j]
    BY <1>1, <1>2, <1>3, <1>5
  <2>2. QED
    BY <2>1 DEF Increasing
<1>6. CASE i > Len(s)
  <2>1. i - Len(s) \in DOMAIN t /\ j - Len(s) \in DOMAIN t /\ i - Len(s) < j - Len(s)
    BY <1>1, <1>3, <1>6
  <2>2. c[i] = t[i - Len(s)] /\ c[j] = t[j - Len(s)]
    BY <1>1, <1>2, <1>3, <1>6
  <2>3. QED
    BY <2>1, <2>2 DEF Increasing
<1>7. CASE i <= Len(s) /\ j > Len(s)
  <2>1. i \in DOMAIN s /\ c[i] = s[i]
    BY <1>1, <1>2, <1>3, <1>7
  <2>2. j - Len(s) \in DOMAIN t /\ c[j] = t[j - Len(s)]
    BY <1>1, <1>2, <1>3, <1>7
  <2>3. QED
    BY <2>1, <2>2, <1>4
<1>8. QED
  BY <1>1, <1>3, <1>5, <1>6, <1>7

LEMMA IncreasingAppend ==
  ASSUME NEW s \in Seq(Lines), NEW n \in Lines, Increasing(s), \A m \in ToSet(s) : m < n
  PROVE  Increasing(Append(s, n))
<1>1. Len(Append(s, n)) = Len(s) + 1 /\ Len(s) \in Nat
  BY AppendProperties
<1>2. DOMAIN Append(s, n) = 1..(Len(s) + 1) /\ DOMAIN s = 1..Len(s)
  BY <1>1, AppendProperties
<1>3. \A i \in 1..Len(s) : Append(s, n)[i] = s[i] /\ s[i] < n
  BY <1>2, AppendProperties DEF ToSet
<1>4. Append(s, n)[Len(s) + 1] = n
  BY AppendProperties
<1>5. QED
  BY <1>1, <1>2, <1>3, <1>4 DEF Increasing

LEMMA InitOrder == Init => OrderInv
<1> SUFFICES ASSUME Init PROVE OrderInv
  OBVIOUS
<1>1. Increasing(<<>>) /\ Before(<<>>, <<>>)
  BY ToSetEmpty DEF Increasing, Before
<1>2. QED
  BY <1>1 DEF Init, OrderInv, OneEmits, InOrder, Emitting

LEMMA OrderUntouched ==
  ASSUME OrderInv, UNCHANGED <<pending, live, batch>>, raced => raced',
         \A t \in Flushers : Emitting(t)' => Emitting(t)
  PROVE  OrderInv'
  BY DEF OrderInv, OneEmits, InOrder

LEMMA FeedOrder ==
  ASSUME TypeInv, PlaceInv, OrderInv, Running, NEW s \in Sessions, Feed(s)
  PROVE  OrderInv'
<1> SUFFICES ASSUME ~raced' PROVE OneEmits' /\ InOrder'
  BY DEF OrderInv
<1> ~raced
  BY DEF Feed
<1> DEFINE n == Len(src) + 1
<1>1. Len(src) \in Nat /\ n \in Lines /\ DOMAIN src = 1..Len(src)
  BY FeedTyped DEF TypeInv, TypeOK
<1>2. pending' = Append(pending, n) /\ UNCHANGED <<batch, live>>
  BY DEF Feed, Queued
<1>3. \A m \in DOMAIN src : m < n
  BY <1>1
<1>4. UNCHANGED flushPc \/ flushPc' = [flushPc EXCEPT ![n] = "armed"]
  BY DEF Feed
<1> HIDE DEF n
<1>5. DOMAIN src = ToSet(pending) \cup ToSet(live) \cup UNION {ToSet(batch[t]) : t \in Flushers}
  BY DEF PlaceInv, NoLineLost, Running
<1>6. ToSet(pending') = ToSet(pending) \cup {n}
  BY <1>1, <1>2, ToSetAppend DEF TypeInv, TypeOK
<1>7. Increasing(pending')
  BY <1>1, <1>2, <1>3, <1>5, IncreasingAppend DEF TypeInv, TypeOK, OrderInv, InOrder
<1>8. Before(live', pending')
  BY <1>2, <1>3, <1>5, <1>6 DEF OrderInv, InOrder, Before
<1>9. \A t \in Flushers : Before(batch'[t], pending')
  BY <1>2, <1>3, <1>5, <1>6 DEF OrderInv, InOrder, Before
<1>10. InOrder'
  BY <1>2, <1>7, <1>8, <1>9 DEF OrderInv, InOrder
<1>11. OneEmits'
  BY <1>4 DEF OrderInv, OneEmits, Emitting, TypeInv, TypeOK
<1>12. QED
  BY <1>10, <1>11

LEMMA TakeBatchOrder ==
  ASSUME TypeInv, PlaceInv, OrderInv, NEW t \in Flushers, TakeBatch(t)
  PROVE  OrderInv'
<1> SUFFICES ASSUME ~raced' PROVE OneEmits' /\ InOrder'
  BY DEF OrderInv
<1>1. ~raced /\ (pending = <<>> \/ ~SomeEmitting)
  BY DEF TakeBatch
<1>2. \A u \in Flushers : batch'[u] = IF u = t THEN pending ELSE batch[u]
  BY DEF TakeBatch, TypeInv, TypeOK
<1>3. pending' = <<>> /\ ToSet(pending') = {} /\ Increasing(pending') /\ UNCHANGED live
  BY ToSetEmpty DEF TakeBatch, Remaining, Increasing
<1>4. InOrder'
  BY <1>1, <1>2, <1>3 DEF OrderInv, InOrder, Before
<1>5. OneEmits'
  <2>1. \A u \in Flushers \ {t} : Emitting(u)' => Emitting(u)
    BY DEF TakeBatch, Cancelled, Emitting, TypeInv, TypeOK
  <2>2. Emitting(t)' => pending # <<>>
    BY DEF TakeBatch, Cancelled, AfterTake, Emitting, TypeInv, TypeOK
  <2>3. QED
    BY <1>1, <2>1, <2>2 DEF OrderInv, OneEmits, SomeEmitting
<1>6. QED
  BY <1>4, <1>5

LEMMA SendOrder ==
  ASSUME TypeInv, PlaceInv, OrderInv, NEW t \in Flushers, Send(t)
  PROVE  OrderInv'
<1> SUFFICES ASSUME ~raced' PROVE OneEmits' /\ InOrder'
  BY DEF OrderInv
<1>1. ~raced /\ Emitting(t)
  BY DEF Send, Emitting
<1>2. \A u \in Flushers : batch'[u] = IF u = t THEN <<>> ELSE batch[u]
  BY DEF Send, TypeInv, TypeOK
<1>3. \A u \in Flushers : batch'[u] = <<>>
  BY <1>1, <1>2 DEF OrderInv, OneEmits, PlaceInv, EmptyHanded
<1>4. live' = live \o batch[t] /\ UNCHANGED pending
  BY DEF Send, batcher
<1>5. ToSet(live') = ToSet(live) \cup ToSet(batch[t])
  BY <1>4, ToSetConcat DEF TypeInv, TypeOK
<1>6. Increasing(live')
  BY <1>1, <1>4, IncreasingConcat DEF OrderInv, InOrder, TypeInv, TypeOK
<1>7. Before(live', pending')
  BY <1>1, <1>4, <1>5 DEF OrderInv, InOrder, Before
<1>8. InOrder'
  <2>1. \A u \in Flushers : Increasing(batch'[u])
    BY <1>3 DEF Increasing
  <2>2. \A u \in Flushers : Before(live', batch'[u]) /\ Before(batch'[u], pending')
    BY <1>3, ToSetEmpty DEF Before
  <2>3. QED
    BY <1>1, <1>4, <1>6, <1>7, <2>1, <2>2 DEF OrderInv, InOrder
<1>9. OneEmits'
  <2>1. \A u \in Flushers : Emitting(u)' => Emitting(u)
    BY DEF Send, Emitting, TypeInv, TypeOK
  <2>2. QED
    BY <1>1, <2>1 DEF OrderInv, OneEmits
<1>10. QED
  BY <1>8, <1>9

LEMMA OrderStep == TypeInv /\ TimerInv /\ PlaceInv /\ OrderInv /\ [Next]_vars => OrderInv'
<1> SUFFICES ASSUME TypeInv, TimerInv, PlaceInv, OrderInv, [Next]_vars PROVE OrderInv'
  OBVIOUS
<1>1. CASE ReadLine
  <2>1. session \in Sessions /\ Running
    BY <1>1 DEF ReadLine, TypeInv, TypeOK
  <2>2. QED
    BY <1>1, <2>1, FeedOrder DEF ReadLine
<1>2. ASSUME NEW op \in Ops, EndSession(op) PROVE OrderInv'
  BY <1>2, OrderUntouched DEF EndSession, batcher, flushes, Emitting
<1>3. CASE DrainLine
  <2>1. started \in Sessions /\ Running
    BY <1>3, ConsoleAssumption DEF DrainLine, TypeInv, SessionInv, TypeOK, Sessions
  <2>2. CASE Feed(started)
    BY <2>1, <2>2, FeedOrder
  <2>3. CASE UNCHANGED <<batcher, flushes, ring, src, live, raced>>
    BY <2>3, OrderUntouched DEF batcher, flushes, Emitting
  <2>4. QED
    BY <1>3, <2>2, <2>3 DEF DrainLine
<1>4. CASE Return \/ ClearRing \/ StartSession \/ StartFails
  <2>1. UNCHANGED <<pending, flushPc, batch, live>>
    BY <1>4 DEF Return, ClearRing, StartSession, StartFails, batcher, flushes
  <2>2. raced => raced'
    BY <1>4, Zenon DEF Return, ClearRing, StartSession, StartFails
  <2>3. QED
    BY <2>1, <2>2, OrderUntouched DEF Emitting
<1>5. CASE CallFlush
  <2>1. \A t \in Flushers : Emitting(t)' => Emitting(t)
    BY <1>5 DEF CallFlush, Emitting, TypeInv, TypeOK
  <2>2. QED
    BY <1>5, <2>1, OrderUntouched DEF CallFlush, batcher
<1>6. CASE Reset
  <2>1. \A t \in Flushers : Emitting(t)' => Emitting(t)
    BY <1>6 DEF Reset, Cancelled, Emitting, TypeInv, TypeOK
  <2>2. UNCHANGED <<live, batch, raced>> /\ pending' = <<>>
    BY <1>6 DEF Reset
  <2>3. InOrder => InOrder'
    BY <2>2, ToSetEmpty DEF InOrder, Increasing, Before
  <2>4. QED
    BY <2>1, <2>2, <2>3 DEF OrderInv, OneEmits
<1>7. ASSUME NEW t \in Flushers, TimerWakes(t) \/ Observe(t) PROVE OrderInv'
  <2>1. \A u \in Flushers : Emitting(u)' => Emitting(u)
    BY <1>7 DEF TimerWakes, Observe, Emitting, TypeInv, TypeOK
  <2>2. QED
    BY <1>7, <2>1, OrderUntouched DEF TimerWakes, Observe, batcher
<1>8. ASSUME NEW t \in Flushers, TakeBatch(t) PROVE OrderInv'
  BY <1>8, TakeBatchOrder
<1>9. ASSUME NEW t \in Flushers, Send(t) PROVE OrderInv'
  BY <1>9, SendOrder
<1>10. CASE UNCHANGED vars
  BY <1>10, OrderUntouched DEF vars, batcher, flushes, Emitting
<1>11. QED
  BY <1>1, <1>2, <1>3, <1>4, <1>5, <1>6, <1>7, <1>8, <1>9, <1>10 DEF Next, RequestStep, FlushStep

(* Unless a flush was overtaken between the lock and the clients, these    *)
(* get the lines in the order the board sent them.                         *)
THEOREM LinesGoOutInOrder == Spec => []LiveInOrder
<1> DEFINE IInv == TypeInv /\ TimerInv /\ PlaceInv /\ OrderInv
<1>1. Init => IInv
  BY InitTyped, InitTimer, InitPlace, InitOrder
<1>2. IInv /\ [Next]_vars => IInv'
  BY TypeStep, TimerStep, PlaceStep, OrderStep
<1>3. IInv => LiveInOrder
  BY DEF OrderInv, InOrder, Increasing, LiveInOrder
<1>4. QED
  BY <1>1, <1>2, <1>3, PTL DEF Spec

----------------------------------------------------------------------------
(* What a new client is sent.                                              *)

(* The requests: a session runs between them only, and only /open clears   *)
(* the ring.                                                               *)
RequestInv ==
    /\ reqPc # "idle" => session = None /\ released = FALSE
    /\ reqPc = "start" => reqOp = "open"
    /\ \A n \in DOMAIN src : src[n] <= started

(* From the start of a session until the next /open ends it, and through   *)
(* every release and reacquire of it.                                      *)
InSession ==
    session # None \/ released \/ (reqPc # "idle" /\ reqOp \in {"release", "reacquire"})

(* A line that the ring has been shown ("stores first").                   *)
Shown(n) == n \in ToSet(live) \/ \E t \in Flushers : flushPc[t] = "send" /\ n \in ToSet(batch[t])

ShownInRing == \A n \in Lines : Shown(n) /\ src[n] >= fresh => n \in ToSet(ring)

ReplayInv == RequestInv /\ (InSession /\ Len(ring) < RingMax => ShownInRing)

LEMMA ShownAreLines ==
  ASSUME TypeInv, PlaceInv, Running, NEW n, Shown(n)
  PROVE  n \in DOMAIN src /\ n \in Lines
<1>1. n \in DOMAIN src
  BY DEF Shown, PlaceInv, NoLineLost, Running
<1>2. Len(src) \in Nat /\ DOMAIN src = 1..Len(src) /\ Len(src) <= MaxLines
  BY DEF TypeInv, TypeOK
<1>3. QED
  BY <1>1, <1>2, ConsoleAssumption DEF Lines

LEMMA InitReplay == Init => ReplayInv
  BY DEF Init, ReplayInv, RequestInv, InSession

(* Nothing is shown and nothing falls out of the ring.                     *)
LEMMA ShownUntouched ==
  ASSUME TypeInv, PlaceInv, Running, ShownInRing, UNCHANGED ring,
         \A n : Shown(n)' => Shown(n),
         \A n \in DOMAIN src : src'[n] = src[n],
         fresh' = fresh
  PROVE  ShownInRing'
<1>1. \A n : Shown(n) => n \in DOMAIN src /\ n \in Lines
  BY ShownAreLines
<1>2. QED
  BY <1>1 DEF ShownInRing

LEMMA FeedReplay ==
  ASSUME TypeInv, TimerInv, PlaceInv, Running, NEW s \in Sessions, s <= started, Feed(s),
         UNCHANGED <<started, fresh>>,
         \A n \in DOMAIN src : src[n] <= started
  PROVE  /\ \A n \in DOMAIN src' : src'[n] <= started'
         /\ ShownInRing => ShownInRing'
<1> DEFINE m == Len(src) + 1
<1>1. Len(src) \in Nat /\ m \in Lines /\ src' = Append(src, s) /\ src \in Seq(Sessions)
  BY FeedTyped DEF Feed, TypeInv, TypeOK
<1>2. DOMAIN src = 1..Len(src) /\ DOMAIN src' = 1..m
  BY <1>1, FeedTyped
<1>3. \A n \in DOMAIN src : src'[n] = src[n]
  BY <1>1, <1>2, AppendProperties
<1>4. src'[m] = s
  BY <1>1, AppendProperties
<1>5. UNCHANGED flushPc \/ flushPc' = [flushPc EXCEPT ![m] = "armed"]
  BY DEF Feed
<1>6. DOMAIN src' = DOMAIN src \cup {m}
  BY <1>1, <1>2
<1>7. \A n \in DOMAIN src' : src'[n] <= started'
  BY <1>3, <1>4, <1>6
<1>8. \A t \in Flushers : flushPc'[t] = "send" => flushPc[t] = "send"
  BY <1>5 DEF TypeInv, TypeOK
<1>9. \A n : Shown(n)' => Shown(n)
  BY <1>8 DEF Feed, Shown
<1>10. UNCHANGED ring
  BY DEF Feed
<1>11. QED
  BY <1>3, <1>7, <1>9, <1>10, ShownUntouched

LEMMA RequestStepReplay ==
  ASSUME TypeInv, TimerInv, PlaceInv, ReplayInv, RequestStep
  PROVE  ReplayInv'
<1>1. CASE DrainLine
  <2>1. started \in Sessions /\ Running /\ started <= started
    BY <1>1, ConsoleAssumption DEF DrainLine, TypeInv, SessionInv, TypeOK, Sessions
  <2>2. UNCHANGED <<session, started, released, reqOp, fresh>> /\ reqPc = "drain" /\ reqPc' = "closed"
    BY <1>1 DEF DrainLine, worker
  <2>3. InSession' <=> InSession
    BY <2>2 DEF InSession
  <2>4. CASE Feed(started)
    <3>1. (\A n \in DOMAIN src' : src'[n] <= started') /\ (ShownInRing => ShownInRing')
      BY <2>1, <2>2, <2>4, FeedReplay DEF ReplayInv, RequestInv
    <3>2. UNCHANGED ring
      BY <2>4 DEF Feed
    <3>3. QED
      BY <2>2, <2>3, <3>1, <3>2 DEF ReplayInv, RequestInv
  <2>5. CASE UNCHANGED <<batcher, flushes, ring, src, live, raced>>
    <3>1. ShownInRing => ShownInRing'
      BY <2>2, <2>5 DEF ShownInRing, Shown, flushes
    <3>2. QED
      BY <2>2, <2>3, <2>5, <3>1 DEF ReplayInv, RequestInv
  <2>6. QED
    BY <1>1, <2>4, <2>5 DEF DrainLine
<1>2. CASE Return
  <2>1. UNCHANGED <<session, started, flushPc, batch, ring, reqOp, src, live, fresh>>
    BY <1>2 DEF Return, flushes
  <2>2. reqPc = "closed" /\ reqPc' = "idle" /\ released' = (reqOp = "release")
    BY <1>2 DEF Return
  <2>3. InSession' => InSession
    BY <2>1, <2>2 DEF InSession
  <2>4. ShownInRing => ShownInRing'
    BY <2>1 DEF ShownInRing, Shown
  <2>5. QED
    BY <2>1, <2>2, <2>3, <2>4 DEF ReplayInv, RequestInv
<1>3. CASE CallFlush \/ ClearRing \/ Reset
  <2>1. UNCHANGED <<session, released, reqOp, src, started>>
    BY <1>3 DEF CallFlush, ClearRing, Reset, worker
  <2>2. reqPc # "idle" /\ reqOp \in {"open", "shutdown"} /\ (reqPc' = "start" => reqOp = "open")
    BY <1>3 DEF CallFlush, ClearRing, Reset, Flushes, Flushed
  <2>3. ~InSession'
    BY <2>1, <2>2 DEF InSession, ReplayInv, RequestInv
  <2>4. RequestInv'
    BY <2>1, <2>2 DEF ReplayInv, RequestInv
  <2>5. QED
    BY <2>3, <2>4 DEF ReplayInv
<1>4. CASE StartSession
  <2>1. started \in Nat /\ started' = started + 1 /\ session' = started' /\ reqPc' = "idle"
    BY <1>4 DEF StartSession, TypeInv, TypeOK
  <2>2. UNCHANGED <<src, ring, live, flushPc, batch>>
    BY <1>4 DEF StartSession, flushes
  <2>3. \A n \in DOMAIN src : src[n] \in Nat /\ src[n] <= started
    <3>1. \A n \in DOMAIN src : src[n] \in Sessions
      BY DEF TypeInv, TypeOK
    <3>2. QED
      BY <3>1, Numbers DEF ReplayInv, RequestInv
  <2>4. RequestInv'
    BY <2>1, <2>2, <2>3 DEF RequestInv
  <2>5. CASE reqOp = "open"
    <3>1. fresh' = started + 1
      BY <1>4, <2>1, <2>5 DEF StartSession
    <3>2. \A n : Shown(n)' => n \in DOMAIN src
      <4>1. \A n : Shown(n) => n \in DOMAIN src
        BY <1>4, ShownAreLines DEF StartSession
      <4>2. QED
        BY <2>2, <4>1 DEF Shown
    <3>3. ShownInRing'
      BY <2>1, <2>2, <2>3, <3>1, <3>2 DEF ShownInRing
    <3>4. QED
      BY <2>4, <3>3 DEF ReplayInv
  <2>6. CASE reqOp # "open"
    <3>1. fresh' = fresh /\ reqOp = "reacquire" /\ reqPc # "idle"
      BY <1>4, <2>6 DEF StartSession, MayStart, ReplayInv, RequestInv
    <3>2. InSession
      BY <3>1 DEF InSession
    <3>3. ShownInRing => ShownInRing'
      BY <2>2, <3>1 DEF ShownInRing, Shown
    <3>4. QED
      BY <2>2, <2>4, <3>2, <3>3 DEF ReplayInv
  <2>7. QED
    BY <2>5, <2>6
<1>5. CASE StartFails
  <2>1. UNCHANGED <<session, started, flushPc, batch, ring, reqOp, src, live, fresh>>
    BY <1>5 DEF StartFails, flushes
  <2>2. reqPc # "idle" /\ reqPc' = "idle" /\ released' = (reqOp = "reacquire")
    BY <1>5 DEF StartFails, MayStart
  <2>3. InSession' => InSession
    BY <2>1, <2>2 DEF InSession
  <2>4. ShownInRing => ShownInRing'
    BY <2>1 DEF ShownInRing, Shown
  <2>5. QED
    BY <2>1, <2>2, <2>3, <2>4 DEF ReplayInv, RequestInv
<1>6. QED
  BY <1>1, <1>2, <1>3, <1>4, <1>5 DEF RequestStep

LEMMA FlushStepReplay ==
  ASSUME TypeInv, PlaceInv, ReplayInv, NEW t \in Flushers, FlushStep(t)
  PROVE  ReplayInv'
<1> Running /\ UNCHANGED <<worker, request, src, fresh>>
  BY DEF FlushStep, TimerWakes, TakeBatch, Observe, Send
<1>1. RequestInv' /\ (InSession' <=> InSession)
  BY DEF ReplayInv, RequestInv, InSession, worker, request
<1>2. CASE TimerWakes(t) \/ TakeBatch(t)
  <2>1. UNCHANGED <<ring, live>> /\ flushPc[t] # "send"
    BY <1>2 DEF TimerWakes, TakeBatch
  <2>2. \A u \in Flushers : flushPc'[u] = "send" => u # t /\ flushPc[u] = "send"
    BY <1>2 DEF TimerWakes, TakeBatch, Cancelled, AfterTake, TypeInv, TypeOK
  <2>3. \A u \in Flushers \ {t} : batch'[u] = batch[u]
    BY <1>2 DEF TimerWakes, TakeBatch, TypeInv, TypeOK
  <2>4. \A n : Shown(n)' => Shown(n)
    BY <2>1, <2>2, <2>3 DEF Shown
  <2>5. ShownInRing => ShownInRing'
    BY <2>1, <2>4, ShownUntouched
  <2>6. QED
    BY <1>1, <2>1, <2>5 DEF ReplayInv
<1>3. CASE Observe(t)
  <2>1. ring' = Kept(ring \o batch[t]) /\ UNCHANGED <<live, batch>>
    BY <1>3 DEF Observe
  <2>2. ring \o batch[t] \in Seq(Lines) /\ Len(ring \o batch[t]) = Len(ring) + Len(batch[t])
    BY ConcatProperties DEF TypeInv, TypeOK
  <2>3. Len(ring) \in Nat /\ Len(batch[t]) \in Nat
    BY DEF TypeInv, TypeOK
  <2>4. \A u \in Flushers : flushPc'[u] = "send" => u = t \/ flushPc[u] = "send"
    BY <1>3 DEF Observe, TypeInv, TypeOK
  <2>5. ASSUME InSession, Len(ring') < RingMax PROVE ShownInRing'
    <3>1. ring' = ring \o batch[t]
      BY <2>1, <2>2, <2>5, KeptTyped
    <3>2. Len(ring) < RingMax
      BY <2>2, <2>3, <2>5, <3>1, ConsoleAssumption
    <3>3. ToSet(ring') = ToSet(ring) \cup ToSet(batch[t])
      BY <3>1, ToSetConcat DEF TypeInv, TypeOK
    <3>4. \A n : Shown(n)' => Shown(n) \/ n \in ToSet(batch[t])
      BY <2>1, <2>4 DEF Shown
    <3>5. ShownInRing
      BY <2>5, <3>2 DEF ReplayInv
    <3>6. QED
      BY <3>3, <3>4, <3>5 DEF ShownInRing
  <2>6. QED
    BY <1>1, <2>5 DEF ReplayInv
<1>4. CASE Send(t)
  <2>1. live' = live \o batch[t] /\ UNCHANGED ring /\ flushPc[t] = "send"
    BY <1>4 DEF Send
  <2>2. ToSet(live') = ToSet(live) \cup ToSet(batch[t])
    BY <2>1, ToSetConcat DEF TypeInv, TypeOK
  <2>3. \A u \in Flushers : flushPc'[u] = "send" => flushPc[u] = "send" /\ batch'[u] = batch[u]
    BY <1>4 DEF Send, TypeInv, TypeOK
  <2>4. \A n : Shown(n)' => Shown(n)
    BY <2>1, <2>2, <2>3 DEF Shown
  <2>5. ShownInRing => ShownInRing'
    BY <2>1, <2>4, ShownUntouched
  <2>6. QED
    BY <1>1, <2>1, <2>5 DEF ReplayInv
<1>5. QED
  BY <1>2, <1>3, <1>4 DEF FlushStep

LEMMA ReplayStep == TypeInv /\ TimerInv /\ PlaceInv /\ ReplayInv /\ [Next]_vars => ReplayInv'
<1> SUFFICES ASSUME TypeInv, TimerInv, PlaceInv, ReplayInv, [Next]_vars PROVE ReplayInv'
  OBVIOUS
<1>1. CASE ReadLine
  <2>1. session \in Sessions /\ Running /\ session <= started
    BY <1>1 DEF ReadLine, TypeInv, TypeOK, SessionInv
  <2>2. UNCHANGED <<session, started, released, reqPc, reqOp, fresh, ring>>
    BY <1>1 DEF ReadLine, Feed, worker, request
  <2>3. Feed(session)
    BY <1>1 DEF ReadLine
  <2>4. (\A n \in DOMAIN src' : src'[n] <= started') /\ (ShownInRing => ShownInRing')
    BY <2>1, <2>2, <2>3, FeedReplay DEF ReplayInv, RequestInv
  <2>5. QED
    BY <2>2, <2>4 DEF ReplayInv, RequestInv, InSession
<1>2. ASSUME NEW op \in Ops, EndSession(op) PROVE ReplayInv'
  <2>1. UNCHANGED <<started, flushPc, batch, ring, src, live, fresh>>
    BY <1>2 DEF EndSession, flushes
  <2>2. session' = None /\ released' = FALSE /\ reqPc' \in {"drain", "closed"} /\ reqOp' = op
    BY <1>2 DEF EndSession
  <2>3. InSession' => InSession
    BY <1>2, <2>2 DEF EndSession, Accepted, InSession
  <2>4. ShownInRing => ShownInRing'
    BY <2>1 DEF ShownInRing, Shown
  <2>5. QED
    BY <2>1, <2>2, <2>3, <2>4 DEF ReplayInv, RequestInv
<1>3. CASE RequestStep
  BY <1>3, RequestStepReplay
<1>4. ASSUME NEW t \in Flushers, FlushStep(t) PROVE ReplayInv'
  BY <1>4, FlushStepReplay
<1>5. CASE UNCHANGED vars
  <2>1. ShownInRing => ShownInRing'
    BY <1>5 DEF vars, flushes, ShownInRing, Shown
  <2>2. QED
    BY <1>5, <2>1 DEF vars, worker, request, ReplayInv, RequestInv, InSession
<1>6. QED
  BY <1>1, <1>2, <1>3, <1>4, <1>5 DEF Next

(* A client that connects during a session finds in the ring every line of *)
(* it that the others have been sent, while the ring is not full.          *)
THEOREM ReplayMissesNothing == Spec => []ReplayComplete
<1> DEFINE IInv == TypeInv /\ TimerInv /\ PlaceInv /\ ReplayInv
<1>1. Init => IInv
  BY InitTyped, InitTimer, InitPlace, InitReplay
<1>2. IInv /\ [Next]_vars => IInv'
  BY TypeStep, TimerStep, PlaceStep, ReplayStep
<1>3. IInv => ReplayComplete
  <2> SUFFICES ASSUME IInv, session # None, Len(ring) < RingMax,
                      NEW n \in ToSet(live), src[n] >= fresh
               PROVE  n \in ToSet(ring)
    BY DEF ReplayComplete
  <2>1. ShownInRing
    BY DEF ReplayInv, InSession
  <2>2. n \in Lines
    BY DEF ToSet, TypeInv, TypeOK
  <2>3. QED
    BY <2>1, <2>2 DEF ShownInRing, Shown
<1>4. QED
  BY <1>1, <1>2, <1>3, PTL DEF Spec

----------------------------------------------------------------------------
(* The ring holds what the clients were sent last.                         *)

(* One sequence ends with another.                                         *)
EndsWith(seq, end) ==
    /\ Len(end) <= Len(seq)
    /\ \A i \in 1..Len(end) : end[i] = seq[Len(seq) - Len(end) + i]

LEMMA EndsIsSuffix ==
  ASSUME NEW S, NEW seq \in Seq(S), NEW end \in Seq(S), EndsWith(seq, end)
  PROVE  IsSuffix(end, seq)
<1> DEFINE k == Len(end)
           m == Len(seq)
           rs == Reverse(seq)
           re == Reverse(end)
<1>1. k \in Nat /\ m \in Nat /\ k <= m /\ 1 \in Int
  BY DEF EndsWith
<1>2. rs = [i \in 1..m |-> seq[m - i + 1]] /\ re = [i \in 1..k |-> end[k - i + 1]]
  BY DEF Reverse
<1>3. \A i \in 1..m : seq[m - i + 1] \in S
  <2>1. \A i \in 1..m : m - i + 1 \in 1..m
    BY <1>1
  <2>2. QED
    BY <2>1
<1>4. \A i \in 1..k : end[k - i + 1] \in S
  <2>1. \A i \in 1..k : k - i + 1 \in 1..k
    BY <1>1
  <2>2. QED
    BY <2>1
<1> HIDE DEF k, m, rs, re
<1>5. rs \in Seq(S) /\ Len(rs) = m /\ re \in Seq(S) /\ Len(re) = k
  BY <1>1, <1>2, <1>3, <1>4
<1>6. \A i \in 1..k : re[i] = rs[i]
  <2> SUFFICES ASSUME NEW i \in 1..k PROVE re[i] = rs[i]
    OBVIOUS
  <2>1. k - i + 1 \in 1..k /\ i \in 1..m /\ m - k + (k - i + 1) = m - i + 1
    BY <1>1
  <2>2. end[k - i + 1] = seq[m - k + (k - i + 1)]
    BY <2>1 DEF EndsWith, k, m
  <2>3. QED
    BY <1>2, <2>1, <2>2
<1>7. /\ SubSeq(re, 1, k) \in Seq(S) /\ Len(SubSeq(re, 1, k)) = k
      /\ \A i \in 1..k : SubSeq(re, 1, k)[i] = re[i]
  <2>1. k \in Int /\ \A i \in 1..k : re[i] \in S
    BY <1>1, <1>5
  <2>2. /\ SubSeq(re, 1, k) \in Seq(S)
        /\ Len(SubSeq(re, 1, k)) = IF 1 <= k THEN k - 1 + 1 ELSE 0
        /\ \A i \in 1..(k - 1 + 1) : SubSeq(re, 1, k)[i] = re[1 + i - 1]
    BY <1>1, <2>1, SubSeqProperties
  <2>3. QED
    BY <1>1, <2>2
<1>8. /\ SubSeq(rs, 1, k) \in Seq(S) /\ Len(SubSeq(rs, 1, k)) = k
      /\ \A i \in 1..k : SubSeq(rs, 1, k)[i] = rs[i]
  <2>1. k \in Int /\ \A i \in 1..k : rs[i] \in S
    BY <1>1, <1>5
  <2>2. /\ SubSeq(rs, 1, k) \in Seq(S)
        /\ Len(SubSeq(rs, 1, k)) = IF 1 <= k THEN k - 1 + 1 ELSE 0
        /\ \A i \in 1..(k - 1 + 1) : SubSeq(rs, 1, k)[i] = rs[1 + i - 1]
    BY <1>1, <2>1, SubSeqProperties
  <2>3. QED
    BY <1>1, <2>2
<1>9. SubSeq(re, 1, k) = SubSeq(rs, 1, k)
  <2>1. \A i \in 1..Len(SubSeq(re, 1, k)) : SubSeq(re, 1, k)[i] = SubSeq(rs, 1, k)[i]
    BY <1>6, <1>7, <1>8
  <2>2. QED
    BY <1>7, <1>8, <2>1, SeqEqual
<1>10. QED
  BY <1>1, <1>5, <1>9 DEF IsSuffix, IsPrefix, rs, re

LEMMA EndsEmpty ==
  ASSUME NEW S, NEW seq \in Seq(S)
  PROVE  EndsWith(seq, <<>>)
<1>1. Len(<<>>) = 0 /\ Len(seq) \in Nat
  OBVIOUS
<1>2. QED
  BY <1>1 DEF EndsWith

LEMMA EndsConcat ==
  ASSUME NEW S, NEW seq \in Seq(S), NEW end \in Seq(S), NEW more \in Seq(S), EndsWith(seq, end)
  PROVE  EndsWith(seq \o more, end \o more)
<1> DEFINE a == seq \o more
           b == end \o more
<1>1. Len(a) = Len(seq) + Len(more) /\ Len(b) = Len(end) + Len(more)
  BY ConcatProperties
<1>2. Len(seq) \in Nat /\ Len(end) \in Nat /\ Len(more) \in Nat /\ Len(end) <= Len(seq)
  BY DEF EndsWith
<1>3. \A i \in 1..(Len(seq) + Len(more)) : a[i] = IF i <= Len(seq) THEN seq[i] ELSE more[i - Len(seq)]
  BY ConcatProperties
<1>4. \A i \in 1..(Len(end) + Len(more)) : b[i] = IF i <= Len(end) THEN end[i] ELSE more[i - Len(end)]
  BY ConcatProperties
<1> HIDE DEF a, b
<1>5. ASSUME NEW i \in 1..Len(b) PROVE b[i] = a[Len(a) - Len(b) + i]
  <2> DEFINE j == Len(a) - Len(b) + i
  <2>1. i \in Int /\ 1 <= i /\ i <= Len(end) + Len(more)
    BY <1>1, <1>2
  <2>2. j = Len(seq) - Len(end) + i /\ j \in 1..(Len(seq) + Len(more)) /\ j \in Int
    BY <1>1, <1>2, <2>1
  <2> HIDE DEF j
  <2>3. CASE i <= Len(end)
    <3>1. i \in 1..Len(end) /\ j <= Len(seq)
      BY <1>2, <2>1, <2>2, <2>3
    <3>2. b[i] = end[i] /\ a[j] = seq[j]
      BY <1>1, <1>3, <1>4, <2>2, <2>3, <3>1
    <3>3. end[i] = seq[j]
      BY <2>2, <3>1 DEF EndsWith
    <3>4. QED
      BY <3>2, <3>3 DEF j
  <2>4. CASE i > Len(end)
    <3>1. ~(i <= Len(end)) /\ ~(j <= Len(seq)) /\ i - Len(end) = j - Len(seq)
      BY <1>2, <2>1, <2>2, <2>4
    <3>2. b[i] = more[i - Len(end)] /\ a[j] = more[j - Len(seq)]
      BY <1>1, <1>3, <1>4, <2>2, <3>1
    <3>3. QED
      BY <3>1, <3>2 DEF j
  <2>5. QED
    BY <1>2, <2>1, <2>3, <2>4
<1>6. Len(b) <= Len(a)
  BY <1>1, <1>2
<1>7. QED
  BY <1>5, <1>6 DEF EndsWith, a, b

LEMMA EndsKept ==
  ASSUME NEW seq \in Seq(Lines), NEW end \in Seq(Lines), EndsWith(seq, end)
  PROVE  EndsWith(seq, Kept(end)) /\ ToSet(Kept(end)) \subseteq ToSet(end)
<1>1. Len(seq) \in Nat /\ Len(end) \in Nat /\ Len(end) <= Len(seq) /\ RingMax \in Nat
  BY ConsoleAssumption DEF EndsWith
<1>2. CASE Len(end) > RingMax
  <2> DEFINE m == Len(end) - RingMax + 1
             k == Kept(end)
  <2>1. m \in 1..(Len(end) + 1) /\ m \in Int /\ Len(end) \in Int /\ k = SubSeq(end, m, Len(end))
    BY <1>1, <1>2 DEF Kept
  <2>2. \A i \in m..Len(end) : end[i] \in Lines
    BY <1>1, <2>1
  <2> HIDE DEF k, m
  <2>3. /\ Len(k) = (IF m <= Len(end) THEN Len(end) - m + 1 ELSE 0)
        /\ \A i \in 1..(Len(end) - m + 1) : k[i] = end[m + i - 1]
        /\ k \in Seq(Lines)
    BY <2>1, <2>2, SubSeqProperties
  <2>4. Len(k) = RingMax /\ Len(end) - m + 1 = RingMax
    BY <1>1, <1>2, <2>1, <2>3 DEF m
  <2>5. ASSUME NEW i \in 1..RingMax
        PROVE  m + i - 1 \in 1..Len(end) /\ k[i] = end[m + i - 1] /\ k[i] = seq[Len(seq) - RingMax + i]
    <3>1. m + i - 1 \in 1..Len(end) /\ Len(seq) - Len(end) + (m + i - 1) = Len(seq) - RingMax + i
      BY <1>1, <1>2 DEF m
    <3>2. k[i] = end[m + i - 1]
      BY <2>3, <2>4
    <3>3. QED
      BY <3>1, <3>2 DEF EndsWith
  <2>6. EndsWith(seq, k)
    BY <1>1, <1>2, <2>4, <2>5 DEF EndsWith
  <2>7. ToSet(k) \subseteq ToSet(end)
    <3>1. DOMAIN k = 1..RingMax /\ DOMAIN end = 1..Len(end)
      BY <2>3, <2>4
    <3>2. QED
      BY <2>5, <3>1 DEF ToSet
  <2>8. QED
    BY <2>6, <2>7 DEF k
<1>3. CASE ~(Len(end) > RingMax)
  BY <1>3 DEF Kept
<1>4. QED
  BY <1>2, <1>3

LEMMA KeptOnly ==
  ASSUME NEW seq \in Seq(Lines)
  PROVE  ToSet(Kept(seq)) \subseteq ToSet(seq)
<1>1. EndsWith(seq, seq)
  <2>1. Len(seq) \in Nat /\ \A i \in 1..Len(seq) : Len(seq) - Len(seq) + i = i
    OBVIOUS
  <2>2. QED
    BY <2>1 DEF EndsWith
<1>2. QED
  BY <1>1, EndsKept

(* A line that was fed by the session that runs is fed by the last one.    *)
SessionIsLast == fresh <= started /\ (session # None => session = started)

(* The request's own flush leaves the batcher empty: nothing feeds then.   *)
RequestTook == reqPc = "flush" /\ flushPc[Request] # "woken" => pending = <<>>

(* When /open has emptied the ring no line is on its way.                  *)
StartsAfresh == reqPc = "start" => pending = <<>> /\ (~raced => ring = <<>> /\ ~SomeEmitting)

Underway(n) == n \in ToSet(pending) \/ n \in ToSet(ring) \/ \E t \in Flushers : n \in ToSet(batch[t])

(* The lines that a client may still be sent came after the last /open.    *)
AllFresh == ~raced => \A n \in Lines : Underway(n) => n \in DOMAIN src /\ src[n] >= fresh

FreshInv == SessionIsLast /\ RequestTook /\ StartsAfresh /\ AllFresh

(* The ring ends what the clients were sent, or what they are being sent.  *)
RingFollows ==
    /\ (\A t \in Flushers : flushPc[t] # "send") => EndsWith(live, ring)
    /\ \A t \in Flushers : flushPc[t] = "send" => EndsWith(live \o batch[t], ring)

FollowInv == ~raced => RingFollows

LEMMA InitFresh == Init => FreshInv
<1> SUFFICES ASSUME Init PROVE FreshInv
  OBVIOUS
<1>1. \A n : ~Underway(n)
  BY ToSetEmpty DEF Init, Underway
<1>2. QED
  BY <1>1, Numbers DEF Init, FreshInv, SessionIsLast, RequestTook, StartsAfresh, AllFresh, None

LEMMA FreshUntouched ==
  ASSUME TypeInv, FreshInv, UNCHANGED <<src, fresh>>, raced => raced',
         \A n \in Lines : ~raced' /\ Underway(n)' => Underway(n)
  PROVE  AllFresh'
  BY DEF FreshInv, AllFresh

LEMMA FeedFresh ==
  ASSUME TypeInv, FreshInv, NEW s \in Sessions, Feed(s), s >= fresh, UNCHANGED fresh
  PROVE  AllFresh'
<1> SUFFICES ASSUME ~raced, NEW n \in Lines, Underway(n)'
             PROVE  n \in DOMAIN src' /\ src'[n] >= fresh
  BY DEF AllFresh, Feed
<1> DEFINE m == Len(src) + 1
<1>1. Len(src) \in Nat /\ m \in Lines /\ src' = Append(src, s) /\ src \in Seq(Sessions)
  BY FeedTyped DEF Feed, TypeInv, TypeOK
<1>2. DOMAIN src = 1..Len(src) /\ DOMAIN src' = 1..m
  BY <1>1, FeedTyped
<1>3. \A k \in DOMAIN src : k \in DOMAIN src' /\ src'[k] = src[k]
  BY <1>1, <1>2, AppendProperties
<1>4. m \in DOMAIN src' /\ src'[m] = s
  BY <1>1, <1>2, AppendProperties
<1>5. pending' = Append(pending, m) /\ UNCHANGED <<batch, ring>>
  BY DEF Feed, Queued
<1>6. ToSet(pending') = ToSet(pending) \cup {m}
  BY <1>1, <1>5, ToSetAppend DEF TypeInv, TypeOK
<1>7. CASE n = m
  BY <1>4, <1>7
<1>8. CASE n # m
  <2>1. Underway(n)
    BY <1>5, <1>6, <1>8 DEF Underway
  <2>2. n \in DOMAIN src /\ src[n] >= fresh
    BY <2>1 DEF FreshInv, AllFresh
  <2>3. QED
    BY <1>3, <2>2
<1>9. QED
  BY <1>7, <1>8

LEMMA RequestStepFresh ==
  ASSUME TypeInv, TimerInv, PlaceInv, ReplayInv, FreshInv, RequestStep
  PROVE  FreshInv'
<1>1. CASE DrainLine
  <2>1. started \in Sessions /\ started >= fresh
    BY <1>1, ConsoleAssumption
    DEF DrainLine, TypeInv, SessionInv, TypeOK, Sessions, FreshInv, SessionIsLast
  <2>2. UNCHANGED <<session, started, fresh>> /\ reqPc' = "closed"
    BY <1>1 DEF DrainLine, worker
  <2>3. CASE Feed(started)
    BY <2>1, <2>2, <2>3, FeedFresh
    DEF FreshInv, SessionIsLast, RequestTook, StartsAfresh
  <2>4. CASE UNCHANGED <<batcher, flushes, ring, src, live, raced>>
    <3>1. AllFresh'
      BY <2>2, <2>4, FreshUntouched DEF Underway, batcher, flushes
    <3>2. QED
      BY <2>2, <3>1 DEF FreshInv, SessionIsLast, RequestTook, StartsAfresh
  <2>5. QED
    BY <1>1, <2>3, <2>4 DEF DrainLine
<1>2. CASE Return \/ StartFails
  <2>1. UNCHANGED <<session, started, fresh, pending, flushPc, batch, ring, src, raced>> /\ reqPc' = "idle"
    BY <1>2 DEF Return, StartFails, batcher, flushes
  <2>2. AllFresh'
    BY <2>1, FreshUntouched DEF Underway
  <2>3. QED
    BY <2>1, <2>2 DEF FreshInv, SessionIsLast, RequestTook, StartsAfresh
<1>3. CASE CallFlush
  <2>1. UNCHANGED <<session, started, fresh, pending, batch, ring, src, raced>> /\ reqPc' = "flush"
    BY <1>3 DEF CallFlush, batcher, worker
  <2>2. flushPc'[Request] = "woken"
    BY <1>3, Numbers DEF CallFlush, TypeInv, TypeOK
  <2>3. AllFresh'
    BY <2>1, FreshUntouched DEF Underway
  <2>4. QED
    BY <2>1, <2>2, <2>3 DEF FreshInv, SessionIsLast, RequestTook, StartsAfresh
<1>4. CASE ClearRing
  <2>1. /\ UNCHANGED <<session, started, fresh, pending, flushPc, batch, src>>
        /\ ring' = <<>> /\ reqPc' = "start" /\ raced' = (raced \/ SomeEmitting)
    BY <1>4 DEF ClearRing, RingAtOpen, batcher, flushes, worker
  <2>2. pending = <<>>
    BY <1>4 DEF ClearRing, Flushed, Flushes, FreshInv, RequestTook
  <2>3. SomeEmitting' <=> SomeEmitting
    BY <2>1 DEF SomeEmitting, Emitting
  <2>4. \A n \in Lines : Underway(n)' => Underway(n)
    BY <2>1, ToSetEmpty DEF Underway
  <2>5. AllFresh'
    BY <2>1, <2>4, FreshUntouched
  <2>6. QED
    BY <2>1, <2>2, <2>3, <2>5 DEF FreshInv, SessionIsLast, RequestTook, StartsAfresh
<1>5. CASE StartSession
  <2>1. /\ UNCHANGED <<pending, flushPc, batch, ring, src, raced>>
        /\ started' = started + 1 /\ session' = started' /\ reqPc' = "idle"
        /\ fresh' = IF reqOp = "open" THEN started' ELSE fresh
    BY <1>5 DEF StartSession, batcher, flushes
  <2>2. SessionIsLast'
    <3>1. started \in Nat /\ fresh <= started /\ fresh \in Nat
      BY Numbers, ConsoleAssumption DEF SessionIsLast, FreshInv, TypeInv, TypeOK, None
    <3>2. started' = started + 1 /\ fresh' \in {started', fresh}
      BY <2>1
    <3>3. fresh' <= started'
      BY <3>1, <3>2
    <3>4. QED
      BY <2>1, <3>3 DEF SessionIsLast
  <2>3. CASE reqOp = "open"
    <3>1. reqPc = "start"
      BY <1>5, <2>3 DEF StartSession, MayStart
    <3>2. ASSUME ~raced PROVE \A n \in Lines : ~Underway(n)
      <4>1. pending = <<>> /\ ring = <<>> /\ \A t \in Flushers : ~Emitting(t)
        BY <3>1, <3>2 DEF FreshInv, StartsAfresh, SomeEmitting
      <4>2. \A t \in Flushers : batch[t] = <<>>
        BY <4>1 DEF PlaceInv, EmptyHanded
      <4>3. QED
        BY <4>1, <4>2, ToSetEmpty DEF Underway
    <3>3. \A n \in Lines : Underway(n)' => Underway(n)
      BY <2>1 DEF Underway
    <3>4. AllFresh'
      BY <2>1, <3>2, <3>3 DEF AllFresh
    <3>5. QED
      BY <2>1, <2>2, <3>4 DEF FreshInv, RequestTook, StartsAfresh
  <2>4. CASE reqOp # "open"
    <3>1. AllFresh'
      BY <2>1, <2>4, FreshUntouched DEF Underway
    <3>2. QED
      BY <2>1, <2>2, <3>1 DEF FreshInv, RequestTook, StartsAfresh
  <2>5. QED
    BY <2>3, <2>4
<1>6. CASE Reset
  <2>1. UNCHANGED <<session, started, fresh, batch, ring, src, raced>> /\ reqPc' = "down" /\ pending' = <<>>
    BY <1>6 DEF Reset, worker
  <2>2. AllFresh'
    BY <2>1, ToSetEmpty, FreshUntouched DEF Underway
  <2>3. QED
    BY <2>1, <2>2 DEF FreshInv, SessionIsLast, RequestTook, StartsAfresh
<1>7. QED
  BY <1>1, <1>2, <1>3, <1>4, <1>5, <1>6 DEF RequestStep

LEMMA FlushStepFresh ==
  ASSUME TypeInv, FreshInv, NEW t \in Flushers, FlushStep(t)
  PROVE  FreshInv'
<1>1. UNCHANGED <<session, started, fresh, src, reqPc>> /\ (raced => raced')
  <2>1. CASE TimerWakes(t)
    BY <2>1 DEF TimerWakes, worker, request
  <2>2. CASE TakeBatch(t)
    BY <2>2 DEF TakeBatch, worker, request
  <2>3. CASE Observe(t) \/ Send(t)
    BY <2>3 DEF Observe, Send, worker, request
  <2>4. QED
    BY <2>1, <2>2, <2>3 DEF FlushStep
<1>2. SessionIsLast'
  BY <1>1 DEF FreshInv, SessionIsLast
<1>3. CASE TimerWakes(t)
  <2>1. UNCHANGED <<pending, batch, ring, raced>> /\ flushPc[t] = "armed"
    BY <1>3 DEF TimerWakes, batcher
  <2>2. \A u \in Flushers : flushPc'[u] = IF u = t THEN "woken" ELSE flushPc[u]
    BY <1>3 DEF TimerWakes, TypeInv, TypeOK
  <2>3. RequestTook'
    BY <1>1, <2>1, <2>2, Numbers DEF FreshInv, RequestTook
  <2>4. StartsAfresh'
    BY <1>1, <2>1, <2>2 DEF FreshInv, StartsAfresh, SomeEmitting, Emitting
  <2>5. AllFresh'
    BY <1>1, <2>1, FreshUntouched DEF Underway
  <2>6. QED
    BY <1>2, <2>3, <2>4, <2>5 DEF FreshInv
<1>4. CASE TakeBatch(t)
  <2>1. /\ UNCHANGED ring /\ pending' = <<>> /\ batch' = [batch EXCEPT ![t] = pending]
        /\ flushPc' = Cancelled([flushPc EXCEPT ![t] = AfterTake])
    BY <1>4 DEF TakeBatch, Remaining
  <2>2. \A u \in Flushers : batch'[u] = IF u = t THEN pending ELSE batch[u]
    BY <2>1 DEF TypeInv, TypeOK
  <2>3. \A n \in Lines : Underway(n)' => Underway(n)
    BY <2>1, <2>2, ToSetEmpty DEF Underway
  <2>4. AllFresh'
    BY <1>1, <2>3, FreshUntouched
  <2>5. RequestTook'
    BY <2>1 DEF RequestTook
  <2>6. StartsAfresh'
    <3>1. SUFFICES ASSUME reqPc = "start", ~raced' PROVE ring' = <<>> /\ ~SomeEmitting'
      BY <1>1, <2>1 DEF StartsAfresh
    <3>2. pending = <<>> /\ ring = <<>> /\ \A u \in Flushers : ~Emitting(u)
      BY <1>1, <3>1 DEF FreshInv, StartsAfresh, SomeEmitting
    <3>3. AfterTake = "none"
      BY <3>2 DEF AfterTake
    <3>4. \A u \in Flushers : flushPc'[u] \in {flushPc[u], "none"}
      BY <2>1, <3>3 DEF Cancelled, TypeInv, TypeOK
    <3>5. QED
      BY <2>1, <3>2, <3>4 DEF SomeEmitting, Emitting
  <2>7. QED
    BY <1>2, <2>4, <2>5, <2>6 DEF FreshInv
<1>5. CASE Observe(t)
  <2>1. /\ UNCHANGED <<pending, batch, raced>> /\ ring' = Kept(ring \o batch[t])
        /\ flushPc[t] = "ring"
    BY <1>5 DEF Observe, batcher
  <2>2. \A u \in Flushers : flushPc'[u] = IF u = t THEN "send" ELSE flushPc[u]
    BY <1>5 DEF Observe, TypeInv, TypeOK
  <2>3. RequestTook'
    BY <1>1, <2>1, <2>2, Numbers DEF FreshInv, RequestTook
  <2>4. SomeEmitting
    BY <2>1 DEF SomeEmitting, Emitting
  <2>5. StartsAfresh'
    BY <1>1, <2>1, <2>4 DEF FreshInv, StartsAfresh
  <2>6. ring \in Seq(Lines) /\ batch[t] \in Seq(Lines) /\ ring \o batch[t] \in Seq(Lines)
    BY ConcatProperties DEF TypeInv, TypeOK
  <2>7. ToSet(ring') \subseteq ToSet(ring) \cup ToSet(batch[t])
    <3>1. ToSet(ring \o batch[t]) = ToSet(ring) \cup ToSet(batch[t])
      BY <2>6, ToSetConcat
    <3>2. QED
      BY <2>1, <2>6, <3>1, KeptOnly
  <2>8. \A n \in Lines : Underway(n)' => Underway(n)
    BY <2>1, <2>7 DEF Underway
  <2>9. AllFresh'
    BY <1>1, <2>8, FreshUntouched
  <2>10. QED
    BY <1>2, <2>3, <2>5, <2>9 DEF FreshInv
<1>6. CASE Send(t)
  <2>1. /\ UNCHANGED <<pending, ring, raced>> /\ flushPc[t] = "send"
    BY <1>6 DEF Send, batcher
  <2>2. \A u \in Flushers : flushPc'[u] = (IF u = t THEN "none" ELSE flushPc[u])
    BY <1>6 DEF Send, TypeInv, TypeOK
  <2>3. \A u \in Flushers : batch'[u] = (IF u = t THEN <<>> ELSE batch[u])
    BY <1>6 DEF Send, TypeInv, TypeOK
  <2>4. RequestTook'
    BY <1>1, <2>1, <2>2, Numbers DEF FreshInv, RequestTook
  <2>5. StartsAfresh'
    BY <1>1, <2>1, <2>2 DEF FreshInv, StartsAfresh, SomeEmitting, Emitting
  <2>6. \A n \in Lines : Underway(n)' => Underway(n)
    BY <2>1, <2>3, ToSetEmpty DEF Underway
  <2>7. AllFresh'
    BY <1>1, <2>6, FreshUntouched
  <2>8. QED
    BY <1>2, <2>4, <2>5, <2>7 DEF FreshInv
<1>7. QED
  BY <1>3, <1>4, <1>5, <1>6 DEF FlushStep

LEMMA FreshStep == TypeInv /\ TimerInv /\ PlaceInv /\ ReplayInv /\ FreshInv /\ [Next]_vars => FreshInv'
<1> SUFFICES ASSUME TypeInv, TimerInv, PlaceInv, ReplayInv, FreshInv, [Next]_vars PROVE FreshInv'
  OBVIOUS
<1>1. CASE ReadLine
  <2>1. session \in Sessions /\ session >= fresh
    BY <1>1, Numbers DEF ReadLine, TypeInv, TypeOK, FreshInv, SessionIsLast
  <2>2. UNCHANGED <<session, started, reqPc, fresh, ring>> /\ Feed(session) /\ session # None
    BY <1>1 DEF ReadLine, Feed, worker, request
  <2>3. reqPc = "idle"
    BY <2>2 DEF ReplayInv, RequestInv
  <2>4. AllFresh'
    BY <2>1, <2>2, FeedFresh
  <2>5. QED
    BY <2>2, <2>3, <2>4 DEF FreshInv, SessionIsLast, RequestTook, StartsAfresh
<1>2. ASSUME NEW op \in Ops, EndSession(op) PROVE FreshInv'
  <2>1. UNCHANGED <<started, pending, flushPc, batch, ring, src, fresh, raced>>
    BY <1>2 DEF EndSession, flushes, batcher
  <2>2. session' = None /\ reqPc' \in {"drain", "closed"}
    BY <1>2 DEF EndSession
  <2>3. AllFresh'
    BY <2>1, FreshUntouched DEF Underway
  <2>4. QED
    BY <2>1, <2>2, <2>3 DEF FreshInv, SessionIsLast, RequestTook, StartsAfresh
<1>3. CASE RequestStep
  BY <1>3, RequestStepFresh
<1>4. ASSUME NEW t \in Flushers, FlushStep(t) PROVE FreshInv'
  BY <1>4, FlushStepFresh
<1>5. CASE UNCHANGED vars
  <2>1. AllFresh'
    BY <1>5, FreshUntouched DEF vars, batcher, flushes, Underway
  <2>2. QED
    BY <1>5, <2>1
    DEF vars, worker, request, batcher, flushes, FreshInv, SessionIsLast, RequestTook,
        StartsAfresh, SomeEmitting, Emitting
<1>6. QED
  BY <1>1, <1>2, <1>3, <1>4, <1>5 DEF Next

LEMMA InitFollow == Init => FollowInv
<1> SUFFICES ASSUME Init PROVE RingFollows
  BY DEF FollowInv
<1>1. live = <<>> /\ ring = <<>> /\ \A t \in Flushers : flushPc[t] # "send"
  BY DEF Init
<1>2. EndsWith(<<>>, <<>>)
  BY EndsEmpty, EmptySeq
<1>3. QED
  BY <1>1, <1>2 DEF RingFollows

LEMMA FollowUntouched ==
  ASSUME FollowInv, UNCHANGED <<ring, live>>, raced => raced',
         \A t \in Flushers : flushPc'[t] = "send" <=> flushPc[t] = "send",
         \A t \in Flushers : flushPc[t] = "send" => batch'[t] = batch[t]
  PROVE  FollowInv'
  BY DEF FollowInv, RingFollows

LEMMA FollowStep == TypeInv /\ TimerInv /\ OrderInv /\ FollowInv /\ [Next]_vars => FollowInv'
<1> SUFFICES ASSUME TypeInv, TimerInv, OrderInv, FollowInv, [Next]_vars PROVE FollowInv'
  OBVIOUS
<1>1. ASSUME NEW s, Feed(s) PROVE FollowInv'
  <2>1. UNCHANGED <<ring, live, raced, batch>>
    BY <1>1 DEF Feed
  <2>2. flushPc' = flushPc \/ flushPc' = [flushPc EXCEPT ![Len(src) + 1] = "armed"]
    BY <1>1 DEF Feed
  <2>3. Len(src) + 1 \in Flushers /\ Len(src) + 1 # Request /\ flushPc[Len(src) + 1] = "none"
    <3>1. Len(src) \in Nat /\ Len(src) < MaxLines
      BY <1>1 DEF Feed, TypeInv, TypeOK
    <3>2. Len(src) + 1 \in Flushers /\ Len(src) + 1 # Request /\ Len(src) + 1 > Len(src)
      BY <3>1, ConsoleAssumption DEF Flushers, Request
    <3>3. QED
      BY <3>2 DEF TimerInv, TimersOfLines
  <2>4. \A t \in Flushers : flushPc'[t] = "send" <=> flushPc[t] = "send"
    BY <2>2, <2>3 DEF TypeInv, TypeOK
  <2>5. QED
    BY <2>1, <2>4, FollowUntouched
<1>2. CASE ReadLine
  BY <1>1, <1>2 DEF ReadLine
<1>3. ASSUME NEW op \in Ops, EndSession(op) PROVE FollowInv'
  BY <1>3, FollowUntouched DEF EndSession, flushes
<1>4. CASE DrainLine
  <2>1. CASE Feed(started)
    BY <1>1, <2>1
  <2>2. CASE UNCHANGED <<batcher, flushes, ring, src, live, raced>>
    BY <2>2, FollowUntouched DEF flushes
  <2>3. QED
    BY <1>4, <2>1, <2>2 DEF DrainLine
<1>5. CASE Return \/ StartSession \/ StartFails
  BY <1>5, FollowUntouched DEF Return, StartSession, StartFails, flushes
<1>6. CASE CallFlush
  <2>1. UNCHANGED <<ring, live, raced, batch>> /\ reqPc = "closed"
    BY <1>6 DEF CallFlush
  <2>2. \A t \in Flushers : flushPc'[t] = IF t = Request THEN "woken" ELSE flushPc[t]
    BY <1>6 DEF CallFlush, TypeInv, TypeOK
  <2>3. flushPc[Request] = "none"
    BY <2>1 DEF TimerInv, RequestFlushes
  <2>4. QED
    BY <2>1, <2>2, <2>3, FollowUntouched
<1>7. CASE ClearRing
  <2>1. UNCHANGED <<live, flushPc, batch>> /\ ring' = <<>>
    BY <1>7 DEF ClearRing, RingAtOpen, flushes
  <2>2. live \in Seq(Lines) /\ \A t \in Flushers : live \o batch[t] \in Seq(Lines)
    BY ConcatProperties DEF TypeInv, TypeOK
  <2>3. EndsWith(live, <<>>) /\ \A t \in Flushers : EndsWith(live \o batch[t], <<>>)
    BY <2>2, EndsEmpty
  <2>4. QED
    BY <2>1, <2>3 DEF FollowInv, RingFollows
<1>8. CASE Reset
  <2>1. UNCHANGED <<ring, live, raced, batch>> /\ flushPc' = Cancelled(flushPc)
    BY <1>8 DEF Reset
  <2>2. \A t \in Flushers : flushPc'[t] = "send" <=> flushPc[t] = "send"
    BY <2>1 DEF Cancelled, TypeInv, TypeOK
  <2>3. QED
    BY <2>1, <2>2, FollowUntouched
<1>9. ASSUME NEW t \in Flushers, TimerWakes(t) PROVE FollowInv'
  <2>1. UNCHANGED <<ring, live, raced, batch>> /\ flushPc[t] = "armed"
    BY <1>9 DEF TimerWakes
  <2>2. \A u \in Flushers : flushPc'[u] = IF u = t THEN "woken" ELSE flushPc[u]
    BY <1>9 DEF TimerWakes, TypeInv, TypeOK
  <2>3. QED
    BY <2>1, <2>2, FollowUntouched
<1>10. ASSUME NEW t \in Flushers, TakeBatch(t) PROVE FollowInv'
  <2>1. UNCHANGED <<ring, live>> /\ (raced => raced') /\ flushPc[t] = "woken"
    BY <1>10 DEF TakeBatch
  <2>2. \A u \in Flushers \ {t} : batch'[u] = batch[u]
    BY <1>10 DEF TakeBatch, TypeInv, TypeOK
  <2>3. \A u \in Flushers : flushPc'[u] = "send" <=> flushPc[u] = "send"
    BY <1>10 DEF TakeBatch, AfterTake, Cancelled, TypeInv, TypeOK
  <2>4. QED
    BY <2>1, <2>2, <2>3, FollowUntouched
<1>11. ASSUME NEW t \in Flushers, Observe(t) PROVE FollowInv'
  <2> SUFFICES ASSUME ~raced' PROVE RingFollows'
    BY DEF FollowInv
  <2>1. ~raced /\ UNCHANGED <<live, batch>> /\ ring' = Kept(ring \o batch[t]) /\ flushPc[t] = "ring"
    BY <1>11 DEF Observe
  <2>2. \A u \in Flushers : flushPc'[u] = IF u = t THEN "send" ELSE flushPc[u]
    BY <1>11 DEF Observe, TypeInv, TypeOK
  <2>3. \A u \in Flushers : flushPc[u] # "send"
    BY <2>1 DEF OrderInv, OneEmits, Emitting
  <2>4. EndsWith(live, ring)
    BY <2>1, <2>3 DEF FollowInv, RingFollows
  <2>5. live \in Seq(Lines) /\ ring \in Seq(Lines) /\ batch[t] \in Seq(Lines)
    BY DEF TypeInv, TypeOK
  <2>6. EndsWith(live \o batch[t], ring \o batch[t])
    BY <2>4, <2>5, EndsConcat
  <2>7. EndsWith(live \o batch[t], ring')
    BY <2>1, <2>5, <2>6, EndsKept, ConcatProperties
  <2>8. QED
    BY <2>1, <2>2, <2>3, <2>7 DEF RingFollows
<1>12. ASSUME NEW t \in Flushers, Send(t) PROVE FollowInv'
  <2> SUFFICES ASSUME ~raced' PROVE RingFollows'
    BY DEF FollowInv
  <2>1. ~raced /\ UNCHANGED ring /\ live' = live \o batch[t] /\ flushPc[t] = "send"
    BY <1>12 DEF Send
  <2>2. \A u \in Flushers : flushPc'[u] = IF u = t THEN "none" ELSE flushPc[u]
    BY <1>12 DEF Send, TypeInv, TypeOK
  <2>3. EndsWith(live \o batch[t], ring)
    BY <2>1 DEF FollowInv, RingFollows
  <2>4. \A u \in Flushers : flushPc'[u] # "send"
    BY <2>1, <2>2 DEF OrderInv, OneEmits, Emitting
  <2>5. QED
    BY <2>1, <2>3, <2>4 DEF RingFollows
<1>13. CASE UNCHANGED vars
  BY <1>13, FollowUntouched DEF vars, flushes
<1>14. QED
  BY <1>2, <1>3, <1>4, <1>5, <1>6, <1>7, <1>8, <1>9, <1>10, <1>11, <1>12, <1>13
  DEF Next, RequestStep, FlushStep

(* Unless a flush was overtaken the ring holds, whenever no flush is under *)
(* way, the last lines that the clients were sent, in that order, and none *)
(* from before the last /open.                                             *)
THEOREM RingIsLive == Spec => []ReplayIsLive
<1> DEFINE IInv == TypeInv /\ TimerInv /\ PlaceInv /\ OrderInv /\ ReplayInv /\ FreshInv /\ FollowInv
<1>1. Init => IInv
  BY InitTyped, InitTimer, InitPlace, InitOrder, InitReplay, InitFresh, InitFollow
<1>2. IInv /\ [Next]_vars => IInv'
  BY TypeStep, TimerStep, PlaceStep, OrderStep, ReplayStep, FreshStep, FollowStep
<1>3. IInv => ReplayIsLive
  <2> SUFFICES ASSUME IInv, ~SomeEmitting, ~raced
               PROVE  IsSuffix(ring, live) /\ \A n \in ToSet(ring) : src[n] >= fresh
    BY DEF ReplayIsLive
  <2>1. ring \in Seq(Lines) /\ live \in Seq(Lines)
    BY DEF TypeInv, TypeOK
  <2>2. EndsWith(live, ring)
    BY DEF FollowInv, RingFollows, SomeEmitting, Emitting
  <2>3. IsSuffix(ring, live)
    BY <2>1, <2>2, EndsIsSuffix
  <2>4. \A n \in ToSet(ring) : n \in Lines
    BY <2>1 DEF ToSet
  <2>5. QED
    BY <2>3, <2>4 DEF FreshInv, AllFresh, Underway
<1>4. QED
  BY <1>1, <1>2, <1>3, PTL DEF Spec

(* A client sees the same lines in the same order whether it was there or  *)
(* is sent the ring, unless a flush was overtaken.                         *)
THEOREM ReplayIsFaithful == Spec => []ReplayFaithful
<1>1. ReplayComplete /\ ReplayIsLive /\ LiveInOrder => ReplayFaithful
  BY DEF ReplayFaithful
<1>2. QED
  BY <1>1, ReplayMissesNothing, RingIsLive, LinesGoOutInOrder, PTL

(* Together: until the process ends no line is lost or sent twice ...      *)
THEOREM LinesAreSafe == Spec => []LinesKept
<1>1. NoLineLost /\ EachLineOnce => LinesKept
  BY DEF LinesKept
<1>2. QED
  BY <1>1, LinesAreKept, LinesGoOutOnce, PTL

(* ... and the batcher and its timers know of each other.                  *)
THEOREM TimersAreSafe == Spec => []TimersRight
<1>1. BatchWaits /\ NoStrayTimer => TimersRight
  BY DEF TimersRight
<1>2. QED
  BY <1>1, BatchesHaveTimers, TimersAreKnown, PTL
=============================================================================
