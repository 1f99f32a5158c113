---------------------------- MODULE RawLogProofs ----------------------------
(* Proofs of the invariants of RawLog, for every size, bound and fault.    *)
EXTENDS RawLog, SequenceTheorems, FiniteSetTheorems, WellFoundedInduction, TLAPS

----------------------------------------------------------------------------
(* The operations on the directory keep it in order.                       *)

FileOK(f) ==
    /\ f \in Files
    /\ Len(f.data) <= SegmentBytes
    /\ f.synced <= Len(f.data)

DirOK(d) ==
    /\ DOMAIN d \subseteq Names \ {NoLog}
    /\ \A n \in DOMAIN d : FileOK(d[n])

LEMMA TimeStamp ==
  ASSUME NEW t \in 0..MaxTime
  PROVE  t \div SecondLength \in 0..MaxTime
  BY ClockAssumption

LEMMA CreatedDir ==
  ASSUME DirOK(disk), NEW n \in Names \ {NoLog}, now' \in 0..MaxTime
  PROVE  /\ DirOK(Created(n))
         /\ DOMAIN Created(n) = DOMAIN disk \cup {n}
         /\ Created(n)[n].data = <<>>
         /\ \A m \in DOMAIN disk \ {n} : Created(n)[m] = disk[m]
<1>1. NewFile \in Files /\ Len(NewFile.data) = 0 /\ NewFile.synced = 0 /\ NewFile.data = <<>>
  BY DEF NewFile, Files
<1>2. FileOK(NewFile)
  BY <1>1, SizesAssumption DEF FileOK
<1>3. QED
  BY <1>1, <1>2 DEF Created, DirOK

(* What a pruning may leave, whether an error ends it or not.              *)
Prunings(d, c) == {Pruned(d, c)} \cup PrunedPartly(d, c)

LEMMA PruneGives ==
  ASSUME NEW d, NEW c, Prune(d, c)
  PROVE  /\ disk' \in Prunings(d, c)
         /\ \/ disk' = Pruned(d, c) /\ missed' = 0
            \/ missed < MaxMissed /\ missed' = missed + 1
  BY DEF Prune, Prunings

(* However it ends, the logs that went are the oldest of those that had to.*)
LEMMA PruningsAre ==
  ASSUME NEW d, NEW c, NEW e \in Prunings(d, c)
  PROVE  \E gone \in SUBSET Excess(d, c) : e = Without(d, gone) /\ OldestOf(d, gone, Excess(d, c))
<1> DEFINE names == Excess(d, c)
<1>1. OldestOf(d, names, names) /\ OldestOf(d, {}, names)
  BY DEF OldestOf
<1>2. CASE e = Pruned(d, c)
  BY <1>1, <1>2 DEF Pruned
<1>3. CASE e \in PrunedPartly(d, c)
  BY <1>1, <1>3 DEF PrunedPartly
<1>4. QED
  BY <1>2, <1>3 DEF Prunings

LEMMA PrunedDir ==
  ASSUME NEW d, DirOK(d), NEW c, NEW e \in Prunings(d, c)
  PROVE  /\ DirOK(e)
         /\ c \in DOMAIN d => c \in DOMAIN e
         /\ \A n \in DOMAIN e : n \in DOMAIN d /\ e[n] = d[n]
<1>1. PICK gone \in SUBSET Excess(d, c) : e = Without(d, gone)
  BY PruningsAre
<1>2. Excess(d, c) \subseteq DOMAIN d \ {c}
  BY DEF Excess
<1>3. DOMAIN e = DOMAIN d \ gone /\ \A n \in DOMAIN e : e[n] = d[n]
  BY <1>1 DEF Without, Restrict
<1>4. QED
  BY <1>2, <1>3 DEF DirOK

LEMMA SyncedDir ==
  ASSUME NEW d, DirOK(d), NEW c \in DOMAIN d
  PROVE  /\ DirOK(Synced(d, c))
         /\ DOMAIN Synced(d, c) = DOMAIN d
         /\ \A n \in DOMAIN d \ {c} : Synced(d, c)[n] = d[n]
         /\ Synced(d, c)[c].data = d[c].data
         /\ Synced(d, c)[c].synced = Len(d[c].data)
<1> DEFINE f == d[c]
           g == [f EXCEPT !.synced = Len(f.data)]
<1>1. f \in Files /\ Len(f.data) \in Nat /\ Len(f.data) <= SegmentBytes
  BY DEF DirOK, FileOK, Files
<1>2. g \in Files /\ g.data = f.data /\ g.synced = Len(f.data)
  BY <1>1 DEF Files
<1>3. FileOK(g)
  BY <1>1, <1>2 DEF FileOK
<1>4. Synced(d, c) = [n \in DOMAIN d |-> IF n = c THEN g ELSE d[n]]
  BY DEF Synced
<1> HIDE DEF f, g
<1>5. QED
  BY <1>2, <1>3, <1>4 DEF DirOK, f

LEMMA SyncedKeeps ==
  ASSUME NEW d, DirOK(d), NEW c \in DOMAIN d
  PROVE  /\ DirOK(Synced(d, c)) /\ DOMAIN Synced(d, c) = DOMAIN d
         /\ \A m \in DOMAIN d : Synced(d, c)[m].data = d[m].data
<1>1. ASSUME NEW m \in DOMAIN d PROVE Synced(d, c)[m].data = d[m].data
  <2>1. CASE m = c
    BY <2>1, SyncedDir
  <2>2. CASE m # c
    <3>1. Synced(d, c)[m] = d[m]
      BY <2>2, SyncedDir
    <3>2. QED
      BY <3>1
  <2>3. QED
    BY <2>1, <2>2
<1>2. DirOK(Synced(d, c)) /\ DOMAIN Synced(d, c) = DOMAIN d
  BY SyncedDir
<1>3. QED
  BY <1>1, <1>2

LEMMA MaxOfTwo ==
  ASSUME NEW a \in Int, NEW b \in Int
  PROVE  Max({a, b}) \in {a, b} /\ Max({a, b}) >= a /\ Max({a, b}) >= b
<1>1. \E x \in {a, b} : \A y \in {a, b} : x >= y
  <2>1. CASE a >= b
    BY <2>1
  <2>2. CASE b >= a
    BY <2>2
  <2>3. QED
    BY <2>1, <2>2
<1>2. QED
  BY <1>1 DEF Max

LEMMA MinOfTwo ==
  ASSUME NEW a \in Int, NEW b \in Int
  PROVE  Min({a, b}) \in {a, b} /\ Min({a, b}) <= a /\ Min({a, b}) <= b
<1>1. \E x \in {a, b} : \A y \in {a, b} : x =< y
  <2>1. CASE a >= b
    BY <2>1
  <2>2. CASE b >= a
    BY <2>2
  <2>3. QED
    BY <2>1, <2>2
<1>2. QED
  BY <1>1 DEF Min

LEMMA CutOK ==
  ASSUME NEW f, FileOK(f), NEW k \in Nat
  PROVE  /\ FileOK(Cut(f, k))
         /\ Cut(f, k).synced = Len(Cut(f, k).data)
<1> DEFINE len == Max({f.synced, Len(f.data) - k})
           g == [data |-> SubSeq(f.data, 1, len), synced |-> len, mtime |-> f.mtime]
<1>1. /\ f.data \in Seq(Bytes) /\ f.synced \in Nat /\ f.mtime \in 0..MaxTime
      /\ Len(f.data) \in Nat /\ f.synced <= Len(f.data) /\ Len(f.data) <= SegmentBytes
  BY DEF FileOK, Files
<1>2. len \in 0..Len(f.data)
  <2> DEFINE a == f.synced
             b == Len(f.data) - k
  <2>1. a \in Int /\ b \in Int /\ a >= 0 /\ a <= Len(f.data) /\ b <= Len(f.data)
    BY <1>1
  <2>2. len = Max({a, b})
    OBVIOUS
  <2> HIDE DEF a, b, len
  <2>3. len \in {a, b} /\ len >= a
    BY <2>1, <2>2, MaxOfTwo
  <2>4. QED
    BY <1>1, <2>1, <2>3
<1> HIDE DEF len
<1>3. \A i \in 1..len : f.data[i] \in Bytes
  BY <1>1, <1>2
<1>4. SubSeq(f.data, 1, len) \in Seq(Bytes) /\ Len(SubSeq(f.data, 1, len)) = len
  BY <1>2, <1>3, SubSeqProperties
<1>5. g \in Files /\ g.data = SubSeq(f.data, 1, len) /\ g.synced = len
  BY <1>1, <1>2, <1>4 DEF Files
<1>6. Cut(f, k) = g
  BY DEF Cut, len
<1>7. Len(g.data) = len /\ Len(f.data) \in Nat
  BY <1>1, <1>4, <1>5
<1>8. QED
  BY <1>1, <1>2, <1>5, <1>6, <1>7, SizesAssumption DEF FileOK

----------------------------------------------------------------------------
(* The inductive invariant: a directory in order, and an open log that is  *)
(* in it with the size the worker counts.                                  *)

OpenLogOK ==
    logFp # NoLog => /\ logPath = logFp
                     /\ logFp \in DOMAIN disk
                     /\ segment = Len(disk[logFp].data)

LogInv == TypeOK /\ DirOK(disk) /\ OpenLogOK /\ (pc = "rotate" => logFp = NoLog)

LEMMA NoLogName == NoLog \in Names
  BY ClockAssumption DEF NoLog, Names, Tokens

LEMMA SomeName ==
  ASSUME NEW t \in 0..MaxTime, NEW k \in Nat, NEW p \in Nat \ {0}
  PROVE  /\ [time |-> t, suffix |-> k] \in Tokens
         /\ [token |-> [time |-> t, suffix |-> k], part |-> p] \in Names \ {NoLog}
  BY DEF Tokens, Names, NoLog

LEMMA Elapsed ==
  ASSUME now \in 0..MaxTime, Elapse
  PROVE  now' \in 0..MaxTime
  BY ClockAssumption DEF Elapse

LEMMA DirTyped ==
  ASSUME NEW d, DirOK(d)
  PROVE  /\ DOMAIN d \subseteq Names
         /\ \A n \in DOMAIN d : d[n] \in Files
         /\ \A n \in DOMAIN d : d[n].data \in Seq(Bytes) /\ Len(d[n].data) \in 0..SegmentBytes
<1>1. DOMAIN d \subseteq Names /\ \A n \in DOMAIN d : d[n] \in Files
  BY DEF DirOK, FileOK
<1>2. \A n \in DOMAIN d : d[n].data \in Seq(Bytes) /\ Len(d[n].data) \in Nat
  BY <1>1 DEF Files
<1>3. \A n \in DOMAIN d : Len(d[n].data) <= SegmentBytes
  BY DEF DirOK, FileOK
<1>4. QED
  BY <1>1, <1>2, <1>3, SizesAssumption

LEMMA InitLog == Init => LogInv
<1> SUFFICES ASSUME Init PROVE LogInv
  OBVIOUS
<1>1. DOMAIN disk = {}
  BY DEF Init
<1>2. DirOK(disk)
  BY <1>1 DEF DirOK
<1>3. NoLog.token \in Tokens /\ NoLog \in Names
  BY NoLogName DEF Names
<1>4. TypeOK
  <2>1. remaining \in Seq(Bytes)
    BY EmptySeq DEF Init
  <2>2. /\ now \in 0..MaxTime /\ index \in Nat \ {0} /\ segment \in 0..SegmentBytes
        /\ received \in 0..MaxBytes /\ stale \in 0..MaxBytes /\ missed \in 0..MaxMissed
    BY SizesAssumption, ClockAssumption, LimitsAssumption DEF Init
  <2>3. QED
    BY <1>1, <1>3, <2>1, <2>2 DEF Init, TypeOK
<1>5. QED
  BY <1>2, <1>4 DEF LogInv, OpenLogOK, Init

LEMMA MissedTyped ==
  ASSUME TypeOK, [Next]_vars
  PROVE  missed' \in 0..MaxMissed
<1>1. missed \in 0..MaxMissed /\ MaxMissed \in Nat
  BY LimitsAssumption DEF TypeOK
<1>2. ASSUME NEW d, NEW c, Prune(d, c) PROVE missed' \in 0..MaxMissed
  BY <1>1, <1>2, PruneGives
<1>3. CASE StartSession
  BY <1>2, <1>3 DEF StartSession, StartPrunes
<1>4. CASE CloseLog
  BY <1>1, <1>2, <1>4 DEF CloseLog
<1>5. CASE OpenSegment
  BY <1>2, <1>5 DEF OpenSegment
<1>6. CASE ~StartSession /\ ~CloseLog /\ ~OpenSegment
  BY <1>1, <1>6 DEF Next, StartFails, BeginWrite, WritePiece, Rotate, EndWrite, MaybeForceSync, WriteFails,
     OpenSegmentFails, ForceSyncFails, IntervalPasses, PowerFails, vars
<1>7. QED
  BY <1>3, <1>4, <1>5, <1>6

(* A session starts on an empty file of its own, or not at all.            *)
LEMMA StartStep ==
  ASSUME LogInv, StartSession \/ StartFails
  PROVE  LogInv'
<1>1. now' \in 0..MaxTime
  BY Elapsed DEF LogInv, TypeOK, StartSession, StartFails
<1>2. PICK k \in 1..MaxSuffix :
        LET t == [time |-> now' \div SecondLength, suffix |-> k]
            n == [token |-> t, part |-> 1]
        IN /\ token' = t
           /\ \/ StartSession /\ Prune(Created(n), n) /\ logFp' = n /\ logPath' = n
              \/ StartFails /\ disk' = Created(n) /\ logFp' = NoLog /\ logPath' = NoLog
  BY DEF StartSession, StartFails, StartPrunes
<1> DEFINE t == [time |-> now' \div SecondLength, suffix |-> k]
           n == [token |-> t, part |-> 1]
<1>3. t \in Tokens /\ n \in Names \ {NoLog}
  BY <1>1, TimeStamp, SomeName, LimitsAssumption
<1>4. token' = t
  BY <1>2
<1>5. \/ disk' \in Prunings(Created(n), n) /\ logFp' = n /\ logPath' = n
      \/ disk' = Created(n) /\ logFp' = NoLog /\ logPath' = NoLog
  BY <1>2, PruneGives
<1> HIDE DEF t, n
<1>6. /\ DirOK(Created(n))
      /\ n \in DOMAIN Created(n)
      /\ Created(n)[n].data = <<>>
  BY <1>1, <1>3, CreatedDir DEF LogInv
<1>7. /\ DirOK(disk')
      /\ logFp' = n => n \in DOMAIN disk' /\ disk'[n].data = <<>>
  BY <1>3, <1>5, <1>6, PrunedDir
<1>8. /\ {logFp', logPath'} \subseteq Names
      /\ logFp' = NoLog \/ (logFp' = n /\ logPath' = n)
  <2>1. n \in Names
    BY <1>3
  <2>2. CASE disk' \in Prunings(Created(n), n) /\ logFp' = n /\ logPath' = n
    BY <2>1, <2>2
  <2>3. CASE disk' = Created(n) /\ logFp' = NoLog /\ logPath' = NoLog
    BY <2>3, NoLogName
  <2>4. QED
    BY <1>5, <2>2, <2>3
<1>9. /\ segment' = 0 /\ index' = 1 /\ due' = FALSE /\ pc' = pc /\ pc = "idle"
      /\ running' \in BOOLEAN /\ remaining' = remaining
      /\ received' = received /\ lost' = lost /\ stale' = stale
  BY DEF StartSession, StartFails, history, writer, LogInv, TypeOK
<1>10. segment' \in 0..SegmentBytes /\ index' \in Nat \ {0}
  BY <1>9, SizesAssumption
<1>13. missed' \in 0..MaxMissed
  BY MissedTyped, Zenon DEF LogInv, Next
<1>11. TypeOK'
  BY <1>1, <1>3, <1>4, <1>7, <1>8, <1>9, <1>10, <1>13, DirTyped DEF LogInv, TypeOK
<1>12. QED
  BY <1>7, <1>8, <1>9, <1>11 DEF LogInv, OpenLogOK

LEMMA CloseStep ==
  ASSUME LogInv, CloseLog
  PROVE  LogInv'
<1>1. DirOK(disk')
  <2>1. DirOK(Synced(disk, logFp)) /\ DirOK(disk)
    BY SyncedDir DEF LogInv, OpenLogOK, CloseLog
  <2>2. disk' = disk \/ disk' \in Prunings(Synced(disk, logFp), logPath)
    BY PruneGives DEF CloseLog, CloseSync
  <2>3. QED
    BY <2>1, <2>2, PrunedDir
<1>4. missed' \in 0..MaxMissed
  BY MissedTyped, Zenon DEF LogInv, Next
<1>2. TypeOK'
  BY <1>1, <1>4, NoLogName, DirTyped DEF LogInv, TypeOK, CloseLog, history
<1>3. QED
  BY <1>1, <1>2 DEF LogInv, OpenLogOK, CloseLog

LEMMA PieceOfRest ==
  ASSUME remaining \in Seq(Bytes), NEW k \in 1..Len(remaining)
  PROVE  /\ SubSeq(remaining, 1, k) \in Seq(Bytes)
         /\ Len(SubSeq(remaining, 1, k)) = k
         /\ SubSeq(remaining, k + 1, Len(remaining)) \in Seq(Bytes)
<1>1. /\ Len(remaining) \in Nat /\ k \in Nat /\ k >= 1
      /\ \A i \in 1..Len(remaining) : remaining[i] \in Bytes
  OBVIOUS
<1>2. /\ \A i \in 1..k : remaining[i] \in Bytes
      /\ \A i \in (k + 1)..Len(remaining) : remaining[i] \in Bytes
  BY <1>1
<1>3. QED
  BY <1>1, <1>2, SubSeqProperties

LEMMA BeginWriteStep ==
  ASSUME LogInv, BeginWrite
  PROVE  LogInv'
<1>1. PICK k \in 1..MaxChunk :
        /\ received + k <= MaxBytes
        /\ received' = received + k
        /\ remaining' = [i \in 1..k |-> received + i]
  BY DEF BeginWrite
<1>2. received' \in 0..MaxBytes
  BY <1>1, LimitsAssumption DEF LogInv, TypeOK
<1>3. remaining' \in Seq(Bytes)
  <2>1. \A i \in 1..k : received + i \in Bytes
    BY <1>1, LimitsAssumption DEF LogInv, TypeOK, Bytes
  <2>2. [i \in 1..k |-> received + i] \in Seq(Bytes)
    BY <2>1, LimitsAssumption, IsASeq
  <2>3. QED
    BY <1>1, <2>2
<1>4. QED
  BY <1>2, <1>3 DEF LogInv, TypeOK, OpenLogOK, BeginWrite, memory

(* The counter and the file grow by the same piece, which fits.            *)
LEMMA WritePieceStep ==
  ASSUME LogInv, WritePiece
  PROVE  LogInv'
<1> DEFINE f == disk[logFp]
<1>1. PICK k \in 1..Min({Capacity, Len(remaining)}) :
        /\ disk' = [disk EXCEPT ![logFp] =
                       [data   |-> @.data \o SubSeq(remaining, 1, k),
                        synced |-> @.synced,
                        mtime  |-> now']]
        /\ segment' = segment + k
        /\ remaining' = SubSeq(remaining, k + 1, Len(remaining))
  BY DEF WritePiece, Counted, Rest
<1>2. /\ Len(remaining) \in Nat /\ segment \in 0..SegmentBytes
      /\ Capacity \in Int /\ Capacity = SegmentBytes - segment
  <2>1. remaining \in Seq(Bytes) /\ segment \in 0..SegmentBytes
    BY DEF LogInv, TypeOK
  <2>2. QED
    BY <2>1, SizesAssumption DEF Capacity
<1>3. k \in 1..Len(remaining) /\ segment + k \in 0..SegmentBytes
  <2> DEFINE a == Capacity
             b == Len(remaining)
  <2>1. a \in Int /\ b \in Int /\ k \in 1..Min({a, b})
    BY <1>2
  <2> HIDE DEF a, b
  <2>2. Min({a, b}) \in Int /\ Min({a, b}) <= a /\ Min({a, b}) <= b
    BY <2>1, MinOfTwo
  <2>3. k \in Nat /\ k >= 1 /\ k <= a /\ k <= b
    BY <2>1, <2>2
  <2>4. QED
    BY <1>2, <2>3, SizesAssumption DEF a, b
<1>4. now' \in 0..MaxTime
  BY Elapsed DEF LogInv, TypeOK, WritePiece
<1> DEFINE piece == SubSeq(remaining, 1, k)
           g == [data |-> f.data \o piece, synced |-> f.synced, mtime |-> now']
<1>5. piece \in Seq(Bytes) /\ Len(piece) = k /\ remaining' \in Seq(Bytes)
  BY <1>1, <1>3, PieceOfRest DEF LogInv, TypeOK
<1>6. /\ logFp # NoLog /\ logFp \in DOMAIN disk /\ logPath = logFp
      /\ FileOK(f) /\ f \in Files /\ f.data \in Seq(Bytes) /\ f.synced \in Nat
      /\ f.synced <= Len(f.data) /\ segment = Len(f.data)
  BY DEF LogInv, OpenLogOK, DirOK, FileOK, Files, WritePiece
<1>7. disk' = [n \in DOMAIN disk |-> IF n = logFp THEN g ELSE disk[n]]
  BY <1>1, <1>6
<1> HIDE DEF piece, f
<1>8. Len(f.data \o piece) = Len(f.data) + k /\ f.data \o piece \in Seq(Bytes)
  BY <1>5, <1>6, ConcatProperties
<1>9. FileOK(g) /\ Len(g.data) = segment + k
  BY <1>3, <1>4, <1>6, <1>8 DEF FileOK, Files
<1> HIDE DEF g
<1>10. DirOK(disk') /\ DOMAIN disk' = DOMAIN disk /\ disk'[logFp] = g
  BY <1>6, <1>7, <1>9 DEF LogInv, DirOK
<1>11. TypeOK'
  BY <1>1, <1>3, <1>4, <1>5, <1>10, DirTyped DEF LogInv, TypeOK, WritePiece, history
<1>12. QED
  BY <1>1, <1>6, <1>9, <1>10, <1>11 DEF LogInv, OpenLogOK, WritePiece

LEMMA RotateStep ==
  ASSUME LogInv, Rotate
  PROVE  LogInv'
<1>1. DirOK(disk')
  BY SyncedDir DEF LogInv, OpenLogOK, Rotate, CloseSync
<1>2. index' \in Nat \ {0}
  BY DEF LogInv, TypeOK, Rotate, NextIndex
<1>3. TypeOK'
  BY <1>1, <1>2, NoLogName, DirTyped DEF LogInv, TypeOK, Rotate, history
<1>4. QED
  BY <1>1, <1>3 DEF LogInv, OpenLogOK, Rotate

LEMMA NextNameOK ==
  ASSUME TypeOK
  PROVE  NextName \in Names \ {NoLog}
  BY DEF TypeOK, NextName, Names, NoLog

LEMMA StopTyped ==
  ASSUME TypeOK, Stop
  PROVE  /\ running' = FALSE /\ pc' = "idle" /\ remaining' \in Seq(Bytes)
         /\ lost' \subseteq Bytes /\ received' = received /\ stale' = stale
<1>1. \A i \in 1..Len(remaining) : remaining[i] \in Bytes
  BY DEF TypeOK
<1>2. ToSet(remaining) \subseteq Bytes
  BY <1>1, LenProperties DEF ToSet, TypeOK
<1>3. QED
  BY <1>2, EmptySeq DEF Stop, TypeOK

LEMMA OpenSegmentStep ==
  ASSUME LogInv, OpenSegment
  PROVE  LogInv'
<1>1. now' \in 0..MaxTime /\ NextName \in Names \ {NoLog}
  BY Elapsed, NextNameOK DEF LogInv, TypeOK, OpenSegment
<1>2. /\ DirOK(Created(NextName)) /\ NextName \in DOMAIN Created(NextName)
      /\ Created(NextName)[NextName].data = <<>>
  BY <1>1, CreatedDir DEF LogInv
<1>3. /\ DirOK(disk') /\ NextName \in DOMAIN disk' /\ disk'[NextName].data = <<>>
  BY <1>2, PruneGives, PrunedDir DEF OpenSegment
<1>4. segment' = 0 /\ 0 \in 0..SegmentBytes
  BY SizesAssumption DEF OpenSegment
<1>7. missed' \in 0..MaxMissed
  BY MissedTyped, Zenon DEF LogInv, Next
<1>5. TypeOK'
  BY <1>1, <1>3, <1>4, <1>7, DirTyped DEF LogInv, TypeOK, OpenSegment, history
<1>6. QED
  BY <1>3, <1>4, <1>5 DEF LogInv, OpenLogOK, OpenSegment

LEMMA OpenSegmentFailsStep ==
  ASSUME LogInv, OpenSegmentFails
  PROVE  LogInv'
<1>1. /\ running' = FALSE /\ pc' = "idle" /\ remaining' \in Seq(Bytes)
      /\ lost' \subseteq Bytes /\ received' = received /\ stale' = stale
  BY StopTyped DEF LogInv, OpenSegmentFails
<1>2. CASE UNCHANGED <<disk, now, logFp, logPath, segment, due>>
  BY <1>1, <1>2 DEF LogInv, TypeOK, OpenLogOK, OpenSegmentFails
<1>3. CASE /\ Elapse
           /\ disk' = Created(NextName)
           /\ logFp' = NextName /\ logPath' = NextName
           /\ segment' = 0
           /\ due' = FALSE
  <2>1. now' \in 0..MaxTime /\ NextName \in Names \ {NoLog}
    BY <1>3, Elapsed, NextNameOK DEF LogInv, TypeOK
  <2>2. /\ DirOK(disk') /\ NextName \in DOMAIN disk' /\ disk'[NextName].data = <<>>
    BY <1>3, <2>1, CreatedDir DEF LogInv
  <2>3. 0 \in 0..SegmentBytes
    BY SizesAssumption
  <2>4. TypeOK'
    BY <1>1, <1>3, <2>1, <2>2, <2>3, DirTyped DEF LogInv, TypeOK, OpenSegmentFails
  <2>5. QED
    BY <1>1, <1>3, <2>2, <2>4 DEF LogInv, OpenLogOK
<1>4. QED
  BY <1>2, <1>3 DEF OpenSegmentFails

(* What is left after a loss of power is in order as well.                 *)
LEMMA PowerFailsStep ==
  ASSUME LogInv, PowerFails
  PROVE  LogInv'
<1>1. PICK k \in 0..SegmentBytes : disk' = [n \in DOMAIN disk |-> Cut(disk[n], k)]
  BY DEF PowerFails
<1>2. DirOK(disk')
  BY <1>1, CutOK, SizesAssumption DEF LogInv, DirOK
<1>3. lost' \subseteq Bytes
  <2>1. ToSet(remaining) \subseteq Bytes
    BY LenProperties DEF LogInv, TypeOK, ToSet
  <2>2. OnDisk(disk) \subseteq Bytes
    <3>1. \A n \in DOMAIN disk : ToSet(disk[n].data) \subseteq Bytes
      BY DirTyped, LenProperties DEF LogInv, ToSet
    <3>2. QED
      BY <3>1 DEF OnDisk
  <2>3. QED
    BY <2>1, <2>2 DEF PowerFails, LogInv, TypeOK
<1>4. now' \in 0..MaxTime
  <2>1. now \in 0..MaxTime
    BY DEF LogInv, TypeOK
  <2>2. now' = now \/ now' \in 0..now
    BY DEF PowerFails
  <2>3. QED
    BY <2>1, <2>2, ClockAssumption
<1>5. /\ token' \in Tokens /\ {logFp', logPath'} \subseteq Names
      /\ index' \in Nat \ {0} /\ segment' \in 0..SegmentBytes
      /\ remaining' \in Seq(Bytes)
  BY NoLogName, EmptySeq, SizesAssumption DEF PowerFails, Names
<1>6. TypeOK'
  BY <1>2, <1>3, <1>4, <1>5, DirTyped DEF LogInv, TypeOK, PowerFails
<1>7. QED
  BY <1>2, <1>6 DEF LogInv, OpenLogOK, PowerFails

(* Steps that leave the directory and the open log alone, or sync it.      *)
LEMMA OtherStep ==
  ASSUME LogInv,
         \/ EndWrite \/ MaybeForceSync \/ WriteFails \/ ForceSyncFails \/ IntervalPasses
         \/ UNCHANGED vars
  PROVE  LogInv'
<1>1. CASE MaybeForceSync /\ logFp # NoLog /\ due
  <2>1. /\ DirOK(disk') /\ DOMAIN disk' = DOMAIN disk
        /\ disk'[logFp].data = disk[logFp].data
    BY <1>1, SyncedDir DEF LogInv, OpenLogOK, MaybeForceSync, SyncDue
  <2>2. QED
    BY <1>1, <2>1, DirTyped DEF LogInv, TypeOK, OpenLogOK, MaybeForceSync, memory, history
<1>2. CASE MaybeForceSync /\ ~(logFp # NoLog /\ due)
  BY <1>2 DEF LogInv, TypeOK, OpenLogOK, MaybeForceSync, SyncDue, memory, history
<1>3. CASE WriteFails \/ ForceSyncFails
  <2>1. /\ running' = FALSE /\ pc' = "idle" /\ remaining' \in Seq(Bytes)
        /\ lost' \subseteq Bytes /\ received' = received /\ stale' = stale
    BY <1>3, StopTyped DEF LogInv, WriteFails, ForceSyncFails
  <2>2. UNCHANGED <<disk, now, memory, due, missed>>
    BY <1>3 DEF WriteFails, ForceSyncFails
  <2>3. QED
    BY <2>1, <2>2 DEF LogInv, TypeOK, OpenLogOK, memory
<1>4. CASE EndWrite
  BY <1>4 DEF LogInv, TypeOK, OpenLogOK, EndWrite, memory, history
<1>5. CASE IntervalPasses
  BY <1>5 DEF LogInv, TypeOK, OpenLogOK, IntervalPasses, memory, writer
<1>6. CASE UNCHANGED vars
  BY <1>6 DEF LogInv, TypeOK, OpenLogOK, vars, memory, writer, history
<1>7. QED
  BY <1>1, <1>2, <1>3, <1>4, <1>5, <1>6

LEMMA LogInvariant == Spec => []LogInv
<1>1. LogInv /\ [Next]_vars => LogInv'
  <2> SUFFICES ASSUME LogInv, [Next]_vars PROVE LogInv'
    OBVIOUS
  <2>1. QED
    BY StartStep, CloseStep, BeginWriteStep, WritePieceStep, RotateStep,
       OpenSegmentStep, OpenSegmentFailsStep, PowerFailsStep, OtherStep DEF Next
<1>2. QED
  BY <1>1, InitLog, PTL DEF Spec

(* Every variable keeps its type, whatever the sizes and the faults.       *)
THEOREM RawLogTyped == Spec => []TypeOK
<1>1. LogInv => TypeOK
  BY DEF LogInv
<1>2. QED
  BY <1>1, LogInvariant, PTL

(* The open log is never pruned, its size is what the worker counts, and   *)
(* no file outgrows a segment, whatever fails and however the clock runs.  *)
THEOREM OpenLogIsCounted == Spec => []SegmentCounted
<1>1. LogInv => SegmentCounted
  BY DEF LogInv, DirOK, FileOK, OpenLogOK, SegmentCounted
<1>2. QED
  BY <1>1, LogInvariant, PTL

----------------------------------------------------------------------------
(* Durability, as long as fsync() does what it says.                       *)

Durable(d, but) == \A n \in DOMAIN d \ {but} : d[n].synced = Len(d[n].data)

LEMMA PrunedDurable ==
  ASSUME NEW d, DirOK(d), NEW c, NEW e \in Prunings(d, c), NEW but, Durable(d, but)
  PROVE  Durable(e, but)
  BY PrunedDir DEF Durable

LEMMA SyncedDurable ==
  ASSUME NEW d, DirOK(d), NEW c \in DOMAIN d, Durable(d, c)
  PROVE  Durable(Synced(d, c), NoLog)
<1>1. /\ DOMAIN Synced(d, c) = DOMAIN d /\ \A m \in DOMAIN d : Synced(d, c)[m].data = d[m].data
      /\ \A m \in DOMAIN d \ {c} : Synced(d, c)[m] = d[m]
      /\ Synced(d, c)[c].synced = Len(d[c].data)
  BY SyncedDir, SyncedKeeps
<1> DEFINE e == Synced(d, c)
<1> HIDE DEF e
<1>2. /\ DOMAIN e = DOMAIN d /\ \A m \in DOMAIN d : e[m].data = d[m].data
      /\ \A m \in DOMAIN d \ {c} : e[m] = d[m]
      /\ e[c].synced = Len(d[c].data)
  BY <1>1 DEF e
<1>3. ASSUME NEW m \in DOMAIN e \ {NoLog} PROVE e[m].synced = Len(e[m].data)
  <2>1. m \in DOMAIN d /\ e[m].data = d[m].data
    BY <1>2
  <2>2. CASE m = c
    BY <1>2, <2>1, <2>2
  <2>3. CASE m # c
    <3>1. e[m] = d[m] /\ d[m].synced = Len(d[m].data)
      BY <1>2, <2>1, <2>3 DEF Durable
    <3>2. QED
      BY <3>1
  <2>4. QED
    BY <2>2, <2>3
<1>4. QED
  BY <1>3 DEF Durable, e

LEMMA CreatedDurable ==
  ASSUME LogInv, Durable(disk, NoLog), NEW n \in Names \ {NoLog}, now' \in 0..MaxTime
  PROVE  Durable(Created(n), n)
<1>1. NoLog \notin DOMAIN disk
  BY DEF LogInv, DirOK
<1>2. /\ DOMAIN Created(n) = DOMAIN disk \cup {n}
      /\ \A m \in DOMAIN disk \ {n} : Created(n)[m] = disk[m]
  BY CreatedDir DEF LogInv
<1>3. \A m \in DOMAIN Created(n) \ {n} :
        m \in DOMAIN disk \ {NoLog} /\ Created(n)[m] = disk[m]
  BY <1>1, <1>2
<1>4. QED
  BY <1>3 DEF Durable

LEMMA DurableStep ==
  ASSUME "logSync" \notin Faults, LogInv, LogInv', Durable(disk, logFp), [Next]_vars
  PROVE  Durable(disk', logFp')
<1> USE DEF LogInv
<1>1. CASE StartSession
  <2>1. PICK k \in 1..MaxSuffix :
          LET t == [time |-> now' \div SecondLength, suffix |-> k]
              n == [token |-> t, part |-> 1]
          IN disk' \in Prunings(Created(n), n) /\ logFp' = n
    BY <1>1, PruneGives DEF StartSession, StartPrunes
  <2> DEFINE t == [time |-> now' \div SecondLength, suffix |-> k]
             n == [token |-> t, part |-> 1]
  <2>2. now' \in 0..MaxTime
    BY DEF TypeOK
  <2>3. n \in Names \ {NoLog}
    BY <2>2, TimeStamp, SomeName, LimitsAssumption
  <2>4. disk' \in Prunings(Created(n), n) /\ logFp' = n
    BY <2>1
  <2> HIDE DEF n, t
  <2>5. DirOK(Created(n)) /\ Durable(Created(n), n)
    BY <1>1, <2>2, <2>3, CreatedDir, CreatedDurable DEF StartSession
  <2>6. QED
    BY <2>4, <2>5, PrunedDurable
<1>2. CASE CloseLog
  <2>1. /\ logFp \in DOMAIN disk
        /\ disk' \in Prunings(Synced(disk, logFp), logPath) /\ logFp' = NoLog
    BY <1>2, PruneGives DEF CloseLog, CloseSync, OpenLogOK
  <2>2. QED
    BY <2>1, SyncedDir, SyncedDurable, PrunedDurable
<1>3. CASE Rotate
  BY <1>3, SyncedDurable DEF Rotate, CloseSync, OpenLogOK
<1>4. CASE OpenSegment
  <2>1. now' \in 0..MaxTime /\ NextName \in Names \ {NoLog} /\ logFp = NoLog
    BY <1>4, NextNameOK DEF TypeOK, OpenSegment
  <2>2. DirOK(Created(NextName)) /\ Durable(Created(NextName), NextName)
    BY <2>1, CreatedDir, CreatedDurable
  <2>3. QED
    BY <1>4, <2>2, PruneGives, PrunedDurable DEF OpenSegment
<1>5. CASE WritePiece
  <2>1. \A n \in DOMAIN disk \ {logFp} : n \in DOMAIN disk' /\ disk'[n] = disk[n]
    BY <1>5 DEF WritePiece
  <2>2. DOMAIN disk' = DOMAIN disk /\ logFp' = logFp
    BY <1>5 DEF WritePiece
  <2>3. QED
    BY <2>1, <2>2 DEF Durable
<1>6. CASE PowerFails
  <2>1. PICK k \in 0..SegmentBytes : disk' = [n \in DOMAIN disk |-> Cut(disk[n], k)]
    BY <1>6 DEF PowerFails
  <2>2. QED
    BY <2>1, CutOK, SizesAssumption DEF Durable, DirOK
<1>7. CASE MaybeForceSync
  <2>1. CASE logFp # NoLog /\ due
    BY <1>7, <2>1, SyncedDir DEF MaybeForceSync, SyncDue, OpenLogOK, Durable, memory
  <2>2. CASE ~(logFp # NoLog /\ due)
    BY <1>7, <2>2 DEF MaybeForceSync, SyncDue, memory
  <2>3. QED
    BY <2>1, <2>2
<1>8. CASE StartFails \/ ForceSyncFails
  BY <1>8 DEF StartFails, ForceSyncFails
<1>9. CASE BeginWrite \/ EndWrite \/ WriteFails \/ OpenSegmentFails \/ IntervalPasses
           \/ UNCHANGED vars
  BY <1>9 DEF BeginWrite, EndWrite, WriteFails, OpenSegmentFails, IntervalPasses, vars, memory
<1>10. QED
  BY <1>1, <1>2, <1>3, <1>4, <1>5, <1>6, <1>7, <1>8, <1>9 DEF Next

(* A log that is not open is on the disk in full: a loss of power can only *)
(* take bytes of the open segment.                                         *)
THEOREM ClosedLogsAreDurable ==
  ASSUME "logSync" \notin Faults
  PROVE  Spec => []ClosedIsDurable
<1>1. Init => Durable(disk, logFp)
  BY DEF Init, Durable
<1>2. LogInv /\ LogInv' /\ Durable(disk, logFp) /\ [Next]_vars => Durable(disk, logFp)'
  BY DurableStep
<1>3. Durable(disk, logFp) => ClosedIsDurable
  BY DEF Durable, ClosedIsDurable
<1>4. QED
  BY <1>1, <1>2, <1>3, LogInvariant, PTL DEF Spec

----------------------------------------------------------------------------
(* The sync that is due.  A reader that writes has a log, but in the       *)
(* middle of a rotation.                                                   *)

SyncInv ==
    running => /\ logFp = NoLog => pc = "rotate"
               /\ pc = "idle" /\ due => received = stale

LEMMA SyncStep ==
  ASSUME LogInv, LogInv', SyncInv, [Next]_vars
  PROVE  SyncInv'
<1>1. CASE StartSession
  <2>1. logFp' # NoLog
    <3>1. now' \in 0..MaxTime
      BY DEF LogInv, TypeOK
    <3>2. now' \div SecondLength \in 0..MaxTime
      BY <3>1, TimeStamp
    <3>3. \E k \in 1..MaxSuffix :
             logFp' = [token |-> [time |-> now' \div SecondLength, suffix |-> k],
                       part  |-> 1]
      BY <1>1 DEF StartSession
    <3>4. QED
      BY <3>2, <3>3, SomeName, LimitsAssumption
  <2>2. QED
    BY <1>1, <2>1 DEF SyncInv, StartSession
<1>2. CASE OpenSegment
  <2>1. logFp' # NoLog
    BY <1>2, NextNameOK DEF OpenSegment, LogInv
  <2>2. QED
    BY <1>2, <2>1 DEF SyncInv, OpenSegment
<1>3. CASE CloseLog \/ WriteFails \/ OpenSegmentFails \/ ForceSyncFails \/ PowerFails
  BY <1>3 DEF SyncInv, CloseLog, WriteFails, OpenSegmentFails, ForceSyncFails, PowerFails, Stop
<1>4. CASE StartFails \/ BeginWrite \/ WritePiece \/ Rotate \/ EndWrite
  BY <1>4 DEF SyncInv, StartFails, BeginWrite, WritePiece, Rotate, EndWrite, writer, memory, history
<1>5. CASE MaybeForceSync
  BY <1>5 DEF SyncInv, MaybeForceSync, SyncDue, memory, history
<1>6. CASE IntervalPasses
  <2>1. stale' = received' /\ running' = running /\ logFp' = logFp /\ pc' = pc
    BY <1>6 DEF IntervalPasses, memory, writer
  <2>2. QED
    BY <2>1 DEF SyncInv
<1>7. CASE UNCHANGED vars
  BY <1>7 DEF SyncInv, vars, memory, writer, history
<1>8. QED
  BY <1>1, <1>2, <1>3, <1>4, <1>5, <1>6, <1>7 DEF Next

(* Every chunk that comes when a sync is due takes everything to the disk. *)
THEOREM DueSyncsHappen == Spec => []SyncedInTime
<1>1. Init => SyncInv
  BY DEF Init, SyncInv
<1>2. SyncInv => SyncedInTime
  BY DEF SyncInv, SyncedInTime
<1>3. QED
  BY <1>1, <1>2, SyncStep, LogInvariant, PTL DEF Spec

(* Together: what is to be on the disk is there in time, as long as        *)
(* fsync() does not fail.                                                  *)
THEOREM LogsAreDurable ==
  ASSUME "logSync" \notin Faults
  PROVE  Spec => []DurableInTime
<1>1. ClosedIsDurable /\ SyncedInTime => DurableInTime
  BY DEF DurableInTime
<1>2. QED
  BY <1>1, ClosedLogsAreDurable, DueSyncsHappen, PTL

----------------------------------------------------------------------------
(* The order of pruning is a strict and total order.                       *)

First(k) == IF k = 1 THEN 1 ELSE 0
Key(n) == <<n.token.time, First(n.token.suffix), n.token.suffix, First(n.part), n.part>>

LEMMA NameBeforeIs ==
  ASSUME NEW m \in Names, NEW n \in Names
  PROVE  NameBefore(m, n) <=>
           \/ Key(m)[1] < Key(n)[1]
           \/ Key(m)[1] = Key(n)[1] /\ Key(m)[2] < Key(n)[2]
           \/ Key(m)[1] = Key(n)[1] /\ Key(m)[2] = Key(n)[2] /\ Key(m)[3] < Key(n)[3]
           \/ Key(m)[1] = Key(n)[1] /\ Key(m)[2] = Key(n)[2] /\ Key(m)[3] = Key(n)[3]
                /\ Key(m)[4] < Key(n)[4]
           \/ Key(m)[1] = Key(n)[1] /\ Key(m)[2] = Key(n)[2] /\ Key(m)[3] = Key(n)[3]
                /\ Key(m)[4] = Key(n)[4] /\ Key(m)[5] < Key(n)[5]
<1> DEFINE Differ(i) == Key(m)[i] < Key(n)[i] /\ \A j \in 1..(i - 1) : Key(m)[j] = Key(n)[j]
<1>1. NameBefore(m, n) <=> \E i \in 1..5 : Differ(i)
  BY DEF NameBefore, Key, First
<1>2. 1..5 = {1, 2, 3, 4, 5}
  OBVIOUS
<1>3. 1..0 = {} /\ 1..1 = {1} /\ 1..2 = {1, 2} /\ 1..3 = {1, 2, 3} /\ 1..4 = {1, 2, 3, 4}
  OBVIOUS
<1> DEFINE a == Key(m)
           b == Key(n)
<1> HIDE DEF a, b
<1>4. /\ Differ(1) <=> a[1] < b[1]
      /\ Differ(2) <=> a[2] < b[2] /\ a[1] = b[1]
      /\ Differ(3) <=> a[3] < b[3] /\ a[1] = b[1] /\ a[2] = b[2]
      /\ Differ(4) <=> a[4] < b[4] /\ a[1] = b[1] /\ a[2] = b[2] /\ a[3] = b[3]
      /\ Differ(5) <=> a[5] < b[5] /\ a[1] = b[1] /\ a[2] = b[2] /\ a[3] = b[3] /\ a[4] = b[4]
  BY <1>3 DEF a, b
<1> HIDE DEF Differ
<1>5. NameBefore(m, n) <=> Differ(1) \/ Differ(2) \/ Differ(3) \/ Differ(4) \/ Differ(5)
  BY <1>1, <1>2
<1>6. QED
  BY <1>4, <1>5 DEF a, b

LEMMA KeyTyped ==
  ASSUME NEW n \in Names
  PROVE  /\ Key(n)[1] \in Nat /\ Key(n)[2] \in Nat /\ Key(n)[3] \in Nat
         /\ Key(n)[4] \in Nat /\ Key(n)[5] \in Nat
<1>1. n.token.time \in Nat /\ n.token.suffix \in Nat /\ n.part \in Nat
  BY ClockAssumption DEF Names, Tokens
<1>2. QED
  BY <1>1 DEF Key, First

LEMMA KeyDetermines ==
  ASSUME NEW m \in Names, NEW n \in Names,
         Key(m)[1] = Key(n)[1], Key(m)[3] = Key(n)[3], Key(m)[5] = Key(n)[5]
  PROVE  m = n
<1>1. m.token.time = n.token.time /\ m.token.suffix = n.token.suffix /\ m.part = n.part
  BY DEF Key
<1>2. /\ m.token \in Tokens /\ n.token \in Tokens
      /\ m = [token |-> m.token, part |-> m.part] /\ n = [token |-> n.token, part |-> n.part]
  BY DEF Names
<1>3. m.token = n.token
  BY <1>1, <1>2 DEF Tokens
<1>4. QED
  BY <1>1, <1>2, <1>3

LEMMA NameOrder ==
  /\ \A n \in Names : ~NameBefore(n, n)
  /\ \A l, m, n \in Names : NameBefore(l, m) /\ NameBefore(m, n) => NameBefore(l, n)
  /\ \A m, n \in Names : m # n => NameBefore(m, n) \/ NameBefore(n, m)
<1>1. ASSUME NEW n \in Names PROVE ~NameBefore(n, n)
  BY NameBeforeIs, KeyTyped
<1>2. ASSUME NEW l \in Names, NEW m \in Names, NEW n \in Names, NameBefore(l, m), NameBefore(m, n)
      PROVE  NameBefore(l, n)
  <2> DEFINE a == Key(l)
             b == Key(m)
             c == Key(n)
  <2>1. /\ a[1] \in Nat /\ a[2] \in Nat /\ a[3] \in Nat /\ a[4] \in Nat /\ a[5] \in Nat
        /\ b[1] \in Nat /\ b[2] \in Nat /\ b[3] \in Nat /\ b[4] \in Nat /\ b[5] \in Nat
        /\ c[1] \in Nat /\ c[2] \in Nat /\ c[3] \in Nat /\ c[4] \in Nat /\ c[5] \in Nat
    BY KeyTyped
  <2>2. \/ a[1] < b[1]
        \/ a[1] = b[1] /\ a[2] < b[2]
        \/ a[1] = b[1] /\ a[2] = b[2] /\ a[3] < b[3]
        \/ a[1] = b[1] /\ a[2] = b[2] /\ a[3] = b[3] /\ a[4] < b[4]
        \/ a[1] = b[1] /\ a[2] = b[2] /\ a[3] = b[3] /\ a[4] = b[4] /\ a[5] < b[5]
    BY <1>2, NameBeforeIs
  <2>3. \/ b[1] < c[1]
        \/ b[1] = c[1] /\ b[2] < c[2]
        \/ b[1] = c[1] /\ b[2] = c[2] /\ b[3] < c[3]
        \/ b[1] = c[1] /\ b[2] = c[2] /\ b[3] = c[3] /\ b[4] < c[4]
        \/ b[1] = c[1] /\ b[2] = c[2] /\ b[3] = c[3] /\ b[4] = c[4] /\ b[5] < c[5]
    BY <1>2, NameBeforeIs
  <2> HIDE DEF a, b, c
  <2>4. \/ a[1] < c[1]
        \/ a[1] = c[1] /\ a[2] < c[2]
        \/ a[1] = c[1] /\ a[2] = c[2] /\ a[3] < c[3]
        \/ a[1] = c[1] /\ a[2] = c[2] /\ a[3] = c[3] /\ a[4] < c[4]
        \/ a[1] = c[1] /\ a[2] = c[2] /\ a[3] = c[3] /\ a[4] = c[4] /\ a[5] < c[5]
    BY <2>1, <2>2, <2>3
  <2>5. QED
    BY <2>4, NameBeforeIs DEF a, c
<1>3. ASSUME NEW m \in Names, NEW n \in Names, m # n PROVE NameBefore(m, n) \/ NameBefore(n, m)
  <2>1. ~(Key(m)[1] = Key(n)[1] /\ Key(m)[3] = Key(n)[3] /\ Key(m)[5] = Key(n)[5])
    BY <1>3, KeyDetermines
  <2>2. QED
    BY <2>1, KeyTyped, NameBeforeIs
<1>4. QED
  BY <1>1, <1>2, <1>3

LEMMA OlderOrder ==
  ASSUME NEW d, DirOK(d)
  PROVE  /\ \A n \in DOMAIN d : ~Older(d, n, n)
         /\ \A l, m, n \in DOMAIN d : Older(d, l, m) /\ Older(d, m, n) => Older(d, l, n)
         /\ \A m, n \in DOMAIN d : m # n => Older(d, m, n) \/ Older(d, n, m)
<1>1. /\ DOMAIN d \subseteq Names
      /\ \A n \in DOMAIN d : d[n].mtime \in Nat
  BY DirTyped, ClockAssumption DEF Files
<1>2. ASSUME NEW l \in DOMAIN d, NEW m \in DOMAIN d, NEW n \in DOMAIN d,
             Older(d, l, m), Older(d, m, n)
      PROVE  Older(d, l, n)
  <2>1. l \in Names /\ m \in Names /\ n \in Names
    BY <1>1
  <2>2. NameBefore(l, m) /\ NameBefore(m, n) => NameBefore(l, n)
    BY <2>1, NameOrder
  <2>3. d[l].mtime \in Nat /\ d[m].mtime \in Nat /\ d[n].mtime \in Nat
    BY <1>1
  <2>4. QED
    BY <1>2, <2>2, <2>3 DEF Older
<1>3. ASSUME NEW m \in DOMAIN d, NEW n \in DOMAIN d, m # n PROVE Older(d, m, n) \/ Older(d, n, m)
  <2>1. NameBefore(m, n) \/ NameBefore(n, m)
    BY <1>1, <1>3, NameOrder
  <2>2. d[m].mtime \in Nat /\ d[n].mtime \in Nat
    BY <1>1
  <2>3. QED
    BY <2>1, <2>2 DEF Older
<1>4. ASSUME NEW n \in DOMAIN d PROVE ~Older(d, n, n)
  <2>1. ~NameBefore(n, n)
    BY <1>1, NameOrder
  <2>2. QED
    BY <1>1, <2>1 DEF Older
<1>5. QED
  BY <1>2, <1>3, <1>4

(* In a finite set a strict order has a first element.                     *)
LEMMA FirstElement ==
  ASSUME NEW T, IsFiniteSet(T), T # {}, NEW R,
         \A n \in T : <<n, n>> \notin R,
         \A l, m, n \in T : <<l, m>> \in R /\ <<m, n>> \in R => <<l, n>> \in R
  PROVE  \E n \in T : \A m \in T : <<m, n>> \notin R
<1> DEFINE below(n) == {m \in T : <<m, n>> \in R}
           F == {below(n) : n \in T}
<1>1. IsWellFoundedOn(StrictSubsetOrdering(T), FiniteSubsetsOf(T))
  BY FS_StrictSubsetOrderingWellFounded
<1>2. F \subseteq FiniteSubsetsOf(T) /\ F # {}
  <2>1. \A n \in T : below(n) \in SUBSET T /\ IsFiniteSet(below(n))
    BY FS_Subset
  <2>2. \A n \in T : below(n) \in FiniteSubsetsOf(T)
    BY <2>1 DEF FiniteSubsetsOf
  <2> HIDE DEF below
  <2>3. QED
    BY <2>2
<1> HIDE DEF F
<1>3. PICK s \in F : \A t \in F : ~(<<t, s>> \in StrictSubsetOrdering(T))
  BY <1>1, <1>2, WFMin
<1>4. PICK n \in T : s = below(n)
  BY DEF F
<1>5. SUFFICES ASSUME NEW m \in T, <<m, n>> \in R PROVE FALSE
  OBVIOUS
<1>6. below(m) \in F /\ below(m) \subseteq below(n) /\ m \in below(n) /\ m \notin below(m)
  <2>1. below(m) \in F
    <3> HIDE DEF below
    <3>1. QED
      BY DEF F
  <2>2. m \in below(n)
    BY <1>5
  <2>3. m \notin below(m)
    OBVIOUS
  <2>4. ASSUME NEW l \in below(m) PROVE l \in below(n)
    <3>1. l \in T /\ <<l, m>> \in R
      OBVIOUS
    <3>2. <<l, n>> \in R
      BY <1>5, <3>1
    <3>3. QED
      BY <3>1, <3>2
  <2> HIDE DEF below
  <2>5. QED
    BY <2>1, <2>2, <2>3, <2>4
<1>7. below(m) \in SUBSET T /\ below(n) \in SUBSET T
  OBVIOUS
<1> HIDE DEF below
<1>8. <<below(m), below(n)>> \in StrictSubsetOrdering(T)
  BY <1>6, <1>7 DEF StrictSubsetOrdering
<1>9. QED
  BY <1>3, <1>4, <1>6, <1>8

----------------------------------------------------------------------------
(* Sizes, counted by bytes: a file has a place for each of its bytes.      *)
Places(d, T) == UNION {{n} \X (1..Len(d[n].data)) : n \in T}
Some(s) == CHOOSE x \in s : TRUE
Adds(d, g) ==
    g = [s \in SUBSET DOMAIN d |-> IF s = {} THEN 0 ELSE Len(d[Some(s)].data) + g[s \ {Some(s)}]]

LEMMA SizeIsSum ==
  ASSUME NEW d
  PROVE  Size(d) = (CHOOSE g : Adds(d, g))[DOMAIN d]
  BY Zenon DEF Size, MapThenSumSet, MapThenFoldSet, Adds, Some

LEMMA PlacesCount ==
  ASSUME NEW d, IsFiniteSet(DOMAIN d), \A n \in DOMAIN d : Len(d[n].data) \in Nat
  PROVE  /\ \A s \in SUBSET DOMAIN d : IsFiniteSet(Places(d, s)) /\ Cardinality(Places(d, s)) \in Nat
         /\ Cardinality(Places(d, {})) = 0
         /\ \A s \in SUBSET DOMAIN d : \A x \in s :
               Cardinality(Places(d, s)) = Len(d[x].data) + Cardinality(Places(d, s \ {x}))
<1>1. ASSUME NEW s \in SUBSET DOMAIN d PROVE IsFiniteSet(Places(d, s)) /\ Cardinality(Places(d, s)) \in Nat
  <2> DEFINE F == {{n} \X (1..Len(d[n].data)) : n \in s}
  <2>1. IsFiniteSet(s)
    BY FS_Subset
  <2>2. IsFiniteSet(F)
    <3> DEFINE f == [n \in s |-> {n} \X (1..Len(d[n].data))]
    <3>1. f \in Surjection(s, F)
      BY Zenon DEF Surjection
    <3>2. QED
      BY <2>1, <3>1, FS_Surjection
  <2>3. \A n \in s : IsFiniteSet({n} \X (1..Len(d[n].data)))
    <3>1. ASSUME NEW n \in s PROVE IsFiniteSet({n} \X (1..Len(d[n].data)))
      <4>1. IsFiniteSet({n}) /\ IsFiniteSet(1..Len(d[n].data))
        <5>1. Len(d[n].data) \in Int
          OBVIOUS
        <5>2. IsFiniteSet({n})
          BY FS_Singleton
        <5>3. IsFiniteSet(1..Len(d[n].data))
          BY <5>1, FS_Interval
        <5>4. QED
          BY <5>2, <5>3
      <4>2. QED
        BY <4>1, FS_Product
    <3>2. QED
      BY <3>1
  <2>4. \A x \in F : IsFiniteSet(x)
    BY <2>3
  <2>5. IsFiniteSet(UNION F)
    <3> HIDE DEF F
    <3>1. QED
      BY <2>2, <2>4, FS_UNION
  <2>6. QED
    BY <2>5, FS_CardinalityType DEF Places
<1>2. Places(d, {}) = {}
  BY DEF Places
<1>3. ASSUME NEW s \in SUBSET DOMAIN d, NEW x \in s
      PROVE  Cardinality(Places(d, s)) = Len(d[x].data) + Cardinality(Places(d, s \ {x}))
  <2> DEFINE A == {x} \X (1..Len(d[x].data))
             B == Places(d, s \ {x})
  <2>1. Places(d, s) = A \cup B
    <3>1. \A p : p \in Places(d, s) <=> \E n \in s : p \in {n} \X (1..Len(d[n].data))
      BY DEF Places
    <3>2. \A p : p \in B <=> \E n \in s \ {x} : p \in {n} \X (1..Len(d[n].data))
      BY DEF Places
    <3> HIDE DEF B
    <3>3. QED
      BY <3>1, <3>2
  <2>2. A \cap B = {}
    <3>1. \A p \in B : \E n \in s \ {x} : p[1] = n
      BY DEF Places
    <3>2. \A p \in A : p[1] = x
      OBVIOUS
    <3> HIDE DEF A, B
    <3>3. QED
      BY <3>1, <3>2
  <2>3. IsFiniteSet(A) /\ Cardinality(A) = Len(d[x].data)
    <3>1. IsFiniteSet({x}) /\ Cardinality({x}) = 1
      BY FS_Singleton
    <3>2. IsFiniteSet(1..Len(d[x].data)) /\ Cardinality(1..Len(d[x].data)) = Len(d[x].data)
      BY FS_Interval
    <3>3. QED
      <4>1. IsFiniteSet(A) /\ Cardinality(A) = Cardinality({x}) * Cardinality(1..Len(d[x].data))
        BY <3>1, <3>2, FS_Product
      <4>2. Len(d[x].data) \in Nat
        OBVIOUS
      <4> HIDE DEF A
      <4>3. QED
        BY <3>1, <3>2, <4>1, <4>2
  <2>4. IsFiniteSet(B) /\ Cardinality(B) \in Nat
    BY <1>1
  <2> HIDE DEF A, B
  <2>5. Cardinality(A \cup B) = Cardinality(A) + Cardinality(B) - Cardinality(A \cap B)
    BY <2>3, <2>4, FS_Union
  <2>6. Cardinality(A \cap B) = 0
    BY <2>2, FS_EmptySet
  <2>7. QED
    BY <2>1, <2>3, <2>4, <2>5, <2>6 DEF B
<1>4. QED
  BY <1>1, <1>2, <1>3, FS_EmptySet

LEMMA SizeIsCount ==
  ASSUME NEW d, IsFiniteSet(DOMAIN d), \A n \in DOMAIN d : Len(d[n].data) \in Nat
  PROVE  Size(d) = Cardinality(Places(d, DOMAIN d))
<1> DEFINE c == [s \in SUBSET DOMAIN d |-> Cardinality(Places(d, s))]
           g == CHOOSE g : Adds(d, g)
<1>1. Adds(d, c)
  <2>1. ASSUME NEW s \in SUBSET DOMAIN d
        PROVE  c[s] = IF s = {} THEN 0 ELSE Len(d[Some(s)].data) + c[s \ {Some(s)}]
    <3>1. CASE s = {}
      BY <3>1, PlacesCount
    <3>2. CASE s # {}
      <4>1. Some(s) \in s
        BY <3>2 DEF Some
      <4>2. s \ {Some(s)} \in SUBSET DOMAIN d
        OBVIOUS
      <4>3. QED
        BY <3>2, <4>1, <4>2, PlacesCount
    <3>3. QED
      BY <3>1, <3>2
  <2>2. c = [s \in SUBSET DOMAIN d |-> c[s]]
    OBVIOUS
  <2> HIDE DEF c
  <2>3. QED
    BY <2>1, <2>2, Zenon DEF Adds
<1>2. Adds(d, g)
  BY <1>1
<1> HIDE DEF g
<1>3. \A s \in SUBSET DOMAIN d :
         g[s] = IF s = {} THEN 0 ELSE Len(d[Some(s)].data) + g[s \ {Some(s)}]
  BY <1>2 DEF Adds
<1>4. g[DOMAIN d] = c[DOMAIN d]
  <2> DEFINE T == {s \in SUBSET DOMAIN d : g[s] # c[s]}
             W == FiniteSubsetsOf(DOMAIN d)
  <2>1. IsWellFoundedOn(StrictSubsetOrdering(DOMAIN d), W)
    BY FS_StrictSubsetOrderingWellFounded
  <2>2. T \subseteq W
    BY FS_Subset DEF FiniteSubsetsOf
  <2>3. SUFFICES ASSUME T # {} PROVE FALSE
    OBVIOUS
  <2>4. PICK s \in T : \A t \in T : ~(<<t, s>> \in StrictSubsetOrdering(DOMAIN d))
    <3> HIDE DEF T, W
    <3>1. QED
      BY <2>1, <2>2, <2>3, WFMin
  <2>5. s \in SUBSET DOMAIN d /\ g[s] # c[s]
    OBVIOUS
  <2>6. CASE s = {}
    BY <1>3, <2>5, <2>6, PlacesCount
  <2>7. CASE s # {}
    <3> DEFINE x == Some(s)
    <3>1. x \in s
      BY <2>7 DEF Some
    <3>2. s \ {x} \in SUBSET DOMAIN d /\ g[s] = Len(d[x].data) + g[s \ {x}]
      BY <1>3, <2>5, <2>7
    <3>3. c[s] = Len(d[x].data) + c[s \ {x}]
      BY <2>5, <3>1, <3>2, PlacesCount
    <3> HIDE DEF x, c
    <3>4. g[s \ {x}] # c[s \ {x}]
      BY <2>5, <3>2, <3>3
    <3>5. <<s \ {x}, s>> \in StrictSubsetOrdering(DOMAIN d)
      BY <2>5, <3>1 DEF StrictSubsetOrdering
    <3>6. QED
      BY <2>4, <3>2, <3>4, <3>5
  <2>8. QED
    BY <2>6, <2>7
<1>5. QED
  BY <1>4, SizeIsSum DEF g

(* The bytes that a part of the directory holds.                           *)
Weight(d, T) == Cardinality(Places(d, T))

Finite(d) == DirOK(d) /\ IsFiniteSet(DOMAIN d)

LEMMA SizeIsWeight ==
  ASSUME NEW d, Finite(d)
  PROVE  Size(d) = Weight(d, DOMAIN d)
<1>1. IsFiniteSet(DOMAIN d) /\ \A n \in DOMAIN d : Len(d[n].data) \in Nat
  BY DirTyped DEF Finite
<1>2. QED
  BY <1>1, SizeIsCount DEF Weight

LEMMA WeightTyped ==
  ASSUME NEW d, Finite(d)
  PROVE  /\ \A T \in SUBSET DOMAIN d : Weight(d, T) \in Nat
         /\ \A T \in SUBSET DOMAIN d : \A x \in T :
               Weight(d, T) = Len(d[x].data) + Weight(d, T \ {x})
         /\ Weight(d, {}) = 0
<1>1. IsFiniteSet(DOMAIN d) /\ \A n \in DOMAIN d : Len(d[n].data) \in Nat
  BY DirTyped DEF Finite
<1>2. QED
  BY <1>1, PlacesCount DEF Weight

LEMMA WeightGrows ==
  ASSUME NEW d, Finite(d), NEW T \in SUBSET DOMAIN d, NEW S \in SUBSET T
  PROVE  Weight(d, S) <= Weight(d, T)
<1>1. IsFiniteSet(Places(d, T))
  <2>1. IsFiniteSet(DOMAIN d) /\ \A n \in DOMAIN d : Len(d[n].data) \in Nat
    BY DirTyped DEF Finite
  <2>2. QED
    BY <2>1, PlacesCount
<1>2. Places(d, S) \subseteq Places(d, T)
  BY DEF Places
<1>3. QED
  BY <1>1, <1>2, FS_Subset DEF Weight

LEMMA WeightOfOne ==
  ASSUME NEW d, Finite(d), NEW x \in DOMAIN d
  PROVE  Weight(d, {x}) = Len(d[x].data)
<1>1. {x} \in SUBSET DOMAIN d /\ {x} \ {x} = {} /\ Len(d[x].data) \in Nat
  BY DirTyped DEF Finite
<1>2. Weight(d, {x}) = Len(d[x].data) + Weight(d, {x} \ {x})
  BY <1>1, WeightTyped
<1>3. QED
  BY <1>1, <1>2, WeightTyped

LEMMA WeightSame ==
  ASSUME NEW d, NEW e, NEW T, \A n \in T : Len(d[n].data) = Len(e[n].data)
  PROVE  Weight(d, T) = Weight(e, T)
<1>1. Places(d, T) = Places(e, T)
  BY DEF Places
<1>2. QED
  BY <1>1 DEF Weight

LEMMA SizeOfPart ==
  ASSUME NEW d, Finite(d), NEW T \in SUBSET DOMAIN d
  PROVE  /\ Finite(Restrict(d, T))
         /\ Size(Restrict(d, T)) = Weight(d, T)
<1>1. DOMAIN Restrict(d, T) = T /\ \A n \in T : Restrict(d, T)[n] = d[n]
  BY DEF Restrict
<1>2. IsFiniteSet(T)
  BY FS_Subset DEF Finite
<1>3. Finite(Restrict(d, T))
  BY <1>1, <1>2 DEF Finite, DirOK
<1>4. Weight(Restrict(d, T), T) = Weight(d, T)
  BY <1>1, WeightSame
<1>5. QED
  BY <1>1, <1>3, <1>4, SizeIsWeight

----------------------------------------------------------------------------
(* Pruning.                                                                *)

(* What the directory holds when pruning gets to n.                        *)
From(d, c, n) == {m \in DOMAIN d : m = c \/ ~Older(d, m, n)}

LEMMA ExcessIs ==
  ASSUME NEW d, Finite(d), NEW c \in DOMAIN d
  PROVE  \A n \in DOMAIN d : n \in Excess(d, c) <=> n # c /\ ~(Weight(d, From(d, c, n)) <= TotalBytes)
<1>1. \A n \in DOMAIN d : n \in Excess(d, c) <=> n # c /\ Over(Size(Restrict(d, From(d, c, n))))
  BY Zenon DEF Excess, From
<1>2. \A n \in DOMAIN d : Size(Restrict(d, From(d, c, n))) = Weight(d, From(d, c, n))
  BY SizeOfPart DEF From
<1>3. \A n \in DOMAIN d : Weight(d, From(d, c, n)) \in Nat
  BY WeightTyped DEF From
<1>4. QED
  BY <1>1, <1>2, <1>3, SizesAssumption DEF Over

LEMMA PrunedIs ==
  ASSUME NEW d, Finite(d), NEW c \in DOMAIN d, NEW e \in Prunings(d, c)
  PROVE  /\ c \in DOMAIN e /\ DOMAIN e \subseteq DOMAIN d /\ Finite(e)
         /\ Size(e) = Weight(d, DOMAIN e)
         /\ \A n \in DOMAIN d \ DOMAIN e : ~(Weight(d, From(d, c, n)) <= TotalBytes)
         /\ \A n \in DOMAIN d \ DOMAIN e, m \in DOMAIN e :
               m # c /\ Older(d, m, n) => Weight(d, From(d, c, m)) <= TotalBytes
<1>1. PICK gone \in SUBSET Excess(d, c) : e = Without(d, gone) /\ OldestOf(d, gone, Excess(d, c))
  BY PruningsAre
<1>2. Excess(d, c) \subseteq DOMAIN d \ {c}
  BY DEF Excess
<1>3. e = Restrict(d, DOMAIN d \ gone) /\ DOMAIN e = DOMAIN d \ gone
  BY <1>1 DEF Without, Restrict
<1>4. Finite(e) /\ Size(e) = Weight(d, DOMAIN e)
  BY <1>3, SizeOfPart
<1>5. \A n \in DOMAIN d \ DOMAIN e : n \in gone /\ ~(Weight(d, From(d, c, n)) <= TotalBytes)
  BY <1>1, <1>2, <1>3, ExcessIs
<1>6. ASSUME NEW n \in DOMAIN d \ DOMAIN e, NEW m \in DOMAIN e, m # c, Older(d, m, n)
      PROVE  Weight(d, From(d, c, m)) <= TotalBytes
  <2>1. n \in gone /\ m \notin gone /\ m \in DOMAIN d
    BY <1>3, <1>5, <1>6
  <2>2. m \notin Excess(d, c)
    BY <1>1, <1>6, <2>1 DEF OldestOf
  <2>3. QED
    BY <1>6, <2>1, <2>2, ExcessIs
<1>7. c \in DOMAIN e /\ DOMAIN e \subseteq DOMAIN d
  BY <1>1, <1>2, <1>3
<1>8. QED
  BY <1>4, <1>5, <1>6, <1>7

(* A pruned directory is within its cap, if the open log is.               *)
LEMMA PrunedFits ==
  ASSUME NEW d, Finite(d), NEW c \in DOMAIN d, Len(d[c].data) <= TotalBytes
  PROVE  Size(Pruned(d, c)) <= TotalBytes
<1> DEFINE K == DOMAIN Pruned(d, c)
           T == K \ {c}
           R == {p \in K \X K : Older(d, p[1], p[2])}
<1>1. /\ c \in K /\ K \subseteq DOMAIN d /\ Size(Pruned(d, c)) = Weight(d, K)
      /\ \A n \in T : Weight(d, From(d, c, n)) <= TotalBytes
  <2>1. Pruned(d, c) \in Prunings(d, c)
    BY DEF Prunings
  <2>2. K = DOMAIN d \ Excess(d, c)
    BY DEF Pruned, Without, Restrict
  <2>3. /\ c \in DOMAIN Pruned(d, c) /\ DOMAIN Pruned(d, c) \subseteq DOMAIN d
        /\ Size(Pruned(d, c)) = Weight(d, DOMAIN Pruned(d, c))
    BY <2>1, PrunedIs
  <2>4. \A n \in T : Weight(d, From(d, c, n)) <= TotalBytes
    BY <2>2, ExcessIs
  <2>5. QED
    BY <2>3, <2>4
<1>2. CASE T = {}
  <2>1. K = {c}
    BY <1>1, <1>2
  <2>2. QED
    BY <1>1, <2>1, WeightOfOne
<1>3. CASE T # {}
  <2>1. IsFiniteSet(T)
    BY <1>1, FS_Subset DEF Finite
  <2>2. /\ \A n \in T : <<n, n>> \notin R
        /\ \A l, m, n \in T : <<l, m>> \in R /\ <<m, n>> \in R => <<l, n>> \in R
    <3>1. \A n \in T : ~Older(d, n, n)
      BY <1>1, OlderOrder DEF Finite
    <3>2. \A l, m, n \in T : Older(d, l, m) /\ Older(d, m, n) => Older(d, l, n)
      BY <1>1, OlderOrder DEF Finite
    <3> HIDE DEF K
    <3>3. QED
      BY <3>1, <3>2
  <2> HIDE DEF T, R, K
  <2>3. PICK n \in T : \A m \in T : <<m, n>> \notin R
    BY <1>3, <2>1, <2>2, FirstElement
  <2>4. \A m \in T : ~Older(d, m, n)
    BY <2>3 DEF R, T
  <2>5. K \subseteq From(d, c, n) /\ From(d, c, n) \subseteq DOMAIN d
    BY <1>1, <2>4 DEF From, T
  <2>6. Weight(d, K) <= Weight(d, From(d, c, n))
    BY <2>5, WeightGrows
  <2>7. /\ Weight(d, K) \in Nat /\ Weight(d, From(d, c, n)) \in Nat
        /\ Weight(d, From(d, c, n)) <= TotalBytes
    BY <1>1, <2>3, <2>5, WeightTyped
  <2>8. QED
    BY <1>1, <2>6, <2>7, SizesAssumption
<1>4. QED
  BY <1>2, <1>3

(* ... and with one of the logs that went it would not be.                 *)
LEMMA PrunedNoMore ==
  ASSUME NEW d, Finite(d), NEW c \in DOMAIN d, NEW e \in Prunings(d, c), DOMAIN d \ DOMAIN e # {}
  PROVE  \E n \in DOMAIN d \ DOMAIN e : Size(e) + Len(d[n].data) > TotalBytes
<1> DEFINE K == DOMAIN e
           T == DOMAIN d \ K
           R == {p \in T \X T : Older(d, p[2], p[1])}
<1>1. /\ c \in K /\ K \subseteq DOMAIN d /\ Size(e) = Weight(d, K)
      /\ \A n \in T : ~(Weight(d, From(d, c, n)) <= TotalBytes)
  BY PrunedIs
<1>2. IsFiniteSet(T)
  BY FS_Subset DEF Finite
<1>3. /\ \A n \in T : <<n, n>> \notin R
      /\ \A l, m, n \in T : <<l, m>> \in R /\ <<m, n>> \in R => <<l, n>> \in R
  <2>1. \A n \in T : ~Older(d, n, n)
    BY OlderOrder DEF Finite
  <2>2. \A l, m, n \in T : Older(d, m, l) /\ Older(d, n, m) => Older(d, n, l)
    BY OlderOrder DEF Finite
  <2> HIDE DEF T
  <2>3. QED
    BY <2>1, <2>2
<1> HIDE DEF T, R, K
<1>4. PICK n \in T : \A m \in T : <<m, n>> \notin R
  <2>1. T # {}
    BY DEF T, K
  <2>2. QED
    BY <1>2, <1>3, <2>1, FirstElement
<1>5. n \in DOMAIN d \ K
  BY DEF T
<1>6. \A m \in T : ~Older(d, n, m)
  BY <1>4 DEF R
<1>7. \A m \in T : m # n => Older(d, m, n)
  BY <1>6, OlderOrder DEF T, Finite
<1>8. From(d, c, n) \subseteq K \cup {n}
  BY <1>1, <1>7 DEF From, T
<1>9. K \cup {n} \in SUBSET DOMAIN d /\ From(d, c, n) \in SUBSET DOMAIN d /\ n \in K \cup {n}
      /\ (K \cup {n}) \ {n} = K
  BY <1>1, <1>5 DEF From
<1>10. Weight(d, From(d, c, n)) <= Weight(d, K \cup {n})
  BY <1>8, <1>9, WeightGrows
<1>11. Weight(d, K \cup {n}) = Len(d[n].data) + Weight(d, K)
  BY <1>9, WeightTyped
<1>12. /\ Weight(d, K) \in Nat /\ Weight(d, From(d, c, n)) \in Nat /\ Len(d[n].data) \in Nat
       /\ ~(Weight(d, From(d, c, n)) <= TotalBytes)
  <2>1. Weight(d, K) \in Nat /\ Weight(d, From(d, c, n)) \in Nat
    BY <1>1, <1>9, WeightTyped
  <2>2. Len(d[n].data) \in Nat
    BY <1>5, DirTyped DEF Finite
  <2>3. QED
    BY <1>1, <2>1, <2>2
<1>13. Size(e) + Len(d[n].data) > TotalBytes
  BY <1>1, <1>10, <1>11, <1>12, SizesAssumption
<1>14. QED
  BY <1>5, <1>13 DEF K

----------------------------------------------------------------------------
(* The steps of the worker, by what they do to the directory.              *)

NewLog(n) == n \in Names \ {NoLog} /\ n \notin DOMAIN disk /\ now' \in 0..MaxTime

LEMMA StartsNew ==
  ASSUME LogInv, StartSession \/ StartFails
  PROVE  \E n : /\ NewLog(n) /\ n.part = 1 /\ n.token.time = now' \div SecondLength /\ token' = n.token
                /\ StartSession => Prune(Created(n), n) /\ logFp' = n
                /\ ~StartSession => disk' = Created(n) /\ logFp' = NoLog /\ running' = running
<1>1. now' \in 0..MaxTime
  BY Elapsed DEF LogInv, TypeOK, StartSession, StartFails
<1>2. PICK k \in 1..MaxSuffix :
        LET t == [time |-> now' \div SecondLength, suffix |-> k]
            n == [token |-> t, part |-> 1]
        IN /\ FreeToken(t)
           /\ token' = t
           /\ StartSession => Prune(Created(n), n) /\ logFp' = n
           /\ ~StartSession => disk' = Created(n)
  <2>1. CASE StartSession
    BY <2>1 DEF StartSession, StartPrunes
  <2>2. CASE ~StartSession
    BY <2>2 DEF StartFails
  <2>3. QED
    BY <2>1, <2>2
<1> DEFINE t == [time |-> now' \div SecondLength, suffix |-> k]
           n == [token |-> t, part |-> 1]
<1>3. t \in Tokens /\ n \in Names \ {NoLog} /\ n.part = 1 /\ n.token = t /\ t.time = now' \div SecondLength
  BY <1>1, TimeStamp, SomeName, LimitsAssumption
<1>4. n \notin DOMAIN disk
  <2>1. [token |-> [t EXCEPT !.suffix = t.suffix], part |-> 1] \notin DOMAIN disk
    BY <1>2 DEF FreeToken
  <2>2. [t EXCEPT !.suffix = t.suffix] = t
    OBVIOUS
  <2>3. QED
    BY <2>1, <2>2
<1>5. /\ token' = t
      /\ StartSession => Prune(Created(n), n) /\ logFp' = n
      /\ ~StartSession => disk' = Created(n)
  BY <1>2
<1>6. ~StartSession => logFp' = NoLog /\ running' = running
  BY DEF StartFails, writer
<1> HIDE DEF t, n
<1>7. NewLog(n)
  BY <1>1, <1>3, <1>4 DEF NewLog
<1>8. QED
  BY <1>3, <1>5, <1>6, <1>7

LEMMA SegmentsNew ==
  ASSUME LogInv, OpenSegment \/ OpenSegmentFails
  PROVE  /\ OpenSegment => /\ NewLog(NextName) /\ logFp' = NextName /\ segment' = 0
                           /\ Prune(Created(NextName), NextName)
         /\ ~OpenSegment => /\ running' = FALSE
                            /\ \/ UNCHANGED <<disk, now, logFp, segment>>
                               \/ /\ NewLog(NextName) /\ logFp' = NextName /\ segment' = 0
                                  /\ disk' = Created(NextName)
<1>1. CASE OpenSegment
  <2>1. now' \in 0..MaxTime /\ NextName \in Names \ {NoLog}
    BY <1>1, Elapsed, NextNameOK DEF LogInv, TypeOK, OpenSegment
  <2>2. QED
    BY <1>1, <2>1 DEF OpenSegment, NewLog
<1>2. CASE ~OpenSegment
  <2>1. running' = FALSE
    BY <1>2 DEF OpenSegmentFails, Stop
  <2>2. CASE UNCHANGED <<disk, now, logFp, segment>>
    BY <1>2, <2>1, <2>2
  <2>3. CASE ~UNCHANGED <<disk, now, logFp, segment>>
    <3>1. /\ NextName \notin DOMAIN disk /\ Elapse
          /\ disk' = Created(NextName) /\ logFp' = NextName /\ segment' = 0
      BY <1>2, <2>3 DEF OpenSegmentFails
    <3>2. now' \in 0..MaxTime /\ NextName \in Names \ {NoLog}
      BY <3>1, Elapsed, NextNameOK DEF LogInv, TypeOK
    <3>3. QED
      BY <1>2, <2>1, <3>1, <3>2 DEF NewLog
  <2>4. QED
    BY <2>2, <2>3
<1>3. QED
  BY <1>1, <1>2

LEMMA CreatedNew ==
  ASSUME LogInv, NEW n, NewLog(n)
  PROVE  /\ DirOK(Created(n)) /\ DOMAIN Created(n) = DOMAIN disk \cup {n} /\ n \in DOMAIN Created(n)
         /\ Created(n)[n].data = <<>> /\ Created(n)[n].synced = 0 /\ Created(n)[n].mtime = now'
         /\ \A m \in DOMAIN disk : m # n /\ m \in DOMAIN Created(n) /\ Created(n)[m] = disk[m]
         /\ IsFiniteSet(DOMAIN disk) => Finite(Created(n))
<1>1. n \in Names \ {NoLog} /\ now' \in 0..MaxTime /\ n \notin DOMAIN disk /\ DirOK(disk)
  BY DEF NewLog, LogInv
<1>2. /\ DirOK(Created(n)) /\ DOMAIN Created(n) = DOMAIN disk \cup {n}
      /\ Created(n)[n].data = <<>>
      /\ \A m \in DOMAIN disk \ {n} : Created(n)[m] = disk[m]
  BY <1>1, CreatedDir
<1>3. Created(n)[n].synced = 0 /\ Created(n)[n].mtime = now'
  BY DEF Created, NewFile
<1>4. IsFiniteSet(DOMAIN disk) => IsFiniteSet(DOMAIN disk \cup {n})
  BY FS_AddElement
<1>5. QED
  BY <1>1, <1>2, <1>3, <1>4 DEF Finite

LEMMA ClosesLog ==
  ASSUME LogInv, CloseLog
  PROVE  /\ logFp' = NoLog /\ logFp \in DOMAIN disk /\ running' = FALSE
         /\ (disk' = disk /\ missed' = missed) \/ Prune(Synced(disk, logFp), logFp)
  BY DEF LogInv, OpenLogOK, CloseLog, CloseSync

(* A piece is written to the open log: it grows, and its mtime is now.     *)
LEMMA WritesPiece ==
  ASSUME LogInv, WritePiece
  PROVE  \E k \in 1..Len(remaining) :
           LET piece == SubSeq(remaining, 1, k) IN
             /\ logFp # NoLog /\ logFp \in DOMAIN disk /\ DOMAIN disk' = DOMAIN disk
             /\ piece \in Seq(Bytes) /\ Len(piece) = k
             /\ disk'[logFp].data = disk[logFp].data \o piece
             /\ disk'[logFp].synced = disk[logFp].synced
             /\ disk'[logFp].mtime = now'
             /\ \A m \in DOMAIN disk \ {logFp} : disk'[m] = disk[m]
             /\ segment' = segment + k /\ segment + k <= SegmentBytes
             /\ remaining' = SubSeq(remaining, k + 1, Len(remaining))
             /\ UNCHANGED <<logFp, token, index, running, pc, received, lost>>
<1>1. PICK k \in 1..Min({Capacity, Len(remaining)}) :
        /\ disk' = [disk EXCEPT ![logFp] =
                       [data   |-> @.data \o SubSeq(remaining, 1, k),
                        synced |-> @.synced,
                        mtime  |-> now']]
        /\ segment' = segment + k
        /\ remaining' = SubSeq(remaining, k + 1, Len(remaining))
  BY DEF WritePiece, Counted, Rest
<1>2. /\ Len(remaining) \in Nat /\ segment \in 0..SegmentBytes
      /\ Capacity \in Int /\ Capacity = SegmentBytes - segment
  <2>1. remaining \in Seq(Bytes) /\ segment \in 0..SegmentBytes
    BY DEF LogInv, TypeOK
  <2>2. QED
    BY <2>1, SizesAssumption DEF Capacity
<1>3. k \in 1..Len(remaining) /\ segment + k <= SegmentBytes
  <2> DEFINE a == Capacity
             b == Len(remaining)
  <2>1. a \in Int /\ b \in Int /\ k \in 1..Min({a, b})
    BY <1>2
  <2> HIDE DEF a, b
  <2>2. Min({a, b}) \in Int /\ Min({a, b}) <= a /\ Min({a, b}) <= b
    BY <2>1, MinOfTwo
  <2>3. k \in Nat /\ k >= 1 /\ k <= a /\ k <= b
    BY <2>1, <2>2
  <2>4. QED
    BY <1>2, <2>3, SizesAssumption DEF a, b
<1>4. logFp # NoLog /\ logFp \in DOMAIN disk
  BY DEF LogInv, OpenLogOK, WritePiece
<1> DEFINE piece == SubSeq(remaining, 1, k)
<1>5. piece \in Seq(Bytes) /\ Len(piece) = k
  BY <1>3, PieceOfRest DEF LogInv, TypeOK
<1> HIDE DEF piece
<1>6. /\ DOMAIN disk' = DOMAIN disk
      /\ disk'[logFp] = [data |-> disk[logFp].data \o piece, synced |-> disk[logFp].synced, mtime |-> now']
      /\ \A m \in DOMAIN disk \ {logFp} : disk'[m] = disk[m]
  BY <1>1, <1>4 DEF piece
<1>7. UNCHANGED <<logFp, token, index, running, pc, received, lost>>
  BY DEF WritePiece, history
<1>8. QED
  BY <1>1, <1>3, <1>4, <1>5, <1>6, <1>7 DEF piece

(* Every other step leaves the directory alone, or syncs the open log.     *)
LEMMA KeepsDisk ==
  ASSUME LogInv, [Next]_vars,
         ~StartSession, ~StartFails, ~CloseLog, ~WritePiece, ~OpenSegment, ~OpenSegmentFails, ~PowerFails
  PROVE  /\ disk' = disk \/ (logFp \in DOMAIN disk /\ disk' = Synced(disk, logFp))
         /\ segment' = segment
         /\ logFp' = logFp \/ logFp' = NoLog
<1>1. CASE Rotate
  BY <1>1 DEF Rotate, LogInv, OpenLogOK, CloseSync
<1>2. CASE MaybeForceSync
  BY <1>2 DEF MaybeForceSync, LogInv, OpenLogOK, memory
<1>3. CASE BeginWrite \/ EndWrite \/ WriteFails \/ ForceSyncFails \/ IntervalPasses \/ UNCHANGED vars
  BY <1>3 DEF BeginWrite, EndWrite, WriteFails, ForceSyncFails, IntervalPasses, vars, memory
<1>4. QED
  BY <1>1, <1>2, <1>3 DEF Next

(* What a loss of power leaves of a file.                                  *)
LEMMA CutIs ==
  ASSUME NEW f, FileOK(f), NEW k \in Nat
  PROVE  \E l \in f.synced..Len(f.data) :
           /\ Cut(f, k).data = SubSeq(f.data, 1, l) /\ Len(Cut(f, k).data) = l
           /\ Cut(f, k).synced = l
           /\ Cut(f, k).mtime = f.mtime
           /\ \A i \in 1..l : Cut(f, k).data[i] = f.data[i]
<1> DEFINE a == f.synced
           b == Len(f.data) - k
           l == Max({a, b})
<1>1. /\ f.data \in Seq(Bytes) /\ a \in Nat /\ Len(f.data) \in Nat /\ a <= Len(f.data) /\ b \in Int /\ b <= Len(f.data)
  BY DEF FileOK, Files
<1>2. Cut(f, k) = [data |-> SubSeq(f.data, 1, l), synced |-> l, mtime |-> f.mtime]
  BY DEF Cut
<1> HIDE DEF a, b
<1>3. l \in {a, b} /\ l >= a
  <2>1. a \in Int /\ b \in Int
    BY <1>1
  <2>2. QED
    BY <2>1, MaxOfTwo
<1> HIDE DEF l
<1>4. l \in a..Len(f.data) /\ l \in Nat
  BY <1>1, <1>3
<1>5. \A i \in 1..l : f.data[i] \in Bytes
  BY <1>1, <1>4
<1>6. Len(SubSeq(f.data, 1, l)) = l /\ \A i \in 1..l : SubSeq(f.data, 1, l)[i] = f.data[i]
  BY <1>1, <1>4, <1>5, SubSeqProperties
<1>7. QED
  BY <1>2, <1>4, <1>6 DEF a

----------------------------------------------------------------------------
(* What was synced stays.                                                  *)

LEMMA SamePrefix ==
  ASSUME NEW s \in Seq(Bytes), NEW k \in 0..Len(s)
  PROVE  IsPrefix(SubSeq(s, 1, k), s) /\ IsPrefix(s, s)
<1>1. Len(s) \in Nat /\ \A i \in 1..Len(s) : s[i] \in Bytes
  OBVIOUS
<1>2. \A l \in 0..Len(s) :
        /\ SubSeq(s, 1, l) \in Seq(Bytes) /\ Len(SubSeq(s, 1, l)) = l
        /\ SubSeq(SubSeq(s, 1, l), 1, l) = SubSeq(s, 1, l)
  <2>1. ASSUME NEW l \in 0..Len(s)
        PROVE  /\ SubSeq(s, 1, l) \in Seq(Bytes) /\ Len(SubSeq(s, 1, l)) = l
               /\ SubSeq(SubSeq(s, 1, l), 1, l) = SubSeq(s, 1, l)
    <3>1. \A i \in 1..l : s[i] \in Bytes
      BY <1>1
    <3>2. SubSeq(s, 1, l) \in Seq(Bytes) /\ Len(SubSeq(s, 1, l)) = l
      BY <1>1, <3>1, SubSeqProperties
    <3> DEFINE t == SubSeq(s, 1, l)
    <3> HIDE DEF t
    <3>3. t \in Seq(Bytes) /\ Len(t) = l => SubSeq(t, 1, l) = t
      OBVIOUS
    <3>4. QED
      BY <3>2, <3>3 DEF t
  <2>2. QED
    BY <2>1
<1>3. SubSeq(s, 1, Len(s)) = s
  OBVIOUS
<1>4. Len(SubSeq(s, 1, k)) <= Len(s)
  BY <1>1, <1>2
<1>5. QED
  BY <1>1, <1>2, <1>3, <1>4 DEF IsPrefix

LEMMA LongerPrefix ==
  ASSUME NEW s \in Seq(Bytes), NEW t \in Seq(Bytes), NEW k \in 0..Len(s), k <= Len(t),
         \A i \in 1..k : t[i] = s[i]
  PROVE  IsPrefix(SubSeq(s, 1, k), t)
<1>1. /\ Len(s) \in Nat /\ Len(t) \in Nat
      /\ \A i \in 1..k : s[i] \in Bytes
      /\ \A i \in 1..k : t[i] \in Bytes
  OBVIOUS
<1>2. /\ SubSeq(s, 1, k) \in Seq(Bytes) /\ Len(SubSeq(s, 1, k)) = k
      /\ \A i \in 1..k : SubSeq(s, 1, k)[i] = s[i]
  BY <1>1, SubSeqProperties
<1>3. /\ SubSeq(t, 1, k) \in Seq(Bytes) /\ Len(SubSeq(t, 1, k)) = k
      /\ \A i \in 1..k : SubSeq(t, 1, k)[i] = t[i]
  BY <1>1, SubSeqProperties
<1> DEFINE p == SubSeq(s, 1, k)
           q == SubSeq(t, 1, k)
<1> HIDE DEF p, q
<1>4. p \in Seq(Bytes) /\ q \in Seq(Bytes) /\ Len(p) = k /\ Len(q) = k /\ \A i \in 1..k : p[i] = q[i]
  BY <1>2, <1>3 DEF p, q
<1>5. p = q
  BY <1>4, SeqEqual
<1>6. SubSeq(p, 1, Len(p)) = p
  BY <1>4
<1>7. QED
  BY <1>4, <1>5, <1>6 DEF IsPrefix, p, q

LEMMA SyncedStep ==
  ASSUME LogInv, [Next]_vars, NEW n \in DOMAIN disk \cap DOMAIN disk'
  PROVE  /\ IsPrefix(SubSeq(disk[n].data, 1, disk[n].synced), disk'[n].data)
         /\ n # logFp => IsPrefix(disk'[n].data, disk[n].data)
<1> DEFINE s == disk[n].data
           k == disk[n].synced
<1>1. /\ DirOK(disk) /\ FileOK(disk[n]) /\ s \in Seq(Bytes) /\ k \in 0..Len(s) /\ Len(s) \in Nat
  BY DEF LogInv, DirOK, FileOK, Files
<1>2. CASE disk'[n].data = s
  BY <1>1, <1>2, SamePrefix
<1>3. CASE WritePiece
  <2>1. PICK l \in 1..Len(remaining) :
          LET piece == SubSeq(remaining, 1, l) IN
             /\ piece \in Seq(Bytes) /\ Len(piece) = l
             /\ disk'[logFp].data = disk[logFp].data \o piece
             /\ \A m \in DOMAIN disk \ {logFp} : disk'[m] = disk[m]
    BY <1>3, WritesPiece
  <2> DEFINE piece == SubSeq(remaining, 1, l)
  <2>2. piece \in Seq(Bytes) /\ (n # logFp => disk'[n].data = s) /\ (n = logFp => disk'[n].data = s \o piece)
    BY <2>1
  <2> HIDE DEF piece
  <2>3. /\ s \o piece \in Seq(Bytes) /\ Len(s \o piece) = Len(s) + Len(piece) /\ Len(piece) \in Nat
        /\ \A i \in 1..Len(s) : (s \o piece)[i] = s[i]
    BY <1>1, <2>2, ConcatProperties
  <2> HIDE DEF s, k
  <2>4. IsPrefix(SubSeq(s, 1, k), s \o piece)
    <3>1. k <= Len(s \o piece) /\ \A i \in 1..k : (s \o piece)[i] = s[i]
      BY <1>1, <2>3
    <3>2. QED
      BY <1>1, <2>3, <3>1, LongerPrefix
  <2>5. QED
    BY <1>2, <2>2, <2>4 DEF s, k
<1>4. CASE PowerFails
  <2>1. PICK j \in 0..SegmentBytes : disk' = [m \in DOMAIN disk |-> Cut(disk[m], j)]
    BY <1>4 DEF PowerFails
  <2>2. disk'[n] = Cut(disk[n], j) /\ j \in Nat
    BY <2>1, SizesAssumption
  <2>3. PICK l \in k..Len(s) :
          /\ disk'[n].data = SubSeq(s, 1, l) /\ Len(disk'[n].data) = l
          /\ \A i \in 1..l : disk'[n].data[i] = s[i]
    <3>1. FileOK(disk[n]) /\ j \in Nat
      BY <1>1, <2>2
    <3> DEFINE f == disk[n]
    <3> HIDE DEF f
    <3>2. \E l \in f.synced..Len(f.data) :
            /\ Cut(f, j).data = SubSeq(f.data, 1, l) /\ Len(Cut(f, j).data) = l
            /\ \A i \in 1..l : Cut(f, j).data[i] = f.data[i]
      BY <3>1, CutIs DEF f
    <3>3. QED
      BY <2>2, <3>2 DEF f
  <2>4. l \in 0..Len(s) /\ k <= l
    BY <1>1, <2>3
  <2>5. IsPrefix(disk'[n].data, s)
    BY <1>1, <2>3, <2>4, SamePrefix
  <2>6. disk'[n].data \in Seq(Bytes)
    BY <1>1, <2>2, CutOK DEF FileOK, Files
  <2> DEFINE t == disk'[n].data
  <2> HIDE DEF s, k, t
  <2>7. IsPrefix(SubSeq(s, 1, k), t)
    <3>1. k <= Len(t) /\ (\A i \in 1..k : t[i] = s[i]) /\ k \in 0..Len(s) /\ t \in Seq(Bytes)
      BY <1>1, <2>3, <2>4, <2>6 DEF t
    <3>2. QED
      BY <1>1, <3>1, LongerPrefix
  <2>8. QED
    BY <2>5, <2>7 DEF s, k, t
<1>5. CASE StartSession \/ StartFails
  <2>1. PICK m : NewLog(m) /\ (disk' \in Prunings(Created(m), m) \/ disk' = Created(m))
    BY <1>5, StartsNew, PruneGives
  <2>2. DirOK(Created(m)) /\ n # m /\ Created(m)[n] = disk[n]
    BY <2>1, CreatedNew
  <2>3. QED
    BY <1>2, <2>1, <2>2, PrunedDir
<1>6. CASE OpenSegment \/ OpenSegmentFails
  <2>1. \/ disk' = disk
        \/ NewLog(NextName) /\ (disk' \in Prunings(Created(NextName), NextName) \/ disk' = Created(NextName))
    BY <1>6, SegmentsNew, PruneGives
  <2>2. CASE NewLog(NextName) /\ (disk' \in Prunings(Created(NextName), NextName) \/ disk' = Created(NextName))
    <3>1. DirOK(Created(NextName)) /\ n # NextName /\ Created(NextName)[n] = disk[n]
      BY <2>2, CreatedNew
    <3>2. QED
      BY <1>2, <2>2, <3>1, PrunedDir
  <2>3. QED
    BY <1>2, <2>1, <2>2
<1>7. CASE CloseLog
  <2>1. logFp \in DOMAIN disk /\ (disk' = disk \/ disk' \in Prunings(Synced(disk, logFp), logFp))
    BY <1>7, ClosesLog, PruneGives
  <2>2. DirOK(Synced(disk, logFp)) /\ Synced(disk, logFp)[n].data = s
    BY <1>1, <2>1, SyncedKeeps
  <2>3. QED
    BY <1>2, <2>1, <2>2, PrunedDir
<1>8. CASE ~(WritePiece \/ PowerFails \/ StartSession \/ StartFails \/ OpenSegment \/ OpenSegmentFails \/ CloseLog)
  <2>1. disk' = disk \/ (logFp \in DOMAIN disk /\ disk' = Synced(disk, logFp))
    BY <1>8, KeepsDisk
  <2>2. logFp \in DOMAIN disk => Synced(disk, logFp)[n].data = s
    BY <1>1, SyncedKeeps
  <2>3. QED
    BY <1>2, <2>1, <2>2
<1>9. QED
  BY <1>3, <1>4, <1>5, <1>6, <1>7, <1>8

(* What was synced stays until it is pruned, and no session writes to the  *)
(* file of another, whatever fails and however the clock runs.             *)
THEOREM SyncedDataStays == Spec => SyncedStays
<1>1. LogInv /\ [Next]_vars =>
        [\A n \in DOMAIN disk \cap DOMAIN disk' :
           /\ IsPrefix(SubSeq(disk[n].data, 1, disk[n].synced), disk'[n].data)
           /\ n # logFp => IsPrefix(disk'[n].data, disk[n].data)]_vars
  BY SyncedStep
<1>2. QED
  BY <1>1, LogInvariant, PTL DEF Spec, SyncedStays

----------------------------------------------------------------------------
(* The size of the directory.                                              *)

(* The cap, with a segment more for every pruning that an error ended.     *)
Allowed == TotalBytes + missed * SegmentBytes

(* Between two prunings only the open segment grows.                       *)
DiskInv ==
    /\ IsFiniteSet(DOMAIN disk)
    /\ Size(disk) <= Allowed + SegmentBytes
    /\ running /\ logFp # NoLog => Size(disk) <= Allowed + segment
    /\ pc \in {"write", "rotate"} => running

LEMMA SizeTyped ==
  ASSUME NEW d, Finite(d)
  PROVE  Size(d) \in Nat
  BY SizeIsWeight, WeightTyped

LEMMA SameSize ==
  ASSUME NEW d, Finite(d), NEW e, Finite(e), NEW D, D = DOMAIN d, D = DOMAIN e,
         \A n \in D : Len(d[n].data) = Len(e[n].data)
  PROVE  Size(d) = Size(e)
<1>1. Size(d) = Weight(d, D) /\ Size(e) = Weight(e, D)
  BY SizeIsWeight
<1>2. QED
  BY <1>1, WeightSame

LEMMA PrunedSize ==
  ASSUME NEW d, Finite(d), NEW c \in DOMAIN d, NEW e \in Prunings(d, c)
  PROVE  Finite(e) /\ Size(e) <= Size(d)
<1>1. Finite(e) /\ DOMAIN e \subseteq DOMAIN d /\ Size(e) = Weight(d, DOMAIN e)
  BY PrunedIs
<1>2. Weight(d, DOMAIN e) <= Weight(d, DOMAIN d)
  BY <1>1, WeightGrows
<1>3. QED
  BY <1>1, <1>2, SizeIsWeight

LEMMA AllowedTyped ==
  ASSUME LogInv, LogInv'
  PROVE  /\ Allowed \in Nat /\ Allowed' \in Nat
         /\ missed' = missed => Allowed' = Allowed
         /\ missed' = 0 => Allowed' = TotalBytes
         /\ missed' = missed + 1 => Allowed' = Allowed + SegmentBytes
<1>1. missed \in Nat /\ missed' \in Nat /\ TotalBytes \in Nat /\ SegmentBytes \in Nat
  BY LimitsAssumption, SizesAssumption DEF LogInv, TypeOK
<1>2. \A a, b \in Nat : a * b \in Nat /\ 0 * b = 0 /\ (a + 1) * b = a * b + b
  OBVIOUS
<1>3. /\ missed * SegmentBytes \in Nat /\ missed' * SegmentBytes \in Nat /\ 0 * SegmentBytes = 0
      /\ (missed + 1) * SegmentBytes = missed * SegmentBytes + SegmentBytes
  BY <1>1, <1>2
<1> DEFINE p == missed * SegmentBytes
           q == missed' * SegmentBytes
<1>4. Allowed = TotalBytes + p /\ Allowed' = TotalBytes + q /\ p \in Nat /\ q \in Nat
  BY <1>3 DEF Allowed
<1>5. missed' = missed => q = p
  OBVIOUS
<1>6. missed' = 0 => q = 0
  BY <1>3
<1>7. missed' = missed + 1 => q = p + SegmentBytes
  BY <1>3
<1> HIDE DEF p, q
<1>8. QED
  BY <1>1, <1>4, <1>5, <1>6, <1>7

LEMMA CreatedSize ==
  ASSUME LogInv, IsFiniteSet(DOMAIN disk), NEW n, NewLog(n)
  PROVE  /\ Finite(Created(n)) /\ Size(Created(n)) = Size(disk)
         /\ Size(Pruned(Created(n), n)) <= TotalBytes
         /\ \A p \in Prunings(Created(n), n) : Finite(p) /\ Size(p) <= Size(disk)
<1> DEFINE e == Created(n)
<1>1. /\ Finite(e) /\ DOMAIN e = DOMAIN disk \cup {n} /\ e[n].data = <<>>
      /\ \A m \in DOMAIN disk : m # n /\ e[m] = disk[m]
  BY CreatedNew
<1>2. Finite(disk)
  BY DEF LogInv, Finite
<1> HIDE DEF e
<1>3. n \in DOMAIN e /\ DOMAIN e \ {n} = DOMAIN disk /\ Len(e[n].data) = 0
  BY <1>1
<1>4. Weight(e, DOMAIN e) = Len(e[n].data) + Weight(e, DOMAIN disk)
  <2>1. Weight(e, DOMAIN e) = Len(e[n].data) + Weight(e, DOMAIN e \ {n})
    BY <1>1, <1>3, WeightTyped
  <2>2. QED
    BY <1>3, <2>1
<1>5. Weight(e, DOMAIN disk) = Weight(disk, DOMAIN disk)
  BY <1>1, WeightSame
<1>6. Weight(disk, DOMAIN disk) \in Nat
  BY <1>2, WeightTyped
<1>7. Size(e) = Size(disk)
  BY <1>1, <1>2, <1>3, <1>4, <1>5, <1>6, SizeIsWeight
<1>8. \A p \in Prunings(e, n) : Finite(p) /\ Size(p) <= Size(disk)
  BY <1>1, <1>3, <1>7, PrunedSize
<1>9. Size(Pruned(e, n)) <= TotalBytes
  BY <1>1, <1>3, PrunedFits, SizesAssumption
<1>10. QED
  BY <1>1, <1>7, <1>8, <1>9 DEF e

LEMMA SyncedSize ==
  ASSUME LogInv, IsFiniteSet(DOMAIN disk), logFp \in DOMAIN disk
  PROVE  /\ Finite(Synced(disk, logFp)) /\ Size(Synced(disk, logFp)) = Size(disk)
         /\ Size(Pruned(Synced(disk, logFp), logFp)) <= TotalBytes
         /\ \A p \in Prunings(Synced(disk, logFp), logFp) : Finite(p) /\ Size(p) <= Size(disk)
<1> DEFINE e == Synced(disk, logFp)
<1>1. /\ DirOK(e) /\ DOMAIN e = DOMAIN disk /\ \A m \in DOMAIN disk : e[m].data = disk[m].data
  <2>1. DirOK(disk)
    BY DEF LogInv
  <2>2. QED
    BY <2>1, SyncedKeeps
<1>2. Finite(disk)
  BY DEF LogInv, Finite
<1> HIDE DEF e
<1>3. Finite(e)
  BY <1>1 DEF Finite
<1>4. Size(e) = Size(disk)
  BY <1>1, <1>2, <1>3, SameSize
<1>5. Len(e[logFp].data) <= TotalBytes
  <2>1. Len(e[logFp].data) \in 0..SegmentBytes
    BY <1>1, DirTyped
  <2>2. QED
    BY <2>1, SizesAssumption
<1>6. /\ Size(Pruned(e, logFp)) <= TotalBytes
      /\ \A p \in Prunings(e, logFp) : Finite(p) /\ Size(p) <= Size(disk)
  BY <1>1, <1>3, <1>4, <1>5, PrunedFits, PrunedSize
<1>7. QED
  BY <1>3, <1>4, <1>6 DEF e

LEMMA WrittenSize ==
  ASSUME LogInv, LogInv', IsFiniteSet(DOMAIN disk), WritePiece
  PROVE  /\ Size(disk') + segment = Size(disk) + segment'
         /\ Finite(disk') /\ segment' \in 0..SegmentBytes
<1>1. PICK k \in 1..Len(remaining) :
        LET piece == SubSeq(remaining, 1, k) IN
           /\ logFp # NoLog /\ logFp \in DOMAIN disk /\ DOMAIN disk' = DOMAIN disk
           /\ piece \in Seq(Bytes) /\ Len(piece) = k
           /\ disk'[logFp].data = disk[logFp].data \o piece
           /\ \A m \in DOMAIN disk \ {logFp} : disk'[m] = disk[m]
           /\ segment' = segment + k
  BY WritesPiece
<1> DEFINE D == DOMAIN disk
           e == disk'
           rest == D \ {logFp}
<1>2. /\ segment = Len(disk[logFp].data) /\ segment' = Len(e[logFp].data)
      /\ DirOK(disk) /\ DirOK(e) /\ segment \in Nat /\ segment' \in 0..SegmentBytes
  <2>1. logFp' = logFp
    BY DEF WritePiece
  <2>2. segment = Len(disk[logFp].data) /\ segment' = Len(e[logFp].data)
    BY <1>1, <2>1 DEF LogInv, OpenLogOK
  <2>3. segment \in Nat /\ segment' \in 0..SegmentBytes
    BY DEF LogInv, TypeOK
  <2>4. QED
    BY <2>2, <2>3 DEF LogInv
<1>3. Finite(disk) /\ Finite(e) /\ DOMAIN e = D
  BY <1>1, <1>2 DEF Finite
<1>4. \A m \in rest : e[m] = disk[m]
  BY <1>1
<1> HIDE DEF e
<1>5. Size(disk) = Weight(disk, D) /\ Size(e) = Weight(e, D)
  BY <1>3, SizeIsWeight
<1>6. Weight(disk, D) = segment + Weight(disk, rest)
  <2>1. D \in SUBSET DOMAIN disk /\ logFp \in D
    BY <1>1
  <2>2. Weight(disk, D) = Len(disk[logFp].data) + Weight(disk, D \ {logFp})
    BY <1>3, <2>1, WeightTyped
  <2>3. QED
    BY <1>2, <2>2
<1>7. Weight(e, D) = segment' + Weight(e, rest)
  <2>1. D \in SUBSET DOMAIN e /\ logFp \in D
    BY <1>1, <1>3
  <2>2. Weight(e, D) = Len(e[logFp].data) + Weight(e, D \ {logFp})
    BY <1>3, <2>1, WeightTyped
  <2>3. QED
    BY <1>2, <2>2
<1>8. Weight(e, rest) = Weight(disk, rest)
  <2> HIDE DEF rest
  <2>1. QED
    BY <1>4, WeightSame
<1>9. Weight(disk, rest) \in Nat
  BY <1>3, WeightTyped
<1>10. Finite(e)
  BY <1>3
<1>11. segment \in Nat /\ segment' \in Nat
  BY <1>2, SizesAssumption
<1>12. segment' = segment + k /\ k \in Nat
  BY <1>1
<1> DEFINE w == Weight(disk, rest)
<1> HIDE DEF w
<1>13. Size(disk) = segment + w /\ Size(e) = segment' + w /\ w \in Nat
  BY <1>5, <1>6, <1>7, <1>8, <1>9 DEF w
<1>14. \A a, b, v \in Nat : (b + v) + a = (a + v) + b
  OBVIOUS
<1>15. Size(e) + segment = Size(disk) + segment'
  BY <1>11, <1>13, <1>14
<1>16. QED
  BY <1>2, <1>10, <1>15 DEF e

LEMMA CutSize ==
  ASSUME LogInv, LogInv', IsFiniteSet(DOMAIN disk), PowerFails
  PROVE  Finite(disk') /\ Size(disk') <= Size(disk)
<1>1. PICK k \in 0..SegmentBytes : disk' = [n \in DOMAIN disk |-> Cut(disk[n], k)]
  BY DEF PowerFails
<1> DEFINE e == disk'
<1>2. Finite(disk) /\ Finite(e) /\ DOMAIN e = DOMAIN disk
  BY <1>1 DEF Finite, LogInv
<1>3. ASSUME NEW n \in DOMAIN disk PROVE Len(e[n].data) \in 0..Len(disk[n].data)
  <2>1. FileOK(disk[n]) /\ k \in Nat /\ e[n] = Cut(disk[n], k) /\ disk[n].synced \in Nat
    BY <1>1, SizesAssumption DEF LogInv, DirOK, FileOK, Files
  <2> DEFINE f == disk[n]
  <2> HIDE DEF f
  <2>2. \E l \in f.synced..Len(f.data) : Len(Cut(f, k).data) = l
    BY <2>1, CutIs DEF f
  <2>3. Len(disk[n].data) \in Nat
    BY DirTyped DEF LogInv
  <2>4. QED
    BY <2>1, <2>2, <2>3 DEF f
<1> HIDE DEF e
<1> DEFINE D == DOMAIN disk
<1>4. Places(e, D) \subseteq Places(disk, D)
  <2>1. ASSUME NEW n \in D, NEW i \in 1..Len(e[n].data) PROVE i \in 1..Len(disk[n].data)
    BY <1>3, <2>1
  <2>2. QED
    BY <2>1 DEF Places
<1>5. IsFiniteSet(Places(disk, D))
  <2>1. IsFiniteSet(DOMAIN disk) /\ \A n \in DOMAIN disk : Len(disk[n].data) \in Nat
    BY <1>2, DirTyped DEF Finite
  <2>2. QED
    BY <2>1, PlacesCount
<1>6. Weight(e, D) <= Weight(disk, D)
  BY <1>4, <1>5, FS_Subset DEF Weight
<1>7. QED
  BY <1>2, <1>6, SizeIsWeight DEF e

LEMMA DiskStep ==
  ASSUME LogInv, LogInv', DiskInv, [Next]_vars
  PROVE  DiskInv'
<1>1. /\ IsFiniteSet(DOMAIN disk) /\ Size(disk) \in Nat /\ segment \in 0..SegmentBytes /\ segment' \in 0..SegmentBytes
      /\ Size(disk) <= Allowed + SegmentBytes
      /\ TotalBytes \in Nat /\ SegmentBytes \in Nat /\ Allowed \in Nat /\ Allowed' \in Nat
  <2>1. Finite(disk)
    BY DEF LogInv, DiskInv, Finite
  <2>2. QED
    BY <2>1, SizeTyped, SizesAssumption, AllowedTyped DEF LogInv, TypeOK, DiskInv, Finite
<1>2. pc' \in {"write", "rotate"} => running'
  <2>1. CASE UNCHANGED vars
    BY <2>1 DEF DiskInv, vars, writer
  <2>2. QED
    BY <2>1 DEF DiskInv, Next, StartSession, StartFails, CloseLog, BeginWrite, WritePiece, Rotate, OpenSegment, EndWrite,
       MaybeForceSync, WriteFails, OpenSegmentFails, ForceSyncFails, IntervalPasses, PowerFails, Stop, writer
<1>3. ASSUME IsFiniteSet(DOMAIN disk'), Size(disk') <= Allowed' + SegmentBytes,
             running' /\ logFp' # NoLog => Size(disk') <= Allowed' + segment'
      PROVE  DiskInv'
  BY <1>2, <1>3 DEF DiskInv
<1>4. CASE StartSession \/ OpenSegment
  <2>1. PICK n : NewLog(n) /\ Prune(Created(n), n)
    BY <1>4, StartsNew, SegmentsNew
  <2>2. Finite(disk') /\ Size(disk') <= Size(disk)
    BY <1>1, <2>1, CreatedSize, PruneGives
  <2>3. Size(disk') \in Nat
    BY <2>2, SizeTyped
  <2>4. CASE disk' = Pruned(Created(n), n) /\ missed' = 0
    <3>1. Size(disk') <= TotalBytes /\ Allowed' = TotalBytes
      BY <1>1, <2>1, <2>4, CreatedSize, AllowedTyped
    <3>2. Size(disk') <= Allowed' + SegmentBytes /\ Size(disk') <= Allowed' + segment'
      BY <1>1, <2>3, <3>1
    <3>3. QED
      BY <1>3, <2>2, <3>2 DEF Finite
  <2>5. CASE missed' = missed + 1
    <3>1. Allowed' = Allowed + SegmentBytes
      BY <2>5, AllowedTyped
    <3>2. Size(disk') <= Allowed' + SegmentBytes /\ Size(disk') <= Allowed' + segment'
      BY <1>1, <2>2, <2>3, <3>1
    <3>3. QED
      BY <1>3, <2>2, <3>2 DEF Finite
  <2>6. QED
    BY <2>1, <2>4, <2>5, PruneGives
<1>5. CASE (StartFails \/ OpenSegmentFails) /\ ~StartSession /\ ~OpenSegment
  <2>1. disk' = disk \/ \E n : NewLog(n) /\ disk' = Created(n)
    BY <1>5, StartsNew, SegmentsNew
  <2>2. IsFiniteSet(DOMAIN disk') /\ Size(disk') = Size(disk)
    BY <1>1, <2>1, CreatedSize DEF Finite
  <2>3. ~running' \/ logFp' = NoLog
    BY <1>5 DEF StartFails, OpenSegmentFails, Stop
  <2>4. Allowed' = Allowed
    BY <1>5, AllowedTyped DEF StartFails, OpenSegmentFails
  <2>5. QED
    BY <1>1, <1>3, <2>2, <2>3, <2>4
<1>6. CASE CloseLog
  <2>1. /\ logFp' = NoLog /\ logFp \in DOMAIN disk
        /\ (disk' = disk /\ missed' = missed) \/ Prune(Synced(disk, logFp), logFp)
    BY <1>6, ClosesLog
  <2>2. CASE disk' = disk /\ missed' = missed
    <3>1. Allowed' = Allowed
      BY <2>2, AllowedTyped
    <3>2. QED
      BY <1>1, <1>3, <2>1, <2>2, <3>1
  <2>3. CASE Prune(Synced(disk, logFp), logFp)
    <3>1. Finite(disk') /\ Size(disk') <= Size(disk)
      BY <1>1, <2>1, <2>3, SyncedSize, PruneGives
    <3>2. Size(disk') \in Nat
      BY <3>1, SizeTyped
    <3>3. Size(disk') <= Allowed' + SegmentBytes
      <4>1. CASE disk' = Pruned(Synced(disk, logFp), logFp) /\ missed' = 0
        <5>1. Size(disk') <= TotalBytes /\ Allowed' = TotalBytes
          BY <1>1, <2>1, <4>1, SyncedSize, AllowedTyped
        <5>2. QED
          BY <1>1, <3>2, <5>1
      <4>2. CASE missed' = missed + 1
        <5>1. Allowed' = Allowed + SegmentBytes
          BY <4>2, AllowedTyped
        <5>2. QED
          BY <1>1, <3>1, <3>2, <5>1
      <4>3. QED
        BY <2>3, <4>1, <4>2, PruneGives
    <3>4. QED
      BY <1>3, <2>1, <3>1, <3>3 DEF Finite
  <2>4. QED
    BY <2>1, <2>2, <2>3
<1>7. CASE WritePiece
  <2>1. Size(disk') + segment = Size(disk) + segment' /\ Finite(disk')
    BY <1>1, <1>7, WrittenSize
  <2>2. Size(disk') \in Nat
    BY <2>1, SizeTyped
  <2>3. running /\ logFp # NoLog /\ logFp' = logFp
    BY <1>7 DEF WritePiece, DiskInv
  <2>4. Size(disk) <= Allowed + segment
    BY <2>3 DEF DiskInv
  <2>5. Allowed' = Allowed
    BY <1>7, AllowedTyped DEF WritePiece
  <2>6. Size(disk') <= Allowed' + segment' /\ Size(disk') <= Allowed' + SegmentBytes
    BY <1>1, <2>1, <2>2, <2>4, <2>5
  <2>7. QED
    BY <1>3, <2>1, <2>6 DEF Finite
<1>8. CASE PowerFails
  <2>1. Finite(disk') /\ Size(disk') <= Size(disk)
    BY <1>1, <1>8, CutSize
  <2>2. Size(disk') \in Nat
    BY <2>1, SizeTyped
  <2>6. Allowed' = Allowed
    BY <1>8, AllowedTyped DEF PowerFails
  <2>3. Size(disk') <= Allowed' + SegmentBytes
    BY <1>1, <2>1, <2>2, <2>6
  <2>4. running' = FALSE
    BY <1>8 DEF PowerFails
  <2>5. QED
    BY <1>3, <2>1, <2>3, <2>4 DEF Finite
<1>9. CASE ~(WritePiece \/ PowerFails \/ StartSession \/ StartFails \/ OpenSegment \/ OpenSegmentFails \/ CloseLog)
  <2>1. /\ disk' = disk \/ (logFp \in DOMAIN disk /\ disk' = Synced(disk, logFp))
        /\ segment' = segment /\ (logFp' = logFp \/ logFp' = NoLog)
    BY <1>9, KeepsDisk
  <2>2. IsFiniteSet(DOMAIN disk') /\ Size(disk') = Size(disk)
    BY <1>1, <2>1, SyncedSize DEF Finite
  <2>3. running' => running
    <3>1. CASE UNCHANGED vars
      BY <3>1 DEF vars, writer
    <3>2. QED
      BY <1>9, <3>1 DEF Next, BeginWrite, Rotate, EndWrite, MaybeForceSync, WriteFails, ForceSyncFails, IntervalPasses,
         Stop, writer
  <2>4. Allowed' = Allowed
    <3>1. missed' = missed
      BY <1>9 DEF Next, BeginWrite, Rotate, EndWrite, MaybeForceSync, WriteFails, ForceSyncFails, IntervalPasses, vars
    <3>2. QED
      BY <3>1, AllowedTyped
  <2>5. running' /\ logFp' # NoLog => Size(disk') <= Allowed' + segment'
    BY <2>1, <2>2, <2>3, <2>4 DEF DiskInv
  <2>6. QED
    BY <1>1, <1>3, <2>2, <2>4, <2>5
<1>10. QED
  BY <1>4, <1>5, <1>6, <1>7, <1>8, <1>9

LEMMA DiskInvariant == Spec => []DiskInv
<1>1. Init => DiskInv
  <2> SUFFICES ASSUME Init PROVE DiskInv
    OBVIOUS
  <2>1. DOMAIN disk = {} /\ DirOK(disk)
    BY InitLog DEF Init, LogInv
  <2>2. IsFiniteSet(DOMAIN disk)
    BY <2>1, FS_EmptySet
  <2>3. Size(disk) = 0
    BY <2>1, <2>2, SizeIsWeight, WeightTyped DEF Finite
  <2>4. Allowed = TotalBytes
    BY SizesAssumption DEF Init, Allowed
  <2>5. QED
    BY <2>2, <2>3, <2>4, SizesAssumption DEF Init, DiskInv
<1>2. LogInv /\ LogInv' /\ DiskInv /\ [Next]_vars => DiskInv'
  BY DiskStep
<1>3. QED
  BY <1>1, <1>2, LogInvariant, PTL DEF Spec

(* The directory never outgrows its cap by more than the open segment and  *)
(* one segment for each pruning in a row that an error ended: whatever     *)
(* fails and however the clock runs, the next pruning that goes through    *)
(* brings it back (_prune_logs_locked()).                                  *)
THEOREM DiskIsBounded == Spec => []DiskBound
<1>1. LogInv /\ DiskInv => DiskBound
  <2> SUFFICES ASSUME LogInv, DiskInv PROVE DiskBound
    OBVIOUS
  <2>1. missed \in Nat /\ TotalBytes \in Nat /\ SegmentBytes \in Nat
    BY LimitsAssumption, SizesAssumption DEF LogInv, TypeOK
  <2>2. \A t, a, b \in Nat : t + (a + 1) * b = t + a * b + b
    OBVIOUS
  <2>3. TotalBytes + (missed + 1) * SegmentBytes = Allowed + SegmentBytes
    BY <2>1, <2>2 DEF Allowed
  <2>4. QED
    BY <2>3 DEF DiskInv, DiskBound
<1>2. QED
  BY <1>1, LogInvariant, DiskInvariant, PTL

(* A step that removes logs removes no more than it must.                  *)
LEMMA PruneStep ==
  ASSUME LogInv, DiskInv, [Next]_vars, DOMAIN disk \ DOMAIN disk' # {}
  PROVE  \E n \in DOMAIN disk \ DOMAIN disk' : Size(disk') + Len(disk[n].data) > TotalBytes
<1>1. IsFiniteSet(DOMAIN disk) /\ DirOK(disk)
  BY DEF DiskInv, LogInv
<1>2. ASSUME NEW e, NEW c, Finite(e), c \in DOMAIN e, disk' \in Prunings(e, c), DOMAIN disk \subseteq DOMAIN e,
             \A m \in DOMAIN e : m = c \/ m \in DOMAIN disk,
             \A m \in DOMAIN disk : e[m].data = disk[m].data
      PROVE  \E n \in DOMAIN disk \ DOMAIN disk' : Size(disk') + Len(disk[n].data) > TotalBytes
  <2>1. c \in DOMAIN disk'
    BY <1>2, PrunedIs
  <2>2. DOMAIN disk \ DOMAIN disk' = DOMAIN e \ DOMAIN disk'
    BY <1>2, <2>1
  <2>3. PICK n \in DOMAIN e \ DOMAIN disk' : Size(disk') + Len(e[n].data) > TotalBytes
    BY <1>2, <2>2, PrunedNoMore
  <2>4. QED
    BY <1>2, <2>2, <2>3
<1>3. CASE StartSession \/ OpenSegment
  <2>1. PICK n : NewLog(n) /\ disk' \in Prunings(Created(n), n)
    BY <1>3, StartsNew, SegmentsNew, PruneGives
  <2>2. /\ Finite(Created(n)) /\ DOMAIN Created(n) = DOMAIN disk \cup {n}
        /\ \A m \in DOMAIN disk : Created(n)[m] = disk[m]
    BY <1>1, <2>1, CreatedNew
  <2> DEFINE e == Created(n)
  <2> HIDE DEF e
  <2>3. Finite(e) /\ DOMAIN e = DOMAIN disk \cup {n} /\ (\A m \in DOMAIN disk : e[m] = disk[m]) /\ disk' \in Prunings(e, n)
    BY <2>1, <2>2 DEF e
  <2>4. QED
    BY <1>2, <2>3
<1>4. CASE CloseLog
  <2>1. /\ logFp \in DOMAIN disk
        /\ disk' = disk \/ disk' \in Prunings(Synced(disk, logFp), logFp)
    BY <1>4, ClosesLog, PruneGives
  <2> DEFINE e == Synced(disk, logFp)
  <2>2. /\ Finite(e) /\ DOMAIN e = DOMAIN disk /\ \A m \in DOMAIN disk : e[m].data = disk[m].data
    <3>1. DirOK(disk) /\ logFp \in DOMAIN disk
      BY <1>1, <2>1
    <3>2. DOMAIN e = DOMAIN disk /\ \A m \in DOMAIN disk : e[m].data = disk[m].data
      BY <3>1, SyncedKeeps
    <3>3. Finite(e)
      BY <1>1, <3>1, SyncedSize
    <3> HIDE DEF e
    <3>4. QED
      BY <3>2, <3>3
  <2>3. disk' \in Prunings(e, logFp)
    BY <2>1
  <2> HIDE DEF e
  <2>4. QED
    BY <1>2, <2>1, <2>2, <2>3
<1>5. CASE ~(StartSession \/ OpenSegment \/ CloseLog)
  <2>1. DOMAIN disk \subseteq DOMAIN disk'
    <3>1. CASE StartFails \/ OpenSegmentFails
      <4>1. disk' = disk \/ \E n : NewLog(n) /\ disk' = Created(n)
        BY <3>1, <1>5, StartsNew, SegmentsNew
      <4>2. QED
        BY <4>1, CreatedNew
    <3>2. CASE WritePiece
      BY <3>2, WritesPiece
    <3>3. CASE PowerFails
      BY <3>3 DEF PowerFails
    <3>4. CASE ~(StartFails \/ OpenSegmentFails \/ WritePiece \/ PowerFails)
      <4>1. disk' = disk \/ (logFp \in DOMAIN disk /\ disk' = Synced(disk, logFp))
        BY <1>5, <3>4, KeepsDisk
      <4>2. QED
        BY <1>1, <4>1, SyncedDir
    <3>5. QED
      BY <3>1, <3>2, <3>3, <3>4
  <2>2. QED
    BY <2>1
<1>6. QED
  BY <1>3, <1>4, <1>5

(* Pruning removes no more than it must: with one of the logs that went    *)
(* the directory would be over its cap, however the clock runs.            *)
THEOREM PrunesNoMoreThanNeeded == Spec => PrunesAtNeed
<1>1. LogInv /\ DiskInv /\ [Next]_vars =>
        [LET gone == DOMAIN disk \ DOMAIN disk'
         IN gone # {} => \E n \in gone : Size(disk') + Len(disk[n].data) > TotalBytes]_vars
  BY PruneStep
<1>2. QED
  BY <1>1, LogInvariant, DiskInvariant, PTL DEF Spec, PrunesAtNeed

----------------------------------------------------------------------------
(* What is on the disk is the tail of what came, if the clock tells writes *)
(* apart: bytes that came later are in a file with a later mtime.          *)

BytesOf(d, n) == ToSet(d[n].data)

Dated(d, time) == \A n \in DOMAIN d : d[n].mtime <= time

Ordered(d) ==
    \A m, n \in DOMAIN d : m # n =>
        \A x \in BytesOf(d, m), y \in BytesOf(d, n) : x <= y => d[m].mtime < d[n].mtime

CurrentLast(d, c) ==
    \A n \in DOMAIN d \ {c} : \A x \in BytesOf(d, n), y \in BytesOf(d, c) : x < y

EndKept(d, spared, last) == \A b \in OnDisk(d) : b..last \subseteq OnDisk(d) \cup spared

LEMMA OnDiskIs ==
  ASSUME NEW d
  PROVE  \A b : b \in OnDisk(d) <=> \E n \in DOMAIN d : b \in BytesOf(d, n)
  BY DEF OnDisk, BytesOf

LEMMA BytesTyped ==
  ASSUME NEW d, DirOK(d)
  PROVE  \A n \in DOMAIN d : BytesOf(d, n) \subseteq Bytes
<1>1. \A n \in DOMAIN d : d[n].data \in Seq(Bytes)
  BY DirTyped
<1>2. \A s \in Seq(Bytes) : ToSet(s) \subseteq Bytes
  <2>1. ASSUME NEW s \in Seq(Bytes) PROVE ToSet(s) \subseteq Bytes
    <3>1. DOMAIN s = 1..Len(s) /\ \A i \in 1..Len(s) : s[i] \in Bytes
      BY LenProperties
    <3>2. QED
      BY <3>1 DEF ToSet
  <2>2. QED
    BY <2>1
<1>3. QED
  BY <1>1, <1>2 DEF BytesOf

(* Pruning takes the oldest bytes.                                         *)
LEMMA PrunedTail ==
  ASSUME NEW d, Finite(d), NEW c \in DOMAIN d, Ordered(d), CurrentLast(d, c), NEW e \in Prunings(d, c),
         NEW spared, NEW last, EndKept(d, spared, last)
  PROVE  EndKept(e, spared, last)
<1>1. /\ DirOK(d) /\ DOMAIN e \subseteq DOMAIN d /\ c \in DOMAIN e
      /\ \A n \in DOMAIN e : e[n] = d[n]
      /\ \A n \in DOMAIN d \ DOMAIN e : ~(Weight(d, From(d, c, n)) <= TotalBytes)
      /\ \A n \in DOMAIN d \ DOMAIN e, m \in DOMAIN e :
            m # c /\ Older(d, m, n) => Weight(d, From(d, c, m)) <= TotalBytes
  BY PrunedDir, PrunedIs DEF Finite
<1>2. \A n \in DOMAIN e : BytesOf(e, n) = BytesOf(d, n)
  BY <1>1 DEF BytesOf
<1>3. SUFFICES ASSUME NEW b \in OnDisk(e), NEW x \in b..last, x \notin spared
               PROVE  x \in OnDisk(e)
  BY DEF EndKept
<1>4. PICK m \in DOMAIN e : b \in BytesOf(d, m)
  BY <1>2, OnDiskIs
<1>5. PICK n \in DOMAIN d : x \in BytesOf(d, n)
  <2>1. b \in OnDisk(d)
    BY <1>1, <1>4, OnDiskIs
  <2>2. x \in OnDisk(d)
    BY <1>3, <2>1 DEF EndKept
  <2>3. QED
    BY <2>2, OnDiskIs
<1>6. CASE n \in DOMAIN e
  BY <1>2, <1>5, <1>6, OnDiskIs
<1>7. CASE n \notin DOMAIN e
  <2>1. m # n /\ n # c /\ m \in DOMAIN d /\ ~(Weight(d, From(d, c, n)) <= TotalBytes)
    BY <1>1, <1>4, <1>7
  <2>2. b \in Nat /\ x \in Nat
    BY <1>1, <1>4, <1>5, BytesTyped DEF Bytes
  <2>3. b <= x
    BY <1>3, <2>2
  <2>4. m # c
    <3>1. m = c => x < b
      BY <1>4, <1>5, <2>1 DEF CurrentLast
    <3>2. QED
      BY <2>2, <2>3, <3>1
  <2>5. d[m].mtime < d[n].mtime
    BY <1>4, <1>5, <2>1, <2>3 DEF Ordered
  <2>6. Older(d, m, n)
    BY <2>5 DEF Older
  <2>7. From(d, c, n) \subseteq From(d, c, m)
    <3>1. \A k \in DOMAIN d : Older(d, k, m) => Older(d, k, n)
      BY <1>1, <2>1, <2>6, OlderOrder
    <3>2. QED
      BY <3>1 DEF From
  <2>8. From(d, c, m) \in SUBSET DOMAIN d /\ From(d, c, n) \in SUBSET DOMAIN d
    BY DEF From
  <2>9. Weight(d, From(d, c, n)) <= Weight(d, From(d, c, m))
    BY <2>7, <2>8, WeightGrows
  <2>10. Weight(d, From(d, c, m)) <= TotalBytes
    BY <1>1, <1>7, <2>1, <2>4, <2>6
  <2>11. Weight(d, From(d, c, m)) \in Nat /\ Weight(d, From(d, c, n)) \in Nat
    BY <2>8, WeightTyped
  <2>12. QED
    BY <2>1, <2>9, <2>10, <2>11, SizesAssumption
<1>8. QED
  BY <1>6, <1>7

TailInv ==
    /\ Dated(disk, now)
    /\ Ordered(disk)
    /\ logFp # NoLog => CurrentLast(disk, logFp)
    /\ \A i \in 1..Len(remaining) : remaining[i] = received - Len(remaining) + i
    /\ \A x \in OnDisk(disk) : x <= received - Len(remaining)
    /\ pc \notin {"write", "rotate"} => remaining = <<>>
    /\ EndKept(disk, lost \cup ToSet(remaining), received)

LEMMA PartInOrder ==
  ASSUME NEW d, NEW e, DOMAIN e \subseteq DOMAIN d,
         \A n \in DOMAIN e : e[n].mtime = d[n].mtime /\ BytesOf(e, n) \subseteq BytesOf(d, n)
  PROVE  /\ \A time : Dated(d, time) => Dated(e, time)
         /\ Ordered(d) => Ordered(e)
         /\ \A c \in DOMAIN e : CurrentLast(d, c) => CurrentLast(e, c)
<1>1. \A time : Dated(d, time) => Dated(e, time)
  BY DEF Dated
<1>2. Ordered(d) => Ordered(e)
  BY DEF Ordered
<1>3. \A c \in DOMAIN e : CurrentLast(d, c) => CurrentLast(e, c)
  BY DEF CurrentLast
<1>4. QED
  BY <1>1, <1>2, <1>3

LEMMA TailTypes ==
  ASSUME LogInv
  PROVE  /\ received \in 0..MaxBytes /\ received \in Nat
         /\ remaining \in Seq(Bytes) /\ Len(remaining) \in Nat
         /\ now \in Nat /\ DirOK(disk)
         /\ \A x \in OnDisk(disk) : x \in Bytes /\ x \in Nat
<1>1. /\ received \in 0..MaxBytes /\ remaining \in Seq(Bytes) /\ Len(remaining) \in Nat /\ now \in 0..MaxTime
      /\ DirOK(disk)
  BY DEF LogInv, TypeOK
<1>2. received \in Nat /\ now \in Nat
  BY <1>1, ClockAssumption, LimitsAssumption
<1>3. \A x \in OnDisk(disk) : x \in Bytes
  BY <1>1, BytesTyped, OnDiskIs
<1>4. Bytes \subseteq Nat
  BY DEF Bytes
<1>5. QED
  BY <1>1, <1>2, <1>3, <1>4

LEMMA CreatedTail ==
  ASSUME LogInv, DiskInv, TailInv, NEW n, NewLog(n), now' \in Nat, now' >= now
  PROVE  \A e \in {Created(n)} \cup Prunings(Created(n), n) :
           /\ Dated(e, now') /\ Ordered(e) /\ CurrentLast(e, n)
           /\ OnDisk(e) \subseteq OnDisk(disk)
           /\ \A spared, last : EndKept(disk, spared, last) => EndKept(e, spared, last)
<1> DEFINE e == Created(n)
<1>1. /\ Finite(e) /\ DOMAIN e = DOMAIN disk \cup {n} /\ e[n].data = <<>> /\ e[n].mtime = now'
      /\ \A m \in DOMAIN disk : m # n /\ e[m] = disk[m]
  BY CreatedNew DEF DiskInv
<1>2. BytesOf(e, n) = {}
  BY <1>1 DEF BytesOf, ToSet
<1> HIDE DEF e
<1>3. \A m \in DOMAIN disk : BytesOf(e, m) = BytesOf(disk, m) /\ e[m].mtime = disk[m].mtime /\ disk[m].mtime \in Nat
  BY <1>1, DirTyped, ClockAssumption DEF BytesOf, LogInv, Files
<1>4. Dated(e, now')
  <2>1. \A m \in DOMAIN disk : e[m].mtime <= now
    BY <1>3 DEF TailInv, Dated
  <2>2. now \in Nat
    BY TailTypes
  <2>3. ASSUME NEW m \in DOMAIN disk PROVE e[m].mtime <= now'
    BY <1>3, <2>1, <2>2
  <2>4. QED
    BY <1>1, <2>3 DEF Dated
<1>5. Ordered(e)
  <2>1. ASSUME NEW l \in DOMAIN e, NEW m \in DOMAIN e, l # m,
               NEW x \in BytesOf(e, l), NEW y \in BytesOf(e, m), x <= y
        PROVE  e[l].mtime < e[m].mtime
    <3>1. l \in DOMAIN disk /\ m \in DOMAIN disk
      BY <1>1, <1>2
    <3>2. QED
      BY <1>3, <2>1, <3>1 DEF TailInv, Ordered
  <2>2. QED
    BY <2>1 DEF Ordered
<1>6. CurrentLast(e, n)
  BY <1>2 DEF CurrentLast
<1>7. OnDisk(e) = OnDisk(disk)
  <2>1. \A b : b \in OnDisk(e) <=> b \in OnDisk(disk)
    BY <1>1, <1>2, <1>3, OnDiskIs
  <2>2. QED
    BY <2>1
<1>8. \A spared, last : EndKept(disk, spared, last) => EndKept(e, spared, last)
  BY <1>7 DEF EndKept
<1>9. ASSUME NEW p \in Prunings(e, n)
      PROVE  /\ Dated(p, now') /\ Ordered(p) /\ CurrentLast(p, n)
             /\ OnDisk(p) \subseteq OnDisk(e)
             /\ \A spared, last : EndKept(e, spared, last) => EndKept(p, spared, last)
  <2>1. /\ DOMAIN p \subseteq DOMAIN e /\ n \in DOMAIN p /\ \A m \in DOMAIN p : p[m] = e[m]
    BY <1>1, PrunedDir DEF Finite
  <2>2. \A m \in DOMAIN p : p[m].mtime = e[m].mtime /\ BytesOf(p, m) = BytesOf(e, m)
    BY <2>1 DEF BytesOf
  <2>3. Dated(p, now') /\ Ordered(p) /\ CurrentLast(p, n)
    BY <1>4, <1>5, <1>6, <2>1, <2>2, PartInOrder
  <2>4. OnDisk(p) \subseteq OnDisk(e)
    BY <2>1, <2>2, OnDiskIs
  <2>5. n \in DOMAIN e
    BY <1>1
  <2>6. \A spared, last : EndKept(e, spared, last) => EndKept(p, spared, last)
    BY <1>1, <1>5, <1>6, <2>5, PrunedTail
  <2>7. QED
    BY <2>3, <2>4, <2>6
<1>10. \A f \in {e} \cup Prunings(e, n) :
           /\ Dated(f, now') /\ Ordered(f) /\ CurrentLast(f, n)
           /\ OnDisk(f) \subseteq OnDisk(disk)
           /\ \A spared, last : EndKept(disk, spared, last) => EndKept(f, spared, last)
  BY <1>4, <1>5, <1>6, <1>7, <1>8, <1>9
<1>11. QED
  BY <1>10 DEF e

LEMMA SyncedTail ==
  ASSUME LogInv, DiskInv, TailInv, logFp # NoLog, logFp \in DOMAIN disk
  PROVE  \A e \in {Synced(disk, logFp)} \cup Prunings(Synced(disk, logFp), logFp) :
           /\ Dated(e, now) /\ Ordered(e) /\ CurrentLast(e, logFp)
           /\ OnDisk(e) \subseteq OnDisk(disk)
           /\ \A spared, last : EndKept(disk, spared, last) => EndKept(e, spared, last)
<1> DEFINE e == Synced(disk, logFp)
<1>1. /\ Finite(e) /\ DOMAIN e = DOMAIN disk
      /\ \A m \in DOMAIN disk : e[m].data = disk[m].data
  <2>1. DirOK(disk) /\ IsFiniteSet(DOMAIN disk)
    BY DEF DiskInv, LogInv
  <2>2. Finite(e)
    BY <2>1, SyncedSize
  <2>3. QED
    BY <2>1, <2>2, SyncedKeeps
<1>2. \A m \in DOMAIN disk : e[m].mtime = disk[m].mtime
  <2>1. disk[logFp] \in Files
    BY DEF LogInv, DirOK, FileOK
  <2>2. e[logFp].mtime = disk[logFp].mtime
    BY <2>1 DEF Synced, Files
  <2>3. \A m \in DOMAIN disk \ {logFp} : e[m] = disk[m]
    BY SyncedDir DEF LogInv
  <2> HIDE DEF e
  <2>4. QED
    BY <2>2, <2>3
<1> HIDE DEF e
<1>3. \A m \in DOMAIN disk : BytesOf(e, m) = BytesOf(disk, m)
  BY <1>1 DEF BytesOf
<1>4. Dated(e, now) /\ Ordered(e) /\ CurrentLast(e, logFp)
  BY <1>1, <1>2, <1>3, PartInOrder DEF TailInv
<1>5. OnDisk(e) = OnDisk(disk)
  <2>1. \A b : b \in OnDisk(e) <=> b \in OnDisk(disk)
    BY <1>1, <1>3, OnDiskIs
  <2>2. QED
    BY <2>1
<1>6. \A spared, last : EndKept(disk, spared, last) => EndKept(e, spared, last)
  BY <1>5 DEF EndKept
<1>7. ASSUME NEW p \in Prunings(e, logFp)
      PROVE  /\ Dated(p, now) /\ Ordered(p) /\ CurrentLast(p, logFp)
             /\ OnDisk(p) \subseteq OnDisk(e)
             /\ \A spared, last : EndKept(e, spared, last) => EndKept(p, spared, last)
  <2>1. /\ DOMAIN p \subseteq DOMAIN e /\ logFp \in DOMAIN p /\ \A m \in DOMAIN p : p[m] = e[m]
    BY <1>1, PrunedDir DEF Finite
  <2>2. \A m \in DOMAIN p : p[m].mtime = e[m].mtime /\ BytesOf(p, m) = BytesOf(e, m)
    BY <2>1 DEF BytesOf
  <2>3. Dated(p, now) /\ Ordered(p) /\ CurrentLast(p, logFp)
    BY <1>4, <2>1, <2>2, PartInOrder
  <2>4. OnDisk(p) \subseteq OnDisk(e)
    BY <2>1, <2>2, OnDiskIs
  <2>5. \A spared, last : EndKept(e, spared, last) => EndKept(p, spared, last)
    BY <1>1, <1>4, PrunedTail
  <2>6. QED
    BY <2>3, <2>4, <2>5
<1>8. \A f \in {e} \cup Prunings(e, logFp) :
           /\ Dated(f, now) /\ Ordered(f) /\ CurrentLast(f, logFp)
           /\ OnDisk(f) \subseteq OnDisk(disk)
           /\ \A spared, last : EndKept(disk, spared, last) => EndKept(f, spared, last)
  BY <1>4, <1>5, <1>6, <1>7
<1>9. QED
  BY <1>8 DEF e

LEMMA WriterTail ==
  ASSUME LogInv, TailInv,
         Dated(disk', now'), Ordered(disk'), logFp' # NoLog => CurrentLast(disk', logFp'),
         OnDisk(disk') \subseteq OnDisk(disk),
         \A spared, last : EndKept(disk, spared, last) => EndKept(disk', spared, last)
  PROVE  /\ UNCHANGED <<remaining, received, lost>> /\ (pc' \in {"write", "rotate"} \/ remaining = <<>>) => TailInv'
         /\ Stop => TailInv'
<1>1. /\ Len(remaining) \in Nat /\ received \in Nat /\ \A x \in OnDisk(disk) : x \in Nat
  BY TailTypes
<1>2. EndKept(disk', lost \cup ToSet(remaining), received)
  BY DEF TailInv
<1>3. CASE UNCHANGED <<remaining, received, lost>> /\ (pc' \in {"write", "rotate"} \/ remaining = <<>>)
  <2>1. \A x \in OnDisk(disk') : x <= received' - Len(remaining')
    BY <1>3 DEF TailInv
  <2>2. \A i \in 1..Len(remaining') : remaining'[i] = received' - Len(remaining') + i
    BY <1>3 DEF TailInv
  <2>3. EndKept(disk', lost' \cup ToSet(remaining'), received')
    BY <1>2, <1>3
  <2>4. pc' \notin {"write", "rotate"} => remaining' = <<>>
    BY <1>3
  <2>5. QED
    BY <2>1, <2>2, <2>3, <2>4 DEF TailInv
<1>4. CASE Stop
  <2>1. /\ remaining' = <<>> /\ received' = received /\ lost' = lost \cup ToSet(remaining)
        /\ Len(<<>>) = 0 /\ ToSet(<<>>) = {}
    BY <1>4 DEF Stop, ToSet
  <2>2. ASSUME NEW x \in OnDisk(disk') PROVE x <= received - 0
    <3>1. x \in OnDisk(disk) /\ x <= received - Len(remaining)
      BY DEF TailInv
    <3>2. QED
      BY <1>1, <3>1
  <2>3. lost' \cup ToSet(remaining') = lost \cup ToSet(remaining)
    BY <2>1
  <2>4. EndKept(disk', lost' \cup ToSet(remaining'), received')
    BY <1>2, <2>1, <2>3
  <2>5. \A i \in 1..Len(remaining') : remaining'[i] = received' - Len(remaining') + i
    BY <2>1
  <2>6. \A x \in OnDisk(disk') : x <= received' - Len(remaining')
    BY <2>1, <2>2
  <2>7. QED
    BY <2>1, <2>4, <2>5, <2>6 DEF TailInv
<1>5. QED
  BY <1>3, <1>4

(* A chunk comes: its bytes are the next ones.                             *)
LEMMA BeginTail ==
  ASSUME LogInv, TailInv, BeginWrite
  PROVE  TailInv'
<1>1. PICK k \in 1..MaxChunk : received' = received + k /\ remaining' = [i \in 1..k |-> received + i]
  BY DEF BeginWrite
<1>2. /\ received \in Nat /\ k \in Nat /\ received' \in Nat /\ UNCHANGED <<disk, now, logFp, lost>>
      /\ remaining = <<>> /\ pc' = "write" /\ \A x \in OnDisk(disk) : x \in Nat
  <2>1. received \in Nat /\ k \in Nat /\ \A x \in OnDisk(disk) : x \in Nat
    BY TailTypes, LimitsAssumption
  <2>2. QED
    BY <1>1, <2>1 DEF BeginWrite, TailInv, memory
<1>3. Len(remaining') = k
  BY <1>1, <1>2
<1>4. \A i \in 1..Len(remaining') : remaining'[i] = received' - Len(remaining') + i
  BY <1>1, <1>2, <1>3
<1>5. \A x \in OnDisk(disk') : x <= received' - Len(remaining')
  <2>1. \A x \in OnDisk(disk) : x <= received - Len(remaining) /\ Len(remaining) = 0
    BY <1>2 DEF TailInv
  <2>2. QED
    BY <1>1, <1>2, <1>3, <2>1
<1>6. \A x \in received + 1..received + k : x \in ToSet(remaining')
  <2>1. ASSUME NEW x \in received + 1..received + k PROVE x \in ToSet(remaining')
    <3>1. x - received \in 1..k /\ x = received + (x - received)
      BY <1>2
    <3>2. remaining'[x - received] = x /\ x - received \in DOMAIN remaining'
      BY <1>1, <3>1
    <3>3. QED
      BY <3>2 DEF ToSet
  <2>2. QED
    BY <2>1
<1>7. EndKept(disk', lost' \cup ToSet(remaining'), received')
  <2>1. SUFFICES ASSUME NEW b \in OnDisk(disk), NEW x \in b..received', x \notin lost, x \notin ToSet(remaining')
                 PROVE  x \in OnDisk(disk)
    BY <1>2 DEF EndKept
  <2>2. b \in Nat /\ x \in Nat /\ b <= x /\ x <= received + k
    BY <1>1, <1>2
  <2>3. x <= received
    BY <1>2, <1>6, <2>1, <2>2
  <2>4. x \in b..received
    BY <1>2, <2>2, <2>3
  <2>5. ToSet(<<>>) = {} /\ EndKept(disk, lost \cup ToSet(<<>>), received)
    BY <1>2 DEF TailInv, ToSet
  <2>6. QED
    BY <2>1, <2>4, <2>5 DEF EndKept
<1>8. QED
  BY <1>2, <1>4, <1>5, <1>7 DEF TailInv

LEMMA JoinedIs ==
  ASSUME NEW s \in Seq(Bytes), NEW t \in Seq(Bytes)
  PROVE  /\ Len(s) \in Nat /\ Len(t) \in Nat /\ Len(s \o t) = Len(s) + Len(t)
         /\ DOMAIN s = 1..Len(s) /\ DOMAIN t = 1..Len(t) /\ DOMAIN (s \o t) = 1..(Len(s) + Len(t))
         /\ \A i \in 1..Len(s) : (s \o t)[i] = s[i]
         /\ \A i \in 1..Len(t) : (s \o t)[Len(s) + i] = t[i]
  BY ConcatProperties

LEMMA JoinedSet ==
  ASSUME NEW s \in Seq(Bytes), NEW t \in Seq(Bytes)
  PROVE  ToSet(s \o t) = ToSet(s) \cup ToSet(t)
<1>1. /\ Len(s) \in Nat /\ Len(t) \in Nat
      /\ DOMAIN s = 1..Len(s) /\ DOMAIN t = 1..Len(t) /\ DOMAIN (s \o t) = 1..(Len(s) + Len(t))
      /\ \A i \in 1..Len(s) : (s \o t)[i] = s[i]
      /\ \A i \in 1..Len(t) : (s \o t)[Len(s) + i] = t[i]
  BY JoinedIs
<1>2. ASSUME NEW x \in ToSet(s \o t) PROVE x \in ToSet(s) \cup ToSet(t)
  <2>1. PICK i \in 1..(Len(s) + Len(t)) : x = (s \o t)[i]
    BY <1>1 DEF ToSet
  <2>2. CASE i <= Len(s)
    <3>1. i \in 1..Len(s)
      BY <1>1, <2>2
    <3>2. QED
      BY <1>1, <2>1, <3>1 DEF ToSet
  <2>3. CASE ~(i <= Len(s))
    <3>1. i - Len(s) \in 1..Len(t) /\ Len(s) + (i - Len(s)) = i
      BY <1>1, <2>3
    <3>2. QED
      BY <1>1, <2>1, <3>1 DEF ToSet
  <2>4. QED
    BY <2>2, <2>3
<1>3. ASSUME NEW x \in ToSet(s) PROVE x \in ToSet(s \o t)
  <2>1. PICK i \in 1..Len(s) : x = s[i]
    BY <1>1, <1>3 DEF ToSet
  <2>2. i \in 1..(Len(s) + Len(t))
    BY <1>1
  <2>3. QED
    BY <1>1, <2>1, <2>2 DEF ToSet
<1>4. ASSUME NEW x \in ToSet(t) PROVE x \in ToSet(s \o t)
  <2>1. PICK i \in 1..Len(t) : x = t[i]
    BY <1>1, <1>4 DEF ToSet
  <2>2. Len(s) + i \in 1..(Len(s) + Len(t))
    BY <1>1
  <2>3. QED
    BY <1>1, <2>1, <2>2 DEF ToSet
<1>5. QED
  BY <1>2, <1>3, <1>4

(* What a piece of the rest is, and what is left.                          *)
LEMMA PieceIs ==
  ASSUME LogInv, TailInv, NEW k \in 1..Len(remaining)
  PROVE  LET start == received - Len(remaining)
             left == SubSeq(remaining, k + 1, Len(remaining))
         IN /\ \A i \in 1..k : SubSeq(remaining, 1, k)[i] = start + i
            /\ Len(left) = Len(remaining) - k
            /\ \A i \in 1..Len(left) : left[i] = start + k + i
<1> DEFINE start == received - Len(remaining)
           left == SubSeq(remaining, k + 1, Len(remaining))
<1>1. /\ remaining \in Seq(Bytes) /\ Len(remaining) \in Nat /\ start \in Int /\ k \in Nat
      /\ \A i \in 1..Len(remaining) : remaining[i] = start + i
  BY TailTypes DEF TailInv
<1>2. \A i \in 1..Len(remaining) : remaining[i] \in Bytes
  BY <1>1
<1>3. \A i \in 1..k : SubSeq(remaining, 1, k)[i] = remaining[i]
  BY <1>1, <1>2, SubSeqProperties
<1>4. ASSUME NEW i \in 1..k PROVE SubSeq(remaining, 1, k)[i] = start + i
  BY <1>1, <1>3
<1>5. /\ Len(left) = Len(remaining) - k
      /\ \A i \in 1..(Len(remaining) - k) : left[i] = remaining[k + i]
  <2>1. k + 1 \in 1..(Len(remaining) + 1)
    BY <1>1
  <2>2. QED
    BY <1>1, <1>2, <2>1
<1>6. ASSUME NEW i \in 1..Len(left) PROVE left[i] = start + k + i
  <2>1. k + i \in 1..Len(remaining)
    BY <1>1, <1>5
  <2>2. left[i] = start + (k + i)
    BY <1>1, <1>5, <2>1
  <2>3. QED
    BY <1>1, <2>2
<1>7. QED
  BY <1>4, <1>5, <1>6

(* A piece is written: later than all that was, and with a later mtime.    *)
LEMMA WriteTail ==
  ASSUME MinStep = 1, LogInv, TailInv, WritePiece
  PROVE  TailInv'
<1>1. PICK k \in 1..Len(remaining) :
        LET piece == SubSeq(remaining, 1, k) IN
          /\ logFp # NoLog /\ logFp \in DOMAIN disk /\ DOMAIN disk' = DOMAIN disk
          /\ piece \in Seq(Bytes) /\ Len(piece) = k
          /\ disk'[logFp].data = disk[logFp].data \o piece
          /\ disk'[logFp].mtime = now'
          /\ \A m \in DOMAIN disk \ {logFp} : disk'[m] = disk[m]
          /\ remaining' = SubSeq(remaining, k + 1, Len(remaining))
          /\ UNCHANGED <<logFp, pc, received, lost>>
  BY WritesPiece
<1> DEFINE piece == SubSeq(remaining, 1, k)
           start == received - Len(remaining)
<1>2. /\ received \in Nat /\ Len(remaining) \in Nat /\ remaining \in Seq(Bytes) /\ now \in Nat
      /\ \A x \in OnDisk(disk) : x \in Nat /\ x <= start
      /\ start \in Int /\ k \in Nat /\ DirOK(disk)
  BY TailTypes DEF TailInv
<1>3. now' = now + 1
  BY <1>2 DEF WritePiece, Elapse
<1>4. \A i \in 1..Len(remaining) : remaining[i] = start + i
  BY DEF TailInv
<1>5. /\ \A i \in 1..k : piece[i] = start + i
      /\ Len(remaining') = Len(remaining) - k
      /\ \A i \in 1..Len(remaining') : remaining'[i] = start + k + i
  BY <1>1, PieceIs
<1>6. /\ \A m \in DOMAIN disk \ {logFp} : BytesOf(disk', m) = BytesOf(disk, m)
      /\ BytesOf(disk', logFp) = BytesOf(disk, logFp) \cup ToSet(piece)
  <2>1. disk[logFp].data \in Seq(Bytes)
    BY <1>1, <1>2, DirTyped
  <2>2. \A s, t \in Seq(Bytes) : ToSet(s \o t) = ToSet(s) \cup ToSet(t)
    BY JoinedSet
  <2> HIDE DEF piece
  <2>3. BytesOf(disk', logFp) = BytesOf(disk, logFp) \cup ToSet(piece)
    BY <1>1, <2>1, <2>2 DEF BytesOf, piece
  <2>4. QED
    BY <1>1, <2>3 DEF BytesOf
<1>7. ToSet(piece) = (start + 1)..(start + k)
  <2>1. piece \in Seq(Bytes) /\ Len(piece) = k
    BY <1>1
  <2> HIDE DEF piece
  <2>2. DOMAIN piece = 1..k
    BY <2>1
  <2> HIDE DEF start
  <2>3. ASSUME NEW x \in (start + 1)..(start + k) PROVE x \in ToSet(piece)
    <3>1. x - start \in 1..k /\ start + (x - start) = x
      BY <1>2
    <3>2. QED
      BY <1>5, <2>2, <3>1 DEF ToSet
  <2>4. ASSUME NEW x \in ToSet(piece) PROVE x \in (start + 1)..(start + k)
    <3>1. PICK i \in 1..k : x = start + i
      BY <1>5, <2>2, <2>4 DEF ToSet
    <3>2. QED
      BY <1>2, <3>1
  <2>5. QED
    BY <2>3, <2>4
<1>8. ToSet(remaining) \subseteq ToSet(piece) \cup ToSet(remaining')
  <2>1. ASSUME NEW i \in 1..Len(remaining) PROVE remaining[i] \in ToSet(piece) \cup ToSet(remaining')
    <3>1. CASE i <= k
      <4>1. remaining[i] = start + i /\ start + i \in (start + 1)..(start + k)
        BY <1>2, <1>4, <3>1
      <4>2. QED
        BY <1>7, <4>1
    <3>2. CASE ~(i <= k)
      <4>1. i - k \in 1..Len(remaining')
        BY <1>2, <1>5, <3>2
      <4>2. remaining'[i - k] = remaining[i]
        BY <1>2, <1>4, <1>5, <4>1
      <4>3. remaining' \in Seq(Bytes)
        BY <1>1, <1>2, PieceOfRest
      <4>4. i - k \in DOMAIN remaining'
        BY <4>1, <4>3
      <4>5. QED
        BY <4>2, <4>4 DEF ToSet
    <3>3. QED
      BY <3>1, <3>2
  <2>2. DOMAIN remaining = 1..Len(remaining)
    BY <1>2
  <2>3. QED
    BY <2>1, <2>2 DEF ToSet
<1> HIDE DEF piece
<1>9. \A b : b \in OnDisk(disk') <=> b \in OnDisk(disk) \/ b \in (start + 1)..(start + k)
  BY <1>1, <1>6, <1>7, OnDiskIs
<1>10. \A m \in DOMAIN disk \ {logFp} :
          /\ disk'[m].mtime = disk[m].mtime /\ disk[m].mtime \in Nat /\ disk[m].mtime <= now
          /\ \A x \in BytesOf(disk', m) : x \in OnDisk(disk) /\ x \in Nat /\ x <= start
          /\ \A x \in BytesOf(disk', m), y \in BytesOf(disk', logFp) : x < y
  <2>1. ASSUME NEW m \in DOMAIN disk \ {logFp}
        PROVE  /\ disk'[m].mtime = disk[m].mtime /\ disk[m].mtime \in Nat /\ disk[m].mtime <= now
               /\ \A x \in BytesOf(disk', m) : x \in OnDisk(disk) /\ x \in Nat /\ x <= start
    <3>1. m \in DOMAIN disk /\ m # logFp /\ disk'[m] = disk[m]
      BY <1>1
    <3>2. disk[m].mtime \in Nat /\ disk[m].mtime <= now
      BY <3>1, <1>2, DirTyped, ClockAssumption DEF TailInv, Dated, Files
    <3>3. BytesOf(disk', m) = BytesOf(disk, m)
      BY <1>6, <3>1
    <3>4. ASSUME NEW x \in BytesOf(disk, m) PROVE x \in OnDisk(disk) /\ x \in Nat /\ x <= start
      <4>1. x \in OnDisk(disk)
        BY <3>1, OnDiskIs
      <4>2. QED
        BY <1>2, <4>1 DEF TailInv
    <3>5. QED
      BY <3>1, <3>2, <3>3, <3>4
  <2>2. ASSUME NEW m \in DOMAIN disk \ {logFp}, NEW x \in BytesOf(disk', m), NEW y \in BytesOf(disk', logFp)
        PROVE  x < y
    <3>1. x \in BytesOf(disk, m) /\ x \in Nat /\ x <= start
      BY <1>6, <2>1
    <3>2. CASE y \in BytesOf(disk, logFp)
      BY <1>1, <3>1, <3>2 DEF TailInv, CurrentLast
    <3>3. CASE y \in (start + 1)..(start + k)
      BY <1>2, <3>1, <3>3
    <3>4. QED
      BY <1>6, <1>7, <3>2, <3>3
  <2>3. QED
    BY <2>1, <2>2
<1>11. \A y \in BytesOf(disk', logFp) : y \in Int
  <2>1. \A y \in OnDisk(disk') : y \in Int
    BY <1>2, <1>9
  <2>2. QED
    BY <1>1, <2>1, OnDiskIs
<1>12. Dated(disk', now')
  <2>1. \A m \in DOMAIN disk \ {logFp} : disk'[m].mtime <= now'
    BY <1>2, <1>3, <1>10
  <2>2. disk'[logFp].mtime <= now'
    BY <1>1, <1>2, <1>3
  <2>3. QED
    BY <1>1, <2>1, <2>2 DEF Dated
<1>13. Ordered(disk')
  <2>1. ASSUME NEW l \in DOMAIN disk, NEW m \in DOMAIN disk, l # m,
               NEW x \in BytesOf(disk', l), NEW y \in BytesOf(disk', m), x <= y
        PROVE  disk'[l].mtime < disk'[m].mtime
    <3>1. CASE m = logFp
      BY <1>1, <1>2, <1>3, <1>10, <2>1, <3>1
    <3>2. CASE l = logFp
      <4>1. y < x /\ y \in Nat /\ x \in Int
        BY <1>10, <1>11, <2>1, <3>2
      <4>2. QED
        BY <2>1, <4>1
    <3>3. CASE l # logFp /\ m # logFp
      BY <1>6, <1>10, <2>1, <3>3 DEF TailInv, Ordered
    <3>4. QED
      BY <3>1, <3>2, <3>3
  <2>2. QED
    BY <1>1, <2>1 DEF Ordered
<1>14. CurrentLast(disk', logFp')
  BY <1>1, <1>10 DEF CurrentLast
<1>15. received' - Len(remaining') = start + k
  <2>1. received' = received /\ Len(remaining') = Len(remaining) - k
    BY <1>1, <1>5
  <2>2. received - (Len(remaining) - k) = received - Len(remaining) + k
    BY <1>2
  <2>3. QED
    BY <2>1, <2>2
<1>16. \A x \in OnDisk(disk') : x <= received' - Len(remaining')
  BY <1>2, <1>9, <1>15
<1>17. \A i \in 1..Len(remaining') : remaining'[i] = received' - Len(remaining') + i
  BY <1>5, <1>15
<1>18. EndKept(disk', lost' \cup ToSet(remaining'), received')
  <2>1. SUFFICES ASSUME NEW b \in OnDisk(disk'), NEW x \in b..received, x \notin lost, x \notin ToSet(remaining')
                 PROVE  x \in OnDisk(disk')
    BY <1>1 DEF EndKept
  <2>2. CASE b \in OnDisk(disk)
    <3>1. x \in OnDisk(disk) \/ x \in ToSet(remaining)
      BY <2>1, <2>2 DEF TailInv, EndKept
    <3>2. QED
      BY <1>7, <1>8, <1>9, <2>1, <3>1
  <2>3. CASE b \in (start + 1)..(start + k)
    <3>1. x \in Int /\ x >= start + 1 /\ x <= received
      BY <1>2, <2>1, <2>3
    <3>2. x - start \in 1..Len(remaining) /\ x = start + (x - start)
      BY <1>2, <3>1
    <3>3. x \in ToSet(remaining)
      <4>1. DOMAIN remaining = 1..Len(remaining)
        BY <1>2
      <4> HIDE DEF start
      <4>2. QED
        BY <1>4, <3>2, <4>1 DEF ToSet
    <3>4. QED
      BY <1>7, <1>8, <1>9, <2>1, <3>3
  <2>4. QED
    BY <1>9, <2>2, <2>3
<1>19. pc' \notin {"write", "rotate"} => remaining' = <<>>
  BY <1>1 DEF WritePiece
<1>20. QED
  BY <1>12, <1>13, <1>14, <1>16, <1>17, <1>18, <1>19 DEF TailInv

(* The power fails: what it takes is lost, and known to be.                *)
LEMMA PowerTail ==
  ASSUME "clockBack" \notin Faults, LogInv, TailInv, PowerFails
  PROVE  TailInv'
<1>1. PICK k \in 0..SegmentBytes : disk' = [n \in DOMAIN disk |-> Cut(disk[n], k)]
  BY DEF PowerFails
<1>2. /\ received \in Nat /\ Len(remaining) \in Nat /\ now \in Nat /\ DirOK(disk) /\ k \in Nat
      /\ \A x \in OnDisk(disk) : x \in Nat
  BY TailTypes, SizesAssumption
<1>3. /\ now' = now /\ received' = received /\ remaining' = <<>> /\ logFp' = NoLog
      /\ lost' = lost \cup ToSet(remaining) \cup (OnDisk(disk) \ OnDisk(disk'))
      /\ Len(<<>>) = 0
  <2>1. now' = now
    BY DEF PowerFails
  <2>2. QED
    BY <2>1 DEF PowerFails
<1>4. DOMAIN disk' = DOMAIN disk
      /\ \A n \in DOMAIN disk' : disk'[n].mtime = disk[n].mtime /\ BytesOf(disk', n) \subseteq BytesOf(disk, n)
  <2>1. ASSUME NEW n \in DOMAIN disk
        PROVE  disk'[n].mtime = disk[n].mtime /\ BytesOf(disk', n) \subseteq BytesOf(disk, n)
    <3> DEFINE f == disk[n]
    <3>1. FileOK(f) /\ f.data \in Seq(Bytes) /\ disk'[n] = Cut(f, k)
      BY <1>1, <1>2, DirTyped DEF DirOK
    <3> HIDE DEF f
    <3>2. PICK l \in f.synced..Len(f.data) :
             /\ Cut(f, k).mtime = f.mtime
             /\ Cut(f, k).data = SubSeq(f.data, 1, l) /\ Len(Cut(f, k).data) = l
             /\ \A i \in 1..l : Cut(f, k).data[i] = f.data[i]
      BY <1>2, <3>1, CutIs
    <3>3. f.synced \in Nat /\ Len(f.data) \in Nat
      BY <3>1 DEF FileOK, Files
    <3>4. l \in Nat /\ l <= Len(f.data)
      BY <3>2, <3>3
    <3>5. DOMAIN f.data = 1..Len(f.data)
      BY <3>1
    <3>6. DOMAIN Cut(f, k).data = 1..l
      <4>1. \A i \in 1..l : f.data[i] \in Bytes
        BY <3>1, <3>4
      <4>2. DOMAIN SubSeq(f.data, 1, l) = 1..l
        BY <3>3, <3>4
      <4>3. QED
        BY <3>2, <4>2
    <3>7. ToSet(Cut(f, k).data) \subseteq ToSet(f.data)
      <4> DEFINE s == Cut(f, k).data
                 t == f.data
      <4>1. /\ DOMAIN s = 1..l /\ DOMAIN t = 1..Len(t) /\ \A i \in 1..l : s[i] = t[i]
            /\ \A i \in 1..l : i \in 1..Len(t)
        BY <3>2, <3>3, <3>4, <3>5, <3>6
      <4> HIDE DEF s, t
      <4>2. ToSet(s) \subseteq ToSet(t)
        BY <4>1 DEF ToSet
      <4>3. QED
        BY <4>2 DEF s, t
    <3>8. QED
      BY <3>1, <3>2, <3>7 DEF f, BytesOf
  <2>2. QED
    BY <1>1, <2>1
<1>5. Dated(disk', now') /\ Ordered(disk')
  BY <1>3, <1>4, PartInOrder DEF TailInv
<1>6. OnDisk(disk') \subseteq OnDisk(disk)
  BY <1>4, OnDiskIs
<1>7. \A x \in OnDisk(disk') : x <= received' - Len(remaining')
  <2>1. ASSUME NEW x \in OnDisk(disk) PROVE x <= received - 0
    <3>1. x <= received - Len(remaining)
      BY DEF TailInv
    <3>2. QED
      BY <1>2, <3>1
  <2>2. QED
    BY <1>3, <1>6, <2>1
<1>8. EndKept(disk', lost' \cup ToSet(remaining'), received')
  <2>1. EndKept(disk, lost \cup ToSet(remaining), received)
    BY DEF TailInv
  <2>2. QED
    BY <1>3, <1>6, <2>1 DEF EndKept
<1>9. \A i \in 1..Len(remaining') : remaining'[i] = received' - Len(remaining') + i
  BY <1>3
<1>10. QED
  BY <1>3, <1>5, <1>7, <1>8, <1>9 DEF TailInv

LEMMA TailStep ==
  ASSUME MinStep = 1, "clockBack" \notin Faults,
         LogInv, LogInv', DiskInv, TailInv, [Next]_vars
  PROVE  TailInv'
<1>1. now \in Nat /\ now' \in Nat
  BY ClockAssumption DEF LogInv, TypeOK
<1>2. pc \in {"write", "rotate"} \/ remaining = <<>>
  BY DEF TailInv
<1>3. ASSUME NEW n, NewLog(n), disk' \in {Created(n)} \cup Prunings(Created(n), n), now' >= now,
             logFp' = NoLog \/ logFp' = n,
             \/ Stop
             \/ UNCHANGED <<remaining, received, lost>> /\ (pc' = pc \/ pc' = "write")
      PROVE  TailInv'
  <2>1. /\ Dated(disk', now') /\ Ordered(disk') /\ CurrentLast(disk', n)
        /\ OnDisk(disk') \subseteq OnDisk(disk)
        /\ \A spared, last : EndKept(disk, spared, last) => EndKept(disk', spared, last)
    BY <1>1, <1>3, CreatedTail
  <2>2. logFp' # NoLog => CurrentLast(disk', logFp')
    BY <1>3, <2>1
  <2>3. QED
    BY <1>2, <1>3, <2>1, <2>2, WriterTail
<1>4. CASE StartSession \/ StartFails
  <2>1. PICK n : /\ NewLog(n)
                 /\ StartSession => Prune(Created(n), n) /\ logFp' = n
                 /\ ~StartSession => disk' = Created(n) /\ logFp' = NoLog
    BY <1>4, StartsNew
  <2>2. Elapse
    BY <1>4 DEF StartSession, StartFails
  <2>3. now' >= now
    BY <1>1, <2>2 DEF Elapse
  <2>4. UNCHANGED <<pc, remaining, received, lost>>
    BY <1>4 DEF StartSession, StartFails, writer, history
  <2>5. disk' \in {Created(n)} \cup Prunings(Created(n), n)
    BY <2>1, PruneGives
  <2>6. QED
    BY <1>3, <2>1, <2>3, <2>4, <2>5
<1>5. CASE OpenSegment
  <2>1. NewLog(NextName) /\ logFp' = NextName /\ disk' \in Prunings(Created(NextName), NextName)
    BY <1>5, SegmentsNew, PruneGives
  <2>2. now' >= now
    BY <1>1, <1>5 DEF OpenSegment, Elapse
  <2>3. pc' = "write" /\ UNCHANGED <<remaining, received, lost>>
    BY <1>5 DEF OpenSegment, history
  <2>4. QED
    BY <1>3, <2>1, <2>2, <2>3
<1>6. ASSUME disk' = disk \/ (logFp # NoLog /\ logFp \in DOMAIN disk
                               /\ disk' \in {Synced(disk, logFp)} \cup Prunings(Synced(disk, logFp), logFp)),
             now' >= now, logFp' \in {logFp, NoLog},
             \/ Stop
             \/ UNCHANGED <<remaining, received, lost>> /\ (pc' = pc \/ pc' = "rotate" \/ remaining = <<>>)
      PROVE  TailInv'
  <2>1. /\ Dated(disk', now) /\ Ordered(disk') /\ (logFp # NoLog => CurrentLast(disk', logFp))
        /\ OnDisk(disk') \subseteq OnDisk(disk)
        /\ \A spared, last : EndKept(disk, spared, last) => EndKept(disk', spared, last)
    <3>1. CASE disk' = disk
      BY <3>1 DEF TailInv
    <3>2. CASE disk' # disk
      BY <1>6, <3>2, SyncedTail
    <3>3. QED
      BY <3>1, <3>2
  <2>2. Dated(disk', now')
    <3>1. \A n \in DOMAIN disk' : disk'[n].mtime \in Nat
      BY ClockAssumption DEF LogInv, TypeOK, Files
    <3>2. QED
      BY <1>1, <1>6, <2>1, <3>1 DEF Dated
  <2>3. QED
    BY <1>2, <1>6, <2>1, <2>2, WriterTail
<1>7. CASE OpenSegmentFails /\ ~OpenSegment
  <2>1. Stop
    BY <1>7 DEF OpenSegmentFails
  <2>2. CASE UNCHANGED <<disk, now, logFp>>
    <3>1. now' >= now /\ logFp' \in {logFp, NoLog} /\ disk' = disk
      BY <1>1, <2>2
    <3>2. QED
      BY <1>6, <2>1, <3>1
  <2>3. CASE ~UNCHANGED <<disk, now, logFp>>
    <3>1. NewLog(NextName) /\ logFp' = NextName /\ disk' = Created(NextName)
      BY <1>7, <2>3, SegmentsNew
    <3>2. Elapse
      BY <1>7, <2>3 DEF OpenSegmentFails
    <3>3. now' >= now
      BY <1>1, <3>2 DEF Elapse
    <3>4. QED
      BY <1>3, <2>1, <3>1, <3>3
  <2>4. QED
    BY <2>2, <2>3
<1>8. CASE CloseLog
  <2>1. /\ logFp' = NoLog /\ logFp \in DOMAIN disk
        /\ disk' = disk \/ disk' \in Prunings(Synced(disk, logFp), logFp)
    BY <1>8, ClosesLog, PruneGives
  <2>2. logFp # NoLog /\ UNCHANGED <<now, pc, remaining, received, lost>>
    BY <1>8 DEF CloseLog, history
  <2>3. QED
    BY <1>1, <1>6, <2>1, <2>2
<1>9. CASE WritePiece
  BY <1>9, WriteTail
<1>10. CASE BeginWrite
  BY <1>10, BeginTail
<1>11. CASE PowerFails
  BY <1>11, PowerTail
<1>12. CASE Rotate \/ MaybeForceSync
  <2>1. /\ disk' = disk \/ (logFp \in DOMAIN disk /\ disk' = Synced(disk, logFp))
        /\ (logFp' = logFp \/ logFp' = NoLog)
    BY <1>12, KeepsDisk DEF Rotate, MaybeForceSync, LogInv, OpenLogOK, CloseSync, memory
  <2>2. disk' # disk => logFp # NoLog
    BY <1>12 DEF Rotate, MaybeForceSync
  <2>3. UNCHANGED <<now, remaining, received, lost>> /\ (pc' = "rotate" \/ remaining = <<>>)
    BY <1>12 DEF Rotate, MaybeForceSync, TailInv, history
  <2>4. QED
    BY <1>1, <1>6, <2>1, <2>2, <2>3
<1>13. CASE EndWrite \/ WriteFails \/ ForceSyncFails \/ IntervalPasses \/ UNCHANGED vars
  <2>1. UNCHANGED <<disk, now, logFp>>
    BY <1>13 DEF EndWrite, WriteFails, ForceSyncFails, IntervalPasses, vars, memory
  <2>2. \/ Stop
        \/ UNCHANGED <<remaining, received, lost>> /\ (pc' = pc \/ remaining = <<>>)
    <3>1. CASE EndWrite
      BY <3>1 DEF EndWrite, history
    <3>2. CASE WriteFails \/ ForceSyncFails
      BY <3>2 DEF WriteFails, ForceSyncFails
    <3>3. CASE IntervalPasses \/ UNCHANGED vars
      BY <3>3 DEF IntervalPasses, vars, writer, history
    <3>4. QED
      BY <1>13, <3>1, <3>2, <3>3
  <2>3. QED
    BY <1>1, <1>6, <2>1, <2>2
<1>14. QED
  BY <1>4, <1>5, <1>7, <1>8, <1>9, <1>10, <1>11, <1>12, <1>13 DEF Next

(* The directory holds the tail of what came, but for what an error or a   *)
(* loss of power took, if writes do not share an mtime.                    *)
LEMMA TailInvariant ==
  ASSUME MinStep = 1, "clockBack" \notin Faults
  PROVE  Spec => []TailInv
<1>1. Init => TailInv
  <2> SUFFICES ASSUME Init PROVE TailInv
    OBVIOUS
  <2>1. DOMAIN disk = {} /\ logFp = NoLog /\ remaining = <<>> /\ received = 0 /\ Len(<<>>) = 0
    BY DEF Init
  <2>2. OnDisk(disk) = {}
    BY <2>1, OnDiskIs
  <2>3. QED
    BY <2>1, <2>2 DEF TailInv, Dated, Ordered, EndKept
<1>2. QED
  BY <1>1, TailStep, LogInvariant, DiskInvariant, PTL DEF Spec

LEMMA TailRetained == TailInv => RetainedIsTail
<1> SUFFICES ASSUME TailInv PROVE RetainedIsTail
  OBVIOUS
<1>1. EndKept(disk, lost \cup ToSet(remaining), received)
  BY DEF TailInv
<1>2. QED
  BY <1>1 DEF RetainedIsTail, EndKept

----------------------------------------------------------------------------
(* The segments of a session join: each is whole on the disk when the next *)
(* begins, and the next begins where the reader is.                        *)

Joined(d) ==
    /\ \A n \in DOMAIN d : \A i \in 1..(Len(d[n].data) - 1) : d[n].data[i + 1] = d[n].data[i] + 1
    /\ \A m, n \in DOMAIN d : m.token = n.token /\ m.part + 1 = n.part =>
          /\ d[m].synced = Len(d[m].data)
          /\ d[n].data # <<>> /\ d[m].data # <<>> => d[n].data[1] = Last(d[m].data) + 1

Stamped(d, time) == \A n \in DOMAIN d : n.token.time <= time

EndsAt(s, b) == s # <<>> => Last(s) = b

ReaderJoins ==
    /\ token.time <= now
    /\ \A n \in DOMAIN disk :
          n.token = token => n.part <= index /\ (pc = "rotate" => n.part < index)
    /\ logFp # NoLog => logFp = NextName /\ EndsAt(disk[logFp].data, received - Len(remaining))
    /\ \A n \in DOMAIN disk :
          n.token = token /\ n.part + 1 = index
          /\ (pc = "rotate" \/ (logFp # NoLog /\ disk[logFp].data = <<>>))
          => EndsAt(disk[n].data, received - Len(remaining)) /\ disk[n].synced = Len(disk[n].data)

JoinInv ==
    /\ Joined(disk)
    /\ Stamped(disk, now)
    /\ running => ReaderJoins

LEMMA JoinedPart ==
  ASSUME NEW d, NEW e, DOMAIN e \subseteq DOMAIN d, Joined(d),
         \A n \in DOMAIN e : /\ e[n].data = d[n].data
                             /\ e[n].synced = d[n].synced \/ e[n].synced = Len(d[n].data)
  PROVE  Joined(e) /\ \A time : Stamped(d, time) => Stamped(e, time)
  BY DEF Joined, Stamped

LEMMA PrunedJoined ==
  ASSUME NEW d, DirOK(d), NEW c, NEW e \in Prunings(d, c), Joined(d)
  PROVE  Joined(e) /\ \A time : Stamped(d, time) => Stamped(e, time)
<1>1. \A n \in DOMAIN e : n \in DOMAIN d /\ e[n] = d[n]
  BY PrunedDir
<1>2. QED
  BY <1>1, JoinedPart

LEMMA CreatedJoined ==
  ASSUME LogInv, Joined(disk), NEW n, NewLog(n),
         \A m \in DOMAIN disk : m.token = n.token =>
            /\ m.part + 1 = n.part => disk[m].synced = Len(disk[m].data)
            /\ n.part + 1 # m.part
  PROVE  Joined(Created(n))
<1> DEFINE e == Created(n)
<1>1. /\ DOMAIN e = DOMAIN disk \cup {n} /\ e[n].data = <<>>
      /\ \A m \in DOMAIN disk : m # n /\ e[m] = disk[m]
  BY CreatedNew
<1>2. n.part \in Nat /\ Len(<<>>) = 0
  BY DEF NewLog, Names
<1>3. n.part + 1 # n.part
  BY <1>2
<1> HIDE DEF e
<1>4. \A l \in DOMAIN e : \A i \in 1..(Len(e[l].data) - 1) : e[l].data[i + 1] = e[l].data[i] + 1
  <2>1. \A i \in 1..(Len(e[n].data) - 1) : FALSE
    BY <1>1, <1>2
  <2>2. QED
    BY <1>1, <2>1 DEF Joined
<1>5. ASSUME NEW k \in DOMAIN e, NEW l \in DOMAIN e, k.token = l.token, k.part + 1 = l.part
      PROVE  /\ e[k].synced = Len(e[k].data)
             /\ e[l].data # <<>> /\ e[k].data # <<>> => e[l].data[1] = Last(e[k].data) + 1
  <2>1. CASE k = n
    <3>1. l # n
      BY <1>3, <1>5, <2>1
    <3>2. QED
      BY <1>1, <1>5, <2>1, <3>1
  <2>2. CASE k # n /\ l = n
    BY <1>1, <1>5, <2>2
  <2>3. CASE k # n /\ l # n
    BY <1>1, <1>5, <2>3 DEF Joined
  <2>4. QED
    BY <2>1, <2>2, <2>3
<1>6. Joined(e)
  BY <1>4, <1>5 DEF Joined
<1>7. QED
  BY <1>6 DEF e

LEMMA SyncedJoined ==
  ASSUME LogInv, Joined(disk), logFp \in DOMAIN disk
  PROVE  /\ Joined(Synced(disk, logFp)) /\ DirOK(Synced(disk, logFp))
         /\ DOMAIN Synced(disk, logFp) = DOMAIN disk
         /\ \A n \in DOMAIN disk : /\ Synced(disk, logFp)[n].data = disk[n].data
                                   /\ Synced(disk, logFp)[n].synced \in {disk[n].synced, Len(disk[n].data)}
<1> DEFINE e == Synced(disk, logFp)
<1>1. /\ DirOK(e) /\ DOMAIN e = DOMAIN disk
      /\ \A n \in DOMAIN disk \ {logFp} : e[n] = disk[n]
      /\ e[logFp].data = disk[logFp].data
      /\ e[logFp].synced = Len(disk[logFp].data)
  BY SyncedDir DEF LogInv
<1> HIDE DEF e
<1>2. \A n \in DOMAIN disk : e[n].data = disk[n].data /\ e[n].synced \in {disk[n].synced, Len(disk[n].data)}
  BY <1>1
<1>3. Joined(e)
  BY <1>1, <1>2, JoinedPart
<1>4. QED
  BY <1>1, <1>2, <1>3 DEF e

LEMMA CutJoined ==
  ASSUME LogInv, Joined(disk), NEW k \in Nat, NEW e,
         e = [n \in DOMAIN disk |-> Cut(disk[n], k)]
  PROVE  Joined(e) /\ \A time : Stamped(disk, time) => Stamped(e, time)
<1>1. DOMAIN e = DOMAIN disk
  OBVIOUS
<1>2. ASSUME NEW n \in DOMAIN disk
      PROVE  /\ e[n].data \in Seq(Bytes) /\ disk[n].data \in Seq(Bytes)
             /\ Len(e[n].data) \in Nat /\ Len(disk[n].data) \in Nat
             /\ Len(e[n].data) <= Len(disk[n].data)
             /\ e[n].synced = Len(e[n].data)
             /\ \A i \in 1..Len(e[n].data) : e[n].data[i] = disk[n].data[i]
             /\ disk[n].synced = Len(disk[n].data) => Len(e[n].data) = Len(disk[n].data)
  <2> DEFINE f == disk[n]
  <2>1. FileOK(f) /\ f.data \in Seq(Bytes) /\ e[n] = Cut(f, k)
    BY DirTyped DEF DirOK, LogInv
  <2> HIDE DEF f
  <2>2. f.synced \in Nat /\ Len(f.data) \in Nat
    BY <2>1 DEF FileOK, Files
  <2>3. PICK l \in f.synced..Len(f.data) :
           /\ Cut(f, k).data = SubSeq(f.data, 1, l) /\ Len(Cut(f, k).data) = l
           /\ Cut(f, k).synced = l
           /\ \A i \in 1..l : Cut(f, k).data[i] = f.data[i]
    BY <2>1, CutIs
  <2>4. l \in Nat /\ l <= Len(f.data) /\ l >= f.synced
    BY <2>2, <2>3
  <2>5. Cut(f, k).data \in Seq(Bytes)
    BY <2>1, CutOK DEF FileOK, Files
  <2>6. f.synced = Len(f.data) => l = Len(f.data)
    BY <2>2, <2>4
  <2>7. QED
    BY <2>1, <2>2, <2>3, <2>4, <2>5, <2>6 DEF f
<1>3. ASSUME NEW n \in DOMAIN disk, NEW i \in 1..(Len(e[n].data) - 1)
      PROVE  e[n].data[i + 1] = e[n].data[i] + 1
  <2>1. /\ i \in 1..Len(e[n].data) /\ i + 1 \in 1..Len(e[n].data)
        /\ i \in 1..(Len(disk[n].data) - 1)
    BY <1>2, <1>3
  <2>2. disk[n].data[i + 1] = disk[n].data[i] + 1
    BY <2>1 DEF Joined
  <2>3. e[n].data[i + 1] = disk[n].data[i + 1] /\ e[n].data[i] = disk[n].data[i]
    BY <1>2, <2>1
  <2>4. QED
    BY <2>2, <2>3
<1>4. ASSUME NEW m \in DOMAIN disk, NEW n \in DOMAIN disk, m.token = n.token, m.part + 1 = n.part,
             e[n].data # <<>>, e[m].data # <<>>
      PROVE  e[n].data[1] = Last(e[m].data) + 1
  <2>1. disk[m].synced = Len(disk[m].data)
    BY <1>4 DEF Joined
  <2>2. /\ 1 \in 1..Len(e[n].data) /\ Len(e[n].data) >= 1 /\ Len(disk[n].data) >= 1
        /\ Len(e[m].data) \in 1..Len(e[m].data)
        /\ Len(e[m].data) = Len(disk[m].data)
    BY <1>2, <1>4, <2>1, EmptySeq
  <2>3. disk[n].data # <<>> /\ disk[m].data # <<>>
    BY <1>2, <2>2
  <2>4. disk[n].data[1] = Last(disk[m].data) + 1
    BY <1>4, <2>3 DEF Joined
  <2>5. Last(e[m].data) = Last(disk[m].data)
    BY <1>2, <2>2 DEF Last
  <2>6. QED
    BY <1>2, <2>2, <2>4, <2>5
<1>5. Joined(e)
  BY <1>1, <1>2, <1>3, <1>4 DEF Joined
<1>6. QED
  BY <1>1, <1>5 DEF Stamped

LEMMA WriteJoins ==
  ASSUME LogInv, DiskInv, TailInv, JoinInv, now' \in Nat, now' >= now, WritePiece
  PROVE  JoinInv'
<1>1. PICK k \in 1..Len(remaining) :
        LET piece == SubSeq(remaining, 1, k) IN
          /\ logFp # NoLog /\ logFp \in DOMAIN disk /\ DOMAIN disk' = DOMAIN disk
          /\ piece \in Seq(Bytes) /\ Len(piece) = k
          /\ disk'[logFp].data = disk[logFp].data \o piece
          /\ \A m \in DOMAIN disk \ {logFp} : disk'[m] = disk[m]
          /\ remaining' = SubSeq(remaining, k + 1, Len(remaining))
          /\ UNCHANGED <<logFp, token, index, running, pc, received>>
  BY WritesPiece
<1> DEFINE piece == SubSeq(remaining, 1, k)
           s == disk[logFp].data
           t == s \o piece
           start == received - Len(remaining)
<1>2. /\ received \in Nat /\ Len(remaining) \in Nat /\ start \in Int /\ k \in Nat /\ k >= 1
      /\ DirOK(disk) /\ s \in Seq(Bytes) /\ Len(s) \in Nat /\ piece \in Seq(Bytes) /\ Len(piece) = k
  BY <1>1, TailTypes, DirTyped
<1>3. /\ \A i \in 1..k : piece[i] = start + i
      /\ received' - Len(remaining') = start + k
  <2>1. (\A i \in 1..k : piece[i] = start + i) /\ Len(remaining') = Len(remaining) - k /\ received' = received
    BY <1>1, PieceIs
  <2>2. received - (Len(remaining) - k) = received - Len(remaining) + k
    BY <1>2
  <2>3. QED
    BY <2>1, <2>2
<1>4. running /\ pc = "write"
  BY DEF WritePiece, DiskInv
<1>5. /\ logFp = NextName /\ logFp.token = token /\ logFp.part = index /\ index \in Nat
      /\ EndsAt(s, start)
      /\ \A n \in DOMAIN disk : n.token = token => n.part <= index
      /\ \A n \in DOMAIN disk : n.token = token /\ n.part + 1 = index /\ s = <<>> => EndsAt(disk[n].data, start)
  <2>1. ReaderJoins /\ logFp # NoLog /\ logFp \in DOMAIN disk /\ pc # "rotate"
    BY <1>1, <1>4 DEF JoinInv
  <2>2. logFp = NextName /\ EndsAt(s, start)
    BY <2>1 DEF ReaderJoins
  <2>3. logFp.token = token /\ logFp.part = index
    BY <2>2 DEF NextName
  <2>4. index \in Nat
    BY DEF LogInv, TypeOK
  <2>5. \A n \in DOMAIN disk : n.token = token => n.part <= index
    BY <2>1 DEF ReaderJoins
  <2>6. \A n \in DOMAIN disk : n.token = token /\ n.part + 1 = index /\ s = <<>> => EndsAt(disk[n].data, start)
    BY <2>1 DEF ReaderJoins
  <2>7. QED
    BY <2>2, <2>3, <2>4, <2>5, <2>6
<1>6. /\ \A i \in 1..Len(s) : t[i] = s[i]
      /\ \A i \in 1..k : t[Len(s) + i] = start + i
      /\ Len(t) = Len(s) + k
  <2> HIDE DEF piece, s, start
  <2>1. /\ Len(s \o piece) = Len(s) + Len(piece)
        /\ \A i \in 1..Len(s) : (s \o piece)[i] = s[i]
        /\ \A i \in 1..Len(piece) : (s \o piece)[Len(s) + i] = piece[i]
    BY <1>2, JoinedIs
  <2>2. QED
    BY <1>2, <1>3, <2>1
<1>7. \A m \in DOMAIN disk : m.part \in Nat
  BY <1>2, DirTyped DEF Names
<1> HIDE DEF t, piece
<1>8. \A i \in 1..(Len(t) - 1) : t[i + 1] = t[i] + 1
  <2> SUFFICES ASSUME NEW i \in 1..(Len(t) - 1) PROVE t[i + 1] = t[i] + 1
    OBVIOUS
  <2> HIDE DEF start
  <2>1. CASE i < Len(s)
    <3>1. i \in 1..Len(s) /\ i + 1 \in 1..Len(s) /\ i \in 1..(Len(s) - 1)
      BY <1>2, <2>1
    <3>2. s[i + 1] = s[i] + 1
      BY <1>1, <3>1 DEF JoinInv, Joined
    <3>3. QED
      BY <1>6, <3>1, <3>2
  <2>2. CASE i = Len(s)
    <3>1. Len(s) >= 1 /\ i \in 1..Len(s) /\ 1 \in 1..k
      BY <1>2, <2>2
    <3>2. s # <<>>
      BY <3>1
    <3>3. s[Len(s)] = start
      BY <1>5, <3>2 DEF EndsAt, Last
    <3>4. t[i] = start /\ t[Len(s) + 1] = start + 1
      BY <1>6, <2>2, <3>1, <3>3
    <3>5. QED
      BY <2>2, <3>4
  <2>3. CASE i > Len(s)
    <3> DEFINE j == i - Len(s)
    <3>1. j \in 1..k /\ j + 1 \in 1..k /\ j \in Int /\ i = Len(s) + j /\ i + 1 = Len(s) + (j + 1)
      <4>1. i \in Int /\ Len(s) \in Nat /\ k \in Nat /\ i <= Len(s) + k - 1
        BY <1>2, <1>6
      <4>2. j \in Int /\ i = Len(s) + j
        BY <4>1
      <4>3. j >= 1 /\ j <= k - 1
        BY <2>3, <4>1
      <4>4. i + 1 = Len(s) + (j + 1)
        BY <4>1
      <4> HIDE DEF j
      <4>5. j \in 1..k /\ j + 1 \in 1..k
        BY <4>1, <4>2, <4>3
      <4>6. QED
        BY <4>2, <4>4, <4>5
    <3> HIDE DEF j
    <3>2. t[Len(s) + j] = start + j /\ t[Len(s) + (j + 1)] = start + (j + 1)
      BY <1>6, <3>1
    <3>3. t[i + 1] = start + (j + 1) /\ t[i] = start + j
      BY <3>1, <3>2
    <3>4. QED
      BY <1>2, <3>1, <3>3
  <2>4. QED
    BY <1>2, <1>6, <2>1, <2>2, <2>3
<1>9. t # <<>> /\ Last(t) = start + k /\ (s = <<>> => t[1] = start + 1) /\ (s # <<>> => t[1] = s[1])
  <2>1. k \in 1..k /\ 1 \in 1..k /\ Len(t) # 0
    BY <1>2, <1>6
  <2>2. t[Len(s) + k] = start + k
    BY <1>6, <2>1
  <2>3. s = <<>> => Len(s) = 0 /\ Len(s) + 1 = 1
    OBVIOUS
  <2>4. s # <<>> => 1 \in 1..Len(s)
    BY <1>2, EmptySeq
  <2>5. t[Len(s) + 1] = start + 1
    BY <1>6, <2>1
  <2>6. Last(t) = start + k
    BY <1>6, <2>2 DEF Last
  <2>7. t # <<>>
    BY <2>1
  <2>8. s = <<>> => t[1] = start + 1
    BY <2>3, <2>5
  <2>9. s # <<>> => t[1] = s[1]
    BY <1>6, <2>4
  <2>10. QED
    BY <2>6, <2>7, <2>8, <2>9
<1>10. disk'[logFp].data = t
  BY <1>1 DEF t, piece
<1>11. ASSUME NEW m \in DOMAIN disk, NEW n \in DOMAIN disk, m.token = n.token, m.part + 1 = n.part
       PROVE  /\ disk'[m].synced = Len(disk'[m].data)
              /\ disk'[n].data # <<>> /\ disk'[m].data # <<>> => disk'[n].data[1] = Last(disk'[m].data) + 1
  <2>1. m # logFp
    <3>1. m = logFp => n.token = token /\ n.part = index + 1
      BY <1>5, <1>11
    <3>2. n.token = token => n.part <= index
      BY <1>5
    <3>3. QED
      BY <1>5, <3>1, <3>2
  <2>2. disk'[m] = disk[m] /\ disk[m].synced = Len(disk[m].data)
    BY <1>1, <1>11, <2>1 DEF JoinInv, Joined
  <2>3. CASE n # logFp
    <3>1. disk'[n] = disk[n]
      BY <1>1, <2>3
    <3>2. QED
      BY <1>11, <2>2, <3>1 DEF JoinInv, Joined
  <2>4. CASE n = logFp
    <3>1. CASE s # <<>>
      <4>1. disk[m].data # <<>> => s[1] = Last(disk[m].data) + 1
        BY <1>11, <2>4, <3>1 DEF JoinInv, Joined
      <4>2. QED
        BY <1>9, <1>10, <2>2, <2>4, <3>1, <4>1
    <3>2. CASE s = <<>>
      <4>1. EndsAt(disk[m].data, start)
        BY <1>5, <1>11, <2>4, <3>2
      <4>2. QED
        BY <1>9, <1>10, <2>2, <2>4, <3>2, <4>1 DEF EndsAt
    <3>3. QED
      BY <3>1, <3>2
  <2>5. QED
    BY <2>3, <2>4
<1>12. Joined(disk')
  <2>1. \A n \in DOMAIN disk : \A i \in 1..(Len(disk'[n].data) - 1) : disk'[n].data[i + 1] = disk'[n].data[i] + 1
    <3>1. ASSUME NEW n \in DOMAIN disk, NEW i \in 1..(Len(disk'[n].data) - 1)
          PROVE  disk'[n].data[i + 1] = disk'[n].data[i] + 1
      <4>1. CASE n = logFp
        BY <1>8, <1>10, <3>1, <4>1
      <4>2. CASE n # logFp
        BY <1>1, <3>1, <4>2 DEF JoinInv, Joined
      <4>3. QED
        BY <4>1, <4>2
    <3>2. QED
      BY <3>1
  <2>2. QED
    BY <1>1, <1>11, <2>1 DEF Joined
<1>13. Stamped(disk', now')
  <2>1. \A n \in DOMAIN disk : n.token.time \in Nat
    BY <1>2, DirTyped, ClockAssumption DEF Names, Tokens
  <2>2. now \in Nat
    BY TailTypes
  <2>3. QED
    BY <1>1, <2>1, <2>2 DEF JoinInv, Stamped
<1>14. ReaderJoins'
  <2>0. token'.time <= now'
    <3>1. token.time \in Nat /\ now \in Nat /\ token.time <= now /\ token' = token
      BY <1>1, <1>4, TailTypes, ClockAssumption DEF JoinInv, ReaderJoins, LogInv, TypeOK, Tokens
    <3>2. QED
      BY <3>1
  <2>1. NextName' = NextName
    BY <1>1 DEF NextName
  <2>2. EndsAt(disk'[logFp].data, received' - Len(remaining'))
    BY <1>3, <1>9, <1>10 DEF EndsAt
  <2>3. pc' = "write" /\ disk'[logFp'].data # <<>> /\ token' = token /\ index' = index /\ logFp' = logFp
    BY <1>1, <1>4, <1>9, <1>10
  <2>4. QED
    BY <1>1, <1>5, <2>0, <2>1, <2>2, <2>3 DEF ReaderJoins
<1>15. QED
  BY <1>12, <1>13, <1>14 DEF JoinInv

(* A new file, and perhaps a pruning: the new name joins what is there.    *)
LEMMA NewJoins ==
  ASSUME LogInv, DiskInv, JoinInv, NEW n, NewLog(n), now' >= now, n.token.time <= now',
         disk' \in {Created(n)} \cup Prunings(Created(n), n),
         \A m \in DOMAIN disk : m.token = n.token =>
            /\ m.part + 1 = n.part => disk[m].synced = Len(disk[m].data)
            /\ n.part + 1 # m.part
  PROVE  /\ Joined(disk') /\ Stamped(disk', now')
         /\ \A m \in DOMAIN disk' : m = n \/ (m \in DOMAIN disk /\ m # n /\ disk'[m] = disk[m])
         /\ n \in DOMAIN disk' => disk'[n].data = <<>>
<1> DEFINE e == Created(n)
<1>1. Joined(e)
  BY CreatedJoined DEF JoinInv
<1>2. /\ DirOK(e) /\ DOMAIN e = DOMAIN disk \cup {n} /\ e[n].data = <<>>
      /\ \A m \in DOMAIN disk : m # n /\ e[m] = disk[m]
  BY CreatedNew
<1>3. now \in Nat /\ now' \in Nat /\ \A m \in DOMAIN disk : m.token.time \in Nat
  BY TailTypes, DirTyped, ClockAssumption DEF Names, Tokens, NewLog
<1>4. Stamped(e, now')
  BY <1>2, <1>3 DEF JoinInv, Stamped
<1> HIDE DEF e
<1>5. CASE disk' = e
  BY <1>1, <1>2, <1>4, <1>5
<1>6. CASE disk' \in Prunings(e, n)
  <2>1. Joined(disk') /\ Stamped(disk', now')
    BY <1>1, <1>2, <1>4, <1>6, PrunedJoined
  <2>2. \A m \in DOMAIN disk' : m \in DOMAIN e /\ disk'[m] = e[m]
    BY <1>2, <1>6, PrunedDir
  <2>3. QED
    BY <1>2, <2>1, <2>2
<1>7. QED
  BY <1>5, <1>6 DEF e

(* No name in the directory is from the future, so a session's is new.     *)
LEMMA StartJoins ==
  ASSUME SecondLength = 1, MinStep = 1, LogInv, LogInv', DiskInv, SyncInv, JoinInv,
         StartSession \/ StartFails
  PROVE  JoinInv'
<1>1. PICK n : /\ NewLog(n) /\ n.part = 1 /\ n.token.time = now' \div SecondLength /\ token' = n.token
               /\ StartSession => Prune(Created(n), n) /\ logFp' = n
               /\ ~StartSession => disk' = Created(n) /\ logFp' = NoLog /\ running' = running
  BY StartsNew
<1>2. now \in Nat /\ now' = now + 1
  <2>1. now \in Nat /\ Elapse
    BY TailTypes DEF StartSession, StartFails
  <2>2. QED
    BY <2>1 DEF Elapse
<1>3. n.token.time = now'
  BY <1>1, <1>2
<1>4. \A m \in DOMAIN disk : m.token # n.token /\ m.part \in Nat
  <2>1. \A m \in DOMAIN disk : m.token.time \in Nat /\ m.token.time <= now /\ m.part \in Nat
    BY DirTyped, ClockAssumption DEF JoinInv, Stamped, Names, Tokens, LogInv
  <2>2. QED
    BY <1>2, <1>3, <2>1
<1>5. /\ Joined(disk') /\ Stamped(disk', now')
      /\ \A m \in DOMAIN disk' : m = n \/ (m \in DOMAIN disk /\ m # n /\ disk'[m] = disk[m])
      /\ n \in DOMAIN disk' => disk'[n].data = <<>>
  <2>1. now' >= now /\ n.token.time <= now' /\ disk' \in {Created(n)} \cup Prunings(Created(n), n)
    BY <1>1, <1>2, <1>3, PruneGives
  <2>2. QED
    BY <1>1, <1>4, <2>1, NewJoins
<1>6. CASE StartSession
  <2>1. index' = 1 /\ pc' = "idle" /\ logFp' = n /\ token' = n.token /\ n.part = 1
    BY <1>1, <1>6 DEF StartSession
  <2>2. n \in DOMAIN disk' /\ n \in Names
    BY <1>1, <2>1 DEF LogInv, OpenLogOK, NewLog
  <2>3. logFp' = NextName'
    BY <2>1, <2>2 DEF NextName, Names
  <2>4. \A m \in DOMAIN disk' : m.token = token' => m = n
    BY <1>4, <1>5, <2>1
  <2>5. EndsAt(disk'[logFp'].data, received' - Len(remaining'))
    BY <1>5, <2>1, <2>2 DEF EndsAt
  <2>6. 1 + 1 # 1 /\ 1 <= 1 /\ token'.time <= now'
    BY <1>2, <1>3, <2>1
  <2>7. ReaderJoins'
    BY <2>1, <2>3, <2>4, <2>5, <2>6 DEF ReaderJoins
  <2>8. QED
    BY <1>5, <2>7 DEF JoinInv
<1>7. CASE ~StartSession
  <2>1. ~running'
    BY <1>1, <1>7 DEF SyncInv, StartFails
  <2>2. QED
    BY <1>5, <2>1 DEF JoinInv
<1>8. QED
  BY <1>6, <1>7

LEMMA SegmentJoins ==
  ASSUME MinStep = 1, LogInv, LogInv', DiskInv, JoinInv,
         OpenSegment \/ OpenSegmentFails
  PROVE  JoinInv'
<1>1. now \in Nat /\ NextName.token = token /\ NextName.part = index /\ index \in Nat
  BY TailTypes DEF NextName, LogInv, TypeOK
<1>2. running /\ pc = "rotate"
  BY DEF OpenSegment, OpenSegmentFails, DiskInv
<1>3. /\ \A m \in DOMAIN disk : m.token = token => m.part <= index /\ m.part < index
      /\ \A m \in DOMAIN disk :
            m.token = token /\ m.part + 1 = index
            => EndsAt(disk[m].data, received - Len(remaining)) /\ disk[m].synced = Len(disk[m].data)
  BY <1>2 DEF JoinInv, ReaderJoins
<1>4. \A m \in DOMAIN disk : m.part \in Nat /\ m.token.time \in Nat /\ m.token.time <= now
  BY DirTyped, ClockAssumption DEF JoinInv, Stamped, Names, Tokens, LogInv
<1>5. ASSUME NewLog(NextName), Elapse, disk' \in {Created(NextName)} \cup Prunings(Created(NextName), NextName)
      PROVE  /\ Joined(disk') /\ Stamped(disk', now') /\ now' = now + 1
             /\ \A m \in DOMAIN disk' : m = NextName \/ (m \in DOMAIN disk /\ m # NextName /\ disk'[m] = disk[m])
             /\ NextName \in DOMAIN disk' => disk'[NextName].data = <<>>
  <2>1. now' >= now /\ now' = now + 1
    BY <1>1, <1>5 DEF Elapse
  <2>2. NextName.token.time <= now'
    <3>1. token.time \in Nat /\ token.time <= now
      BY <1>2, ClockAssumption DEF JoinInv, ReaderJoins, LogInv, TypeOK, Tokens
    <3>2. QED
      BY <1>1, <2>1, <3>1
  <2>3. \A m \in DOMAIN disk : m.token = NextName.token =>
            /\ m.part + 1 = NextName.part => disk[m].synced = Len(disk[m].data)
            /\ NextName.part + 1 # m.part
    <3>1. \A m \in DOMAIN disk : m.token = token => index + 1 # m.part
      BY <1>1, <1>3, <1>4
    <3>2. QED
      BY <1>1, <1>3, <3>1
  <2>4. QED
    BY <1>5, <2>1, <2>2, <2>3, NewJoins
<1>6. CASE OpenSegment
  <2>1. /\ NewLog(NextName) /\ logFp' = NextName /\ disk' \in Prunings(Created(NextName), NextName)
    BY <1>6, SegmentsNew, PruneGives
  <2>2. Elapse /\ pc' = "write" /\ UNCHANGED <<token, index, running, remaining, received>>
    BY <1>6 DEF OpenSegment, history
  <2>3. /\ Joined(disk') /\ Stamped(disk', now') /\ now' = now + 1
        /\ \A m \in DOMAIN disk' : m = NextName \/ (m \in DOMAIN disk /\ m # NextName /\ disk'[m] = disk[m])
        /\ NextName \in DOMAIN disk' => disk'[NextName].data = <<>>
    BY <1>5, <2>1, <2>2
  <2>4. NextName' = NextName
    BY <2>2 DEF NextName
  <2>5. token'.time <= now'
    <3>1. token.time \in Nat /\ token.time <= now
      BY <1>2, ClockAssumption DEF JoinInv, ReaderJoins, LogInv, TypeOK, Tokens
    <3>2. QED
      BY <1>1, <2>2, <2>3, <3>1
  <2>6. \A m \in DOMAIN disk' : m.token = token' => m.part <= index'
    BY <1>1, <1>3, <2>2, <2>3
  <2>7. EndsAt(disk'[logFp'].data, received' - Len(remaining'))
    <3>1. NextName \in DOMAIN disk'
      BY <2>1 DEF LogInv, OpenLogOK, NewLog
    <3>2. QED
      BY <2>1, <2>3, <3>1 DEF EndsAt
  <2>8. ASSUME NEW m \in DOMAIN disk', m.token = token', m.part + 1 = index'
        PROVE  EndsAt(disk'[m].data, received' - Len(remaining')) /\ disk'[m].synced = Len(disk'[m].data)
    <3>1. m # NextName
      BY <1>1, <2>2, <2>8
    <3>2. m \in DOMAIN disk /\ disk'[m] = disk[m]
      BY <2>3, <3>1
    <3>3. QED
      BY <1>3, <2>2, <2>8, <3>2
  <2>9. ReaderJoins'
    BY <2>1, <2>2, <2>4, <2>5, <2>6, <2>7, <2>8 DEF ReaderJoins
  <2>10. QED
    BY <2>3, <2>9 DEF JoinInv
<1>7. CASE ~OpenSegment
  <2>1. running' = FALSE
    BY <1>7, SegmentsNew
  <2>2. CASE UNCHANGED <<disk, now>>
    BY <2>1, <2>2 DEF JoinInv
  <2>3. CASE ~UNCHANGED <<disk, now>>
    <3>1. NewLog(NextName) /\ disk' = Created(NextName)
      BY <1>7, <2>3, SegmentsNew
    <3>2. Elapse
      BY <1>7, <2>3 DEF OpenSegmentFails
    <3>3. QED
      BY <1>5, <2>1, <3>1, <3>2 DEF JoinInv
  <2>4. QED
    BY <2>2, <2>3
<1>8. QED
  BY <1>6, <1>7

LEMMA RotateJoins ==
  ASSUME LogInv, DiskInv, JoinInv, Rotate
  PROVE  JoinInv'
<1>1. /\ logFp # NoLog /\ logFp \in DOMAIN disk /\ disk' = Synced(disk, logFp) /\ logFp' = NoLog
      /\ index' = index + 1 /\ pc = "write" /\ pc' = "rotate"
      /\ UNCHANGED <<now, token, running, remaining, received>>
  BY DEF Rotate, CloseSync, NextIndex, LogInv, OpenLogOK, history
<1>2. /\ Joined(disk') /\ DOMAIN disk' = DOMAIN disk
      /\ \A n \in DOMAIN disk : disk'[n].data = disk[n].data
      /\ disk'[logFp].synced = Len(disk[logFp].data)
  BY <1>1, SyncedJoined, SyncedDir DEF JoinInv, LogInv
<1>3. running /\ ReaderJoins
  BY <1>1 DEF DiskInv, JoinInv
<1>4. /\ logFp = NextName /\ index \in Nat /\ EndsAt(disk[logFp].data, received - Len(remaining))
      /\ token.time <= now
      /\ \A n \in DOMAIN disk : n.part \in Nat /\ (n.token = token => n.part <= index)
  BY <1>1, <1>3, DirTyped DEF ReaderJoins, LogInv, TypeOK, Names
<1>5. \A n \in DOMAIN disk' : n.token = token' => n.part <= index' /\ n.part < index'
  BY <1>1, <1>2, <1>4
<1>6. ASSUME NEW n \in DOMAIN disk', n.token = token', n.part + 1 = index'
      PROVE  EndsAt(disk'[n].data, received' - Len(remaining')) /\ disk'[n].synced = Len(disk'[n].data)
  <2>1. n \in Names /\ n.part = index
    BY <1>1, <1>2, <1>4, <1>6, DirTyped DEF LogInv
  <2>2. n = NextName
    BY <1>1, <1>6, <2>1 DEF NextName, Names
  <2>3. QED
    BY <1>1, <1>2, <1>4, <2>2
<1>7. ReaderJoins'
  BY <1>1, <1>4, <1>5, <1>6 DEF ReaderJoins
<1>8. Stamped(disk', now')
  BY <1>1, <1>2 DEF JoinInv, Stamped
<1>9. QED
  BY <1>2, <1>7, <1>8 DEF JoinInv

LEMMA JoinStep ==
  ASSUME SecondLength = 1, MinStep = 1, "clockBack" \notin Faults,
         LogInv, LogInv', DiskInv, TailInv, SyncInv, JoinInv, [Next]_vars
  PROVE  JoinInv'
<1>1. now \in Nat /\ now' \in Nat /\ DirOK(disk)
  BY ClockAssumption DEF LogInv, TypeOK
<1>2. CASE StartSession \/ StartFails
  BY <1>2, StartJoins
<1>3. CASE OpenSegment \/ OpenSegmentFails
  BY <1>3, SegmentJoins
<1>4. CASE Rotate
  BY <1>4, RotateJoins
<1>5. CASE WritePiece
  <2>1. now' >= now
    BY <1>1, <1>5 DEF WritePiece, Elapse
  <2>2. QED
    BY <1>1, <1>5, <2>1, WriteJoins
<1>6. CASE PowerFails
  <2>1. PICK k \in 0..SegmentBytes : disk' = [n \in DOMAIN disk |-> Cut(disk[n], k)]
    BY <1>6 DEF PowerFails
  <2>2. k \in Nat
    BY SizesAssumption
  <2>3. Joined(disk') /\ Stamped(disk', now)
    BY <2>1, <2>2, CutJoined DEF JoinInv
  <2>4. now' = now
    BY <1>6 DEF PowerFails
  <2>5. running' = FALSE
    BY <1>6 DEF PowerFails
  <2>6. QED
    BY <2>3, <2>4, <2>5 DEF JoinInv
<1>7. CASE CloseLog
  <2>1. /\ logFp \in DOMAIN disk /\ running' = FALSE
        /\ disk' = disk \/ disk' \in Prunings(Synced(disk, logFp), logFp)
    BY <1>7, ClosesLog, PruneGives
  <2>2. now' = now
    BY <1>7 DEF CloseLog
  <2>3. Joined(disk') /\ Stamped(disk', now)
    <3> DEFINE e == Synced(disk, logFp)
    <3>1. Joined(e) /\ DirOK(e) /\ DOMAIN e = DOMAIN disk
      BY <2>1, SyncedJoined DEF JoinInv
    <3> HIDE DEF e
    <3>2. Stamped(e, now)
      BY <3>1 DEF JoinInv, Stamped
    <3>3. \A p \in Prunings(e, logFp) : Joined(p) /\ Stamped(p, now)
      BY <3>1, <3>2, PrunedJoined
    <3>4. QED
      BY <2>1, <3>3 DEF e, JoinInv
  <2>4. QED
    BY <2>1, <2>2, <2>3 DEF JoinInv
<1>8. CASE MaybeForceSync
  <2>1. disk' = disk \/ (logFp # NoLog /\ logFp \in DOMAIN disk /\ disk' = Synced(disk, logFp))
    BY <1>8 DEF MaybeForceSync, LogInv, OpenLogOK
  <2>2. /\ Joined(disk') /\ DOMAIN disk' = DOMAIN disk
        /\ \A n \in DOMAIN disk : /\ disk'[n].data = disk[n].data
                                  /\ disk'[n].synced \in {disk[n].synced, Len(disk[n].data)}
    BY <2>1, SyncedJoined DEF JoinInv
  <2>3. UNCHANGED <<now, logFp, token, index, running, remaining, received>> /\ pc' = "idle" /\ pc # "rotate"
    BY <1>8 DEF MaybeForceSync, memory, history
  <2>4. Stamped(disk', now')
    BY <2>2, <2>3 DEF JoinInv, Stamped
  <2>5. NextName' = NextName
    BY <2>3 DEF NextName
  <2>6. running => ReaderJoins'
    <3> SUFFICES ASSUME running PROVE ReaderJoins'
      OBVIOUS
    <3>1. ReaderJoins
      BY DEF JoinInv
    <3>2. logFp # NoLog => logFp \in DOMAIN disk
      BY DEF LogInv, OpenLogOK
    <3>3. \A n \in DOMAIN disk : n.token = token => n.part <= index
      BY <3>1 DEF ReaderJoins
    <3>4. logFp # NoLog => logFp = NextName /\ EndsAt(disk'[logFp].data, received - Len(remaining))
      BY <2>2, <3>1, <3>2 DEF ReaderJoins
    <3>5. ASSUME NEW n \in DOMAIN disk, n.token = token, n.part + 1 = index,
                 logFp # NoLog, disk'[logFp].data = <<>>
          PROVE  EndsAt(disk'[n].data, received - Len(remaining)) /\ disk'[n].synced = Len(disk'[n].data)
      <4>1. EndsAt(disk[n].data, received - Len(remaining)) /\ disk[n].synced = Len(disk[n].data)
        BY <2>2, <3>1, <3>2, <3>5 DEF ReaderJoins
      <4>2. QED
        BY <2>2, <4>1
    <3>6. token.time <= now
      BY <3>1 DEF ReaderJoins
    <3>7. QED
      BY <2>2, <2>3, <2>5, <3>3, <3>4, <3>5, <3>6 DEF ReaderJoins
  <2>7. QED
    BY <2>2, <2>3, <2>4, <2>6 DEF JoinInv
<1>9. CASE BeginWrite
  <2>1. PICK k \in 1..MaxChunk : received' = received + k /\ remaining' = [i \in 1..k |-> received + i]
    BY <1>9 DEF BeginWrite
  <2>2. k \in Nat /\ received \in Nat /\ remaining = <<>>
    BY <1>9, TailTypes, LimitsAssumption DEF BeginWrite, TailInv
  <2>3. received' - Len(remaining') = received - Len(remaining)
    <3>1. Len(remaining') = k /\ Len(remaining) = 0
      BY <2>1, <2>2
    <3>2. QED
      BY <2>1, <2>2, <3>1
  <2>4. UNCHANGED <<disk, now, logFp, token, index, running>> /\ pc' = "write"
    BY <1>9 DEF BeginWrite, memory
  <2>5. NextName' = NextName
    BY <2>4 DEF NextName
  <2>6. QED
    BY <2>3, <2>4, <2>5 DEF JoinInv, ReaderJoins
<1>10. CASE EndWrite \/ IntervalPasses \/ UNCHANGED vars
  <2>1. UNCHANGED <<disk, now, logFp, token, index, running, remaining, received>> /\ (pc' = pc \/ pc' = "sync")
    BY <1>10 DEF EndWrite, IntervalPasses, vars, memory, writer, history
  <2>2. NextName' = NextName
    BY <2>1 DEF NextName
  <2>3. QED
    BY <2>1, <2>2 DEF JoinInv, ReaderJoins
<1>11. CASE WriteFails \/ ForceSyncFails
  <2>1. UNCHANGED <<disk, now>> /\ running' = FALSE
    BY <1>11 DEF WriteFails, ForceSyncFails, Stop
  <2>2. QED
    BY <2>1 DEF JoinInv
<1>12. QED
  BY <1>2, <1>3, <1>4, <1>5, <1>6, <1>7, <1>8, <1>9, <1>10, <1>11 DEF Next

LEMMA JoinInvariant ==
  ASSUME SecondLength = 1, MinStep = 1, "clockBack" \notin Faults
  PROVE  Spec => []JoinInv
<1>1. Init => JoinInv
  BY DEF Init, JoinInv, Joined, Stamped
<1>2. Init => SyncInv
  BY DEF Init, SyncInv
<1>3. LogInv /\ LogInv' /\ DiskInv /\ TailInv /\ SyncInv /\ JoinInv /\ [Next]_vars => JoinInv' /\ SyncInv'
  BY JoinStep, SyncStep
<1>4. QED
  BY <1>1, <1>2, <1>3, TailInvariant, LogInvariant, DiskInvariant, PTL DEF Spec

(* What is on the disk is the tail of what came, but for what an error or a*)
(* loss of power took, if no two writes share an mtime and the clock does  *)
(* not step back: pruning goes by mtime (line 466).  TLC violates the      *)
(* invariant without the first hypothesis.                                 *)
THEOREM TailIsRetained ==
  ASSUME MinStep = 1, "clockBack" \notin Faults
  PROVE  Spec => []RetainedIsTail
  BY TailInvariant, TailRetained, PTL

(* And it is split into segments that join without a gap, whatever fails:  *)
(* rotation, short writes and pruning lose nothing but the oldest, if      *)
(* besides no two sessions share a second.  TLC violates SegmentsJoin      *)
(* when they do, or when the clock steps back.                             *)
THEOREM SegmentsAreRetained ==
  ASSUME SecondLength = 1, MinStep = 1, "clockBack" \notin Faults
  PROVE  Spec => []SegmentsRetained
<1>1. JoinInv => SegmentsJoin
  BY DEF JoinInv, Joined, SegmentsJoin
<1>2. JoinInv /\ TailInv => SegmentsRetained
  BY <1>1, TailRetained DEF SegmentsRetained
<1>3. QED
  BY <1>2, JoinInvariant, TailInvariant, PTL
=============================================================================
