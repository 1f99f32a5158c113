------------------------- MODULE SerialWorkerProofs -------------------------
(***************************************************************************)
(* Theorems about SerialWorker, for every value of its constants.          *)
(***************************************************************************)
EXTENDS SerialWorker, SequenceTheorems, TLAPS

----------------------------------------------------------------------------
(* Typing.                                                                 *)

LEMMA Numbers ==
    /\ None \in SessionOrNone
    /\ Sessions \subseteq SessionOrNone
    /\ None \notin Sessions
    /\ \A s \in SessionOrNone : s # None => s \in Sessions
    /\ \A n \in 0..MaxSessions : n < MaxSessions => n + 1 \in Sessions
    /\ Sessions \subseteq 0..MaxSessions
    /\ Chunks \subseteq 0..MaxChunks
  BY BoundsAssumption DEF None, Sessions, SessionOrNone, Chunks

LEMMA EmptyLine == <<>> \in Seq(Chunks)
  OBVIOUS

LEMMA CallStepTyped ==
  ASSUME TypeOK, NEW c \in Callers, BeginStep(c) \/ CallStep(c)
  PROVE  CallTypeOK'
<1> USE EmptyLine, Numbers DEF CallTypeOK, CallPcs, callVars, At, Goto, Abort
<1> CallTypeOK
  BY DEF TypeOK
<1>1. ASSUME NEW op \in Ops, Begin(c, op) PROVE CallTypeOK'
  BY <1>1 DEF Begin
<1>2. CASE BeginStep(c)
  BY <1>1, <1>2 DEF BeginStep, OpenCall, CloseCall, ReleaseCall, ReacquireCall, Ops
<1>3. CASE StopReader(c) \/ StopReaderFails(c)
  <2> thread \in SessionOrNone
    BY DEF TypeOK, WorkerTypeOK
  <2>1. /\ \E pc \in CallPcs : callPc' = [callPc EXCEPT ![c] = pc]
        /\ \E t \in SessionOrNone : callThread' = [callThread EXCEPT ![c] = t]
        /\ callOp' = callOp /\ callLine' = callLine
    <3>1. CASE StopReader(c)
      BY <3>1 DEF StopReader
    <3>2. CASE StopReaderFails(c)
      <4>1. \E pc \in CallPcs : Goto(c, pc)
        BY <3>2 DEF StopReaderFails
      <4>2. callThread' = callThread /\ callThread = [callThread EXCEPT ![c] = callThread[c]]
        BY <4>1
      <4>3. callThread[c] \in SessionOrNone
        OBVIOUS
      <4>4. QED
        BY <4>1, <4>2, <4>3
    <3>3. QED
      BY <1>3, <3>1, <3>2
  <2>2. QED
    BY <2>1
<1>4. CASE JoinReader(c) \/ FlushPending(c)
  <2>1. CASE JoinReader(c)
    BY <2>1 DEF JoinReader
  <2>2. CASE FlushPending(c)
    BY <2>2 DEF FlushPending
  <2>3. QED
    BY <1>4, <2>1, <2>2
<1>5. CASE TakePending(c)
  <2> pending \in Seq(Chunks)
    BY DEF TypeOK, WorkerTypeOK
  <2> QED
    BY <1>5 DEF TakePending, TakeLine
<1>6. CASE CloseLog(c)
  BY <1>6 DEF CloseLog
<1>7. CASE ClearReleased(c)
  BY <1>7 DEF ClearReleased, AfterClose
<1>8. CASE StartFailsTty(c) \/ StartFailsLog(c) \/ StartSession(c)
  BY <1>8 DEF StartFailsTty, StartFailsLog, StartSession
<1>9. CASE MarkReleased(c) \/ Restore(c)
  BY <1>9 DEF MarkReleased, Restore
<1>10. QED
  BY <1>2, <1>3, <1>4, <1>5, <1>6, <1>7, <1>8, <1>9 DEF CallStep

LEMMA CallStepTypesWorker ==
  ASSUME TypeOK, NEW c \in Callers, BeginStep(c) \/ CallStep(c)
  PROVE  WorkerTypeOK'
<1> USE EmptyLine, Numbers DEF WorkerTypeOK, workerVars
<1> WorkerTypeOK
  BY DEF TypeOK
<1>1. CASE BeginStep(c)
  BY <1>1 DEF BeginStep, OpenCall, CloseCall, ReleaseCall, ReacquireCall, Begin
<1>2. CASE StopReader(c) \/ StopReaderFails(c)
  BY <1>2 DEF StopReader, StopReaderFails
<1>3. CASE JoinReader(c) \/ FlushPending(c)
  BY <1>3 DEF JoinReader, FlushPending
<1>4. CASE TakePending(c) \/ CloseLog(c)
  BY <1>4 DEF TakePending, CloseLog, LogClosed
<1>5. CASE ClearReleased(c) \/ MarkReleased(c) \/ Restore(c)
  BY <1>5 DEF ClearReleased, MarkReleased, Restore
<1>6. CASE StartFailsTty(c) \/ StartFailsLog(c)
  BY <1>6 DEF StartFailsTty, StartFailsLog, ResetSession, Unwind
<1>7. CASE StartSession(c)
  <2> opened \in 0..MaxSessions
    BY DEF TypeOK, HistoryTypeOK
  <2> QED
    BY <1>7 DEF StartSession, ResetSession, NewLog
<1>8. QED
  BY <1>1, <1>2, <1>3, <1>4, <1>5, <1>6, <1>7 DEF CallStep

LEMMA CallStepTypesReader ==
  ASSUME TypeOK, NEW c \in Callers, BeginStep(c) \/ CallStep(c)
  PROVE  ReaderTypeOK'
<1> ReaderTypeOK
  BY DEF TypeOK
<1>1. CASE UNCHANGED readerVars
  BY <1>1 DEF ReaderTypeOK, readerVars
<1>2. CASE StartSession(c)
  <2> opened \in 0..MaxSessions
    BY DEF TypeOK, HistoryTypeOK
  <2> opened + 1 \in Sessions
    BY <1>2, Numbers DEF StartSession
  <2> QED
    BY <1>2 DEF StartSession, ReaderGoto, ReaderTypeOK, ReaderPcs, Reading, Holding
<1>3. BeginStep(c) => UNCHANGED readerVars
  BY DEF BeginStep, OpenCall, CloseCall, ReleaseCall, ReacquireCall, Begin
<1>4. CallStep(c) => UNCHANGED readerVars \/ StartSession(c)
  BY DEF CallStep, StopReader, StopReaderFails, JoinReader, TakePending, FlushPending,
         CloseLog, ClearReleased, StartFailsTty, StartFailsLog, MarkReleased, Restore,
         readerVars
<1>5. QED
  BY <1>1, <1>2, <1>3, <1>4

LEMMA CallStepTypesHistory ==
  ASSUME TypeOK, NEW c \in Callers, BeginStep(c) \/ CallStep(c)
  PROVE  HistoryTypeOK'
<1> HistoryTypeOK
  BY DEF TypeOK
<1>1. CASE UNCHANGED historyVars
  BY <1>1 DEF HistoryTypeOK, historyVars
<1>2. CASE FlushPending(c)
  <2> callLine[c] \in Seq(Chunks)
    BY DEF TypeOK, CallTypeOK
  <2> QED
    BY <1>2, ConcatProperties DEF FlushPending, HistoryTypeOK
<1>3. CASE StartSession(c) \/ StartFailsLog(c)
  BY <1>3, Numbers DEF StartSession, StartFailsLog, Unwind, HistoryTypeOK
<1>4. BeginStep(c) => UNCHANGED historyVars
  BY DEF BeginStep, OpenCall, CloseCall, ReleaseCall, ReacquireCall, Begin
<1>5. CallStep(c) =>
        UNCHANGED historyVars \/ FlushPending(c) \/ StartSession(c) \/ StartFailsLog(c)
  BY DEF CallStep, StopReader, StopReaderFails, JoinReader, TakePending, CloseLog,
         ClearReleased, StartFailsTty, MarkReleased, Restore
<1>6. QED
  BY <1>1, <1>2, <1>3, <1>4, <1>5

(* What a reader has after a step, if it has what the place it comes to    *)
(* asks for.                                                               *)
LEMMA ReaderMoves ==
  ASSUME ReaderTypeOK, NEW r \in Sessions,
         NEW pc \in ReaderPcs, NEW t \in SessionOrNone, NEW n \in 0..MaxChunks, NEW b \in Seq(Chunks),
         pc \in Reading => t \in Sessions, pc \in Holding => n \in Chunks,
         readerPc' = [readerPc EXCEPT ![r] = pc], readerTty' = [readerTty EXCEPT ![r] = t],
         readerChunk' = [readerChunk EXCEPT ![r] = n], readerBuf' = [readerBuf EXCEPT ![r] = b]
  PROVE  ReaderTypeOK'
<1>1. /\ readerPc' \in [Sessions -> ReaderPcs] /\ readerTty' \in [Sessions -> SessionOrNone]
      /\ readerChunk' \in [Sessions -> 0..MaxChunks] /\ readerBuf' \in [Sessions -> Seq(Chunks)]
  BY DEF ReaderTypeOK
<1>2. ASSUME NEW s \in Sessions
      PROVE  /\ readerPc'[s] \in Reading => readerTty'[s] \in Sessions
             /\ readerPc'[s] \in Holding => readerChunk'[s] \in Chunks
  <2>1. CASE s = r
    <3>1. readerPc'[s] = pc /\ readerTty'[s] = t /\ readerChunk'[s] = n
      BY <2>1 DEF ReaderTypeOK
    <3>2. QED
      BY <3>1
  <2>2. CASE s # r
    <3>1. readerPc'[s] = readerPc[s] /\ readerTty'[s] = readerTty[s] /\ readerChunk'[s] = readerChunk[s]
      BY <2>2 DEF ReaderTypeOK
    <3>2. QED
      BY <3>1 DEF ReaderTypeOK
  <2>3. QED
    BY <2>1, <2>2
<1>3. QED
  BY <1>1, <1>2 DEF ReaderTypeOK

LEMMA ReaderHas ==
  ASSUME ReaderTypeOK, NEW r \in Sessions
  PROVE  /\ readerPc[r] \in ReaderPcs /\ readerTty[r] \in SessionOrNone
         /\ readerChunk[r] \in 0..MaxChunks /\ readerBuf[r] \in Seq(Chunks)
         /\ readerPc = [readerPc EXCEPT ![r] = readerPc[r]]
         /\ readerTty = [readerTty EXCEPT ![r] = readerTty[r]]
         /\ readerChunk = [readerChunk EXCEPT ![r] = readerChunk[r]]
         /\ readerBuf = [readerBuf EXCEPT ![r] = readerBuf[r]]
  BY DEF ReaderTypeOK

LEMMA ReaderGoes ==
  ASSUME ReaderTypeOK, NEW r \in Sessions, NEW pc \in ReaderPcs, ReaderGoto(r, pc),
         pc \in Reading => readerPc[r] \in Reading, pc \in Holding => readerPc[r] \in Holding
  PROVE  ReaderTypeOK'
<1>1. /\ readerTty' = readerTty /\ readerChunk' = readerChunk /\ readerBuf' = readerBuf
      /\ readerPc' = [readerPc EXCEPT ![r] = pc]
  BY DEF ReaderGoto
<1>2. (pc \in Reading => readerTty[r] \in Sessions) /\ (pc \in Holding => readerChunk[r] \in Chunks)
  BY DEF ReaderTypeOK
<1>3. /\ readerTty' = [readerTty EXCEPT ![r] = readerTty[r]]
      /\ readerChunk' = [readerChunk EXCEPT ![r] = readerChunk[r]]
      /\ readerBuf' = [readerBuf EXCEPT ![r] = readerBuf[r]]
      /\ readerTty[r] \in SessionOrNone /\ readerChunk[r] \in 0..MaxChunks /\ readerBuf[r] \in Seq(Chunks)
  BY <1>1, ReaderHas
<1> DEFINE t == readerTty[r]
           n == readerChunk[r]
           b == readerBuf[r]
<1>4. /\ readerPc' = [readerPc EXCEPT ![r] = pc] /\ readerTty' = [readerTty EXCEPT ![r] = t]
      /\ readerChunk' = [readerChunk EXCEPT ![r] = n] /\ readerBuf' = [readerBuf EXCEPT ![r] = b]
  BY <1>1, <1>3
<1>5. t \in SessionOrNone /\ n \in 0..MaxChunks /\ b \in Seq(Chunks)
  BY <1>3
<1>6. (pc \in Reading => t \in Sessions) /\ (pc \in Holding => n \in Chunks)
  BY <1>2
<1> HIDE DEF t, n, b
<1>7. QED
  BY <1>4, <1>5, <1>6, ReaderMoves

LEMMA ReaderEndsTyped ==
  ASSUME ReaderTypeOK, NEW r \in Sessions, ReaderEnds(r)
  PROVE  ReaderTypeOK'
<1>1. /\ readerPc' = [readerPc EXCEPT ![r] = "done"] /\ readerTty' = [readerTty EXCEPT ![r] = None]
      /\ readerChunk' = readerChunk /\ readerBuf' = readerBuf
  BY DEF ReaderEnds
<1>2. "done" \in ReaderPcs /\ "done" \notin Reading /\ "done" \notin Holding /\ None \in SessionOrNone
  BY Numbers DEF ReaderPcs, Reading, Holding
<1>3. QED
  BY <1>1, <1>2, ReaderHas, ReaderMoves

LEMMA ReaderStepTypesReader ==
  ASSUME TypeOK, NEW r \in Sessions, ReaderStep(r)
  PROVE  ReaderTypeOK'
<1> ReaderTypeOK
  BY DEF TypeOK
<1>a. /\ \A pc \in {"check", "take", "failed", "report", "deliver"} :
           pc \in ReaderPcs /\ pc \notin Reading /\ pc \notin Holding
      /\ \A pc \in Holding : pc \in ReaderPcs /\ pc \in Reading
      /\ "read" \in ReaderPcs /\ "read" \in Reading /\ "read" \notin Holding
      /\ "emit" \in ReaderPcs /\ "emit" \notin Reading /\ "emit" \notin Holding
      /\ "log" \in Holding /\ "sync" \in Holding /\ "publish" \in Holding /\ "assemble" \in Holding
  BY DEF ReaderPcs, Reading, Holding
<1>b. ASSUME NEW pc \in {"check", "take", "failed", "report", "deliver"}, ReaderGoto(r, pc)
      PROVE  ReaderTypeOK'
  BY <1>a, <1>b, ReaderGoes
<1>c. ASSUME NEW pc \in Holding, readerPc[r] \in Holding, ReaderGoto(r, pc) PROVE ReaderTypeOK'
  BY <1>a, <1>c, ReaderGoes
<1>1. CASE CheckStop(r) \/ ReadFailed(r)
  <2>1. ReaderEnds(r) \/ ReaderGoto(r, "take") \/ ReaderGoto(r, "report")
    BY <1>1 DEF CheckStop, ReadFailed
  <2>2. QED
    BY <1>b, <2>1, ReaderEndsTyped
<1>2. CASE TakeSerial(r)
  <2>1. CASE serial # None /\ serial \in ttyOpen
    <3>1. /\ readerPc' = [readerPc EXCEPT ![r] = "read"] /\ readerTty' = [readerTty EXCEPT ![r] = serial]
          /\ readerChunk' = readerChunk /\ readerBuf' = readerBuf
      BY <1>2, <2>1 DEF TakeSerial
    <3>2. serial \in SessionOrNone /\ serial \in Sessions
      BY <2>1, Numbers DEF TypeOK, WorkerTypeOK
    <3>3. QED
      BY <1>a, <3>1, <3>2, ReaderHas, ReaderMoves
  <2>2. CASE ~(serial # None /\ serial \in ttyOpen)
    <3>1. ReaderEnds(r)
      BY <1>2, <2>2 DEF TakeSerial
    <3>2. QED
      BY <3>1, ReaderEndsTyped
  <2>3. QED
    BY <2>1, <2>2
<1>3. CASE ReadIdle(r) \/ ReadFails(r)
  <2>1. ReaderGoto(r, "check") \/ ReaderGoto(r, "failed")
    BY <1>3 DEF ReadIdle, ReadFails
  <2>2. QED
    BY <1>b, <2>1
<1>4. CASE ReadData(r)
  <2>1. Len(read) + 1 \in Chunks /\ Len(read) + 1 \in 0..MaxChunks
    <3>1. Len(read) \in Nat /\ Len(read) < MaxChunks /\ MaxChunks \in Nat
      BY <1>4, BoundsAssumption DEF ReadData, TypeOK, HistoryTypeOK
    <3>2. QED
      BY <3>1 DEF Chunks
  <2>2. readerTty[r] \in Sessions
    BY <1>4 DEF ReadData, ReaderTypeOK, Reading
  <2>3. /\ readerPc' = [readerPc EXCEPT ![r] = "log"] /\ readerTty' = readerTty
        /\ readerChunk' = [readerChunk EXCEPT ![r] = Len(read) + 1] /\ readerBuf' = readerBuf
    BY <1>4 DEF ReadData, AfterRead
  <2>4. /\ readerTty' = [readerTty EXCEPT ![r] = readerTty[r]]
        /\ readerBuf' = [readerBuf EXCEPT ![r] = readerBuf[r]]
        /\ readerTty[r] \in SessionOrNone /\ readerBuf[r] \in Seq(Chunks)
    BY <2>3, ReaderHas
  <2>5. QED
    BY <1>a, <2>1, <2>2, <2>3, <2>4, ReaderMoves
<1>5. CASE ReportReadFailure(r) \/ WriteLogFails(r) \/ ForceSyncFails(r)
  <2>1. ReaderEnds(r)
    BY <1>5 DEF ReportReadFailure, WriteLogFails, ForceSyncFails, BreakLoop
  <2>2. QED
    BY <2>1, ReaderEndsTyped
<1>6. CASE WriteLog(r) \/ ForceSync(r) \/ Publish(r)
  <2>1. /\ readerPc[r] \in {"log", "sync", "publish"}
        /\ ReaderGoto(r, "sync") \/ ReaderGoto(r, "publish") \/ ReaderGoto(r, "assemble")
    BY <1>6 DEF WriteLog, ForceSync, Publish
  <2>2. QED
    BY <1>a, <1>c, <2>1
<1>7. CASE Assemble(r)
  <2>1. readerChunk[r] \in Chunks /\ pending \in Seq(Chunks)
    BY <1>7 DEF Assemble, TypeOK, WorkerTypeOK, ReaderTypeOK, Holding
  <2>2. Append(pending, readerChunk[r]) \in Seq(Chunks)
    BY <2>1, AppendProperties
  <2>3. /\ readerPc' = [readerPc EXCEPT ![r] = "emit"] /\ readerTty' = readerTty
        /\ readerBuf' = [readerBuf EXCEPT ![r] = Append(pending, readerChunk[r])]
        /\ readerChunk' = readerChunk
    BY <1>7 DEF Assemble, Buffer
  <2>4. /\ readerTty' = [readerTty EXCEPT ![r] = readerTty[r]]
        /\ readerChunk' = [readerChunk EXCEPT ![r] = readerChunk[r]]
        /\ readerTty[r] \in SessionOrNone /\ readerChunk[r] \in 0..MaxChunks
    BY <2>3, ReaderHas
  <2>5. QED
    BY <1>a, <2>2, <2>3, <2>4, ReaderMoves
<1>8. CASE KeepPending(r) \/ Deliver(r)
  <2>1. /\ readerPc' = [readerPc EXCEPT ![r] = "check"] /\ readerTty' = readerTty
        /\ readerBuf' = [readerBuf EXCEPT ![r] = <<>>] /\ readerChunk' = readerChunk
    BY <1>8 DEF KeepPending, Deliver
  <2>2. /\ readerTty' = [readerTty EXCEPT ![r] = readerTty[r]]
        /\ readerChunk' = [readerChunk EXCEPT ![r] = readerChunk[r]]
        /\ readerTty[r] \in SessionOrNone /\ readerChunk[r] \in 0..MaxChunks
    BY <2>1, ReaderHas
  <2>3. QED
    BY <1>a, <2>1, <2>2, EmptyLine, ReaderMoves
<1>9. CASE CompleteLine(r)
  <2>1. ReaderGoto(r, "deliver")
    BY <1>9 DEF CompleteLine
  <2>2. QED
    BY <1>b, <2>1
<1>10. QED
  BY <1>1, <1>2, <1>3, <1>4, <1>5, <1>6, <1>7, <1>8, <1>9 DEF ReaderStep

LEMMA ReaderStepTypesWorker ==
  ASSUME TypeOK, NEW r \in Sessions, ReaderStep(r)
  PROVE  WorkerTypeOK'
<1> USE EmptyLine, Numbers DEF WorkerTypeOK, workerVars
<1> WorkerTypeOK
  BY DEF TypeOK
<1>1. CASE UNCHANGED workerVars
  BY <1>1
<1>2. CASE ReportReadFailure(r) \/ WriteLogFails(r) \/ ForceSyncFails(r)
  BY <1>2 DEF ReportReadFailure, WriteLogFails, ForceSyncFails, LogError
<1>3. CASE KeepPending(r) \/ CompleteLine(r)
  <2> readerBuf[r] \in Seq(Chunks)
    BY DEF TypeOK, ReaderTypeOK
  <2> QED
    BY <1>3 DEF KeepPending, CompleteLine
<1>4. \/ UNCHANGED workerVars
      \/ ReportReadFailure(r) \/ WriteLogFails(r) \/ ForceSyncFails(r)
      \/ KeepPending(r) \/ CompleteLine(r)
  BY DEF ReaderStep, CheckStop, TakeSerial, ReadIdle, ReadData, ReadFails, ReadFailed,
         WriteLog, ForceSync, Publish, Assemble, Deliver
<1>5. QED
  BY <1>1, <1>2, <1>3, <1>4

LEMMA ReaderStepTypesHistory ==
  ASSUME TypeOK, NEW r \in Sessions, ReaderStep(r)
  PROVE  HistoryTypeOK'
<1> USE DEF HistoryTypeOK, historyVars
<1> HistoryTypeOK
  BY DEF TypeOK
<1> DEFINE Records(s) == [n |-> readerChunk[s], src |-> readerTty[s], file |-> logFp]
<1>1. CASE UNCHANGED historyVars
  BY <1>1
<1>2. CASE ReadData(r)
  <2> readerTty[r] \in Sessions
    BY <1>2 DEF ReadData, TypeOK, ReaderTypeOK, Reading
  <2> QED
    BY <1>2, AppendProperties, BoundsAssumption DEF ReadData
<1>3. CASE WriteLog(r)
  <2> Records(r) \in Entries
    BY <1>3, Numbers
       DEF WriteLog, TypeOK, ReaderTypeOK, WorkerTypeOK, Reading, Holding, Entries
  <2> Append(rawLog, Records(r)) \in Seq(Entries)
    BY AppendProperties
  <2> QED
    BY <1>3 DEF WriteLog
<1>4. CASE Publish(r)
  <2> readerChunk[r] \in Chunks
    BY <1>4 DEF Publish, TypeOK, ReaderTypeOK, Holding
  <2> QED
    BY <1>4, AppendProperties DEF Publish
<1>5. CASE Deliver(r)
  <2> readerBuf[r] \in Seq(Chunks)
    BY DEF TypeOK, ReaderTypeOK
  <2> QED
    BY <1>5, ConcatProperties DEF Deliver
<1>6. \/ UNCHANGED historyVars
      \/ ReadData(r) \/ WriteLog(r) \/ Publish(r) \/ Deliver(r)
  BY DEF ReaderStep, CheckStop, TakeSerial, ReadIdle, ReadFails, ReadFailed,
         ReportReadFailure, WriteLogFails, ForceSync, ForceSyncFails, Assemble,
         KeepPending, CompleteLine
<1>7. QED
  BY <1>1, <1>2, <1>3, <1>4, <1>5, <1>6

LEMMA ReaderStepTypesCalls ==
  ASSUME TypeOK, NEW r \in Sessions, ReaderStep(r)
  PROVE  CallTypeOK'
<1>1. UNCHANGED callVars
  BY DEF ReaderStep, CheckStop, TakeSerial, ReadIdle, ReadData, ReadFails, ReadFailed,
         ReportReadFailure, WriteLog, WriteLogFails, ForceSync, ForceSyncFails, Publish,
         Assemble, KeepPending, CompleteLine, Deliver
<1>2. QED
  BY <1>1 DEF TypeOK, CallTypeOK, callVars

LEMMA TypeStep == TypeOK /\ [Next]_vars => TypeOK'
<1> SUFFICES ASSUME TypeOK, [Next]_vars PROVE TypeOK'
  OBVIOUS
<1>1. ASSUME NEW c \in Callers, BeginStep(c) \/ CallStep(c) PROVE TypeOK'
  BY <1>1, CallStepTyped, CallStepTypesWorker, CallStepTypesReader, CallStepTypesHistory
     DEF TypeOK
<1>2. ASSUME NEW r \in Sessions, ReaderStep(r) PROVE TypeOK'
  BY <1>2, ReaderStepTypesReader, ReaderStepTypesWorker, ReaderStepTypesHistory,
     ReaderStepTypesCalls DEF TypeOK
<1>3. ASSUME NEW s \in Sessions, Collect(s) PROVE TypeOK'
  <2>1. WorkerTypeOK'
    BY <1>3 DEF Collect, TypeOK, WorkerTypeOK
  <2>2. ReaderTypeOK' /\ CallTypeOK' /\ HistoryTypeOK'
    BY <1>3 DEF Collect, TypeOK, ReaderTypeOK, CallTypeOK, HistoryTypeOK, readerVars,
                callVars, historyVars
  <2>3. QED
    BY <2>1, <2>2 DEF TypeOK
<1>4. CASE UNCHANGED vars
  <2>1. WorkerTypeOK' /\ HistoryTypeOK'
    BY <1>4 DEF vars, workerVars, historyVars, TypeOK, WorkerTypeOK, HistoryTypeOK
  <2>2. ReaderTypeOK' /\ CallTypeOK'
    BY <1>4 DEF vars, readerVars, callVars, TypeOK, ReaderTypeOK, CallTypeOK
  <2>3. QED
    BY <2>1, <2>2 DEF TypeOK
<1>5. QED
  BY <1>1, <1>2, <1>3, <1>4 DEF Next

(* Every variable keeps its type, however many callers, sessions, chunks   *)
(* and faults there are.                                                   *)
THEOREM TypeCorrect == Spec => []TypeOK
<1>1. ASSUME Init PROVE TypeOK
  <2> USE <1>1, EmptyLine, Numbers, BoundsAssumption DEF Init
  <2>1. WorkerTypeOK
    BY DEF WorkerTypeOK
  <2>2. ReaderTypeOK
    BY DEF ReaderTypeOK, ReaderPcs, Reading, Holding
  <2>3. CallTypeOK
    BY DEF CallTypeOK, CallPcs, Ops
  <2>4. HistoryTypeOK
    BY DEF HistoryTypeOK
  <2>5. QED
    BY <2>1, <2>2, <2>3, <2>4 DEF TypeOK
<1>2. QED
  BY <1>1, TypeStep, PTL DEF Spec

----------------------------------------------------------------------------
(* What holds however requests overlap.                                    *)

(* A chunk is logged before a reader or a request passes it on.            *)
RawFirstInv ==
    /\ RawFirst
    /\ \A r \in Sessions :
          /\ readerPc[r] \in {"sync", "publish", "assemble"} => readerChunk[r] \in Logged
          /\ Items(readerBuf[r]) \subseteq Logged
    /\ \A c \in Callers : Items(callLine[c]) \subseteq Logged

LEMMA ItemsAppend ==
  ASSUME NEW S, NEW seq \in Seq(S), NEW e \in S
  PROVE  Items(Append(seq, e)) = Items(seq) \cup {e}
  BY AppendProperties DEF Items

LEMMA ItemsConcat ==
  ASSUME NEW S, NEW s \in Seq(S), NEW t \in Seq(S)
  PROVE  Items(s \o t) \subseteq Items(s) \cup Items(t)
  BY ConcatProperties DEF Items

LEMMA ItemsEmpty == Items(<<>>) = {}
  BY DEF Items

LEMMA LoggedAppend ==
  ASSUME TypeOK, NEW r \in Sessions, WriteLog(r)
  PROVE  Logged' = Logged \cup {readerChunk[r]}
<1> DEFINE e == [n |-> readerChunk[r], src |-> readerTty[r], file |-> logFp]
<1>1. e \in Entries
  BY Numbers DEF WriteLog, TypeOK, ReaderTypeOK, WorkerTypeOK, Reading, Holding, Entries
<1>2. rawLog \in Seq(Entries) /\ rawLog' = Append(rawLog, e)
  BY DEF WriteLog, TypeOK, HistoryTypeOK
<1>3. e.n = readerChunk[r]
  OBVIOUS
<1>. HIDE DEF e
<1>4. QED
  BY <1>1, <1>2, <1>3, AppendProperties DEF Logged

LEMMA CallStepRawFirst ==
  ASSUME TypeOK, RawFirstInv, NEW c \in Callers, BeginStep(c) \/ CallStep(c)
  PROVE  RawFirstInv'
<1> USE ItemsEmpty DEF RawFirstInv, RawFirst, workerVars, readerVars, historyVars
<1> Logged' = Logged
  <2> UNCHANGED rawLog
    BY DEF BeginStep, OpenCall, CloseCall, ReleaseCall, ReacquireCall, Begin, CallStep,
           StopReader, StopReaderFails, JoinReader, TakePending, FlushPending, CloseLog,
           ClearReleased, StartFailsTty, StartFailsLog, StartSession, MarkReleased, Restore
  <2> QED
    BY DEF Logged
<1>1. CASE UNCHANGED <<pending, readerVars, callLine, rawLog, bridge, console>>
  BY <1>1
<1>2. CASE TakePending(c)
  BY <1>2 DEF TakePending, TakeLine, TypeOK, CallTypeOK
<1>3. CASE FlushPending(c)
  <2> callLine[c] \in Seq(Chunks) /\ console \in Seq(Chunks)
    BY DEF TypeOK, CallTypeOK, HistoryTypeOK
  <2> Items(console') \subseteq Items(console) \cup Items(callLine[c])
    BY <1>3, ItemsConcat DEF FlushPending
  <2> QED
    BY <1>3 DEF FlushPending, TypeOK, CallTypeOK
<1>4. CASE StartFailsTty(c) \/ StartFailsLog(c)
  BY <1>4 DEF StartFailsTty, StartFailsLog, ResetSession, Unwind, Abort, Goto
<1>5. CASE StartSession(c)
  <2> DEFINE s == opened + 1
  <2> s \in Sessions
    BY <1>5, Numbers DEF StartSession, TypeOK, HistoryTypeOK
  <2> /\ readerPc' = [readerPc EXCEPT ![s] = "check"]
      /\ UNCHANGED <<readerChunk, readerBuf, callLine, rawLog, bridge, console>>
      /\ pending' = <<>>
    BY <1>5 DEF StartSession, ResetSession, ReaderGoto, Goto
  <2> HIDE DEF s
  <2> QED
    BY DEF TypeOK, ReaderTypeOK
<1>6. BeginStep(c) => UNCHANGED <<pending, readerVars, callLine, rawLog, bridge, console>>
  BY DEF BeginStep, OpenCall, CloseCall, ReleaseCall, ReacquireCall, Begin
<1>7. CallStep(c) =>
        \/ UNCHANGED <<pending, readerVars, callLine, rawLog, bridge, console>>
        \/ TakePending(c) \/ FlushPending(c)
        \/ StartFailsTty(c) \/ StartFailsLog(c) \/ StartSession(c)
  BY DEF CallStep, StopReader, StopReaderFails, JoinReader, CloseLog, ClearReleased,
         MarkReleased, Restore, Abort, Goto
<1>8. QED
  BY <1>1, <1>2, <1>3, <1>4, <1>5, <1>6, <1>7

LEMMA ReaderStepRawFirst ==
  ASSUME TypeOK, RawFirstInv, NEW r \in Sessions, ReaderStep(r)
  PROVE  RawFirstInv'
<1> USE ItemsEmpty
    DEF RawFirstInv, RawFirst, workerVars, callVars, historyVars, ReaderGoto, ReaderEnds
<1> /\ readerPc \in [Sessions -> ReaderPcs]
    /\ readerChunk \in [Sessions -> 0..MaxChunks]
    /\ readerBuf \in [Sessions -> Seq(Chunks)]
    /\ pending \in Seq(Chunks) /\ bridge \in Seq(Chunks) /\ console \in Seq(Chunks)
    /\ readerPc[r] \in Holding => readerChunk[r] \in Chunks
  BY DEF TypeOK, ReaderTypeOK, WorkerTypeOK, HistoryTypeOK
<1>0. Logged' = Logged \/ WriteLog(r)
  <2> UNCHANGED rawLog \/ WriteLog(r)
    BY DEF ReaderStep, CheckStop, TakeSerial, ReadIdle, ReadData, ReadFails, ReadFailed,
           ReportReadFailure, WriteLogFails, ForceSync, ForceSyncFails, Publish, Assemble,
           KeepPending, CompleteLine, Deliver
  <2> QED
    BY DEF Logged
<1>1. CASE CheckStop(r)
  BY <1>0, <1>1 DEF CheckStop, WriteLog
<1>2. CASE TakeSerial(r)
  BY <1>0, <1>2 DEF TakeSerial, WriteLog
<1>3. CASE ReadIdle(r) \/ ReadFails(r)
  BY <1>0, <1>3 DEF ReadIdle, ReadFails, WriteLog
<1>4. CASE ReadData(r)
  BY <1>0, <1>4 DEF ReadData, AfterRead, WriteLog
<1>5. CASE ReadFailed(r)
  BY <1>0, <1>5 DEF ReadFailed, WriteLog
<1>6. CASE ReportReadFailure(r)
  BY <1>0, <1>6 DEF ReportReadFailure, WriteLog
<1>7. CASE WriteLog(r)
  <2> Logged' = Logged \cup {readerChunk[r]}
    BY <1>7, LoggedAppend
  <2> QED
    BY <1>7 DEF WriteLog
<1>8. CASE WriteLogFails(r)
  <2> Logged' = Logged
    BY <1>8 DEF WriteLogFails, Logged
  <2> QED
    BY <1>8 DEF WriteLogFails, BreakLoop
<1>9. CASE ForceSync(r)
  BY <1>0, <1>9 DEF ForceSync, WriteLog
<1>10. CASE ForceSyncFails(r)
  BY <1>0, <1>10 DEF ForceSyncFails, BreakLoop, WriteLog
<1>11. CASE Publish(r)
  <2> Items(bridge') = Items(bridge) \cup {readerChunk[r]}
    BY <1>11, ItemsAppend DEF Publish, Holding
  <2> QED
    BY <1>0, <1>11 DEF Publish, WriteLog
<1>12. CASE Assemble(r)
  <2> DEFINE line == Append(pending, readerChunk[r])
  <2> Items(line) = Items(pending) \cup {readerChunk[r]}
    BY <1>12, ItemsAppend DEF Assemble, Holding
  <2> /\ readerPc[r] = "assemble"
      /\ readerPc' = [readerPc EXCEPT ![r] = "emit"]
      /\ readerBuf' = [readerBuf EXCEPT ![r] = line]
      /\ UNCHANGED <<pending, readerChunk, callLine, bridge, console>>
    BY <1>12 DEF Assemble, Buffer
  <2> Logged' = Logged
    BY <1>0 DEF WriteLog
  <2> HIDE DEF line
  <2> QED
    OBVIOUS
<1>13. CASE KeepPending(r)
  BY <1>0, <1>13 DEF KeepPending, WriteLog
<1>14. CASE CompleteLine(r)
  BY <1>0, <1>14 DEF CompleteLine, WriteLog
<1>15. CASE Deliver(r)
  <2> Items(console') \subseteq Items(console) \cup Items(readerBuf[r])
    BY <1>15, ItemsConcat DEF Deliver
  <2> QED
    BY <1>0, <1>15 DEF Deliver, WriteLog
<1>16. QED
  BY <1>1, <1>2, <1>3, <1>4, <1>5, <1>6, <1>7, <1>8, <1>9, <1>10, <1>11, <1>12, <1>13,
     <1>14, <1>15 DEF ReaderStep

(* The raw log comes first (P0): whatever the bridge, the console or the   *)
(* unfinished line holds was logged, with any number of overlapping        *)
(* requests, sessions and faults.                                          *)
THEOREM RawLogFirst == Spec => []RawFirst
<1>1. ASSUME Init PROVE RawFirstInv
  BY <1>1, ItemsEmpty DEF Init, RawFirstInv, RawFirst
<1>2. TypeOK /\ RawFirstInv /\ [Next]_vars => RawFirstInv'
  <2> SUFFICES ASSUME TypeOK, RawFirstInv, [Next]_vars PROVE RawFirstInv'
    OBVIOUS
  <2>1. CASE UNCHANGED vars
    BY <2>1 DEF RawFirstInv, RawFirst, Logged, vars, workerVars, readerVars, callVars,
                historyVars
  <2>2. ASSUME NEW s \in Sessions, Collect(s) PROVE RawFirstInv'
    BY <2>2 DEF Collect, RawFirstInv, RawFirst, Logged, readerVars, callVars, historyVars
  <2>3. QED
    BY <2>1, <2>2, CallStepRawFirst, ReaderStepRawFirst DEF Next
<1>3. RawFirstInv => RawFirst
  BY DEF RawFirstInv
<1>4. QED
  BY <1>1, <1>2, <1>3, TypeCorrect, PTL DEF Spec

(* A request stops the reader and gives up its tty in one region of the    *)
(* lock, and clears the stop event in the one that opens another.          *)
LEMMA RequestKeepsStatus ==
  ASSUME TypeOK, StatusTruthful, NEW c \in Callers, BeginStep(c) \/ CallStep(c)
  PROVE  StatusTruthful'
<1> USE DEF StatusTruthful, workerVars, ResetSession
<1>1. CASE BeginStep(c)
  BY <1>1 DEF BeginStep, OpenCall, CloseCall, ReleaseCall, ReacquireCall, Begin
<1>2. CASE CallStep(c)
  BY <1>2 DEF CallStep, StopReader, StopReaderFails, JoinReader, TakePending,
              FlushPending, CloseLog, ClearReleased, StartFailsTty, StartFailsLog,
              Unwind, StartSession, MarkReleased, Restore
<1>3. QED
  BY <1>1, <1>2

(* No reader touches what status() goes by.                                *)
LEMMA ReaderLeavesStatus ==
  ASSUME NEW r \in Sessions, ReaderStep(r)
  PROVE  UNCHANGED <<serial, ttyOpen, stop>>
  BY DEF workerVars, ReaderStep, CheckStop, TakeSerial, ReadIdle, ReadData, ReadFails,
         ReadFailed, ReportReadFailure, WriteLog, WriteLogFails, ForceSync,
         ForceSyncFails, Publish, Assemble, KeepPending, CompleteLine, Deliver

(* While the worker holds a tty object it is open and nobody told its      *)
(* reader to stop, so status() and write_raw() never go by a dead handle.  *)
THEOREM StatusIsTruthful == Spec => []StatusTruthful
<1>1. Init => StatusTruthful
  BY DEF Init, StatusTruthful
<1>2. ASSUME TypeOK, StatusTruthful, [Next]_vars PROVE StatusTruthful'
  <2>1. CASE UNCHANGED <<serial, ttyOpen, stop>>
    BY <1>2, <2>1 DEF StatusTruthful
  <2>2. CASE \E s \in Sessions : Collect(s)
    BY <1>2, <2>2 DEF StatusTruthful, Collect
  <2>3. UNCHANGED vars => UNCHANGED <<serial, ttyOpen, stop>>
    BY DEF vars, workerVars
  <2>4. QED
    BY <1>2, <2>1, <2>2, <2>3, RequestKeepsStatus, ReaderLeavesStatus DEF Next
<1>3. QED
  BY <1>1, <1>2, TypeCorrect, PTL DEF Spec

----------------------------------------------------------------------------
(* One request at a time, and every reader punctual.                       *)

(* Where a request has the worker to itself.                               *)
Quiet == {"take", "flush", "closelog", "clear", "start", "mark", "restore"}

OneCall == \A c, d \in Callers : ~At(c, "idle") /\ ~At(d, "idle") => c = d

CallFacts(c) ==
    /\ At(c, "stop") /\ callOp[c] = "reacquire" => released
    /\ At(c, "join") => stop /\ thread = None /\ serial = None
    /\ callPc[c] \in Quiet =>
          thread = None /\ serial = None /\ \A r \in Sessions : ~Running(r)
    /\ callPc[c] \in {"clear", "start", "mark", "restore"} => logFp = None

CallInv == OneCall /\ \A c \in Callers : CallFacts(c)

ReaderInv ==
    \A r \in Sessions :
        /\ Running(r) =>
              /\ r <= opened
              /\ logFp = r
              /\ r = thread \/ \E c \in Callers : At(c, "join") /\ callThread[c] = r
        /\ readerPc[r] \in Reading => readerTty[r] = r

SessionInv ==
    /\ serial # None =>
          /\ thread = serial
          /\ logFp = serial \/ (lastError = "write" /\ ~Running(serial))
    /\ released => thread = None /\ serial = None /\ logFp = None
                   /\ \A r \in Sessions : ~Running(r)

LogInv ==
    /\ \A i \in DOMAIN rawLog : rawLog[i].n \in DOMAIN read
    /\ \A n \in DOMAIN read : read[n] <= opened
    /\ \A r \in Sessions : readerPc[r] = "log" =>
          readerChunk[r] = Len(read) /\ Len(read) \notin Logged

SerializedInv == CallInv /\ ReaderInv /\ SessionInv /\ LogInv

LEMMA OthersIdle ==
  ASSUME Serialized, TypeOK, OneCall, NEW c \in Callers, BeginStep(c) \/ CallStep(c)
  PROVE  /\ \A d \in Callers : d # c => At(d, "idle") /\ callPc'[d] = callPc[d]
         /\ BeginStep(c) => At(c, "idle")
         /\ CallStep(c) => ~At(c, "idle")
<1> USE DEF At, Goto, Abort
<1> callPc \in [Callers -> CallPcs]
  BY DEF TypeOK, CallTypeOK
<1>1. BeginStep(c) => \A d \in Callers : At(d, "idle")
  BY DEF BeginStep, OpenCall, CloseCall, ReleaseCall, ReacquireCall, Begin, MayBegin,
         Serialized
<1>2. CallStep(c) => ~At(c, "idle")
  BY DEF CallStep, StopReader, StopReaderFails, JoinReader, TakePending, FlushPending,
         CloseLog, ClearReleased, StartFailsTty, StartFailsLog, StartSession,
         MarkReleased, Restore
<1>3. \E pc \in {callPc'[c]} : callPc' = [callPc EXCEPT ![c] = pc]
  <2>1. CASE BeginStep(c)
    BY <2>1 DEF BeginStep, OpenCall, CloseCall, ReleaseCall, ReacquireCall, Begin
  <2>2. CASE CallStep(c)
    BY <2>2 DEF CallStep, StopReader, StopReaderFails, JoinReader, TakePending,
                FlushPending, CloseLog, ClearReleased, StartFailsTty, StartFailsLog,
                StartSession, MarkReleased, Restore
  <2>3. QED
    BY <2>1, <2>2
<1>4. QED
  BY <1>1, <1>2, <1>3 DEF OneCall

LEMMA CallStepCallInv ==
  ASSUME Serialized, PunctualReader, TypeOK, SerializedInv,
         NEW c \in Callers, BeginStep(c) \/ CallStep(c)
  PROVE  CallInv'
<1> USE DEF At, Goto, Abort, Quiet, Running, CallFacts, workerVars, readerVars
<1>a. /\ callPc \in [Callers -> CallPcs] /\ callOp \in [Callers -> Ops]
      /\ thread \in SessionOrNone /\ callThread[c] \in SessionOrNone
  BY DEF TypeOK, CallTypeOK, WorkerTypeOK
<1>b. CallInv /\ OneCall /\ CallFacts(c)
  BY DEF SerializedInv, CallInv
<1>c. \A d \in Callers : d # c => At(d, "idle") /\ callPc'[d] = callPc[d]
  BY <1>b, OthersIdle
<1>d. SUFFICES CallFacts(c)'
  <2>1. \A d \in Callers : d # c => CallFacts(d)'
    BY <1>c
  <2>2. OneCall'
    BY <1>c DEF OneCall
  <2>3. QED
    BY <1>d, <2>1, <2>2 DEF CallInv
<1>1. CASE OpenCall(c) \/ CloseCall(c) \/ ReleaseCall(c)
  BY <1>1, <1>a DEF OpenCall, CloseCall, ReleaseCall, Begin
<1>2. CASE ReacquireCall(c)
  BY <1>2, <1>a DEF ReacquireCall, Begin
<1>3. CASE StopReader(c)
  BY <1>3, <1>a DEF StopReader
<1>4. CASE StopReaderFails(c)
  BY <1>4, <1>a, <1>b DEF StopReaderFails, SerializedInv, SessionInv
<1>5. CASE JoinReader(c)
  <2>1. /\ stop /\ thread = None /\ serial = None
        /\ callThread[c] = None \/ ~Running(callThread[c])
    BY <1>5, <1>b DEF JoinReader, JoinReturns, PunctualReader
  <2>2. \A r \in Sessions : ~Running(r)
    <3>1. ASSUME NEW r \in Sessions, Running(r) PROVE FALSE
      <4>1. r = thread \/ \E d \in Callers : At(d, "join") /\ callThread[d] = r
        BY <3>1 DEF SerializedInv, ReaderInv
      <4>2. callThread[c] = r
        BY <1>c, <2>1, <4>1, Numbers
      <4>3. QED
        BY <2>1, <3>1, <4>2, Numbers
    <3>2. QED
      BY <3>1
  <2>3. QED
    BY <1>5, <1>a, <2>1, <2>2 DEF JoinReader
<1>6. CASE TakePending(c)
  BY <1>6, <1>a, <1>b DEF TakePending
<1>7. CASE FlushPending(c)
  BY <1>7, <1>a, <1>b DEF FlushPending
<1>8. CASE CloseLog(c)
  BY <1>8, <1>a, <1>b DEF CloseLog, LogClosed
<1>9. CASE ClearReleased(c)
  BY <1>9, <1>a, <1>b DEF ClearReleased, AfterClose
<1>10. CASE StartFailsTty(c)
  BY <1>10, <1>a, <1>b DEF StartFailsTty, ResetSession
<1>11. CASE StartFailsLog(c)
  BY <1>11, <1>a, <1>b DEF StartFailsLog, ResetSession, Unwind
<1>12. CASE StartSession(c) \/ MarkReleased(c) \/ Restore(c)
  BY <1>12, <1>a DEF StartSession, MarkReleased, Restore
<1>13. QED
  BY <1>1, <1>2, <1>3, <1>4, <1>5, <1>6, <1>7, <1>8, <1>9, <1>10, <1>11, <1>12
     DEF BeginStep, CallStep

LEMMA CallStepReaderInv ==
  ASSUME Serialized, PunctualReader, TypeOK, SerializedInv,
         NEW c \in Callers, BeginStep(c) \/ CallStep(c)
  PROVE  ReaderInv'
<1> USE DEF At, Goto, Abort, Quiet, Running, CallFacts, workerVars, readerVars,
            historyVars
<1>a. /\ callPc \in [Callers -> CallPcs]
      /\ callThread \in [Callers -> SessionOrNone]
      /\ readerPc \in [Sessions -> ReaderPcs]
      /\ opened \in 0..MaxSessions
  BY DEF TypeOK, CallTypeOK, ReaderTypeOK, HistoryTypeOK
<1>b. CallInv /\ OneCall /\ CallFacts(c) /\ ReaderInv
  BY DEF SerializedInv, CallInv
<1>c. \A d \in Callers : d # c => At(d, "idle") /\ callPc'[d] = callPc[d]
  BY <1>b, OthersIdle
<1>1. CASE BeginStep(c)
  <2>1. /\ At(c, "idle")
        /\ UNCHANGED <<readerPc, readerTty, thread, logFp, opened, callThread>>
    BY <1>1, <1>b, OthersIdle
       DEF BeginStep, OpenCall, CloseCall, ReleaseCall, ReacquireCall, Begin
  <2>2. QED
    BY <1>a, <1>b, <1>c, <2>1 DEF ReaderInv
<1>2. CASE StopReader(c)
  <2>1. \A r \in Sessions : Running(r) => r = thread
    BY <1>2, <1>b, <1>c DEF StopReader, ReaderInv
  <2>2. /\ callPc'[c] = "join" /\ callThread'[c] = thread
        /\ UNCHANGED <<readerPc, readerTty, logFp, opened>>
    BY <1>2, <1>a DEF StopReader
  <2>3. QED
    BY <1>b, <2>1, <2>2 DEF ReaderInv
<1>3. CASE StopReaderFails(c)
  <2>1. \A r \in Sessions : Running(r) => r = thread
    BY <1>3, <1>b, <1>c DEF StopReaderFails, ReaderInv
  <2>2. QED
    BY <1>3, <1>a, <1>b, <2>1 DEF StopReaderFails, ReaderInv
<1>4. ASSUME UNCHANGED <<readerPc, readerTty>>, \A r \in Sessions : ~Running(r)
      PROVE  ReaderInv'
  BY <1>4, <1>b DEF ReaderInv, Reading, Holding
<1>5. CASE JoinReader(c)
  <2>1. callThread[c] = None \/ ~Running(callThread[c])
    BY <1>5, <1>b DEF JoinReader, JoinReturns, PunctualReader
  <2>2. \A r \in Sessions : ~Running(r)
    BY <1>5, <1>b, <1>c, <2>1, Numbers DEF JoinReader, ReaderInv
  <2>3. QED
    BY <1>4, <1>5, <2>2 DEF JoinReader
<1>6. CASE callPc[c] \in Quiet /\ UNCHANGED <<readerPc, readerTty>>
  BY <1>4, <1>6, <1>b
<1>7. CASE StartSession(c)
  <2> DEFINE s == opened + 1
  <2>1. /\ s \in Sessions /\ \A r \in Sessions : ~Running(r)
        /\ readerPc' = [readerPc EXCEPT ![s] = "check"]
        /\ logFp' = s /\ thread' = s /\ opened' = s /\ UNCHANGED readerTty
    BY <1>7, <1>a, <1>b, Numbers DEF StartSession, NewLog, ReaderGoto
  <2>2. s <= s
    BY <1>a
  <2> HIDE DEF s
  <2>3. QED
    BY <1>a, <2>1, <2>2 DEF ReaderInv, Reading, Holding
<1>8. CallStep(c) =>
        \/ StopReader(c) \/ StopReaderFails(c) \/ JoinReader(c) \/ StartSession(c)
        \/ callPc[c] \in Quiet /\ UNCHANGED <<readerPc, readerTty>>
  BY DEF CallStep, TakePending, FlushPending, CloseLog, ClearReleased, StartFailsTty,
         StartFailsLog, MarkReleased, Restore
<1>9. QED
  BY <1>1, <1>2, <1>3, <1>5, <1>6, <1>7, <1>8

LEMMA CallStepSessionInv ==
  ASSUME Serialized, PunctualReader, TypeOK, SerializedInv,
         NEW c \in Callers, BeginStep(c) \/ CallStep(c)
  PROVE  SessionInv'
<1> USE DEF At, Goto, Abort, Quiet, Running, CallFacts, workerVars, readerVars,
            historyVars
<1>b. CallInv /\ CallFacts(c) /\ SessionInv
  BY DEF SerializedInv, CallInv
<1>1. CASE BeginStep(c)
  <2>1. UNCHANGED <<serial, thread, logFp, lastError, released, readerPc>>
    BY <1>1 DEF BeginStep, OpenCall, CloseCall, ReleaseCall, ReacquireCall, Begin
  <2>2. QED
    BY <1>b, <2>1 DEF SessionInv
<1>2. CASE StopReader(c)
  BY <1>2, <1>b DEF StopReader, SessionInv
<1>3. CASE StopReaderFails(c)
  BY <1>3, <1>b DEF StopReaderFails, SessionInv
<1>4. CASE JoinReader(c) \/ TakePending(c) \/ FlushPending(c)
  <2>1. UNCHANGED <<serial, thread, logFp, lastError, released, readerPc>>
    BY <1>4 DEF JoinReader, TakePending, FlushPending
  <2>2. QED
    BY <1>b, <2>1 DEF SessionInv
<1>5. CASE CloseLog(c)
  BY <1>5, <1>b DEF CloseLog, LogClosed, SessionInv
<1>6. CASE ClearReleased(c)
  BY <1>6, <1>b DEF ClearReleased, SessionInv
<1>7. CASE StartFailsTty(c)
  BY <1>7, <1>b DEF StartFailsTty, ResetSession, SessionInv
<1>8. CASE StartFailsLog(c)
  BY <1>8, <1>b DEF StartFailsLog, ResetSession, Unwind, SessionInv
<1>9. CASE StartSession(c)
  BY <1>9 DEF StartSession, ResetSession, NewLog, SessionInv
<1>10. CASE MarkReleased(c) \/ Restore(c)
  BY <1>10, <1>b DEF MarkReleased, Restore, SessionInv
<1>11. QED
  BY <1>1, <1>2, <1>3, <1>4, <1>5, <1>6, <1>7, <1>8, <1>9, <1>10 DEF CallStep

LEMMA CallStepLogInv ==
  ASSUME Serialized, PunctualReader, TypeOK, SerializedInv,
         NEW c \in Callers, BeginStep(c) \/ CallStep(c)
  PROVE  LogInv'
<1>a. LogInv /\ opened \in 0..MaxSessions /\ read \in Seq(Sessions)
      /\ readerPc \in [Sessions -> ReaderPcs]
  BY DEF SerializedInv, TypeOK, HistoryTypeOK, ReaderTypeOK
<1>1. UNCHANGED <<read, rawLog, readerChunk>>
  BY DEF BeginStep, OpenCall, CloseCall, ReleaseCall, ReacquireCall, Begin, CallStep,
         StopReader, StopReaderFails, JoinReader, TakePending, FlushPending, CloseLog,
         ClearReleased, StartFailsTty, StartFailsLog, StartSession, ReaderGoto,
         MarkReleased, Restore, readerVars, historyVars
<1>2. Logged' = Logged
  BY <1>1 DEF Logged
<1>3. /\ opened' = opened \/ opened' = opened + 1
      /\ \A r \in Sessions : readerPc'[r] = "log" => readerPc[r] = "log"
  BY <1>a
     DEF BeginStep, OpenCall, CloseCall, ReleaseCall, ReacquireCall, Begin, CallStep,
         StopReader, StopReaderFails, JoinReader, TakePending, FlushPending, CloseLog,
         ClearReleased, StartFailsTty, StartFailsLog, Unwind, StartSession, ReaderGoto,
         MarkReleased, Restore, readerVars, historyVars
<1>4. \A n \in DOMAIN read : read[n] <= opened'
  BY <1>a, <1>3, BoundsAssumption DEF LogInv, Sessions
<1>5. QED
  BY <1>a, <1>1, <1>2, <1>3, <1>4 DEF LogInv

(* A step of a reader leaves the requests and the session alone, and no    *)
(* reader starts by it.                                                    *)
LEMMA ReaderFrame ==
  ASSUME TypeOK, NEW r \in Sessions, ReaderStep(r)
  PROVE  /\ UNCHANGED <<callVars, serial, ttyOpen, thread, stop, released, opened>>
         /\ Running(r)
         /\ \A q \in Sessions : q # r => readerPc'[q] = readerPc[q]
                                         /\ readerTty'[q] = readerTty[q]
<1> USE DEF workerVars, historyVars, readerVars, Running, ReaderGoto, ReaderEnds, BreakLoop
<1> readerPc \in [Sessions -> ReaderPcs] /\ readerTty \in [Sessions -> SessionOrNone]
  BY DEF TypeOK, ReaderTypeOK
<1>1. UNCHANGED <<callVars, serial, ttyOpen, thread, stop, released, opened>>
  BY DEF ReaderStep, CheckStop, TakeSerial, ReadIdle, ReadData, ReadFails, ReadFailed,
         ReportReadFailure, WriteLog, WriteLogFails, ForceSync, ForceSyncFails, Publish,
         Assemble, KeepPending, CompleteLine, Deliver
<1>2. Running(r)
  BY DEF ReaderStep, CheckStop, TakeSerial, ReadIdle, ReadData, ReadFails, ReadFailed,
         ReportReadFailure, WriteLog, WriteLogFails, ForceSync, ForceSyncFails, Publish,
         Assemble, KeepPending, CompleteLine, Deliver
<1>3. \E pc \in {readerPc'[r]} : readerPc' = [readerPc EXCEPT ![r] = pc]
  BY DEF ReaderStep, CheckStop, TakeSerial, ReadIdle, ReadData, ReadFails, ReadFailed,
         ReportReadFailure, WriteLog, WriteLogFails, ForceSync, ForceSyncFails, Publish,
         Assemble, KeepPending, CompleteLine, Deliver
<1>4. \E s \in {readerTty'[r]} : readerTty' = [readerTty EXCEPT ![r] = s]
  BY DEF ReaderStep, CheckStop, TakeSerial, ReadIdle, ReadData, ReadFails, ReadFailed,
         ReportReadFailure, WriteLog, WriteLogFails, ForceSync, ForceSyncFails, Publish,
         Assemble, KeepPending, CompleteLine, Deliver
<1>5. QED
  BY <1>1, <1>2, <1>3, <1>4

(* The reader that takes a step is the only one, and its session's.        *)
LEMMA ReaderAlone ==
  ASSUME TypeOK, SerializedInv, NEW r \in Sessions, Running(r)
  PROVE  /\ logFp = r
         /\ r <= opened
         /\ \A q \in Sessions : Running(q) => q = r
         /\ serial # None => serial = r
         /\ ~released
         /\ \A c \in Callers : callPc[c] \notin Quiet
<1>1. /\ \A q \in Sessions : Running(q) => logFp = q
      /\ r <= opened
      /\ r = thread \/ \E c \in Callers : At(c, "join") /\ callThread[c] = r
  BY DEF SerializedInv, ReaderInv
<1>2. /\ \A c \in Callers : At(c, "join") => serial = None
      /\ \A c \in Callers : callPc[c] \in Quiet => ~Running(r)
  BY DEF SerializedInv, CallInv, CallFacts
<1>3. (serial # None => thread = serial) /\ (released => ~Running(r))
  BY DEF SerializedInv, SessionInv
<1>4. QED
  BY <1>1, <1>2, <1>3

LEMMA ReaderStepSerializedInv ==
  ASSUME TypeOK, SerializedInv, NEW r \in Sessions, ReaderStep(r)
  PROVE  SerializedInv'
<1>a. /\ UNCHANGED <<callVars, serial, ttyOpen, thread, stop, released, opened>>
      /\ Running(r)
      /\ \A q \in Sessions : q # r => readerPc'[q] = readerPc[q]
                                      /\ readerTty'[q] = readerTty[q]
  BY ReaderFrame
<1>b. /\ logFp = r
      /\ r <= opened
      /\ \A q \in Sessions : Running(q) => q = r
      /\ serial # None => serial = r
      /\ ~released
      /\ \A c \in Callers : callPc[c] \notin Quiet
  BY <1>a, ReaderAlone
<1>c. /\ readerPc \in [Sessions -> ReaderPcs] /\ readerTty \in [Sessions -> SessionOrNone]
      /\ readerChunk \in [Sessions -> 0..MaxChunks]
      /\ read \in Seq(Sessions) /\ rawLog \in Seq(Entries)
      /\ serial \in SessionOrNone
      /\ readerPc[r] \in Holding => readerChunk[r] \in Chunks
  BY DEF TypeOK, ReaderTypeOK, HistoryTypeOK, WorkerTypeOK
<1>1. CallInv'
  <2>1. CallInv /\ UNCHANGED <<callPc, callOp, thread, serial, stop, released>>
    BY <1>a DEF SerializedInv, callVars
  <2>2. \A c \in Callers : callPc[c] \notin {"clear", "start", "mark", "restore"}
    BY <1>b DEF Quiet
  <2>3. OneCall'
    BY <2>1 DEF CallInv, OneCall, At
  <2>4. ASSUME NEW c \in Callers PROVE CallFacts(c)'
    <3>1. CallFacts(c)
      BY <2>1 DEF CallInv
    <3>2. QED
      BY <1>b, <2>1, <2>2, <3>1 DEF CallFacts, At
  <2>5. QED
    BY <2>3, <2>4 DEF CallInv
<1>2. /\ readerPc'[r] # "done" => logFp' = r
      /\ readerPc'[r] \in Reading => readerTty'[r] = r
  <2> USE DEF ReaderGoto, ReaderEnds, BreakLoop, Reading, Holding, workerVars
  <2>0. readerPc[r] \in Reading => readerTty[r] = r
    BY DEF SerializedInv, ReaderInv
  <2>1. CASE CheckStop(r) \/ ReadIdle(r) \/ ReadFails(r) \/ ReadFailed(r)
    BY <2>1, <1>b, <1>c DEF CheckStop, ReadIdle, ReadFails, ReadFailed
  <2>2. CASE TakeSerial(r)
    BY <2>2, <1>b, <1>c DEF TakeSerial
  <2>3. CASE ReadData(r)
    BY <2>3, <2>0, <1>b, <1>c DEF ReadData, AfterRead
  <2>4. CASE ReportReadFailure(r) \/ WriteLogFails(r) \/ ForceSyncFails(r)
    BY <2>4, <1>b, <1>c DEF ReportReadFailure, WriteLogFails, ForceSyncFails
  <2>5. CASE WriteLog(r) \/ ForceSync(r) \/ Publish(r)
    BY <2>5, <2>0, <1>b, <1>c DEF WriteLog, ForceSync, Publish
  <2>6. CASE Assemble(r) \/ KeepPending(r) \/ CompleteLine(r) \/ Deliver(r)
    BY <2>6, <2>0, <1>b, <1>c DEF Assemble, KeepPending, CompleteLine, Deliver
  <2>7. QED
    BY <2>1, <2>2, <2>3, <2>4, <2>5, <2>6 DEF ReaderStep
<1>3. ReaderInv'
  <2>1. ReaderInv
    BY DEF SerializedInv
  <2>2. \A q \in Sessions : q # r => ~Running(q)'
    BY <1>a, <1>b DEF Running
  <2>3. UNCHANGED <<opened, thread, callPc, callThread>>
    BY <1>a DEF callVars
  <2>4. \A q \in Sessions : q # r =>
          (readerPc'[q] \in Reading => readerTty'[q] = q)
    BY <1>a, <2>1 DEF ReaderInv
  <2>5. r = thread \/ \E c \in Callers : At(c, "join") /\ callThread[c] = r
    BY <1>a, <2>1 DEF ReaderInv
  <2>6. QED
    BY <1>b, <1>2, <2>2, <2>3, <2>4, <2>5 DEF ReaderInv, Running, At
<1>4. SessionInv'
  <2>1. logFp' = logFp \/ (lastError' = "write" /\ readerPc'[r] = "done")
    BY <1>c DEF ReaderStep, CheckStop, TakeSerial, ReadIdle, ReadData, ReadFails,
       ReadFailed, ReportReadFailure, WriteLog, WriteLogFails, LogError, BreakLoop,
       ReaderEnds, ForceSync, ForceSyncFails, Publish, Assemble, KeepPending,
       CompleteLine, Deliver, workerVars
  <2>2. serial # None => thread = serial
    BY DEF SerializedInv, SessionInv
  <2>3. QED
    BY <1>a, <1>b, <2>1, <2>2 DEF SessionInv, Running
<1>5. LogInv'
  <2>a. LogInv /\ (\A q \in Sessions : readerPc[q] = "log" => q = r)
    BY <1>b DEF SerializedInv, Running
  <2>b. \A i \in DOMAIN rawLog : rawLog[i].n \in DOMAIN read
    BY <2>a DEF LogInv
  <2>1. CASE ReadData(r)
    <3>1. /\ read' = Append(read, readerTty[r]) /\ readerTty[r] = r
          /\ readerChunk'[r] = Len(read) + 1 /\ UNCHANGED rawLog
      BY <2>1, <1>c DEF ReadData, SerializedInv, ReaderInv, Reading
    <3>2. /\ Len(read') = Len(read) + 1 /\ Len(read) \in Nat
          /\ DOMAIN read = 1..Len(read) /\ DOMAIN read' = 1..(Len(read) + 1)
          /\ \A n \in DOMAIN read : read'[n] = read[n]
          /\ read'[Len(read) + 1] = r
      BY <1>c, <3>1, AppendProperties
    <3>3. Logged' = Logged /\ Logged \subseteq DOMAIN read
      BY <2>b, <3>1 DEF Logged
    <3>4. \A n \in DOMAIN read' : read'[n] <= opened'
      BY <1>a, <1>b, <2>a, <3>2 DEF LogInv
    <3>5. \A q \in Sessions : readerPc'[q] = "log" => q = r
      BY <1>a, <2>a
    <3>6. \A i \in DOMAIN rawLog' : rawLog'[i].n \in DOMAIN read'
      BY <2>b, <3>1, <3>2
    <3>7. readerChunk'[r] = Len(read') /\ Len(read') \notin Logged'
      BY <3>1, <3>2, <3>3
    <3>8. QED
      BY <3>4, <3>5, <3>6, <3>7 DEF LogInv
  <2>2. CASE WriteLog(r)
    <3>1. Logged' = Logged \cup {readerChunk[r]}
      BY <2>2, LoggedAppend
    <3>2. UNCHANGED <<read, opened>> /\ readerPc'[r] = "sync"
      BY <2>2, <1>c DEF WriteLog, ReaderGoto
    <3>3. \A q \in Sessions : readerPc'[q] # "log"
      BY <1>a, <2>a, <3>2
    <3>4. readerChunk[r] \in DOMAIN read
      <4>1. readerChunk[r] = Len(read) /\ readerChunk[r] \in Chunks
        BY <2>2, <2>a, <1>c DEF WriteLog, LogInv, Holding
      <4>2. QED
        BY <4>1, <1>c DEF Chunks
    <3>5. Logged' \subseteq DOMAIN read
      BY <2>b, <3>1, <3>4 DEF Logged
    <3>6. \A i \in DOMAIN rawLog' : rawLog'[i].n \in DOMAIN read
      BY <3>5 DEF Logged
    <3>7. QED
      BY <2>a, <3>2, <3>3, <3>6 DEF LogInv
  <2>3. CASE UNCHANGED <<read, rawLog, readerChunk>> /\ readerPc'[r] # "log"
    <3>1. \A q \in Sessions : readerPc'[q] # "log"
      BY <1>a, <2>3, <2>a
    <3>2. QED
      BY <1>a, <2>3, <2>a, <3>1 DEF LogInv
  <2>4. ReadData(r) \/ WriteLog(r)
        \/ (UNCHANGED <<read, rawLog, readerChunk>> /\ readerPc'[r] # "log")
    BY <1>c DEF ReaderStep, CheckStop, TakeSerial, ReadIdle, ReadFails, ReadFailed,
       ReportReadFailure, WriteLogFails, ForceSync, ForceSyncFails, Publish, Assemble,
       KeepPending, CompleteLine, Deliver, ReaderGoto, ReaderEnds, BreakLoop, historyVars
  <2>5. QED
    BY <2>1, <2>2, <2>3, <2>4
<1>6. QED
  BY <1>1, <1>3, <1>4, <1>5 DEF SerializedInv

LEMMA SerializedInit == Init => SerializedInv
<1> SUFFICES ASSUME Init PROVE SerializedInv
  OBVIOUS
<1> USE Numbers, BoundsAssumption DEF Init
<1>1. CallInv
  BY DEF CallInv, OneCall, CallFacts, At, Quiet
<1>2. ReaderInv
  BY DEF ReaderInv, Running, Reading, Holding
<1>3. SessionInv
  BY DEF SessionInv, Running
<1>4. LogInv
  BY DEF LogInv
<1>5. QED
  BY <1>1, <1>2, <1>3, <1>4 DEF SerializedInv

LEMMA SerializedStep ==
  ASSUME Serialized, PunctualReader
  PROVE  TypeOK /\ SerializedInv /\ [Next]_vars => SerializedInv'
<1> SUFFICES ASSUME TypeOK, SerializedInv, [Next]_vars PROVE SerializedInv'
  OBVIOUS
<1>1. ASSUME NEW c \in Callers, BeginStep(c) \/ CallStep(c) PROVE SerializedInv'
  BY <1>1, CallStepCallInv, CallStepReaderInv, CallStepSessionInv, CallStepLogInv
     DEF SerializedInv
<1>2. ASSUME NEW r \in Sessions, ReaderStep(r) PROVE SerializedInv'
  BY <1>2, ReaderStepSerializedInv
<1>3. CASE UNCHANGED vars \/ \E s \in Sessions : Collect(s)
  <2>1. /\ UNCHANGED <<serial, thread, stop, released, lastError, logFp, opened, read,
                       rawLog, callPc, callOp, callThread, readerPc, readerTty,
                       readerChunk>>
        /\ Logged' = Logged
    BY <1>3 DEF Collect, vars, workerVars, readerVars, callVars, historyVars, Logged
  <2>2. CallInv'
    BY <2>1 DEF SerializedInv, CallInv, OneCall, CallFacts, At, Running
  <2>3. ReaderInv'
    BY <2>1 DEF SerializedInv, ReaderInv, Running, At
  <2>4. SessionInv' /\ LogInv'
    BY <2>1 DEF SerializedInv, SessionInv, LogInv, Running
  <2>5. QED
    BY <2>2, <2>3, <2>4 DEF SerializedInv
<1>4. QED
  BY <1>1, <1>2, <1>3 DEF Next

LEMMA SerializedInvariant ==
  ASSUME Serialized, PunctualReader
  PROVE  Spec => [](TypeOK /\ StatusTruthful /\ SerializedInv)
  BY SerializedInit, SerializedStep, TypeCorrect, StatusIsTruthful, PTL DEF Spec

(* With one request at a time and readers that do not outlive join(), two  *)
(* readers never compete, whatever else fails.                             *)
THEOREM ReadersDoNotCompete ==
  ASSUME Serialized, PunctualReader
  PROVE  Spec => []OneReader
<1>1. TypeOK /\ SerializedInv => OneReader
  BY ReaderAlone DEF OneReader
<1>2. QED
  BY <1>1, SerializedInvariant, PTL

(* ... a session is logged, or says that its log failed ...                *)
THEOREM SessionsAreLogged ==
  ASSUME Serialized, PunctualReader
  PROVE  Spec => []SessionHasRawLog
<1>1. SerializedInv => SessionHasRawLog
  BY DEF SerializedInv, SessionInv, SessionHasRawLog
<1>2. QED
  BY <1>1, SerializedInvariant, PTL

(* ... a released port is let go of altogether ...                         *)
THEOREM ReleasedPortIsFree ==
  ASSUME Serialized, PunctualReader
  PROVE  Spec => []HandedOver
<1>1. SerializedInv => HandedOver
  BY DEF SerializedInv, SessionInv, HandedOver, ReleasedIsClosed
<1>2. QED
  BY <1>1, SerializedInvariant, PTL

(* ... and no log has a byte of another session.                           *)
THEOREM LogsAreNotInterleaved ==
  ASSUME Serialized, PunctualReader
  PROVE  Spec => []OneSessionPerLog
<1>1. Init => OneSessionPerLog
  BY DEF Init, OneSessionPerLog
<1>2. TypeOK /\ SerializedInv /\ OneSessionPerLog /\ [Next]_vars => OneSessionPerLog'
  <2> SUFFICES ASSUME TypeOK, SerializedInv, OneSessionPerLog, [Next]_vars
               PROVE  OneSessionPerLog'
    OBVIOUS
  <2>1. CASE \E r \in Sessions : WriteLog(r)
    <3> PICK r \in Sessions : WriteLog(r)
      BY <2>1
    <3> DEFINE e == [n |-> readerChunk[r], src |-> readerTty[r], file |-> logFp]
    <3>1. readerTty[r] = r /\ logFp = r
      <4>1. readerPc[r] = "log" /\ Running(r)
        BY DEF WriteLog, Running
      <4>2. QED
        BY <4>1 DEF SerializedInv, ReaderInv, Reading, Holding
    <3>2. rawLog \in Seq(Entries) /\ e \in Entries /\ rawLog' = Append(rawLog, e)
      BY <3>1, Numbers
         DEF WriteLog, TypeOK, HistoryTypeOK, ReaderTypeOK, Holding, Entries
    <3>3. e.src = e.file
      BY <3>1
    <3> HIDE DEF e
    <3>4. QED
      BY <3>2, <3>3, AppendProperties DEF OneSessionPerLog
  <2>2. CASE UNCHANGED rawLog
    BY <2>2 DEF OneSessionPerLog
  <2>3. UNCHANGED rawLog \/ \E r \in Sessions : WriteLog(r)
    BY DEF Next, BeginStep, OpenCall, CloseCall, ReleaseCall, ReacquireCall, Begin,
       CallStep, StopReader, StopReaderFails, JoinReader, TakePending, FlushPending,
       CloseLog, ClearReleased, StartFailsTty, StartFailsLog, StartSession, MarkReleased,
       Restore, ReaderStep, CheckStop, TakeSerial, ReadIdle, ReadData, ReadFails,
       ReadFailed, ReportReadFailure, WriteLogFails, ForceSync, ForceSyncFails, Publish,
       Assemble, KeepPending, CompleteLine, Deliver, Collect, vars, historyVars
  <2>4. QED
    BY <2>1, <2>2, <2>3
<1>3. QED
  BY <1>1, <1>2, SerializedInvariant, PTL DEF Spec

LEMMA LogWriters ==
  ASSUME [Next]_vars
  PROVE  \/ UNCHANGED <<read, rawLog>>
         \/ \E r \in Sessions : ReadData(r) \/ WriteLog(r)
  BY DEF Next, BeginStep, OpenCall, CloseCall, ReleaseCall, ReacquireCall, Begin,
     CallStep, StopReader, StopReaderFails, JoinReader, TakePending, FlushPending,
     CloseLog, ClearReleased, StartFailsTty, StartFailsLog, StartSession, MarkReleased,
     Restore, ReaderStep, CheckStop, TakeSerial, ReadIdle, ReadFails, ReadFailed,
     ReportReadFailure, WriteLogFails, ForceSync, ForceSyncFails, Publish, Assemble,
     KeepPending, CompleteLine, Deliver, Collect, vars, historyVars

(* ... the logs keep the order of reading, and repeat nothing ...          *)
THEOREM LogsAreInOrder ==
  ASSUME Serialized, PunctualReader
  PROVE  Spec => []LogInOrder
<1> USE DEF LogInOrder, Increasing
<1>1. Init => LogInOrder
  BY DEF Init
<1>2. TypeOK /\ SerializedInv /\ LogInOrder /\ [Next]_vars => LogInOrder'
  <2> SUFFICES ASSUME TypeOK, SerializedInv, LogInOrder, [Next]_vars PROVE LogInOrder'
    OBVIOUS
  <2>1. CASE UNCHANGED rawLog
    BY <2>1
  <2>2. ASSUME NEW r \in Sessions, WriteLog(r) PROVE LogInOrder'
    <3> DEFINE e == [n |-> readerChunk[r], src |-> readerTty[r], file |-> logFp]
    <3>1. rawLog \in Seq(Entries) /\ e \in Entries /\ rawLog' = Append(rawLog, e)
      BY <2>2, Numbers
         DEF WriteLog, TypeOK, HistoryTypeOK, WorkerTypeOK, ReaderTypeOK, Reading,
             Holding, Entries
    <3>2. \A i \in DOMAIN rawLog : rawLog[i].n < e.n
      <4>1. e.n = Len(read) /\ Len(read) \notin Logged
        BY <2>2 DEF WriteLog, SerializedInv, LogInv
      <4>2. \A i \in DOMAIN rawLog : rawLog[i].n \in 1..Len(read)
        BY DEF SerializedInv, LogInv, TypeOK, HistoryTypeOK
      <4>3. Len(read) \in Nat
        BY DEF TypeOK, HistoryTypeOK
      <4>4. QED
        BY <4>1, <4>2, <4>3 DEF Logged
    <3> HIDE DEF e
    <3>3. QED
      BY <3>1, <3>2, AppendProperties
  <2>3. ASSUME NEW r \in Sessions, ReadData(r) PROVE LogInOrder'
    BY <2>3 DEF ReadData
  <2>4. QED
    BY <2>1, <2>2, <2>3, LogWriters
<1>3. QED
  BY <1>1, <1>2, SerializedInvariant, PTL DEF Spec

(* A step that neither reads nor writes leaves an unlogged chunk in its    *)
(* reader's hand, or ends that reader because its log failed.              *)
LEMMA ChunkKept ==
  ASSUME Serialized, PunctualReader, TypeOK, SerializedInv, LogComplete,
         [Next]_vars, UNCHANGED <<read, rawLog>>
  PROVE  LogComplete'
<1> SUFFICES ASSUME NEW n \in DOMAIN read, n \notin Logged
             PROVE  LET r == read[n] IN
                      /\ readerChunk'[r] = n
                      /\ \/ readerPc'[r] = "log"
                         \/ readerPc'[r] = "done" /\ "logWrite" \in Faults
  BY DEF LogComplete, Logged, Running
<1> DEFINE r == read[n]
<1>1. /\ readerChunk[r] = n
      /\ readerPc[r] = "log" \/ (readerPc[r] = "done" /\ "logWrite" \in Faults)
  BY DEF LogComplete, Running
<1>2. r \in Sessions /\ r <= opened /\ opened \in 0..MaxSessions
  BY DEF TypeOK, HistoryTypeOK, SerializedInv, LogInv
<1> /\ readerPc \in [Sessions -> ReaderPcs] /\ readerChunk \in [Sessions -> 0..MaxChunks]
  BY DEF TypeOK, ReaderTypeOK
<1> HIDE DEF r
<1>3. CASE UNCHANGED <<readerPc, readerChunk>>
  BY <1>1, <1>3 DEF r
<1>4. ASSUME NEW c \in Callers, StartSession(c)
      PROVE  readerPc'[r] = readerPc[r] /\ UNCHANGED readerChunk
  <2>1. r # opened + 1
    BY <1>2, BoundsAssumption DEF Sessions
  <2>2. QED
    BY <1>4, <2>1 DEF StartSession, ReaderGoto
<1>5. ASSUME NEW q \in Sessions, ReaderStep(q)
      PROVE  /\ readerChunk'[r] = n
             /\ \/ readerPc'[r] = "log"
                \/ readerPc'[r] = "done" /\ "logWrite" \in Faults
  <2>1. UNCHANGED readerChunk
    <3>1. ~ReadData(q)
      <4>1. ReadData(q) => Len(read') = Len(read) + 1
        BY <1>5, AppendProperties
           DEF ReadData, TypeOK, HistoryTypeOK, ReaderTypeOK, Reading
      <4>2. Len(read) \in Nat
        BY DEF TypeOK, HistoryTypeOK
      <4>3. QED
        BY <4>1, <4>2
    <3>2. QED
      BY <1>5, <3>1 DEF ReaderStep, CheckStop, TakeSerial, ReadIdle, ReadFails,
         ReadFailed, ReportReadFailure, WriteLog, WriteLogFails, ForceSync,
         ForceSyncFails, Publish, Assemble, KeepPending, CompleteLine, Deliver,
         ReaderGoto, ReaderEnds, BreakLoop
  <2>2. CASE q # r
    BY <1>1, <1>2, <1>5, <2>1, <2>2, ReaderFrame
  <2>3. CASE q = r
    <3>1. readerPc[r] = "log" /\ logFp # None
      BY <1>1, <1>2, <1>5, <2>3, ReaderFrame, ReaderAlone, Numbers DEF Running
    <3>2. ~WriteLog(r)
      <4>1. WriteLog(r) => Len(rawLog') = Len(rawLog) + 1
        <5> DEFINE e == [n |-> readerChunk[r], src |-> readerTty[r], file |-> logFp]
        <5>1. WriteLog(r) => rawLog' = Append(rawLog, e) /\ e \in Entries
          BY <1>2, Numbers
             DEF WriteLog, TypeOK, ReaderTypeOK, WorkerTypeOK, Reading, Holding, Entries
        <5>2. rawLog \in Seq(Entries)
          BY DEF TypeOK, HistoryTypeOK
        <5> HIDE DEF e
        <5>3. QED
          BY <5>1, <5>2, AppendProperties
      <4>2. Len(rawLog) \in Nat
        BY DEF TypeOK, HistoryTypeOK
      <4>3. QED
        BY <4>1, <4>2
    <3>3. WriteLogFails(r)
      BY <1>5, <2>3, <3>1, <3>2 DEF ReaderStep, CheckStop, TakeSerial, ReadIdle,
         ReadData, ReadFails, ReadFailed, ReportReadFailure, ForceSync, ForceSyncFails,
         Publish, Assemble, KeepPending, CompleteLine, Deliver
    <3>4. QED
      BY <1>1, <1>2, <2>1, <3>1, <3>3 DEF WriteLogFails, BreakLoop, ReaderEnds
  <2>4. QED
    BY <2>2, <2>3
<1>6. \/ UNCHANGED <<readerPc, readerChunk>>
      \/ \E c \in Callers : StartSession(c)
      \/ \E q \in Sessions : ReaderStep(q)
  BY DEF Next, BeginStep, OpenCall, CloseCall, ReleaseCall, ReacquireCall, Begin,
     CallStep, StopReader, StopReaderFails, JoinReader, TakePending, FlushPending,
     CloseLog, ClearReleased, StartFailsTty, StartFailsLog, MarkReleased, Restore,
     Collect, vars, readerVars
<1>7. QED
  BY <1>1, <1>3, <1>4, <1>5, <1>6 DEF r

(* ... and every chunk that was read is in a log, or in its reader's hand, *)
(* or was the last of a session whose log failed.                          *)
THEOREM NoChunkIsLost ==
  ASSUME Serialized, PunctualReader
  PROVE  Spec => []LogComplete
<1>1. Init => LogComplete
  BY DEF Init, LogComplete
<1>2. TypeOK /\ SerializedInv /\ LogComplete /\ [Next]_vars => LogComplete'
  <2> SUFFICES ASSUME TypeOK, SerializedInv, LogComplete, [Next]_vars PROVE LogComplete'
    OBVIOUS
  <2> /\ readerPc \in [Sessions -> ReaderPcs]
      /\ readerChunk \in [Sessions -> 0..MaxChunks]
      /\ read \in Seq(Sessions)
    BY DEF TypeOK, ReaderTypeOK, HistoryTypeOK
  <2>1. ASSUME NEW r \in Sessions, ReadData(r) PROVE LogComplete'
    <3>1. /\ read' = Append(read, r) /\ readerPc[r] = "read"
          /\ readerPc' = [readerPc EXCEPT ![r] = "log"]
          /\ readerChunk' = [readerChunk EXCEPT ![r] = Len(read) + 1]
          /\ UNCHANGED rawLog
      BY <2>1 DEF ReadData, AfterRead, SerializedInv, ReaderInv, Reading
    <3>2. /\ Len(read) \in Nat
          /\ DOMAIN read = 1..Len(read) /\ DOMAIN read' = 1..(Len(read) + 1)
          /\ \A n \in DOMAIN read : read'[n] = read[n] /\ read[n] \in Sessions
          /\ read'[Len(read) + 1] = r
      BY <3>1, AppendProperties, ElementOfSeq
    <3>3. \A n \in DOMAIN read : n \notin Logged => read[n] # r
      BY <3>1 DEF LogComplete, Running
    <3>4. Logged' = Logged
      BY <3>1 DEF Logged
    <3>5. QED
      BY <3>1, <3>2, <3>3, <3>4 DEF LogComplete, Running
  <2>2. ASSUME NEW r \in Sessions, WriteLog(r) PROVE LogComplete'
    <3>1. Logged' = Logged \cup {readerChunk[r]}
      BY <2>2, LoggedAppend
    <3>2. /\ UNCHANGED <<read, readerChunk>>
          /\ readerPc' = [readerPc EXCEPT ![r] = "sync"]
      BY <2>2 DEF WriteLog, ReaderGoto
    <3>3. \A n \in DOMAIN read : read[n] \in Sessions
      BY ElementOfSeq
    <3>4. QED
      BY <3>1, <3>2, <3>3 DEF LogComplete, Running
  <2>3. CASE UNCHANGED <<read, rawLog>>
    BY <2>3, ChunkKept
  <2>4. QED
    BY <2>1, <2>2, <2>3, LogWriters
<1>3. QED
  BY <1>1, <1>2, SerializedInvariant, PTL DEF Spec

(* A reader that ends while its session goes on leaves an error.           *)
LEMMA ReaderEndsLoudly ==
  ASSUME TypeOK, StatusTruthful, SerializedInv, LoudFailure,
         NEW r \in Sessions, ReaderStep(r)
  PROVE  LoudFailure'
<1>1. /\ UNCHANGED <<serial, ttyOpen, thread, stop>>
      /\ \A q \in Sessions : q # r => readerPc'[q] = readerPc[q]
      /\ Running(r) /\ (serial # None => serial = r)
  BY ReaderFrame, ReaderAlone
<1>2. /\ serial # None => thread = serial /\ ~stop /\ serial \in ttyOpen
      /\ thread \in SessionOrNone
  BY DEF StatusTruthful, SerializedInv, SessionInv, TypeOK, WorkerTypeOK
<1>3. readerPc \in [Sessions -> ReaderPcs]
  BY DEF TypeOK, ReaderTypeOK
<1>4. \/ readerPc'[r] # "done"
      \/ lastError' # "none"
      \/ stop \/ serial = None \/ serial \notin ttyOpen
  BY <1>3 DEF ReaderStep, CheckStop, TakeSerial, ReadIdle, ReadData, ReadFails,
     ReadFailed, Reports, ReportReadFailure, WriteLog, WriteLogFails, LogError, BreakLoop,
     ReaderGoto, ReaderEnds, ForceSync, ForceSyncFails, Publish, Assemble, KeepPending,
     CompleteLine, Deliver, AfterRead
<1>5. QED
  BY <1>1, <1>2, <1>4, Numbers DEF LoudFailure, Running

(* A session that lost its reader says so.                                 *)
THEOREM LostReadersAreReported ==
  ASSUME Serialized, PunctualReader
  PROVE  Spec => []LoudFailure
<1> USE DEF LoudFailure
<1>1. Init => LoudFailure
  BY DEF Init
<1>2. TypeOK /\ StatusTruthful /\ SerializedInv /\ LoudFailure /\ [Next]_vars
        => LoudFailure'
  <2> SUFFICES ASSUME TypeOK, StatusTruthful, SerializedInv, LoudFailure, [Next]_vars
               PROVE  LoudFailure'
    OBVIOUS
  <2>1. ASSUME NEW r \in Sessions, ReaderStep(r) PROVE LoudFailure'
    BY <2>1, ReaderEndsLoudly
  <2>2. CASE UNCHANGED <<serial, thread, readerPc, lastError>>
    BY <2>2 DEF Running
  <2>3. CASE serial' = None
    BY <2>3
  <2>4. ASSUME NEW c \in Callers, StartSession(c) PROVE LoudFailure'
    <3>1. opened + 1 \in Sessions /\ readerPc \in [Sessions -> ReaderPcs]
      BY <2>4, Numbers DEF StartSession, TypeOK, ReaderTypeOK, HistoryTypeOK
    <3>2. thread' = opened + 1 /\ readerPc' = [readerPc EXCEPT ![opened + 1] = "check"]
      BY <2>4 DEF StartSession, ReaderGoto
    <3>3. QED
      BY <3>1, <3>2 DEF Running
  <2>5. ASSUME NEW c \in Callers, StartFailsTty(c) PROVE serial' = None
    BY <2>5 DEF StartFailsTty, SerializedInv, CallInv, CallFacts, At, Quiet
  <2>6. \/ \E r \in Sessions : ReaderStep(r)
        \/ UNCHANGED <<serial, thread, readerPc, lastError>>
        \/ serial' = None
        \/ \E c \in Callers : StartSession(c) \/ StartFailsTty(c)
    BY DEF Next, BeginStep, OpenCall, CloseCall, ReleaseCall, ReacquireCall, Begin,
       CallStep, StopReader, StopReaderFails, JoinReader, TakePending, FlushPending,
       CloseLog, ClearReleased, StartFailsLog, Unwind, MarkReleased, Restore, Collect,
       vars, workerVars, readerVars
  <2>7. QED
    BY <2>1, <2>2, <2>3, <2>4, <2>5, <2>6
<1>3. QED
  BY <1>1, <1>2, SerializedInvariant, PTL DEF Spec


(* Together: the sessions of the port are safe (one reader each, a log of  *)
(* their own, nothing left behind once the port is handed over) ...        *)
THEOREM SessionsAreSafe ==
  ASSUME Serialized, PunctualReader
  PROVE  Spec => []SessionSafe
<1>1. OneReader /\ SessionHasRawLog /\ HandedOver => SessionSafe
  BY DEF SessionSafe
<1>2. QED
  BY <1>1, ReadersDoNotCompete, SessionsAreLogged, ReleasedPortIsFree, PTL

(* ... and their logs are what came from the board.                        *)
THEOREM LogsAreFaithful ==
  ASSUME Serialized, PunctualReader
  PROVE  Spec => []LogFaithful
<1>1. OneSessionPerLog /\ LogComplete /\ LogInOrder => LogFaithful
  BY DEF LogFaithful
<1>2. QED
  BY <1>1, LogsAreNotInterleaved, NoChunkIsLost, LogsAreInOrder, PTL

----------------------------------------------------------------------------
(* What goes on from the raw log, one request at a time.                   *)

(* The unfinished line is in one place, and ends where the next chunk goes.*)
ReaderFlow(r) ==
    /\ readerPc[r] \in Holding =>
          readerChunk[r] = Len(read) /\ Len(read) \notin Items(console) \cup Items(pending)
    /\ readerPc[r] \in {"log", "sync", "publish"} => Len(read) \notin Items(bridge)
    /\ readerPc[r] \notin {"emit", "deliver"} => readerBuf[r] = <<>>
    /\ readerPc[r] = "emit" => readerBuf[r] = Append(pending, readerChunk[r])
    /\ readerPc[r] = "deliver" => pending = <<>>
    /\ readerPc[r] \in {"emit", "deliver"} => Increasing(console \o readerBuf[r])

CallFlow(c) ==
    /\ callPc[c] = "flush" => Increasing(console \o callLine[c])
    /\ callPc[c] # "flush" => callLine[c] = <<>>
    /\ callPc[c] \in {"flush", "closelog", "clear", "start"} => pending = <<>>

FlowInv ==
    /\ \A r \in Sessions : ReaderFlow(r)
    /\ \A c \in Callers : CallFlow(c)
    /\ \A i \in DOMAIN rawLog : rawLog[i].src <= opened
    /\ DownstreamInOrder

LEMMA IncreasingAppend ==
  ASSUME NEW seq \in Seq(Chunks), NEW n \in Chunks, Increasing(seq), \A m \in Items(seq) : m < n
  PROVE  Increasing(Append(seq, n))
<1>1. /\ Len(seq) \in Nat /\ DOMAIN seq = 1..Len(seq) /\ DOMAIN Append(seq, n) = 1..(Len(seq) + 1)
      /\ \A i \in 1..Len(seq) : Append(seq, n)[i] = seq[i]
      /\ Append(seq, n)[Len(seq) + 1] = n
  BY AppendProperties
<1>2. \A i, j \in 1..(Len(seq) + 1) : i < j => i \in 1..Len(seq) /\ (j \in 1..Len(seq) \/ j = Len(seq) + 1)
  BY <1>1
<1>3. \A i \in 1..Len(seq) : seq[i] < n
  BY <1>1 DEF Items
<1>4. QED
  BY <1>1, <1>2, <1>3 DEF Increasing

LEMMA IncreasingPrefix ==
  ASSUME NEW s \in Seq(Chunks), NEW t \in Seq(Chunks), Increasing(s \o t)
  PROVE  Increasing(s \o <<>>)
<1>1. /\ Len(s) \in Nat /\ Len(t) \in Nat /\ DOMAIN s = 1..Len(s) /\ DOMAIN (s \o t) = 1..(Len(s) + Len(t))
      /\ \A i \in 1..Len(s) : i \in 1..(Len(s) + Len(t)) /\ (s \o t)[i] = s[i]
  BY ConcatProperties, LenProperties
<1>2. s \o <<>> = s
  BY ConcatEmptySeq
<1>3. QED
  BY <1>1, <1>2 DEF Increasing

LEMMA ConcatAppend ==
  ASSUME NEW s \in Seq(Chunks), NEW t \in Seq(Chunks), NEW n \in Chunks
  PROVE  s \o Append(t, n) = Append(s \o t, n)
<1>1. <<n>> \in Seq(Chunks) /\ Append(t, n) = t \o <<n>> /\ Append(s \o t, n) = (s \o t) \o <<n>>
  BY ConcatProperties, AppendIsConcat
<1>2. QED
  BY <1>1, ConcatAssociative

LEMMA FlowTypes ==
  ASSUME TypeOK
  PROVE  /\ pending \in Seq(Chunks) /\ console \in Seq(Chunks) /\ bridge \in Seq(Chunks)
         /\ readerPc \in [Sessions -> ReaderPcs] /\ readerBuf \in [Sessions -> Seq(Chunks)]
         /\ readerChunk \in [Sessions -> 0..MaxChunks] /\ callPc \in [Callers -> CallPcs]
         /\ callLine \in [Callers -> Seq(Chunks)] /\ opened \in 0..MaxSessions
         /\ rawLog \in Seq(Entries) /\ read \in Seq(Sessions) /\ Len(read) \in Nat
  BY DEF TypeOK, WorkerTypeOK, ReaderTypeOK, CallTypeOK, HistoryTypeOK

(* Where no reader runs.                                                   *)
LEMMA FlowAtRest ==
  ASSUME FlowInv, \A r \in Sessions : ~Running(r), readerBuf' = readerBuf,
         \A r \in Sessions : readerPc'[r] \in {"done", "check"}
  PROVE  \A r \in Sessions : ReaderFlow(r)'
<1>1. \A r \in Sessions : readerBuf[r] = <<>>
  BY DEF FlowInv, ReaderFlow, Running
<1>2. QED
  BY <1>1 DEF ReaderFlow, Holding

LEMMA CallStepFlow ==
  ASSUME Serialized, PunctualReader, TypeOK, SerializedInv, FlowInv,
         NEW c \in Callers, BeginStep(c) \/ CallStep(c)
  PROVE  FlowInv'
<1> USE DEF At, Goto, Abort, workerVars, readerVars, historyVars, callVars
<1>a. /\ pending \in Seq(Chunks) /\ console \in Seq(Chunks) /\ callPc \in [Callers -> CallPcs]
      /\ callLine \in [Callers -> Seq(Chunks)] /\ opened \in 0..MaxSessions
      /\ readerPc \in [Sessions -> ReaderPcs] /\ rawLog \in Seq(Entries)
  BY FlowTypes
<1>b. OneCall /\ CallFacts(c) /\ CallFlow(c) /\ DownstreamInOrder /\ \A i \in DOMAIN rawLog : rawLog[i].src <= opened
  BY DEF SerializedInv, CallInv, FlowInv
<1>c. \A d \in Callers : d # c => callPc[d] = "idle" /\ callPc'[d] = "idle"
  BY <1>b, OthersIdle
<1>1. CASE /\ UNCHANGED <<readerPc, readerChunk, readerBuf, console, bridge, read, rawLog, opened, pending, callLine>>
           /\ callPc[c] # "flush" /\ callPc'[c] # "flush"
           /\ callPc'[c] \in {"closelog", "clear", "start"} => callPc[c] \in {"closelog", "clear", "start"}
  <2>1. \A r \in Sessions : ReaderFlow(r)'
    BY <1>1 DEF FlowInv, ReaderFlow
  <2>2. \A d \in Callers : CallFlow(d)'
    BY <1>1, <1>c DEF FlowInv, CallFlow
  <2>3. DownstreamInOrder'
    BY <1>1 DEF FlowInv, DownstreamInOrder
  <2>4. QED
    BY <1>1, <2>1, <2>2, <2>3 DEF FlowInv
<1>2. CASE TakePending(c)
  <2>1. /\ callPc[c] = "take" /\ callPc' = [callPc EXCEPT ![c] = "flush"] /\ pending' = <<>>
        /\ callLine' = [callLine EXCEPT ![c] = pending]
        /\ UNCHANGED <<readerPc, readerBuf, console, bridge, rawLog, opened>>
    BY <1>2 DEF TakePending, TakeLine
  <2>2. \A r \in Sessions : ~Running(r)
    BY <1>b, <2>1 DEF CallFacts, Quiet
  <2>3. \A r \in Sessions : ReaderFlow(r)'
    BY <2>1, <2>2, FlowAtRest DEF Running
  <2>4. Increasing(console \o pending) /\ Increasing(console \o <<>>)
    BY <1>a, <1>b, IncreasingPrefix DEF DownstreamInOrder
  <2>5. \A d \in Callers : CallFlow(d)'
    BY <1>a, <1>c, <2>1, <2>4 DEF FlowInv, CallFlow
  <2>6. DownstreamInOrder'
    BY <1>b, <2>1, <2>4 DEF DownstreamInOrder
  <2>7. QED
    BY <1>b, <2>1, <2>3, <2>5, <2>6 DEF FlowInv
<1>3. CASE FlushPending(c)
  <2>1. /\ callPc[c] = "flush" /\ callPc' = [callPc EXCEPT ![c] = "closelog"] /\ pending' = pending
        /\ callLine' = [callLine EXCEPT ![c] = <<>>] /\ console' = console \o callLine[c]
        /\ UNCHANGED <<readerPc, readerBuf, bridge, rawLog, opened>>
    BY <1>3 DEF FlushPending
  <2>2. \A r \in Sessions : ~Running(r)
    BY <1>b, <2>1 DEF CallFacts, Quiet
  <2>3. \A r \in Sessions : ReaderFlow(r)'
    BY <2>1, <2>2, FlowAtRest DEF Running
  <2>4. pending = <<>> /\ Increasing(console \o callLine[c])
    BY <1>b, <2>1 DEF CallFlow
  <2>5. (console \o callLine[c]) \o <<>> = console \o callLine[c]
    BY <1>a, ConcatProperties, ConcatEmptySeq
  <2>6. \A d \in Callers : CallFlow(d)'
    BY <1>a, <1>c, <2>1, <2>4 DEF FlowInv, CallFlow
  <2>7. DownstreamInOrder'
    BY <1>b, <2>1, <2>4, <2>5 DEF DownstreamInOrder
  <2>8. QED
    BY <1>b, <2>1, <2>3, <2>6, <2>7 DEF FlowInv
<1>4. CASE StartFailsTty(c) \/ StartFailsLog(c) \/ StartSession(c)
  <2>1. /\ callPc[c] = "start" /\ pending' = <<>> /\ UNCHANGED <<readerBuf, callLine, console, bridge, rawLog>>
        /\ callPc'[c] \in {"idle", "restore"}
    BY <1>4, <1>a DEF StartFailsTty, StartFailsLog, StartSession, ResetSession, Unwind, ReaderGoto
  <2>2. \A r \in Sessions : ~Running(r)
    BY <1>b, <2>1 DEF CallFacts, Quiet
  <2>3. \A r \in Sessions : readerPc'[r] \in {"done", "check"}
    BY <1>4, <1>a, <2>2 DEF StartFailsTty, StartFailsLog, StartSession, ReaderGoto, Running
  <2>4. \A r \in Sessions : ReaderFlow(r)'
    BY <2>1, <2>2, <2>3, FlowAtRest
  <2>5. Increasing(console \o <<>>)
    BY <1>a, <1>b, IncreasingPrefix DEF DownstreamInOrder
  <2>6. \A d \in Callers : CallFlow(d)'
    BY <1>a, <1>c, <2>1 DEF FlowInv, CallFlow
  <2>7. opened' = opened \/ opened' = opened + 1
    BY <1>4 DEF StartFailsTty, StartFailsLog, StartSession, Unwind
  <2>8. \A i \in DOMAIN rawLog : rawLog[i].src <= opened'
    <3>1. \A i \in DOMAIN rawLog : rawLog[i].src \in Nat
      <4>1. \A i \in DOMAIN rawLog : rawLog[i] \in Entries
        BY <1>a, ElementOfSeq
      <4>2. QED
        BY <4>1 DEF Entries, Sessions
    <3>2. QED
      BY <1>a, <1>b, <2>7, <3>1, BoundsAssumption
  <2>9. DownstreamInOrder'
    BY <1>b, <2>1, <2>5 DEF DownstreamInOrder
  <2>10. QED
    BY <2>1, <2>4, <2>6, <2>8, <2>9 DEF FlowInv
<1>5. ASSUME ~TakePending(c), ~FlushPending(c), ~StartFailsTty(c), ~StartFailsLog(c), ~StartSession(c)
      PROVE  /\ UNCHANGED <<readerPc, readerChunk, readerBuf, console, bridge, read, rawLog, opened, pending, callLine>>
             /\ callPc[c] # "flush" /\ callPc'[c] # "flush"
             /\ callPc'[c] \in {"closelog", "clear", "start"} => callPc[c] \in {"closelog", "clear", "start"}
  <2>1. CASE BeginStep(c)
    <3>1. callPc[c] = "idle" /\ callPc'[c] = "stop"
      BY <2>1, <1>a DEF BeginStep, OpenCall, CloseCall, ReleaseCall, ReacquireCall, Begin, MayBegin
    <3>2. QED
      BY <2>1, <3>1 DEF BeginStep, OpenCall, CloseCall, ReleaseCall, ReacquireCall, Begin
  <2>2. CASE StopReader(c) \/ StopReaderFails(c) \/ JoinReader(c)
    BY <2>2, <1>a DEF StopReader, StopReaderFails, JoinReader
  <2>3. CASE CloseLog(c)
    BY <2>3, <1>a DEF CloseLog
  <2>4. CASE ClearReleased(c)
    BY <2>4, <1>a DEF ClearReleased, AfterClose
  <2>5. CASE MarkReleased(c) \/ Restore(c)
    BY <2>5, <1>a DEF MarkReleased, Restore
  <2>6. QED
    BY <1>5, <2>1, <2>2, <2>3, <2>4, <2>5 DEF CallStep
<1>6. QED
  BY <1>1, <1>2, <1>3, <1>4, <1>5

(* What a reader holds is newer than what went on.                         *)
LEMMA NothingAhead ==
  ASSUME TypeOK, SerializedInv, RawFirst
  PROVE  /\ \A n \in Items(bridge) \cup Items(console) \cup Items(pending) : n \in 1..Len(read)
<1>1. \A i \in DOMAIN rawLog : rawLog[i].n \in 1..Len(read)
  <2>1. DOMAIN read = 1..Len(read)
    BY FlowTypes
  <2>2. \A i \in DOMAIN rawLog : rawLog[i].n \in DOMAIN read
    BY DEF SerializedInv, LogInv
  <2>3. QED
    BY <2>1, <2>2
<1>2. QED
  BY <1>1 DEF RawFirst, Logged

LEMMA ReaderStepFlow ==
  ASSUME TypeOK, SerializedInv, RawFirst, FlowInv, NEW r \in Sessions, ReaderStep(r)
  PROVE  FlowInv'
<1> USE DEF workerVars, readerVars, historyVars
<1>a. /\ pending \in Seq(Chunks) /\ console \in Seq(Chunks) /\ bridge \in Seq(Chunks)
      /\ readerPc \in [Sessions -> ReaderPcs] /\ readerBuf \in [Sessions -> Seq(Chunks)]
      /\ readerChunk \in [Sessions -> 0..MaxChunks] /\ rawLog \in Seq(Entries) /\ read \in Seq(Sessions)
      /\ Len(read) \in Nat /\ Len(read) <= MaxChunks
  BY FlowTypes DEF TypeOK, HistoryTypeOK
<1>b. ReaderFlow(r) /\ DownstreamInOrder /\ \A i \in DOMAIN rawLog : rawLog[i].src <= opened
  BY DEF FlowInv
<1>c. /\ UNCHANGED <<callPc, callLine, opened>> /\ Running(r) /\ r <= opened
      /\ \A q \in Sessions : q # r => readerPc[q] = "done" /\ readerPc'[q] = "done"
      /\ \A d \in Callers : callPc[d] \notin Quiet
  BY ReaderFrame, ReaderAlone DEF callVars, Running
<1>d. /\ Items(bridge) \subseteq 1..Len(read)
      /\ Items(console) \subseteq 1..Len(read) /\ Items(pending) \subseteq 1..Len(read)
  BY NothingAhead
<1>e. \A d \in Callers : CallFlow(d)'
  <2>1. \A d \in Callers : callPc[d] \notin {"flush", "closelog", "clear", "start"}
    BY <1>c DEF Quiet
  <2>2. QED
    BY <1>c, <2>1 DEF FlowInv, CallFlow
<1>f. ASSUME \A q \in Sessions : q # r => readerBuf'[q] = readerBuf[q], ReaderFlow(r)'
      PROVE  \A q \in Sessions : ReaderFlow(q)'
  <2>1. ASSUME NEW q \in Sessions, q # r PROVE ReaderFlow(q)'
    <3>1. readerPc[q] = "done" /\ readerPc'[q] = "done" /\ readerBuf'[q] = <<>>
      BY <1>c, <1>f, <2>1 DEF FlowInv, ReaderFlow
    <3>2. QED
      BY <3>1 DEF ReaderFlow, Holding
  <2>2. QED
    BY <1>f, <2>1
<1>1. CASE /\ UNCHANGED <<readerBuf, pending, console, bridge, rawLog>>
           /\ readerPc[r] \notin {"emit", "deliver"}
           /\ readerPc'[r] \notin Holding \cup {"emit", "deliver"}
  <2>1. ReaderFlow(r)'
    BY <1>1, <1>b DEF ReaderFlow, Holding
  <2>2. DownstreamInOrder'
    BY <1>1, <1>b DEF DownstreamInOrder
  <2>3. QED
    BY <1>1, <1>b, <1>c, <1>e, <1>f, <2>1, <2>2 DEF FlowInv
<1>2. CASE ReadData(r)
  <2>1. /\ readerPc[r] = "read" /\ readerPc' = [readerPc EXCEPT ![r] = "log"]
        /\ readerChunk' = [readerChunk EXCEPT ![r] = Len(read) + 1] /\ read' = Append(read, readerTty[r])
        /\ UNCHANGED <<readerBuf, pending, console, bridge, rawLog>>
    BY <1>2 DEF ReadData, AfterRead
  <2>2. Len(read') = Len(read) + 1
    <3>1. readerTty[r] \in Sessions
      BY <1>2 DEF ReadData, TypeOK, ReaderTypeOK, Reading
    <3>2. QED
      BY <1>a, <2>1, <3>1, AppendProperties
  <2>3. Len(read) + 1 \notin Items(bridge) \cup Items(console) \cup Items(pending)
    BY <1>a, <1>d
  <2>4. ReaderFlow(r)'
    <3>1. readerPc'[r] = "log" /\ readerChunk'[r] = Len(read) + 1 /\ readerBuf'[r] = <<>>
      BY <1>a, <1>b, <2>1 DEF ReaderFlow
    <3>2. Items(bridge)' = Items(bridge) /\ Items(console)' = Items(console) /\ Items(pending)' = Items(pending)
      BY <2>1
    <3>3. QED
      BY <2>2, <2>3, <3>1, <3>2 DEF ReaderFlow, Holding
  <2>5. DownstreamInOrder'
    BY <1>b, <2>1 DEF DownstreamInOrder
  <2>6. QED
    BY <1>b, <1>c, <1>e, <1>f, <2>1, <2>4, <2>5 DEF FlowInv
<1>3. CASE WriteLog(r)
  <2> DEFINE e == [n |-> readerChunk[r], src |-> readerTty[r], file |-> logFp]
  <2>1. /\ readerPc[r] = "log" /\ readerPc' = [readerPc EXCEPT ![r] = "sync"] /\ rawLog' = Append(rawLog, e)
        /\ UNCHANGED <<readerChunk, readerBuf, pending, console, bridge, read>>
    BY <1>3 DEF WriteLog, ReaderGoto
  <2>2. e \in Entries /\ e.src = r
    <3>1. readerTty[r] = r
      BY <2>1 DEF SerializedInv, ReaderInv, Reading, Holding
    <3>2. QED
      BY <1>3, <3>1, Numbers DEF WriteLog, TypeOK, ReaderTypeOK, WorkerTypeOK, Reading, Holding, Entries
  <2> HIDE DEF e
  <2>3. \A i \in DOMAIN rawLog' : rawLog'[i].src <= opened
    <3>1. /\ DOMAIN rawLog = 1..Len(rawLog) /\ DOMAIN rawLog' = 1..(Len(rawLog) + 1) /\ Len(rawLog) \in Nat
          /\ \A i \in 1..Len(rawLog) : rawLog'[i] = rawLog[i]
          /\ rawLog'[Len(rawLog) + 1] = e
      BY <1>a, <2>1, <2>2, AppendProperties
    <3>2. \A i \in 1..(Len(rawLog) + 1) : i \in 1..Len(rawLog) \/ i = Len(rawLog) + 1
      BY <3>1
    <3>3. QED
      BY <1>b, <1>c, <2>2, <3>1, <3>2
  <2>4. ReaderFlow(r)'
    BY <1>a, <1>b, <2>1 DEF ReaderFlow, Holding
  <2>5. DownstreamInOrder'
    BY <1>b, <2>1 DEF DownstreamInOrder
  <2>6. QED
    BY <1>c, <1>e, <1>f, <2>1, <2>3, <2>4, <2>5 DEF FlowInv
<1>4. CASE ForceSync(r)
  <2>1. /\ readerPc[r] = "sync" /\ readerPc' = [readerPc EXCEPT ![r] = "publish"]
        /\ UNCHANGED <<readerChunk, readerBuf, pending, console, bridge, read, rawLog>>
    BY <1>4 DEF ForceSync, ReaderGoto
  <2>2. ReaderFlow(r)'
    BY <1>a, <1>b, <2>1 DEF ReaderFlow, Holding
  <2>3. DownstreamInOrder'
    BY <1>b, <2>1 DEF DownstreamInOrder
  <2>4. QED
    BY <1>b, <1>c, <1>e, <1>f, <2>1, <2>2, <2>3 DEF FlowInv
<1>5. CASE Publish(r)
  <2> DEFINE n == readerChunk[r]
  <2>1. /\ readerPc[r] = "publish" /\ readerPc' = [readerPc EXCEPT ![r] = "assemble"]
        /\ bridge' = Append(bridge, n)
        /\ UNCHANGED <<readerChunk, readerBuf, pending, console, read, rawLog>>
    BY <1>5 DEF Publish, ReaderGoto
  <2>2. n \in Chunks /\ n = Len(read) /\ n \notin Items(bridge)
    BY <1>b, <2>1 DEF ReaderFlow, Holding, TypeOK, ReaderTypeOK
  <2>3. \A m \in Items(bridge) : m < n
    BY <1>a, <1>d, <2>2
  <2>4. Increasing(bridge')
    BY <1>a, <1>b, <2>1, <2>2, <2>3, IncreasingAppend DEF DownstreamInOrder
  <2>5. ReaderFlow(r)'
    BY <1>a, <1>b, <2>1 DEF ReaderFlow, Holding
  <2>6. DownstreamInOrder'
    BY <1>b, <2>1, <2>4 DEF DownstreamInOrder
  <2>7. QED
    BY <1>b, <1>c, <1>e, <1>f, <2>1, <2>5, <2>6 DEF FlowInv
<1>6. CASE Assemble(r)
  <2> DEFINE n == readerChunk[r]
  <2>1. /\ readerPc[r] = "assemble" /\ readerPc' = [readerPc EXCEPT ![r] = "emit"]
        /\ readerBuf' = [readerBuf EXCEPT ![r] = Append(pending, n)]
        /\ UNCHANGED <<readerChunk, pending, console, bridge, read, rawLog>>
    BY <1>6 DEF Assemble, Buffer
  <2>2. n \in Chunks /\ n = Len(read) /\ n \notin Items(console) \cup Items(pending)
    BY <1>b, <2>1 DEF ReaderFlow, Holding, TypeOK, ReaderTypeOK
  <2>3. \A m \in Items(console \o pending) : m < n
    <3>1. Items(console \o pending) \subseteq Items(console) \cup Items(pending)
      BY <1>a, ItemsConcat
    <3> HIDE DEF n
    <3>2. ASSUME NEW m \in Items(console \o pending) PROVE m < n
      <4>1. m \in 1..Len(read)
        BY <1>d, <3>1
      <4>2. m # n
        BY <2>2, <3>1
      <4>3. QED
        BY <1>a, <2>2, <4>1, <4>2
    <3>3. QED
      BY <3>2
  <2>4. Increasing(console \o Append(pending, n))
    <3>1. console \o pending \in Seq(Chunks)
      BY <1>a, ConcatProperties
    <3> HIDE DEF n
    <3>2. Increasing(Append(console \o pending, n))
      BY <1>b, <2>2, <2>3, <3>1, IncreasingAppend DEF DownstreamInOrder
    <3>3. QED
      BY <1>a, <2>2, <3>2, ConcatAppend
  <2>5. ReaderFlow(r)'
    <3>1. readerPc'[r] = "emit" /\ readerBuf'[r] = Append(pending, n) /\ readerChunk'[r] = n
      BY <1>a, <2>1
    <3>2. QED
      BY <2>1, <2>4, <3>1 DEF ReaderFlow, Holding
  <2>6. DownstreamInOrder'
    BY <1>b, <2>1 DEF DownstreamInOrder
  <2>7. \A q \in Sessions : q # r => readerBuf'[q] = readerBuf[q]
    BY <1>a, <2>1
  <2>8. QED
    BY <1>b, <1>c, <1>e, <1>f, <2>1, <2>5, <2>6, <2>7 DEF FlowInv
<1>7. CASE KeepPending(r)
  <2>1. /\ readerPc[r] = "emit" /\ readerPc' = [readerPc EXCEPT ![r] = "check"]
        /\ readerBuf' = [readerBuf EXCEPT ![r] = <<>>] /\ pending' = readerBuf[r]
        /\ UNCHANGED <<readerChunk, console, bridge, read, rawLog>>
    BY <1>7 DEF KeepPending
  <2>2. Increasing(console \o readerBuf[r])
    BY <1>b, <2>1 DEF ReaderFlow
  <2>3. ReaderFlow(r)'
    BY <1>a, <2>1 DEF ReaderFlow, Holding
  <2>4. DownstreamInOrder'
    BY <1>b, <2>1, <2>2 DEF DownstreamInOrder
  <2>5. \A q \in Sessions : q # r => readerBuf'[q] = readerBuf[q]
    BY <1>a, <2>1
  <2>6. QED
    BY <1>b, <1>c, <1>e, <1>f, <2>1, <2>3, <2>4, <2>5 DEF FlowInv
<1>8. CASE CompleteLine(r)
  <2>1. /\ readerPc[r] = "emit" /\ readerPc' = [readerPc EXCEPT ![r] = "deliver"] /\ pending' = <<>>
        /\ UNCHANGED <<readerBuf, readerChunk, console, bridge, read, rawLog>>
    BY <1>8 DEF CompleteLine, ReaderGoto
  <2>2. Increasing(console \o readerBuf[r]) /\ Increasing(console \o <<>>)
    BY <1>a, <1>b, <2>1, IncreasingPrefix DEF ReaderFlow, DownstreamInOrder
  <2>3. ReaderFlow(r)'
    BY <1>a, <2>1, <2>2 DEF ReaderFlow, Holding
  <2>4. DownstreamInOrder'
    BY <1>b, <2>1, <2>2 DEF DownstreamInOrder
  <2>5. QED
    BY <1>b, <1>c, <1>e, <1>f, <2>1, <2>3, <2>4 DEF FlowInv
<1>9. CASE Deliver(r)
  <2>1. /\ readerPc[r] = "deliver" /\ readerPc' = [readerPc EXCEPT ![r] = "check"]
        /\ readerBuf' = [readerBuf EXCEPT ![r] = <<>>] /\ console' = console \o readerBuf[r]
        /\ UNCHANGED <<readerChunk, pending, bridge, read, rawLog>>
    BY <1>9 DEF Deliver
  <2>2. Increasing(console \o readerBuf[r]) /\ pending = <<>>
    BY <1>b, <2>1 DEF ReaderFlow
  <2>3. (console \o readerBuf[r]) \o <<>> = console \o readerBuf[r]
    BY <1>a, ConcatProperties, ConcatEmptySeq
  <2>4. ReaderFlow(r)'
    BY <1>a, <2>1 DEF ReaderFlow, Holding
  <2>5. DownstreamInOrder'
    BY <1>b, <2>1, <2>2, <2>3 DEF DownstreamInOrder
  <2>6. \A q \in Sessions : q # r => readerBuf'[q] = readerBuf[q]
    BY <1>a, <2>1
  <2>7. QED
    BY <1>b, <1>c, <1>e, <1>f, <2>1, <2>4, <2>5, <2>6 DEF FlowInv
<1>10. CheckStop(r) \/ TakeSerial(r) \/ ReadIdle(r) \/ ReadFails(r) \/ ReadFailed(r) \/ ReportReadFailure(r)
       \/ WriteLogFails(r) \/ ForceSyncFails(r)
         => /\ UNCHANGED <<readerBuf, pending, console, bridge, rawLog>>
            /\ readerPc[r] \notin {"emit", "deliver"}
            /\ readerPc'[r] \notin Holding \cup {"emit", "deliver"}
  BY <1>a DEF CheckStop, TakeSerial, ReadIdle, ReadFails, ReadFailed, ReportReadFailure, WriteLogFails,
              ForceSyncFails, ReaderGoto, ReaderEnds, BreakLoop, Holding
<1>11. QED
  BY <1>1, <1>2, <1>3, <1>4, <1>5, <1>6, <1>7, <1>8, <1>9, <1>10 DEF ReaderStep

LEMMA FlowInvariant ==
  ASSUME Serialized, PunctualReader
  PROVE  Spec => [](TypeOK /\ SerializedInv /\ FlowInv)
<1>1. Init => FlowInv
  <2> SUFFICES ASSUME Init PROVE FlowInv
    OBVIOUS
  <2>1. DOMAIN <<>> = {} /\ <<>> \o <<>> = <<>>
    BY ConcatEmptySeq
  <2>2. QED
    BY <2>1 DEF Init, FlowInv, ReaderFlow, CallFlow, Holding, DownstreamInOrder, Increasing
<1>2. TypeOK /\ SerializedInv /\ RawFirst /\ FlowInv /\ [Next]_vars => FlowInv'
  <2> SUFFICES ASSUME TypeOK, SerializedInv, RawFirst, FlowInv, [Next]_vars PROVE FlowInv'
    OBVIOUS
  <2>1. CASE UNCHANGED vars \/ \E s \in Sessions : Collect(s)
    <3>1. UNCHANGED <<readerPc, readerChunk, readerBuf, callPc, callLine, pending, console, bridge, read, rawLog, opened>>
      BY <2>1 DEF vars, Collect, workerVars, readerVars, callVars, historyVars
    <3>2. (\A r \in Sessions : ReaderFlow(r)') /\ (\A c \in Callers : CallFlow(c)') /\ DownstreamInOrder'
      BY <3>1 DEF FlowInv, ReaderFlow, CallFlow, DownstreamInOrder
    <3>3. QED
      BY <3>1, <3>2 DEF FlowInv
  <2>2. QED
    BY <2>1, CallStepFlow, ReaderStepFlow DEF Next
<1>3. QED
  BY <1>1, <1>2, SerializedInvariant, RawLogFirst, PTL DEF Spec

(* The bridge and the console get every chunk at most once and in the order *)
(* of reading (on_raw and on_line), across sessions and with the line that  *)
(* close() cuts short.                                                      *)
THEOREM DownstreamKeepsOrder ==
  ASSUME Serialized, PunctualReader
  PROVE  Spec => []DownstreamInOrder
<1>1. FlowInv => DownstreamInOrder
  BY DEF FlowInv
<1>2. QED
  BY <1>1, FlowInvariant, PTL

(* Where a chunk is that was logged in session r.                          *)
Passed(n, r) ==
    \/ n \in Items(console) \cup Items(pending)
    \/ \E c \in Callers : n \in Items(callLine[c])
    \/ n \in Items(readerBuf[r])
    \/ readerChunk[r] = n /\ readerPc[r] \in {"sync", "publish", "assemble"}
    \/ readerChunk[r] = n /\ ~Running(r) /\ "logSync" \in Faults

LEMMA ConsoleIsPassed ==
  ConsoleComplete <=> \A i \in DOMAIN rawLog : Passed(rawLog[i].n, rawLog[i].src)
  BY DEF ConsoleComplete, Passed

LEMMA ItemsOfAppend ==
  ASSUME NEW s \in Seq(Chunks), NEW n \in Chunks
  PROVE  Items(Append(s, n)) = Items(s) \cup {n}
  BY ItemsAppend

LEMMA ItemsOfConcat ==
  ASSUME NEW s \in Seq(Chunks), NEW t \in Seq(Chunks)
  PROVE  Items(s \o t) = Items(s) \cup Items(t)
<1>1. Items(s \o t) \subseteq Items(s) \cup Items(t)
  BY ItemsConcat
<1>2. /\ Len(s) \in Nat /\ Len(t) \in Nat /\ DOMAIN (s \o t) = 1..(Len(s) + Len(t))
      /\ DOMAIN s = 1..Len(s) /\ DOMAIN t = 1..Len(t)
      /\ \A i \in 1..(Len(s) + Len(t)) : (s \o t)[i] = IF i <= Len(s) THEN s[i] ELSE t[i - Len(s)]
  BY ConcatProperties, LenProperties
<1>3. ASSUME NEW i \in 1..Len(s) PROVE s[i] \in Items(s \o t)
  <2>1. i \in 1..(Len(s) + Len(t)) /\ i <= Len(s)
    BY <1>2
  <2>2. QED
    BY <1>2, <2>1 DEF Items
<1>4. ASSUME NEW i \in 1..Len(t) PROVE t[i] \in Items(s \o t)
  <2>1. i + Len(s) \in 1..(Len(s) + Len(t)) /\ ~(i + Len(s) <= Len(s)) /\ (i + Len(s)) - Len(s) = i
    BY <1>2
  <2>2. (s \o t)[i + Len(s)] = t[i]
    BY <1>2, <2>1
  <2>3. QED
    BY <1>2, <2>1, <2>2 DEF Items
<1>5. Items(s) \subseteq Items(s \o t)
  BY <1>2, <1>3 DEF Items
<1>6. Items(t) \subseteq Items(s \o t)
  BY <1>2, <1>4 DEF Items
<1>7. QED
  BY <1>1, <1>5, <1>6

LEMMA CallStepPasses ==
  ASSUME Serialized, PunctualReader, TypeOK, SerializedInv, FlowInv,
         NEW c \in Callers, BeginStep(c) \/ CallStep(c),
         NEW n, NEW r \in Sessions, r <= opened, Passed(n, r)
  PROVE  Passed(n, r)'
<1> USE DEF At, Goto, Abort, workerVars, readerVars, historyVars, callVars
<1>a. /\ pending \in Seq(Chunks) /\ console \in Seq(Chunks) /\ callPc \in [Callers -> CallPcs]
      /\ callLine \in [Callers -> Seq(Chunks)] /\ opened \in 0..MaxSessions
      /\ readerPc \in [Sessions -> ReaderPcs]
  BY FlowTypes
<1>b. CallFlow(c)
  BY DEF FlowInv
<1>1. CASE TakePending(c)
  <2>1. /\ callPc[c] = "take" /\ pending' = <<>> /\ callLine' = [callLine EXCEPT ![c] = pending]
        /\ UNCHANGED <<readerPc, readerBuf, readerChunk, console>>
    BY <1>1 DEF TakePending, TakeLine
  <2>2. callLine[c] = <<>>
    BY <1>b, <2>1 DEF CallFlow
  <2>3. callLine'[c] = pending /\ \A d \in Callers : d # c => callLine'[d] = callLine[d]
    BY <1>a, <2>1
  <2>4. \A d \in Callers : n \in Items(callLine[d]) => n \in Items(callLine'[d])
    BY <2>2, <2>3, ItemsEmpty
  <2>5. n \in Items(pending) => n \in Items(callLine'[c])
    BY <2>3
  <2>6. QED
    BY <2>1, <2>4, <2>5 DEF Passed, Running
<1>2. CASE FlushPending(c)
  <2>1. /\ console' = console \o callLine[c] /\ callLine' = [callLine EXCEPT ![c] = <<>>]
        /\ UNCHANGED <<readerPc, readerBuf, readerChunk, pending>>
    BY <1>2 DEF FlushPending
  <2>2. Items(console') = Items(console) \cup Items(callLine[c])
    BY <1>a, <2>1, ItemsOfConcat
  <2>3. \A d \in Callers : d # c => callLine'[d] = callLine[d]
    BY <1>a, <2>1
  <2>4. QED
    BY <2>1, <2>2, <2>3 DEF Passed, Running
<1>3. CASE StartFailsTty(c) \/ StartFailsLog(c) \/ StartSession(c)
  <2>1. callPc[c] = "start" /\ UNCHANGED <<readerBuf, readerChunk, console, callLine>>
    BY <1>3 DEF StartFailsTty, StartFailsLog, StartSession, ReaderGoto
  <2>2. Items(pending) = {}
    BY <1>b, <2>1, ItemsEmpty DEF CallFlow
  <2>3. readerPc'[r] = readerPc[r]
    <3>1. CASE StartSession(c)
      <4>1. r # opened + 1
        BY <1>a, BoundsAssumption DEF Sessions
      <4>2. QED
        BY <1>a, <3>1, <4>1 DEF StartSession, ReaderGoto
    <3>2. QED
      BY <1>3, <3>1 DEF StartFailsTty, StartFailsLog
  <2>4. QED
    BY <2>1, <2>2, <2>3 DEF Passed, Running
<1>4. CASE UNCHANGED <<readerPc, readerChunk, readerBuf, console, pending, callLine>>
  BY <1>4 DEF Passed, Running
<1>5. \/ TakePending(c) \/ FlushPending(c) \/ StartFailsTty(c) \/ StartFailsLog(c) \/ StartSession(c)
      \/ UNCHANGED <<readerPc, readerChunk, readerBuf, console, pending, callLine>>
  BY DEF BeginStep, OpenCall, CloseCall, ReleaseCall, ReacquireCall, Begin, CallStep, StopReader,
         StopReaderFails, JoinReader, CloseLog, ClearReleased, MarkReleased, Restore
<1>6. QED
  BY <1>1, <1>2, <1>3, <1>4, <1>5

LEMMA ReaderStepPasses ==
  ASSUME TypeOK, SerializedInv, FlowInv, NEW q \in Sessions, ReaderStep(q),
         NEW n, NEW r \in Sessions, Passed(n, r), n \in Items(pending) => r = q
  PROVE  Passed(n, r)'
<1> USE DEF workerVars, readerVars, historyVars, callVars
<1>a. /\ pending \in Seq(Chunks) /\ console \in Seq(Chunks)
      /\ readerPc \in [Sessions -> ReaderPcs] /\ readerBuf \in [Sessions -> Seq(Chunks)]
      /\ readerChunk \in [Sessions -> 0..MaxChunks]
  BY FlowTypes
<1>b. ReaderFlow(q)
  BY DEF FlowInv
<1>c. /\ UNCHANGED callLine /\ Running(q)
      /\ \A s \in Sessions : s # q => readerPc[s] = "done" /\ readerPc'[s] = "done"
  BY ReaderFrame, ReaderAlone DEF callVars, Running
<1>d. readerPc[q] \in Holding => readerChunk[q] \in Chunks
  BY DEF TypeOK, ReaderTypeOK
<1>1. CASE /\ UNCHANGED <<readerBuf, pending, console>>
           /\ readerPc[q] \notin {"sync", "publish", "assemble"}
           /\ \A s \in Sessions : s # q => readerChunk'[s] = readerChunk[s]
  <2>1. readerPc[r] # "done" => r = q
    BY <1>c
  <2>2. ~(readerChunk[r] = n /\ readerPc[r] \in {"sync", "publish", "assemble"})
    BY <1>1, <2>1
  <2>3. readerChunk[r] = n /\ ~Running(r) => readerChunk'[r] = n /\ readerPc'[r] = "done"
    BY <1>1, <1>c DEF Running
  <2>4. QED
    BY <1>1, <1>c, <2>2, <2>3 DEF Passed, Running
<1>2. CASE ForceSync(q) \/ Publish(q)
  <2>1. /\ UNCHANGED <<readerBuf, pending, console, readerChunk>>
        /\ readerPc'[q] \in {"publish", "assemble"}
    BY <1>2, <1>a DEF ForceSync, Publish, ReaderGoto
  <2>2. QED
    BY <1>c, <2>1 DEF Passed, Running
<1>3. CASE ForceSyncFails(q)
  <2>1. /\ UNCHANGED <<readerBuf, pending, console, readerChunk>>
        /\ readerPc'[q] = "done" /\ "logSync" \in Faults
    BY <1>3, <1>a DEF ForceSyncFails, BreakLoop, ReaderEnds
  <2>2. QED
    BY <1>c, <2>1 DEF Passed, Running
<1>4. CASE Assemble(q)
  <2>1. /\ readerPc[q] = "assemble" /\ readerPc'[q] = "emit"
        /\ readerBuf' = [readerBuf EXCEPT ![q] = Append(pending, readerChunk[q])]
        /\ UNCHANGED <<readerChunk, pending, console>>
    BY <1>4, <1>a DEF Assemble, Buffer
  <2>2. readerChunk[q] \in Chunks /\ readerBuf[q] = <<>>
    BY <1>b, <1>d, <2>1 DEF ReaderFlow, Holding
  <2>3. readerBuf'[q] = Append(pending, readerChunk[q]) /\ \A s \in Sessions : s # q => readerBuf'[s] = readerBuf[s]
    BY <1>a, <2>1
  <2>4. Items(readerBuf'[q]) = Items(pending) \cup {readerChunk[q]}
    BY <1>a, <2>2, <2>3, ItemsOfAppend
  <2>5. n \in Items(readerBuf[r]) => n \in Items(readerBuf'[r])
    BY <2>2, <2>3, ItemsEmpty
  <2>6. QED
    BY <1>c, <2>1, <2>4, <2>5 DEF Passed, Running
<1>5. CASE KeepPending(q)
  <2>1. /\ readerPc[q] = "emit" /\ pending' = readerBuf[q]
        /\ readerBuf' = [readerBuf EXCEPT ![q] = <<>>] /\ UNCHANGED <<readerChunk, console>>
    BY <1>5 DEF KeepPending
  <2>2. readerBuf[q] = Append(pending, readerChunk[q]) /\ \A s \in Sessions : s # q => readerBuf'[s] = readerBuf[s]
    BY <1>a, <1>b, <2>1 DEF ReaderFlow
  <2>3. Items(pending) \subseteq Items(readerBuf[q])
    <3>1. \A i \in DOMAIN pending : i \in DOMAIN Append(pending, readerChunk[q]) /\ Append(pending, readerChunk[q])[i] = pending[i]
      BY <1>a, AppendProperties DEF Chunks
    <3>2. QED
      BY <2>2, <3>1 DEF Items
  <2>4. n \in Items(pending) => n \in Items(pending')
    BY <2>1, <2>3
  <2>5. n \in Items(readerBuf[r]) => n \in Items(pending') \/ n \in Items(readerBuf'[r])
    BY <2>1, <2>2
  <2>6. readerPc[r] # "done" => readerPc[r] = "emit"
    BY <1>c, <2>1
  <2>7. QED
    BY <1>c, <2>1, <2>4, <2>5, <2>6 DEF Passed, Running
<1>6. CASE CompleteLine(q)
  <2>1. readerPc[q] = "emit" /\ pending' = <<>> /\ UNCHANGED <<readerBuf, readerChunk, console>>
    BY <1>6 DEF CompleteLine, ReaderGoto
  <2>2. Items(pending) \subseteq Items(readerBuf[q])
    <3>1. readerBuf[q] = Append(pending, readerChunk[q])
      BY <1>b, <2>1 DEF ReaderFlow
    <3>2. \A i \in DOMAIN pending : i \in DOMAIN Append(pending, readerChunk[q]) /\ Append(pending, readerChunk[q])[i] = pending[i]
      BY <1>a, AppendProperties DEF Chunks
    <3>3. QED
      BY <3>1, <3>2 DEF Items
  <2>3. n \in Items(pending) => n \in Items(readerBuf'[r])
    BY <2>1, <2>2
  <2>4. readerPc[r] # "done" => readerPc[r] = "emit"
    BY <1>c, <2>1
  <2>5. QED
    BY <1>c, <2>1, <2>3, <2>4 DEF Passed, Running
<1>7. CASE Deliver(q)
  <2>1. /\ readerPc[q] = "deliver" /\ console' = console \o readerBuf[q]
        /\ readerBuf' = [readerBuf EXCEPT ![q] = <<>>] /\ UNCHANGED <<readerChunk, pending>>
    BY <1>7 DEF Deliver
  <2>2. Items(console') = Items(console) \cup Items(readerBuf[q])
    BY <1>a, <2>1, ItemsOfConcat
  <2>3. \A s \in Sessions : s # q => readerBuf'[s] = readerBuf[s]
    BY <1>a, <2>1
  <2>4. readerPc[r] # "done" => readerPc[r] = "deliver"
    BY <1>c, <2>1
  <2>5. QED
    BY <1>c, <2>1, <2>2, <2>3, <2>4 DEF Passed, Running
<1>8. \/ ForceSync(q) \/ Publish(q) \/ ForceSyncFails(q) \/ Assemble(q) \/ KeepPending(q) \/ CompleteLine(q) \/ Deliver(q)
      \/ /\ UNCHANGED <<readerBuf, pending, console>>
         /\ readerPc[q] \notin {"sync", "publish", "assemble"}
         /\ \A s \in Sessions : s # q => readerChunk'[s] = readerChunk[s]
  BY <1>a DEF ReaderStep, CheckStop, TakeSerial, ReadIdle, ReadData, ReadFails, ReadFailed, ReportReadFailure,
              WriteLog, WriteLogFails, ReaderGoto, ReaderEnds, BreakLoop
<1>9. QED
  BY <1>1, <1>2, <1>3, <1>4, <1>5, <1>6, <1>7, <1>8

(* A chunk belongs to the session it was read in, and so does the          *)
(* unfinished line while a reader runs.                                    *)
OwnInv ==
    /\ \A i \in DOMAIN rawLog : rawLog[i].src = read[rawLog[i].n]
    /\ \A r \in Sessions : readerPc[r] \in Holding \cup {"emit"} =>
          readerChunk[r] \in DOMAIN read /\ read[readerChunk[r]] = r
    /\ \A r \in Sessions : Running(r) => \A n \in Items(pending) : read[n] = r

LEMMA CallStepOwn ==
  ASSUME Serialized, PunctualReader, TypeOK, SerializedInv, OwnInv,
         NEW c \in Callers, BeginStep(c) \/ CallStep(c)
  PROVE  OwnInv'
<1>1. /\ UNCHANGED <<read, rawLog, readerChunk>>
      /\ (pending' = pending \/ pending' = <<>>)
      /\ UNCHANGED readerPc \/ (StartSession(c) /\ pending' = <<>>)
  BY DEF BeginStep, OpenCall, CloseCall, ReleaseCall, ReacquireCall, Begin, CallStep, StopReader, StopReaderFails,
         JoinReader, TakePending, FlushPending, CloseLog, ClearReleased, StartFailsTty, StartFailsLog, ResetSession,
         StartSession, ReaderGoto, MarkReleased, Restore, workerVars, readerVars, historyVars
<1>2. \A r \in Sessions : readerPc'[r] \in Holding \cup {"emit"} => readerPc'[r] = readerPc[r]
  BY <1>1, FlowTypes DEF StartSession, ReaderGoto, Holding
<1>3. \A r \in Sessions : Running(r)' => Running(r) \/ pending' = <<>>
  BY <1>1 DEF Running
<1>4. Items(pending') = Items(pending) \/ Items(pending') = {}
  BY <1>1, ItemsEmpty
<1>5. \A r \in Sessions : Running(r)' => \A n \in Items(pending') : read[n] = r
  BY <1>3, <1>4, ItemsEmpty DEF OwnInv
<1>6. \A i \in DOMAIN rawLog' : rawLog'[i].src = read'[rawLog'[i].n]
  BY <1>1 DEF OwnInv
<1>7. \A r \in Sessions : readerPc'[r] \in Holding \cup {"emit"} =>
         readerChunk'[r] \in DOMAIN read' /\ read'[readerChunk'[r]] = r
  BY <1>1, <1>2 DEF OwnInv
<1>8. \A r \in Sessions : Running(r)' => \A n \in Items(pending') : read'[n] = r
  BY <1>1, <1>5
<1>9. QED
  BY <1>6, <1>7, <1>8 DEF OwnInv

LEMMA ReaderStepOwn ==
  ASSUME TypeOK, SerializedInv, RawFirst, FlowInv, OwnInv, NEW q \in Sessions, ReaderStep(q)
  PROVE  OwnInv'
<1> USE DEF workerVars, readerVars, historyVars
<1>a. /\ pending \in Seq(Chunks) /\ readerPc \in [Sessions -> ReaderPcs]
      /\ readerChunk \in [Sessions -> 0..MaxChunks] /\ rawLog \in Seq(Entries) /\ read \in Seq(Sessions)
      /\ Len(read) \in Nat /\ DOMAIN read = 1..Len(read)
  BY FlowTypes
<1>b. /\ readerPc[q] \in Holding \cup {"emit"} => readerChunk[q] \in DOMAIN read /\ read[readerChunk[q]] = q
      /\ \A n \in Items(pending) : read[n] = q
      /\ \A i \in DOMAIN rawLog : rawLog[i].src = read[rawLog[i].n]
  BY ReaderFrame DEF OwnInv
<1>c. \A s \in Sessions : s # q => readerPc[s] = "done" /\ readerPc'[s] = "done"
  BY ReaderFrame, ReaderAlone DEF Running
<1>d. Items(pending) \subseteq 1..Len(read) /\ \A i \in DOMAIN rawLog : rawLog[i].n \in DOMAIN read
  BY NothingAhead DEF SerializedInv, LogInv
<1>1. ASSUME \A i \in DOMAIN rawLog' : rawLog'[i].src = read'[rawLog'[i].n],
             readerPc'[q] \in Holding \cup {"emit"} => readerChunk'[q] \in DOMAIN read' /\ read'[readerChunk'[q]] = q,
             \A n \in Items(pending') : read'[n] = q
      PROVE  OwnInv'
  <2>1. \A s \in Sessions : s # q => readerPc'[s] \notin Holding \cup {"emit"}
    BY <1>c DEF Holding
  <2>2. QED
    BY <1>1, <1>c, <2>1 DEF OwnInv, Running
<1>2. CASE ReadData(q)
  <2>1. /\ read' = Append(read, q) /\ readerChunk' = [readerChunk EXCEPT ![q] = Len(read) + 1]
        /\ UNCHANGED <<pending, rawLog>>
    <3>1. readerTty[q] = q
      BY <1>2 DEF ReadData, SerializedInv, ReaderInv, Reading
    <3>2. QED
      BY <1>2, <3>1 DEF ReadData
  <2>2. /\ DOMAIN read' = 1..(Len(read) + 1) /\ read'[Len(read) + 1] = q
        /\ \A n \in 1..Len(read) : read'[n] = read[n]
    BY <1>a, <2>1, AppendProperties
  <2>3. readerChunk'[q] \in DOMAIN read' /\ read'[readerChunk'[q]] = q
    BY <1>a, <2>1, <2>2
  <2>4. \A i \in DOMAIN rawLog' : rawLog'[i].src = read'[rawLog'[i].n]
    BY <1>a, <1>b, <1>d, <2>1, <2>2
  <2>5. \A n \in Items(pending') : read'[n] = q
    BY <1>b, <1>d, <2>1, <2>2
  <2>6. QED
    BY <1>1, <2>3, <2>4, <2>5
<1>3. CASE WriteLog(q)
  <2> DEFINE e == [n |-> readerChunk[q], src |-> readerTty[q], file |-> logFp]
  <2>1. readerPc[q] = "log" /\ rawLog' = Append(rawLog, e) /\ UNCHANGED <<readerChunk, pending, read>>
    BY <1>3 DEF WriteLog, ReaderGoto
  <2>2. e \in Entries /\ e.src = q /\ e.n = readerChunk[q]
    <3>1. readerTty[q] = q
      BY <2>1 DEF SerializedInv, ReaderInv, Reading, Holding
    <3>2. QED
      BY <1>3, <3>1, Numbers DEF WriteLog, TypeOK, ReaderTypeOK, WorkerTypeOK, Reading, Holding, Entries
  <2> HIDE DEF e
  <2>3. e.src = read[e.n]
    BY <1>b, <2>1, <2>2 DEF Holding
  <2>4. \A i \in DOMAIN rawLog' : rawLog'[i].src = read[rawLog'[i].n]
    <3>1. /\ DOMAIN rawLog' = 1..(Len(rawLog) + 1) /\ rawLog'[Len(rawLog) + 1] = e
          /\ \A i \in 1..Len(rawLog) : rawLog'[i] = rawLog[i]
      BY <1>a, <2>1, <2>2, AppendProperties
    <3>2. Len(rawLog) \in Nat /\ DOMAIN rawLog = 1..Len(rawLog)
      BY <1>a
    <3>3. \A i \in 1..(Len(rawLog) + 1) : i \in DOMAIN rawLog \/ i = Len(rawLog) + 1
      BY <3>2
    <3>4. QED
      BY <1>b, <2>3, <3>1, <3>2, <3>3
  <2>5. QED
    BY <1>1, <1>b, <2>1, <2>4 DEF Holding
<1>4. CASE KeepPending(q)
  <2>1. /\ readerPc[q] = "emit" /\ readerPc'[q] = "check" /\ pending' = readerBuf[q]
        /\ UNCHANGED <<rawLog, read>>
    BY <1>4, <1>a DEF KeepPending
  <2>2. pending' = Append(pending, readerChunk[q]) /\ read[readerChunk[q]] = q
    BY <1>b, <2>1 DEF FlowInv, ReaderFlow
  <2>3. readerChunk[q] \in Chunks
    BY <1>a, <1>b, <2>1, <1>d DEF Chunks
  <2>4. Items(pending') = Items(pending) \cup {readerChunk[q]}
    BY <1>a, <2>2, <2>3, ItemsOfAppend
  <2>5. \A n \in Items(pending') : read'[n] = q
    BY <1>b, <2>1, <2>2, <2>4
  <2>6. QED
    BY <1>1, <1>b, <2>1, <2>5 DEF Holding
<1>5. CASE CompleteLine(q)
  <2>1. readerPc'[q] = "deliver" /\ pending' = <<>> /\ UNCHANGED <<rawLog, read>>
    BY <1>5, <1>a DEF CompleteLine, ReaderGoto
  <2>2. QED
    BY <1>1, <1>b, <2>1, ItemsEmpty DEF Holding
<1>6. CASE /\ UNCHANGED <<rawLog, read, pending, readerChunk>>
           /\ readerPc'[q] \in Holding \cup {"emit"} => readerPc[q] \in Holding \cup {"emit"}
  BY <1>1, <1>6, <1>b
<1>7. \/ ReadData(q) \/ WriteLog(q) \/ KeepPending(q) \/ CompleteLine(q)
      \/ /\ UNCHANGED <<rawLog, read, pending, readerChunk>>
         /\ readerPc'[q] \in Holding \cup {"emit"} => readerPc[q] \in Holding \cup {"emit"}
  BY <1>a DEF ReaderStep, CheckStop, TakeSerial, ReadIdle, ReadFails, ReadFailed, ReportReadFailure, WriteLogFails,
              ForceSync, ForceSyncFails, Publish, Assemble, Deliver, ReaderGoto, ReaderEnds, BreakLoop, Holding
<1>8. QED
  BY <1>2, <1>3, <1>4, <1>5, <1>6, <1>7

(* Every logged chunk gets to the console, or waits in the unfinished line  *)
(* or in a hand, close() included, but for the one whose fsync fails.       *)
LEMMA ConsoleInvariant ==
  ASSUME Serialized, PunctualReader
  PROVE  Spec => [](OwnInv /\ ConsoleComplete)
<1>1. Init => OwnInv /\ ConsoleComplete
  BY ItemsEmpty DEF Init, OwnInv, ConsoleComplete, Holding, Running
<1>2. TypeOK /\ SerializedInv /\ RawFirst /\ FlowInv /\ OwnInv /\ ConsoleComplete /\ [Next]_vars
        => OwnInv' /\ ConsoleComplete'
  <2> SUFFICES ASSUME TypeOK, SerializedInv, RawFirst, FlowInv, OwnInv, ConsoleComplete, [Next]_vars
               PROVE  OwnInv' /\ ConsoleComplete'
    OBVIOUS
  <2>1. \A i \in DOMAIN rawLog :
          /\ rawLog[i].src \in Sessions /\ rawLog[i].src <= opened
          /\ Passed(rawLog[i].n, rawLog[i].src)
    <3>1. rawLog \in Seq(Entries)
      BY FlowTypes
    <3>2. \A i \in DOMAIN rawLog : rawLog[i] \in Entries
      BY <3>1, ElementOfSeq
    <3>3. QED
      BY <3>2, ConsoleIsPassed DEF Entries, FlowInv
  <2>2. ASSUME NEW c \in Callers, BeginStep(c) \/ CallStep(c) PROVE OwnInv' /\ ConsoleComplete'
    <3>1. rawLog' = rawLog
      BY <2>2 DEF BeginStep, OpenCall, CloseCall, ReleaseCall, ReacquireCall, Begin, CallStep, StopReader,
         StopReaderFails, JoinReader, TakePending, FlushPending, CloseLog, ClearReleased, StartFailsTty,
         StartFailsLog, StartSession, MarkReleased, Restore, historyVars
    <3>2. \A i \in DOMAIN rawLog : Passed(rawLog[i].n, rawLog[i].src)'
      BY <2>1, <2>2, <3>1, CallStepPasses
    <3>3. QED
      BY <2>2, <3>1, <3>2, CallStepOwn DEF ConsoleComplete, Passed
  <2>3. ASSUME NEW r \in Sessions, ReaderStep(r) PROVE OwnInv' /\ ConsoleComplete'
    <3>1. OwnInv'
      BY <2>3, ReaderStepOwn
    <3>2. ASSUME NEW i \in DOMAIN rawLog, NEW n, NEW s, n = rawLog[i].n, s = rawLog[i].src
          PROVE  Passed(n, s)'
      <4>1. n \in Items(pending) => s = r
        BY <2>3, <3>2, ReaderFrame DEF OwnInv
      <4>2. s \in Sessions /\ Passed(n, s)
        BY <2>1, <3>2
      <4>3. QED
        BY <2>3, <4>1, <4>2, ReaderStepPasses
    <3> DEFINE e == [n |-> readerChunk[r], src |-> readerTty[r], file |-> logFp]
    <3>3. \/ rawLog' = rawLog
          \/ /\ readerPc[r] = "log" /\ readerPc' = [readerPc EXCEPT ![r] = "sync"]
             /\ rawLog' = Append(rawLog, e) /\ UNCHANGED readerChunk /\ logFp # None
      BY <2>3 DEF ReaderStep, CheckStop, TakeSerial, ReadIdle, ReadData, ReadFails, ReadFailed, ReportReadFailure,
                  WriteLog, WriteLogFails, ForceSync, ForceSyncFails, Publish, Assemble, KeepPending, CompleteLine,
                  Deliver, ReaderGoto, ReaderEnds, BreakLoop, historyVars
    <3>4. ASSUME NEW i \in DOMAIN rawLog', NEW n, NEW s, n = rawLog'[i].n, s = rawLog'[i].src
          PROVE  Passed(n, s)'
      <4>1. CASE rawLog' = rawLog
        BY <3>2, <3>4, <4>1
      <4>2. CASE /\ readerPc[r] = "log" /\ readerPc' = [readerPc EXCEPT ![r] = "sync"]
                 /\ rawLog' = Append(rawLog, e) /\ UNCHANGED readerChunk /\ logFp # None
        <5>1. e \in Entries /\ e.src = r /\ e.n = readerChunk[r]
          <6>1. readerTty[r] = r
            BY <4>2 DEF SerializedInv, ReaderInv, Reading, Holding
          <6>2. QED
            BY <4>2, <6>1, Numbers DEF TypeOK, ReaderTypeOK, WorkerTypeOK, Reading, Holding, Entries
        <5> HIDE DEF e
        <5>2. rawLog \in Seq(Entries)
          BY FlowTypes
        <5>3. \/ i \in DOMAIN rawLog /\ rawLog'[i] = rawLog[i]
              \/ rawLog'[i] = e
          BY <3>4, <4>2, <5>1, <5>2, AppendProperties
        <5>4. CASE i \in DOMAIN rawLog /\ rawLog'[i] = rawLog[i]
          BY <3>2, <3>4, <5>4
        <5>5. CASE rawLog'[i] = e
          <6>1. n = readerChunk'[r] /\ s = r /\ readerPc'[r] = "sync"
            BY <3>4, <4>2, <5>1, <5>5, FlowTypes
          <6>2. QED
            BY <6>1 DEF Passed
        <5>6. QED
          BY <5>3, <5>4, <5>5
      <4>3. QED
        BY <3>3, <4>1, <4>2
    <3>5. \A i \in DOMAIN rawLog' : \A n, s : n = rawLog'[i].n /\ s = rawLog'[i].src => Passed(n, s)'
      BY <3>4
    <3>6. ConsoleComplete'
      BY <3>5 DEF ConsoleComplete, Passed
    <3>7. QED
      BY <3>1, <3>6
  <2>4. CASE UNCHANGED vars \/ \E s \in Sessions : Collect(s)
    <3>1. UNCHANGED <<readerPc, readerChunk, readerBuf, callLine, pending, console, read, rawLog>>
      BY <2>4 DEF vars, Collect, workerVars, readerVars, callVars, historyVars
    <3>2. QED
      BY <3>1 DEF OwnInv, ConsoleComplete, Running
  <2>5. QED
    BY <2>2, <2>3, <2>4 DEF Next
<1>3. QED
  BY <1>1, <1>2, SerializedInvariant, FlowInvariant, RawLogFirst, PTL DEF Spec

(* Without a fault of the device, only close() takes the tty away from the *)
(* reader, and it has set the stop event by then.                          *)
QuietInv ==
    "ttyRead" \notin Faults =>
        /\ lastError # "read"
        /\ \A r \in Sessions :
              /\ readerPc[r] = "read" /\ r \notin ttyOpen => stop
              /\ readerPc[r] = "failed" => stop
              /\ readerPc[r] # "report"

LEMMA CallStepQuiet ==
  ASSUME TypeOK, SerializedInv, QuietInv, NEW c \in Callers, BeginStep(c) \/ CallStep(c)
  PROVE  QuietInv'
<1> USE DEF Goto, Abort, workerVars, readerVars, ResetSession
<1>1. CASE UNCHANGED <<readerPc, lastError, ttyOpen, stop>>
  BY <1>1 DEF QuietInv
<1>2. CASE UNCHANGED <<readerPc, lastError>> /\ stop'
  BY <1>2 DEF QuietInv
<1>3. CASE StartFailsTty(c) \/ StartFailsLog(c) \/ StartSession(c)
  <2>1. callPc[c] \in Quiet /\ lastError' = "none"
    BY <1>3 DEF StartFailsTty, StartFailsLog, StartSession, At, Quiet
  <2>2. \A r \in Sessions : readerPc[r] = "done"
    BY <2>1, ReaderAlone DEF Running
  <2>3. \A r \in Sessions : readerPc'[r] \in {"done", "check"}
    <3>1. readerPc \in [Sessions -> ReaderPcs]
      BY FlowTypes
    <3>2. QED
      BY <1>3, <2>2, <3>1 DEF StartFailsTty, StartFailsLog, StartSession, ReaderGoto
  <2>4. QED
    BY <2>1, <2>3 DEF QuietInv
<1>4. QED
  BY <1>1, <1>2, <1>3 DEF BeginStep, OpenCall, CloseCall, ReleaseCall, ReacquireCall, Begin, CallStep, StopReader,
     StopReaderFails, JoinReader, TakePending, FlushPending, CloseLog, ClearReleased, MarkReleased, Restore

LEMMA ReaderStepQuiet ==
  ASSUME TypeOK, SerializedInv, QuietInv, NEW r \in Sessions, ReaderStep(r)
  PROVE  QuietInv'
<1> SUFFICES ASSUME "ttyRead" \notin Faults PROVE QuietInv'
  BY DEF QuietInv
<1>1. /\ UNCHANGED <<serial, ttyOpen, stop>>
      /\ \A q \in Sessions : q # r => readerPc'[q] = "done"
  BY ReaderFrame, ReaderAlone DEF Running
<1>2. /\ readerPc[r] = "read" => readerTty[r] = r
      /\ serial # None => serial = r
      /\ readerPc \in [Sessions -> ReaderPcs]
  BY ReaderFrame, ReaderAlone, FlowTypes DEF SerializedInv, ReaderInv, Reading
<1>3. /\ lastError # "read"
      /\ readerPc[r] = "read" /\ r \notin ttyOpen => stop
      /\ readerPc[r] = "failed" => stop
      /\ readerPc[r] # "report"
  BY DEF QuietInv
<1>4. /\ lastError' # "read"
      /\ readerPc'[r] = "read" /\ r \notin ttyOpen => stop
      /\ readerPc'[r] = "failed" => stop
      /\ readerPc'[r] # "report"
  BY <1>2, <1>3 DEF ReaderStep, CheckStop, TakeSerial, ReadIdle, ReadData, ReadFails, ReadFailed, Reports,
     ReportReadFailure, WriteLog, WriteLogFails, LogError, BreakLoop, ReaderGoto, ReaderEnds, ForceSync,
     ForceSyncFails, Publish, Assemble, KeepPending, CompleteLine, Deliver, AfterRead, workerVars
<1>5. QED
  BY <1>1, <1>4 DEF QuietInv

(* A session that close() ends raises no false alarm, and every chunk that *)
(* was logged reaches the console, the line that is cut short included.    *)
THEOREM SessionsCloseCleanly ==
  ASSUME Serialized, PunctualReader
  PROVE  Spec => []ClosesCleanly
<1>1. Init => QuietInv
  BY DEF Init, QuietInv
<1>2. TypeOK /\ SerializedInv /\ QuietInv /\ [Next]_vars => QuietInv'
  <2> SUFFICES ASSUME TypeOK, SerializedInv, QuietInv, [Next]_vars PROVE QuietInv'
    OBVIOUS
  <2>1. ASSUME NEW s \in Sessions, Collect(s) PROVE QuietInv'
    <3>1. \A r \in Sessions : readerPc[r] = "read" => readerTty[r] = r
      BY DEF SerializedInv, ReaderInv, Reading
    <3>2. \A r \in Sessions : readerPc[r] = "read" => r # s
      BY <2>1, <3>1 DEF Collect
    <3>3. UNCHANGED <<readerPc, lastError, stop>> /\ ttyOpen' = ttyOpen \ {s}
      BY <2>1 DEF Collect, readerVars
    <3>4. QED
      BY <3>2, <3>3 DEF QuietInv
  <2>2. CASE UNCHANGED vars
    BY <2>2 DEF vars, workerVars, readerVars, QuietInv
  <2>3. QED
    BY <2>1, <2>2, CallStepQuiet, ReaderStepQuiet DEF Next
<1>3. QuietInv /\ ConsoleComplete => ClosesCleanly
  BY DEF QuietInv, QuietClose, ClosesCleanly
<1>4. QED
  BY <1>1, <1>2, <1>3, SerializedInvariant, ConsoleInvariant, PTL DEF Spec
=============================================================================
