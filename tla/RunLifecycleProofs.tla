------------------------- MODULE RunLifecycleProofs -------------------------
(***************************************************************************)
(* Proofs about RunLifecycle, for every set of sessions, runs, workers and *)
(* callers, whatever fails and whatever the clients do.                    *)
(***************************************************************************)
EXTENDS RunLifecycle, TLAPS

-----------------------------------------------------------------------------
(* Type correctness *)

LEMMA InitTypeOK == Init => TypeOK
BY LifecycleAssumption
DEF Init, TypeOK, DbTypeOK, RedisTypeOK, WorkerTypeOK, CallTypeOK, RowsHaveSessions, NoRun, NoCall, RunRow,
    SessionRow, Call, RunStatuses, SessionStatuses, CallSteps, WorkerSteps, FinalStatuses

\* A request that starts fills in a well-formed record.
LEMMA StartCallOK ==
  ASSUME CallTypeOK, NEW c \in Callers, NEW k \in Call,
         k.sess \in Sessions, k.step = "deleteRow" \/ k.run \in Runs,
         call' = [call EXCEPT ![c] = k]
  PROVE  CallTypeOK'
BY DEF CallTypeOK

\* A request that goes on keeps its record but for the step.
LEMMA GotoOK ==
  ASSUME CallTypeOK, NEW c \in Callers, NEW step \in CallSteps,
         call[c].sess \in Sessions, step = "deleteRow" \/ call[c].run \in Runs,
         Goto(c, step)
  PROVE  CallTypeOK'
BY DEF CallTypeOK, Goto, Call

LEMMA NoCallOK == NoCall \in Call
BY LifecycleAssumption DEF NoCall, Call, CallSteps

LEMMA RowOK ==
  ASSUME TypeOK, NEW r \in Runs
  PROVE  run[r].ckpt \in Runs \cup {None} /\ (run[r].status # "none" => run[r].sess \in Sessions)
BY DEF TypeOK, DbTypeOK, RunRow, RowsHaveSessions

LEMMA ReturnOK ==
  ASSUME TypeOK, NEW c \in Callers, Return(c)
  PROVE  CallTypeOK'
BY NoCallOK DEF TypeOK, CallTypeOK, Return, NoCall

\* The requests up to the first write keep the types: they only fill in call.
LEMMA RequestTypeOK == TypeOK /\ Request => TypeOK'
<1> SUFFICES ASSUME TypeOK, Request PROVE TypeOK'
  OBVIOUS
<1> USE DEF dbVars, redisVars, workerVars, auxVars
<1>0. ASSUME CallTypeOK', UNCHANGED <<dbVars, redisVars, workerVars, auxVars>>,
             NEW c \in Callers, NEW k \in Call, call' = [call EXCEPT ![c] = k],
             k.step = "abandonRow" => run[k.run].sess \in Sessions
      PROVE  TypeOK'
  <2>1. RowsHaveSessions'
    BY <1>0 DEF TypeOK, CallTypeOK, RowsHaveSessions
  <2> QED
    BY <1>0, <2>1 DEF TypeOK, DbTypeOK, RedisTypeOK, WorkerTypeOK
<1>1. ASSUME NEW s \in Sessions, CreateSession(s) PROVE TypeOK'
  <2>1. DbTypeOK'
    BY <1>1 DEF CreateSession, TypeOK, DbTypeOK, SessionRow, SessionStatuses
  <2> QED
    BY <1>1, <2>1
    DEF CreateSession, TypeOK, RedisTypeOK, WorkerTypeOK, CallTypeOK, RowsHaveSessions
<1>2. ASSUME NEW c \in Callers, NEW s \in Sessions, NEW r \in Runs, CreateCheck(c, s, r)
      PROVE  TypeOK'
  <2> DEFINE k == [NoCall EXCEPT !.step = "saveSession", !.sess = s, !.run = r,
                                 !.ckpt = r, !.at = clock]
  <2>1. k \in Call /\ k.sess \in Sessions /\ k.run \in Runs
    BY DEF TypeOK, Call, NoCall, CallSteps
  <2>2. CallTypeOK'
    BY <1>2, <2>1, StartCallOK DEF CreateCheck, TypeOK
  <2> QED
    BY <1>0, <1>2, <2>1, <2>2 DEF CreateCheck, NoCall
<1>3. ASSUME NEW c \in Callers, NEW p \in Runs, NEW r \in Runs, ResumeCheck(c, p, r)
      PROVE  TypeOK'
  <2> DEFINE k == [NoCall EXCEPT !.step = "insertResume", !.sess = run[p].sess, !.run = r,
                                 !.parent = p, !.ckpt = ResumeCheckpoint(run[p].sess, r),
                                 !.at = clock]
  <2>1. run[p].sess \in Sessions
    BY <1>3, RowOK DEF ResumeCheck, Resumable
  <2>2. k \in Call /\ k.sess \in Sessions /\ k.run \in Runs
    BY <2>1 DEF TypeOK, DbTypeOK, SessionRow, RunRow, Call, NoCall, CallSteps, ResumeCheckpoint
  <2>3. CallTypeOK'
    BY <1>3, <2>2, StartCallOK DEF ResumeCheck, TypeOK
  <2> QED
    BY <1>0, <1>3, <2>2, <2>3 DEF ResumeCheck, NoCall
<1>4. ASSUME NEW c \in Callers, NEW r \in Runs, CancelCheck(c, r)
      PROVE  TypeOK'
  <2> DEFINE k == [NoCall EXCEPT
                     !.step = IF run[r].status = "queued" THEN "cancelRow" ELSE "signal",
                     !.sess = run[r].sess, !.run = r, !.ckpt = run[r].ckpt]
  <2>1. k \in Call /\ k.sess \in Sessions /\ k.run \in Runs
    BY <1>4, NoCallOK, RowOK DEF CancelCheck, Call, NoCall, CallSteps
  <2>2. CallTypeOK'
    BY <1>4, <2>1, StartCallOK DEF CancelCheck, TypeOK
  <2> QED
    BY <1>0, <1>4, <2>1, <2>2 DEF CancelCheck, NoCall
<1>5. ASSUME NEW c \in Callers, NEW s \in Sessions, DeleteCheck(c, s)
      PROVE  TypeOK'
  <2>1. CASE call' = [call EXCEPT ![c] = [NoCall EXCEPT !.step = "deleteRow", !.sess = s]]
    <3> DEFINE k == [NoCall EXCEPT !.step = "deleteRow", !.sess = s]
    <3>1. k \in Call /\ k.sess \in Sessions /\ k.step = "deleteRow"
      BY NoCallOK DEF Call, NoCall, CallSteps
    <3>2. CallTypeOK'
      BY <2>1, <3>1, StartCallOK DEF TypeOK
    <3> QED
      BY <1>0, <1>5, <2>1, <3>1, <3>2 DEF DeleteCheck
  <2>2. ASSUME NEW l \in LastRuns(s),
               call' = [call EXCEPT ![c] =
                 [NoCall EXCEPT !.step = IF run[l].status = "waiting_input"
                                         THEN "abandonRow" ELSE "deleteRow",
                                !.sess = s, !.run = l, !.ckpt = run[l].ckpt]]
        PROVE  TypeOK'
    <3> DEFINE k == [NoCall EXCEPT !.step = IF run[l].status = "waiting_input"
                                            THEN "abandonRow" ELSE "deleteRow",
                                   !.sess = s, !.run = l, !.ckpt = run[l].ckpt]
    <3>1. l \in Runs
      BY DEF LastRuns, RunsOf
    <3>2. k \in Call /\ k.sess \in Sessions /\ k.run \in Runs
      BY <3>1, NoCallOK, RowOK DEF Call, NoCall, CallSteps
    <3>3. CallTypeOK'
      BY <2>2, <3>2, StartCallOK DEF TypeOK
    <3>4. run[k.run].sess \in Sessions
      BY <3>1, RowOK DEF LastRuns, RunsOf, NoCall
    <3> HIDE DEF k
    <3>5. call' = [call EXCEPT ![c] = k]
      BY <2>2 DEF k
    <3> QED
      BY <1>0, <1>5, <3>2, <3>3, <3>4, <3>5 DEF DeleteCheck
  <2> QED
    BY <1>5, <2>1, <2>2 DEF DeleteCheck
<1> QED
  BY <1>1, <1>2, <1>3, <1>4, <1>5 DEF Request

\* Saving a session, or failing to, keeps the tables well-formed.
LEMMA SaveSessionOK ==
  ASSUME DbTypeOK, NEW s, NEW status \in SessionStatuses, NEW k \in Runs \cup {None},
         SaveSession(s, status, k), UNCHANGED <<run, events>>
  PROVE  DbTypeOK'
BY DEF DbTypeOK, SaveSession, SessionRow

LEMMA EmitFinalEventOK ==
  ASSUME DbTypeOK, NEW r \in Runs, NEW k \in FinalStatuses,
         EmitFinalEvent(r, k), UNCHANGED <<sess, run>>
  PROVE  DbTypeOK'
BY DEF DbTypeOK, EmitFinalEvent

\* An update of status and checkpoint of a row that has a session.
LEMMA UpdateRowOK ==
  ASSUME DbTypeOK, NEW r \in Runs, NEW status \in RunStatuses, NEW k \in Runs \cup {None},
         run' = [run EXCEPT ![r].status = status, ![r].ckpt = k], UNCHANGED <<sess, events>>
  PROVE  /\ DbTypeOK'
         /\ \A q \in Runs : run'[q].sess = run[q].sess /\ (q # r => run'[q] = run[q])
         /\ run'[r].status = status
BY DEF DbTypeOK, RunRow

\* A row that changes keeps its session.
LEMMA RowsKeepSessions ==
  ASSUME TypeOK, UNCHANGED <<wpc, wrun>>,
         NEW r \in Runs, run[r].sess \in Sessions,
         \A q \in Runs : run'[q].sess = run[q].sess /\ (q # r => run'[q] = run[q]),
         NEW c \in Callers, NEW step \in CallSteps \ {"abandonRow"}, Goto(c, step)
  PROVE  RowsHaveSessions'
<1>1. \A q \in Runs : run'[q].status # "none" => run'[q].sess \in Sessions
  BY DEF TypeOK, RowsHaveSessions
<1>2. \A w \in Workers :
        wpc'[w] \in {"started", "exec", "save", "row"} => run'[wrun'[w]].sess \in Sessions
  BY DEF TypeOK, WorkerTypeOK, RowsHaveSessions
<1>3. \A d \in Callers : call'[d].step = "abandonRow" => call'[d] = call[d]
  BY DEF TypeOK, CallTypeOK, Call, Goto
<1>4. \A d \in Callers : call'[d].step = "abandonRow" => run'[call'[d].run].sess \in Sessions
  BY <1>3 DEF TypeOK, CallTypeOK, RowsHaveSessions
<1> QED
  BY <1>1, <1>2, <1>4 DEF RowsHaveSessions

\* The steps of a request keep the types.
LEMMA HandlerTypeOK ==
  ASSUME TypeOK, NEW c \in Callers, Handler(c)
  PROVE  TypeOK'
<1> USE DEF dbVars, redisVars, workerVars, auxVars
<1>a. call[c].sess \in Sessions \cup {None} /\ call[c].ckpt \in Runs \cup {None}
  BY DEF TypeOK, CallTypeOK, Call
<1>1. CASE CreateSaveSession(c)
  <2>1. call[c].sess \in Sessions /\ call[c].run \in Runs
    BY <1>1 DEF CreateSaveSession, TypeOK, CallTypeOK
  <2>2. CallTypeOK'
    BY <1>1, <2>1, GotoOK DEF CreateSaveSession, TypeOK, CallSteps
  <2>3. DbTypeOK'
    BY <1>1, <1>a DEF CreateSaveSession, TypeOK, DbTypeOK, SessionRow, SessionStatuses
  <2>4. RowsHaveSessions'
    BY <1>1 DEF CreateSaveSession, Goto, TypeOK, CallTypeOK, RowsHaveSessions
  <2> QED
    BY <1>1, <2>2, <2>3, <2>4 DEF CreateSaveSession, TypeOK, RedisTypeOK, WorkerTypeOK
<1>2. ASSUME NEW kind \in {"query", "resume"}, Inserts(c), InsertRow(c, kind)
      PROVE  TypeOK'
  <2>1. call[c].sess \in Sessions /\ call[c].run \in Runs
    BY <1>2 DEF Inserts, TypeOK, CallTypeOK
  <2>2. CallTypeOK'
    BY <1>2, <2>1, GotoOK DEF InsertRow, TypeOK, CallSteps
  <2>3. DbTypeOK'
    BY <1>2, <1>a, <2>1
    DEF InsertRow, TypeOK, DbTypeOK, CallTypeOK, Call, RunRow, RunStatuses
  <2>4. \A r \in Runs : run'[r].sess = run[r].sess \/ run'[r].sess \in Sessions
    BY <1>2, <2>1 DEF InsertRow, TypeOK, DbTypeOK
  <2>5. \A r \in Runs : run'[r].status # "none" => run'[r].sess \in Sessions
    BY <1>2, <2>1 DEF InsertRow, TypeOK, DbTypeOK, RowsHaveSessions
  <2>6. RowsHaveSessions'
    BY <1>2, <2>4, <2>5
    DEF InsertRow, Goto, TypeOK, WorkerTypeOK, CallTypeOK, RowsHaveSessions
  <2> QED
    BY <1>2, <2>2, <2>3, <2>6 DEF InsertRow, TypeOK, RedisTypeOK, WorkerTypeOK
<1>3. CASE CreateInsertRun(c)
  BY <1>2, <1>3 DEF CreateInsertRun, Inserts
<1>4. CASE ResumeInsertRun(c)
  BY <1>2, <1>4 DEF ResumeInsertRun, Inserts
<1>5. CASE EnqueueRun(c)
  <2>1. CallTypeOK'
    BY <1>5, ReturnOK DEF EnqueueRun
  <2>2. RowsHaveSessions'
    BY <1>5 DEF EnqueueRun, Return, NoCall, TypeOK, CallTypeOK, RowsHaveSessions
  <2> QED
    BY <1>5, <2>1, <2>2
    DEF EnqueueRun, TypeOK, DbTypeOK, RedisTypeOK, WorkerTypeOK, CallTypeOK
<1>6. CASE CancelQueuedRow(c)
  <2>1. call[c].sess \in Sessions /\ call[c].run \in Runs
    BY <1>6 DEF CancelQueuedRow, TypeOK, CallTypeOK
  <2> DEFINE r == call[c].run
  <2>2. CASE /\ CancellableRow(r)
             /\ run' = [run EXCEPT ![r].status = "cancelled", ![r].ckpt = None]
             /\ Goto(c, IF run[r].kind = "query" THEN "cancelSave" ELSE "cancelEmit")
    <3>1. /\ DbTypeOK'
          /\ \A q \in Runs : run'[q].sess = run[q].sess /\ (q # r => run'[q] = run[q])
      BY <1>6, <2>1, <2>2, UpdateRowOK DEF CancelQueuedRow, TypeOK, RunStatuses, FinalStatuses
    <3>2. CallTypeOK'
      BY <2>1, <2>2, GotoOK DEF TypeOK, CallSteps
    <3>3. RowsHaveSessions'
      <4>1. run[r].sess \in Sessions
        BY <2>1, <2>2, RowOK DEF CancellableRow
      <4> QED
        BY <1>6, <2>1, <2>2, <3>1, <4>1, RowsKeepSessions DEF CancelQueuedRow, CallSteps
    <3> QED
      BY <1>6, <3>1, <3>2, <3>3 DEF CancelQueuedRow, TypeOK, RedisTypeOK, WorkerTypeOK
  <2>3. CASE Return(c) /\ UNCHANGED run
    <3>1. CallTypeOK'
      BY <2>3, ReturnOK
    <3>2. RowsHaveSessions'
      BY <1>6, <2>3 DEF CancelQueuedRow, Return, NoCall, TypeOK, CallTypeOK, RowsHaveSessions
    <3> QED
      BY <1>6, <2>3, <3>1, <3>2 DEF CancelQueuedRow, TypeOK, DbTypeOK, RedisTypeOK, WorkerTypeOK
  <2>4. CASE Goto(c, "signal") /\ UNCHANGED run
    <3>1. CallTypeOK'
      BY <2>1, <2>4, GotoOK DEF TypeOK, CallSteps
    <3>2. RowsHaveSessions'
      BY <1>6, <2>4 DEF CancelQueuedRow, Goto, TypeOK, CallTypeOK, RowsHaveSessions
    <3> QED
      BY <1>6, <2>4, <3>1, <3>2 DEF CancelQueuedRow, TypeOK, DbTypeOK, RedisTypeOK, WorkerTypeOK
  <2> QED
    BY <1>6, <2>2, <2>3, <2>4 DEF CancelQueuedRow
<1>7. CASE CancelSaveSession(c)
  <2>1. call[c].sess \in Sessions /\ call[c].run \in Runs
    BY <1>7 DEF CancelSaveSession, TypeOK, CallTypeOK
  <2>2. DbTypeOK'
    BY <1>7, SaveSessionOK DEF CancelSaveSession, TypeOK, SessionStatuses
  <2>3. CallTypeOK'
    BY <1>7, <2>1, GotoOK DEF CancelSaveSession, TypeOK, CallSteps
  <2>4. RowsHaveSessions'
    BY <1>7 DEF CancelSaveSession, Goto, TypeOK, CallTypeOK, RowsHaveSessions
  <2> QED
    BY <1>7, <2>2, <2>3, <2>4
    DEF CancelSaveSession, InvalidateCheckpoint, TypeOK, RedisTypeOK, WorkerTypeOK
<1>8. CASE CancelEmit(c)
  <2>1. call[c].run \in Runs
    BY <1>8 DEF CancelEmit, TypeOK, CallTypeOK
  <2>2. DbTypeOK'
    BY <1>8, <2>1, EmitFinalEventOK DEF CancelEmit, TypeOK, FinalStatuses
  <2>3. CallTypeOK'
    BY <1>8, ReturnOK DEF CancelEmit
  <2>4. RowsHaveSessions'
    BY <1>8 DEF CancelEmit, Return, NoCall, TypeOK, CallTypeOK, RowsHaveSessions
  <2> QED
    BY <1>8, <2>2, <2>3, <2>4 DEF CancelEmit, TypeOK, RedisTypeOK, WorkerTypeOK
<1>9. CASE CancelSignal(c)
  <2>1. call[c].run \in Runs
    BY <1>9 DEF CancelSignal, TypeOK, CallTypeOK
  <2>2. CallTypeOK'
    BY <1>9, ReturnOK DEF CancelSignal
  <2>3. RowsHaveSessions'
    BY <1>9 DEF CancelSignal, Return, NoCall, TypeOK, CallTypeOK, RowsHaveSessions
  <2> QED
    BY <1>9, <2>1, <2>2, <2>3
    DEF CancelSignal, RequestRunCancel, TypeOK, DbTypeOK, RedisTypeOK, WorkerTypeOK
<1>10. CASE AbandonRow(c)
  <2>1. call[c].sess \in Sessions /\ call[c].run \in Runs
    BY <1>10 DEF AbandonRow, TypeOK, CallTypeOK
  <2>2. /\ DbTypeOK'
        /\ \A q \in Runs : /\ run'[q].sess = run[q].sess
                           /\ q # call[c].run => run'[q] = run[q]
    BY <1>10, <2>1, UpdateRowOK DEF AbandonRow, TypeOK, RunStatuses, FinalStatuses
  <2>3. CallTypeOK'
    BY <1>10, <2>1, GotoOK DEF AbandonRow, TypeOK, CallSteps
  <2>4. RowsHaveSessions'
    <3>1. run[call[c].run].sess \in Sessions
      BY <1>10 DEF AbandonRow, TypeOK, RowsHaveSessions
    <3> QED
      BY <1>10, <2>1, <2>2, <3>1, RowsKeepSessions DEF AbandonRow, CallSteps
  <2> QED
    BY <1>10, <2>2, <2>3, <2>4 DEF AbandonRow, TypeOK, RedisTypeOK, WorkerTypeOK
<1>11. CASE AbandonEmit(c)
  <2>1. call[c].sess \in Sessions /\ call[c].run \in Runs
    BY <1>11 DEF AbandonEmit, TypeOK, CallTypeOK
  <2>2. DbTypeOK'
    BY <1>11, <2>1, EmitFinalEventOK DEF AbandonEmit, TypeOK, FinalStatuses
  <2>3. CallTypeOK'
    BY <1>11, <2>1, GotoOK DEF AbandonEmit, TypeOK, CallSteps
  <2>4. RowsHaveSessions'
    BY <1>11 DEF AbandonEmit, Goto, TypeOK, CallTypeOK, RowsHaveSessions
  <2> QED
    BY <1>11, <2>2, <2>3, <2>4
    DEF AbandonEmit, InvalidateCheckpoint, TypeOK, RedisTypeOK, WorkerTypeOK
<1>12. CASE DeleteRow(c)
  <2>1. CallTypeOK'
    BY <1>12, ReturnOK DEF DeleteRow
  <2>2. DbTypeOK'
    BY <1>12 DEF DeleteRow, TypeOK, DbTypeOK, SessionRow, SessionStatuses
  <2>3. RowsHaveSessions'
    BY <1>12 DEF DeleteRow, Return, NoCall, TypeOK, CallTypeOK, RowsHaveSessions
  <2> QED
    BY <1>12, <2>1, <2>2, <2>3 DEF DeleteRow, TypeOK, RedisTypeOK, WorkerTypeOK
<1> QED
  BY <1>1, <1>3, <1>4, <1>5, <1>6, <1>7, <1>8, <1>9, <1>10, <1>11, <1>12 DEF Handler

\* A worker that takes a message, and the worker loop, keep the types.
LEMMA TakeOK ==
  ASSUME TypeOK, NEW w \in Workers, NEW r \in Runs, NEW step \in {"started", "ack"},
         Take(w, r, step), UNCHANGED <<live, wout>>
  PROVE  WorkerTypeOK'
BY DEF Take, TypeOK, WorkerTypeOK, WorkerSteps

LEMMA ConsumeTypeOK ==
  ASSUME TypeOK, NEW w \in Workers, Consume(w)
  PROVE  TypeOK'
<1> USE DEF dbVars, redisVars, workerVars, auxVars
<1>1. ASSUME NEW r \in Runs, TryStartRun(w, r) PROVE TypeOK'
  <2>1. DbTypeOK'
    BY <1>1 DEF TryStartRun, TypeOK, DbTypeOK, RunRow, RunStatuses
  <2>2. WorkerTypeOK'
    BY <1>1, TakeOK DEF TryStartRun
  <2>3. run[r].sess \in Sessions /\ \A q \in Runs : run'[q].sess = run[q].sess
    BY <1>1, RowOK DEF TryStartRun, Startable, TypeOK, DbTypeOK, RunRow
  <2>4. \A q \in Runs : run'[q].status # "none" => run'[q].sess \in Sessions
    BY <1>1, <2>3 DEF TryStartRun, TypeOK, DbTypeOK, RunRow, RowsHaveSessions
  <2>5. \A v \in Workers :
          wpc'[v] \in {"started", "exec", "save", "row"} => run'[wrun'[v]].sess \in Sessions
    BY <1>1, <2>3 DEF TryStartRun, Take, TypeOK, WorkerTypeOK, RowsHaveSessions
  <2>6. RowsHaveSessions'
    BY <1>1, <2>3, <2>4, <2>5 DEF TryStartRun, TypeOK, CallTypeOK, RowsHaveSessions
  <2> QED
    BY <1>1, <2>1, <2>2, <2>6 DEF TryStartRun, TypeOK, RedisTypeOK, CallTypeOK
<1>2. ASSUME NEW r \in Runs, SkipRun(w, r) PROVE TypeOK'
  <2>1. WorkerTypeOK'
    BY <1>2, TakeOK DEF SkipRun
  <2>2. RowsHaveSessions'
    BY <1>2 DEF SkipRun, Take, TypeOK, WorkerTypeOK, RowsHaveSessions
  <2> QED
    BY <1>2, <2>1, <2>2 DEF SkipRun, TypeOK, DbTypeOK, RedisTypeOK, CallTypeOK
<1>3. CASE LoadSession(w)
  <2>1. WorkerTypeOK'
    BY <1>3 DEF LoadSession, TypeOK, WorkerTypeOK, WorkerSteps
  <2>2. RowsHaveSessions'
    BY <1>3 DEF LoadSession, TypeOK, WorkerTypeOK, RowsHaveSessions
  <2> QED
    BY <1>3, <2>1, <2>2 DEF LoadSession, TypeOK, DbTypeOK, RedisTypeOK, CallTypeOK
<1>4. CASE SaveOutcome(w)
  <2>1. wrun[w] \in Runs /\ run[wrun[w]].ckpt \in Runs \cup {None}
    BY <1>4, RowOK DEF SaveOutcome, TypeOK, WorkerTypeOK
  <2>2. DbTypeOK'
    <3>1. CASE SaveSession(run[wrun[w]].sess, "active", run[wrun[w]].ckpt)
      BY <1>4, <2>1, <3>1, SaveSessionOK DEF SaveOutcome, TypeOK, SessionStatuses
    <3>2. CASE SaveSession(run[wrun[w]].sess, "done", None)
      BY <1>4, <3>2, SaveSessionOK DEF SaveOutcome, TypeOK, SessionStatuses
    <3>3. CASE UNCHANGED sess
      BY <1>4, <3>3 DEF SaveOutcome, TypeOK, DbTypeOK
    <3> QED
      BY <1>4, <3>1, <3>2, <3>3 DEF SaveOutcome
  <2>3. RedisTypeOK'
    BY <1>4 DEF SaveOutcome, InvalidateCheckpoint, TypeOK, RedisTypeOK
  <2>4. WorkerTypeOK'
    BY <1>4 DEF SaveOutcome, TypeOK, WorkerTypeOK, WorkerSteps
  <2>5. RowsHaveSessions'
    BY <1>4 DEF SaveOutcome, TypeOK, WorkerTypeOK, RowsHaveSessions
  <2> QED
    BY <1>4, <2>2, <2>3, <2>4, <2>5 DEF SaveOutcome, TypeOK, CallTypeOK
<1>5. CASE FinishRow(w)
  <2>1. wrun[w] \in Runs /\ wout[w] \in FinalStatuses /\ run[wrun[w]].ckpt \in Runs \cup {None}
    BY <1>5, RowOK DEF FinishRow, TypeOK, WorkerTypeOK
  <2>2. run[wrun[w]].sess \in Sessions
    BY <1>5 DEF FinishRow, TypeOK, RowsHaveSessions
  <2>3. /\ DbTypeOK'
        /\ \A q \in Runs : /\ run'[q].sess = run[q].sess
                           /\ q # wrun[w] => run'[q] = run[q]
    <3> DEFINE k == IF wout[w] = "waiting_input" THEN run[wrun[w]].ckpt ELSE None
    <3>1. CASE run' = [run EXCEPT ![wrun[w]].status = wout[w],
                                  ![wrun[w]].ckpt = IF wout[w] = "waiting_input" THEN @ ELSE None]
      <4>1. run' = [run EXCEPT ![wrun[w]].status = wout[w], ![wrun[w]].ckpt = k]
        BY <2>1, <3>1 DEF TypeOK, DbTypeOK, RunRow
      <4>2. wout[w] \in RunStatuses /\ k \in Runs \cup {None}
        BY <2>1 DEF RunStatuses
      <4> HIDE DEF k
      <4> QED
        BY <1>5, <2>1, <4>1, <4>2, UpdateRowOK DEF FinishRow, TypeOK
    <3>2. CASE UNCHANGED run
      BY <1>5, <3>2 DEF FinishRow, TypeOK, DbTypeOK
    <3> QED
      BY <1>5, <3>1, <3>2 DEF FinishRow
  <2>4. WorkerTypeOK'
    BY <1>5, <2>1 DEF FinishRow, TypeOK, WorkerTypeOK, WorkerSteps
  <2>5. \A q \in Runs : run'[q].status # "none" => run'[q].sess \in Sessions
    BY <2>2, <2>3 DEF TypeOK, RowsHaveSessions
  <2>6. RowsHaveSessions'
    BY <1>5, <2>3, <2>5 DEF FinishRow, TypeOK, WorkerTypeOK, CallTypeOK, RowsHaveSessions
  <2> QED
    BY <1>5, <2>3, <2>4, <2>6 DEF FinishRow, TypeOK, RedisTypeOK, CallTypeOK
<1>6. CASE Announce(w)
  <2>1. wrun[w] \in Runs /\ wout[w] \in FinalStatuses
    BY <1>6 DEF Announce, TypeOK, WorkerTypeOK
  <2>2. DbTypeOK'
    BY <1>6, <2>1, EmitFinalEventOK DEF Announce, TypeOK
  <2>3. WorkerTypeOK'
    BY <1>6 DEF Announce, TypeOK, WorkerTypeOK, WorkerSteps
  <2>4. RowsHaveSessions'
    BY <1>6 DEF Announce, TypeOK, WorkerTypeOK, RowsHaveSessions
  <2> QED
    BY <1>6, <2>2, <2>3, <2>4 DEF Announce, TypeOK, RedisTypeOK, CallTypeOK
<1>7. CASE Ack(w)
  <2>1. WorkerTypeOK'
    BY <1>7 DEF Ack, TypeOK, WorkerTypeOK, WorkerSteps
  <2>2. RowsHaveSessions'
    BY <1>7 DEF Ack, TypeOK, WorkerTypeOK, RowsHaveSessions
  <2> QED
    BY <1>7, <2>1, <2>2 DEF Ack, TypeOK, DbTypeOK, RedisTypeOK, CallTypeOK
<1> QED
  BY <1>1, <1>2, <1>3, <1>4, <1>5, <1>6, <1>7 DEF Consume

LEMMA AgentReturnsTypeOK ==
  ASSUME TypeOK, NEW w \in Workers, AgentReturns(w)
  PROVE  TypeOK'
<1> USE DEF dbVars, auxVars
<1>1. wrun[w] \in Runs /\ run[wrun[w]].ckpt \in Runs \cup {None}
  BY RowOK DEF AgentReturns, TypeOK, WorkerTypeOK
<1>2. PICK outcome \in Outcomes(wrun[w]) :
        /\ wout' = [wout EXCEPT ![w] =
                      DeriveRunStatus(outcome, live[wrun[w]] = "cancelRequested")]
        /\ \/ ckpts' = ckpts \cup {run[wrun[w]].ckpt}
           \/ InvalidateCheckpoint(run[wrun[w]].ckpt)
           \/ UNCHANGED ckpts
  BY DEF AgentReturns
<1>3. DeriveRunStatus(outcome, live[wrun[w]] = "cancelRequested") \in FinalStatuses
  BY DEF DeriveRunStatus, Outcomes, FinalStatuses
<1>4. RedisTypeOK'
  BY <1>1, <1>2 DEF AgentReturns, InvalidateCheckpoint, TypeOK, RedisTypeOK
<1>5. WorkerTypeOK'
  BY <1>2, <1>3 DEF AgentReturns, TypeOK, WorkerTypeOK, WorkerSteps
<1>6. RowsHaveSessions'
  BY DEF AgentReturns, TypeOK, WorkerTypeOK, RowsHaveSessions
<1> QED
  BY <1>4, <1>5, <1>6 DEF AgentReturns, TypeOK, DbTypeOK, CallTypeOK

LEMMA FailureTypeOK == TypeOK /\ Failure => TypeOK'
<1> SUFFICES ASSUME TypeOK, Failure PROVE TypeOK'
  OBVIOUS
<1> USE DEF dbVars, redisVars, workerVars, auxVars
<1>1. ASSUME NEW c \in Callers, CallFails(c) PROVE TypeOK'
  <2>1. CallTypeOK'
    BY <1>1, ReturnOK DEF CallFails
  <2>2. RowsHaveSessions'
    BY <1>1 DEF CallFails, Return, NoCall, TypeOK, CallTypeOK, RowsHaveSessions
  <2> QED
    BY <1>1, <2>1, <2>2 DEF CallFails, TypeOK, DbTypeOK, RedisTypeOK, WorkerTypeOK
<1>2. ASSUME NEW w \in Workers, NEW r \in Runs, LoadRunFails(w, r) PROVE TypeOK'
  <2>1. WorkerTypeOK'
    BY <1>2, TakeOK DEF LoadRunFails
  <2>2. RowsHaveSessions'
    BY <1>2 DEF LoadRunFails, Take, TypeOK, WorkerTypeOK, RowsHaveSessions
  <2> QED
    BY <1>2, <2>1, <2>2 DEF LoadRunFails, TypeOK, DbTypeOK, RedisTypeOK, CallTypeOK
<1>3. ASSUME NEW w \in Workers, LoadSessionFails(w) PROVE TypeOK'
  <2>1. wrun[w] \in Runs /\ run[wrun[w]].sess \in Sessions
    BY <1>3 DEF LoadSessionFails, TypeOK, WorkerTypeOK, RowsHaveSessions
  <2>2. /\ DbTypeOK'
        /\ \A q \in Runs : /\ run'[q].sess = run[q].sess
                           /\ q # wrun[w] => run'[q] = run[q]
    <3>1. CASE run' = [run EXCEPT ![wrun[w]].status = "failed", ![wrun[w]].ckpt = None]
      BY <1>3, <2>1, <3>1, UpdateRowOK DEF LoadSessionFails, TypeOK, RunStatuses, FinalStatuses
    <3>2. CASE UNCHANGED run
      BY <1>3, <3>2 DEF LoadSessionFails, TypeOK, DbTypeOK
    <3> QED
      BY <1>3, <3>1, <3>2 DEF LoadSessionFails
  <2>3. WorkerTypeOK'
    BY <1>3 DEF LoadSessionFails, TypeOK, WorkerTypeOK, WorkerSteps
  <2>4. \A q \in Runs : run'[q].status # "none" => run'[q].sess \in Sessions
    BY <2>1, <2>2 DEF TypeOK, RowsHaveSessions
  <2>5. RowsHaveSessions'
    BY <1>3, <2>2, <2>4 DEF LoadSessionFails, TypeOK, WorkerTypeOK, CallTypeOK, RowsHaveSessions
  <2> QED
    BY <1>3, <2>2, <2>3, <2>5 DEF LoadSessionFails, TypeOK, RedisTypeOK, CallTypeOK
<1>4. ASSUME NEW w \in Workers, Crash(w) PROVE TypeOK'
  <2>1. WorkerTypeOK'
    BY <1>4 DEF Crash, TypeOK, WorkerTypeOK, WorkerSteps
  <2>2. RowsHaveSessions'
    BY <1>4 DEF Crash, TypeOK, WorkerTypeOK, RowsHaveSessions
  <2>3. crashes' \in 0..MaxCrashes
    BY <1>4, LifecycleAssumption DEF Crash, TypeOK
  <2> QED
    BY <1>4, <2>1, <2>2, <2>3 DEF Crash, TypeOK, DbTypeOK, RedisTypeOK, CallTypeOK
<1>5. ASSUME NEW k \in Runs, ExpireCheckpoint(k) PROVE TypeOK'
  BY <1>5
  DEF ExpireCheckpoint, TypeOK, DbTypeOK, RedisTypeOK, WorkerTypeOK, CallTypeOK, RowsHaveSessions
<1> QED
  BY <1>1, <1>2, <1>3, <1>4, <1>5 DEF Failure

LEMMA NextTypeOK == TypeOK /\ [Next]_vars => TypeOK'
<1> SUFFICES ASSUME TypeOK, [Next]_vars PROVE TypeOK'
  OBVIOUS
<1> USE DEF dbVars, redisVars, workerVars, auxVars
<1>1. CASE Request
  BY <1>1, RequestTypeOK
<1>2. CASE \E c \in Callers : Handler(c)
  BY <1>2, HandlerTypeOK
<1>3. CASE \E w \in Workers : Consume(w) \/ AgentReturns(w)
  BY <1>3, ConsumeTypeOK, AgentReturnsTypeOK
<1>4. CASE \E r \in Runs : ReadGroup(r) \/ DeliverCancel(r)
  BY <1>4
  DEF ReadGroup, DeliverCancel, RequestRunCancel, TypeOK, DbTypeOK, RedisTypeOK, WorkerTypeOK,
      CallTypeOK, RowsHaveSessions
<1>5. CASE EnsureConsumerGroup
  BY <1>5
  DEF EnsureConsumerGroup, TypeOK, DbTypeOK, RedisTypeOK, WorkerTypeOK, CallTypeOK,
      RowsHaveSessions
<1>6. CASE Failure
  BY <1>6, FailureTypeOK
<1>7. CASE Tick
  BY <1>7, LifecycleAssumption
  DEF Tick, TypeOK, DbTypeOK, RedisTypeOK, WorkerTypeOK, CallTypeOK, RowsHaveSessions
<1>8. CASE UNCHANGED vars
  BY <1>8 DEF vars, TypeOK, DbTypeOK, RedisTypeOK, WorkerTypeOK, CallTypeOK, RowsHaveSessions
<1> QED
  BY <1>1, <1>2, <1>3, <1>4, <1>5, <1>6, <1>7, <1>8 DEF Next

\* Whatever fails and whatever the clients do, every table row, message, worker and
\* request in flight is well-formed.
THEOREM TypeCorrect == Spec => []TypeOK
BY InitTypeOK, NextTypeOK, PTL DEF Spec

-----------------------------------------------------------------------------
(* Ownership: a run is executed by one worker, and its row is left alone *)

LEMMA InitOwnership == Init => OwnershipInv
BY InitTypeOK
DEF Init, OwnershipInv, ExecutingIsRunning, ExclusiveExecution, HeldWasStarted, InsertsFresh,
    AbandonsWaiting, Executes, Holds, Inserts, NoCall, NoRun

\* A worker that moves on without a change of rows or requests, and takes no other run.
LEMMA WorkerStepKeepsOwnership ==
  ASSUME OwnershipInv, TypeOK', UNCHANGED <<run, call>>, NEW w \in Workers,
         \A v \in Workers \ {w} : wpc'[v] = wpc[v] /\ wrun'[v] = wrun[v],
         \A r \in Runs : /\ Executes(w, r)' => Executes(w, r)
                         /\ Holds(w, r)' => Holds(w, r)
  PROVE  OwnershipInv'
<1>1. \A v \in Workers, r \in Runs : /\ Executes(v, r)' => Executes(v, r)
                                     /\ Holds(v, r)' => Holds(v, r)
  BY DEF Executes, Holds
<1>2. ExecutingIsRunning' /\ ExclusiveExecution' /\ HeldWasStarted'
  BY <1>1 DEF OwnershipInv, ExecutingIsRunning, ExclusiveExecution, HeldWasStarted
<1>3. InsertsFresh' /\ AbandonsWaiting'
  BY DEF OwnershipInv, InsertsFresh, AbandonsWaiting, Inserts
<1> QED
  BY <1>2, <1>3 DEF OwnershipInv

\* A request that moves on or returns, without a change of rows or workers.
LEMMA CallStepKeepsOwnership ==
  ASSUME OwnershipInv, TypeOK', UNCHANGED <<run, wpc, wrun>>, NEW c \in Callers,
         \A d \in Callers \ {c} : call'[d] = call[d],
         call'[c].step # "abandonRow",
         \/ call'[c].run = None /\ ~Inserts(c)'
         \/ call'[c].run = call[c].run /\ (Inserts(c)' => Inserts(c))
  PROVE  OwnershipInv'
<1>1. ExecutingIsRunning' /\ ExclusiveExecution' /\ HeldWasStarted'
  BY DEF OwnershipInv, ExecutingIsRunning, ExclusiveExecution, HeldWasStarted, Executes, Holds
<1>2. \A d \in Callers : Inserts(d)' => call'[d].run \in Runs
  BY DEF TypeOK, CallTypeOK, Inserts
<1>3. \A d \in Callers : Inserts(d)' => Inserts(d) /\ call'[d].run = call[d].run
  BY <1>2, LifecycleAssumption DEF Inserts
<1>4. ASSUME NEW d \in Callers, Inserts(d)', NEW e \in Callers, call'[e].run = call'[d].run
      PROVE  e = d
  <2>1. call'[e].run \in Runs
    BY <1>2, <1>4
  <2>2. call'[e].run = call[e].run
    BY <2>1, LifecycleAssumption
  <2>3. Inserts(d) /\ call[e].run = call[d].run
    BY <1>3, <1>4, <2>2
  <2>4. InsertsFresh
    BY DEF OwnershipInv
  <2> QED
    BY <2>3, <2>4 DEF InsertsFresh
<1>5. InsertsFresh'
  BY <1>3, <1>4 DEF OwnershipInv, InsertsFresh
<1>6. AbandonsWaiting'
  BY DEF OwnershipInv, AbandonsWaiting
<1> QED
  BY <1>1, <1>5, <1>6 DEF OwnershipInv

\* A request that starts, with a fresh id or about a run that has a row.
LEMMA CallStartKeepsOwnership ==
  ASSUME OwnershipInv, TypeOK', UNCHANGED <<run, wpc, wrun>>, NEW c \in Callers, NEW k \in Call,
         call' = [call EXCEPT ![c] = k],
         \/ Fresh(k.run) /\ k.run \in Runs /\ k.step # "abandonRow"
         \/ /\ k.step \notin {"saveSession", "insertRun", "insertResume"}
            /\ k.run = None \/ run[k.run].status # "none"
            /\ k.step = "abandonRow" => run[k.run].status = "waiting_input"
  PROVE  OwnershipInv'
<1>1. ExecutingIsRunning' /\ ExclusiveExecution' /\ HeldWasStarted'
  BY DEF OwnershipInv, ExecutingIsRunning, ExclusiveExecution, HeldWasStarted, Executes, Holds
<1>2. call'[c] = k /\ \A d \in Callers \ {c} : call'[d] = call[d]
  BY DEF OwnershipInv, TypeOK, CallTypeOK
<1>3. \A d \in Callers : Inserts(d)' => call'[d].run \in Runs
  BY DEF TypeOK, CallTypeOK, Inserts
<1>4. CASE Fresh(k.run) /\ k.run \in Runs /\ k.step # "abandonRow"
  <2>1. InsertsFresh'
    BY <1>2, <1>4 DEF OwnershipInv, InsertsFresh, Inserts, Fresh
  <2>2. AbandonsWaiting'
    BY <1>2, <1>4 DEF OwnershipInv, AbandonsWaiting
  <2> QED
    BY <1>1, <2>1, <2>2 DEF OwnershipInv
<1>5. CASE /\ k.step \notin {"saveSession", "insertRun", "insertResume"}
           /\ k.run = None \/ run[k.run].status # "none"
           /\ k.step = "abandonRow" => run[k.run].status = "waiting_input"
  <2>1. ASSUME NEW d \in Callers, Inserts(d)'
        PROVE  d # c /\ Inserts(d) /\ run[call[d].run].status = "none" /\ k.run # call[d].run
    <3>1. d # c /\ Inserts(d)
      BY <1>2, <1>5, <2>1 DEF Inserts
    <3>2. call[d].run \in Runs /\ run[call[d].run].status = "none"
      BY <3>1 DEF OwnershipInv, InsertsFresh, TypeOK, CallTypeOK, Inserts
    <3> QED
      BY <1>5, <3>1, <3>2, LifecycleAssumption
  <2>2. InsertsFresh'
    BY <1>2, <2>1 DEF OwnershipInv, InsertsFresh
  <2>3. AbandonsWaiting'
    BY <1>2, <1>5 DEF OwnershipInv, AbandonsWaiting
  <2> QED
    BY <1>1, <2>2, <2>3 DEF OwnershipInv
<1> QED
  BY <1>4, <1>5

LEMMA RequestKeepsOwnership ==
  ASSUME OwnershipInv, TypeOK', Request
  PROVE  OwnershipInv'
<1> USE DEF dbVars, redisVars, workerVars, auxVars
<1>0. TypeOK
  BY DEF OwnershipInv
<1>1. ASSUME NEW s \in Sessions, CreateSession(s) PROVE OwnershipInv'
  BY <1>1
  DEF CreateSession, OwnershipInv, ExecutingIsRunning, ExclusiveExecution, HeldWasStarted,
      InsertsFresh, AbandonsWaiting, Executes, Holds, Inserts
<1>2. ASSUME NEW c \in Callers, NEW s \in Sessions, NEW r \in Runs, CreateCheck(c, s, r)
      PROVE  OwnershipInv'
  <2> DEFINE k == [NoCall EXCEPT !.step = "saveSession", !.sess = s, !.run = r,
                                 !.ckpt = r, !.at = clock]
  <2>1. call' = [call EXCEPT ![c] = k] /\ Fresh(r) /\ UNCHANGED <<run, wpc, wrun>>
    BY <1>2 DEF CreateCheck
  <2>2. k.run = r /\ k.step = "saveSession"
    BY DEF NoCall
  <2>3. k \in Call
    BY <1>0, <2>1 DEF TypeOK, NoCall, Call, CallSteps
  <2> HIDE DEF k
  <2> QED
    BY <2>1, <2>2, <2>3, CallStartKeepsOwnership
<1>3. ASSUME NEW c \in Callers, NEW p \in Runs, NEW r \in Runs, ResumeCheck(c, p, r)
      PROVE  OwnershipInv'
  <2> DEFINE k == [NoCall EXCEPT !.step = "insertResume", !.sess = run[p].sess, !.run = r,
                                 !.parent = p, !.ckpt = ResumeCheckpoint(run[p].sess, r),
                                 !.at = clock]
  <2>1. call' = [call EXCEPT ![c] = k] /\ Fresh(r) /\ UNCHANGED <<run, wpc, wrun>>
    BY <1>3 DEF ResumeCheck
  <2>2. k.run = r /\ k.step = "insertResume"
    BY DEF NoCall
  <2>3. k \in Call
    <3>1. run[p].sess \in Sessions
      BY <1>0, <1>3, RowOK DEF ResumeCheck, Resumable
    <3> QED
      BY <1>0, <3>1
      DEF TypeOK, DbTypeOK, SessionRow, RunRow, Call, NoCall, CallSteps, ResumeCheckpoint
  <2> HIDE DEF k
  <2> QED
    BY <2>1, <2>2, <2>3, CallStartKeepsOwnership
<1>4. ASSUME NEW c \in Callers, NEW r \in Runs, CancelCheck(c, r)
      PROVE  OwnershipInv'
  <2> DEFINE k == [NoCall EXCEPT
                     !.step = IF run[r].status = "queued" THEN "cancelRow" ELSE "signal",
                     !.sess = run[r].sess, !.run = r, !.ckpt = run[r].ckpt]
  <2>1. /\ call' = [call EXCEPT ![c] = k] /\ UNCHANGED <<run, wpc, wrun>>
        /\ run[r].status # "none"
    BY <1>4 DEF CancelCheck
  <2>2. k.run = r /\ k.step \in {"cancelRow", "signal"}
    BY DEF NoCall
  <2>3. k \in Call
    BY <1>0, <2>1, NoCallOK, RowOK DEF Call, NoCall, CallSteps
  <2> HIDE DEF k
  <2> QED
    BY <2>1, <2>2, <2>3, CallStartKeepsOwnership
<1>5. ASSUME NEW c \in Callers, NEW s \in Sessions, DeleteCheck(c, s)
      PROVE  OwnershipInv'
  <2>1. CASE call' = [call EXCEPT ![c] = [NoCall EXCEPT !.step = "deleteRow", !.sess = s]]
    <3> DEFINE k == [NoCall EXCEPT !.step = "deleteRow", !.sess = s]
    <3>1. k \in Call /\ k.run = None /\ k.step = "deleteRow"
      BY NoCallOK DEF Call, NoCall, CallSteps
    <3>2. call' = [call EXCEPT ![c] = k] /\ UNCHANGED <<run, wpc, wrun>>
      BY <1>5, <2>1 DEF DeleteCheck
    <3> HIDE DEF k
    <3> QED
      BY <3>1, <3>2, CallStartKeepsOwnership
  <2>2. ASSUME NEW l \in LastRuns(s),
               call' = [call EXCEPT ![c] =
                 [NoCall EXCEPT !.step = IF run[l].status = "waiting_input"
                                         THEN "abandonRow" ELSE "deleteRow",
                                !.sess = s, !.run = l, !.ckpt = run[l].ckpt]]
        PROVE  OwnershipInv'
    <3> DEFINE k == [NoCall EXCEPT !.step = IF run[l].status = "waiting_input"
                                            THEN "abandonRow" ELSE "deleteRow",
                                   !.sess = s, !.run = l, !.ckpt = run[l].ckpt]
    <3>1. l \in Runs /\ run[l].status # "none"
      BY DEF LastRuns, RunsOf
    <3>2. k \in Call
      BY <1>0, <3>1, NoCallOK, RowOK DEF Call, NoCall, CallSteps
    <3>3. /\ k.run = l
          /\ k.step = IF run[l].status = "waiting_input" THEN "abandonRow" ELSE "deleteRow"
      BY DEF NoCall
    <3>4. call' = [call EXCEPT ![c] = k] /\ UNCHANGED <<run, wpc, wrun>>
      BY <1>5, <2>2 DEF DeleteCheck
    <3> HIDE DEF k
    <3> QED
      BY <3>1, <3>2, <3>3, <3>4, CallStartKeepsOwnership
  <2> QED
    BY <1>5, <2>1, <2>2 DEF DeleteCheck
<1> QED
  BY <1>1, <1>2, <1>3, <1>4, <1>5 DEF Request

LEMMA HandlerKeepsOwnership ==
  ASSUME OwnershipInv, TypeOK', NEW c \in Callers, Handler(c)
  PROVE  OwnershipInv'
<1> USE DEF dbVars, redisVars, workerVars, auxVars
<1>0. TypeOK /\ c \in DOMAIN call
  BY DEF OwnershipInv, TypeOK, CallTypeOK
<1>1. ASSUME NEW step \in CallSteps \ {"abandonRow"}, Goto(c, step), UNCHANGED <<run, wpc, wrun>>,
             step \in {"saveSession", "insertRun", "insertResume"} => Inserts(c)
      PROVE  OwnershipInv'
  <2>1. /\ \A d \in Callers \ {c} : call'[d] = call[d]
        /\ call'[c].step = step /\ call'[c].run = call[c].run
    BY <1>0, <1>1 DEF Goto, TypeOK, CallTypeOK, Call
  <2>2. Inserts(c)' => Inserts(c)
    BY <1>1, <2>1 DEF Inserts
  <2> QED
    BY <1>1, <2>1, <2>2, CallStepKeepsOwnership
<1>2. ASSUME Return(c), UNCHANGED <<run, wpc, wrun>>
      PROVE  OwnershipInv'
  <2>1. \A d \in Callers \ {c} : call'[d] = call[d]
    BY <1>0, <1>2 DEF Return
  <2>2. call'[c].run = None /\ call'[c].step = "idle"
    BY <1>0, <1>2 DEF Return, NoCall
  <2> QED
    BY <1>2, <2>1, <2>2, CallStepKeepsOwnership DEF Inserts
<1>3. CASE CreateSaveSession(c)
  BY <1>1, <1>3 DEF CreateSaveSession, Inserts, CallSteps
<1>4. ASSUME NEW kind \in {"query", "resume"}, Inserts(c), InsertRow(c, kind)
      PROVE  OwnershipInv'
  <2> DEFINE r == call[c].run
  <2>1. r \in Runs /\ run[r].status = "none"
    BY <1>0, <1>4 DEF OwnershipInv, InsertsFresh, TypeOK, CallTypeOK, Inserts
  <2>2. run'[r].status = "queued" /\ \A q \in Runs \ {r} : run'[q] = run[q]
    BY <1>0, <1>4, <2>1 DEF InsertRow, TypeOK, DbTypeOK
  <2>3. ExecutingIsRunning' /\ ExclusiveExecution' /\ HeldWasStarted'
    BY <1>4, <2>1, <2>2
    DEF InsertRow, OwnershipInv, ExecutingIsRunning, ExclusiveExecution, HeldWasStarted,
        Executes, Holds
  <2>4. /\ \A d \in Callers \ {c} : call'[d] = call[d]
        /\ call'[c].step = "enqueue" /\ call'[c].run = call[c].run
    BY <1>0, <1>4 DEF InsertRow, Goto, TypeOK, CallTypeOK, Call
  <2>5. InsertsFresh'
    <3>1. ASSUME NEW d \in Callers, Inserts(d)'
          PROVE  /\ d # c /\ Inserts(d) /\ call'[d].run = call[d].run
                 /\ call[d].run \in Runs \ {r}
      BY <1>0, <1>4, <2>4, <3>1 DEF OwnershipInv, InsertsFresh, TypeOK, CallTypeOK, Inserts
    <3> QED
      BY <2>2, <2>4, <3>1 DEF OwnershipInv, InsertsFresh
  <2>6. AbandonsWaiting'
    BY <1>0, <2>1, <2>2, <2>4 DEF OwnershipInv, AbandonsWaiting, TypeOK, CallTypeOK
  <2> QED
    BY <2>3, <2>5, <2>6 DEF OwnershipInv
<1>5. CASE CreateInsertRun(c)
  BY <1>4, <1>5 DEF CreateInsertRun, Inserts
<1>6. CASE ResumeInsertRun(c)
  BY <1>4, <1>6 DEF ResumeInsertRun, Inserts
<1>7. CASE EnqueueRun(c)
  BY <1>2, <1>7 DEF EnqueueRun
<1>8. ASSUME NEW r \in Runs, r = call[c].run,
             run[r].status \in {"queued", "waiting_input", "cancelled"},
             run' = [run EXCEPT ![r].status = "cancelled", ![r].ckpt = None],
             NEW step \in CallSteps \ {"abandonRow"}, Goto(c, step), UNCHANGED <<wpc, wrun>>,
             step \notin {"saveSession", "insertRun", "insertResume"}
      PROVE  OwnershipInv'
  <2>1. run'[r].status = "cancelled" /\ \A q \in Runs \ {r} : run'[q] = run[q]
    BY <1>0, <1>8 DEF TypeOK, DbTypeOK, RunRow
  <2>2. ExecutingIsRunning' /\ ExclusiveExecution' /\ HeldWasStarted'
    <3>1. \A w \in Workers, q \in Runs : /\ Executes(w, q)' <=> Executes(w, q)
                                         /\ Holds(w, q)' <=> Holds(w, q)
      BY <1>8 DEF Executes, Holds
    <3>2. \A w \in Workers : ~Executes(w, r)
      BY <1>8 DEF OwnershipInv, ExecutingIsRunning
    <3>3. ExecutingIsRunning'
      BY <2>1, <3>1, <3>2 DEF OwnershipInv, ExecutingIsRunning
    <3>4. ExclusiveExecution'
      BY <3>1 DEF OwnershipInv, ExclusiveExecution
    <3>5. HeldWasStarted'
      BY <2>1, <3>1 DEF OwnershipInv, HeldWasStarted
    <3> QED
      BY <3>3, <3>4, <3>5
  <2>3. /\ \A d \in Callers \ {c} : call'[d] = call[d]
        /\ call'[c].step = step /\ call'[c].run = call[c].run
    BY <1>0, <1>8 DEF Goto, TypeOK, CallTypeOK, Call
  <2>4. InsertsFresh'
    <3>1. ASSUME NEW d \in Callers, Inserts(d)'
          PROVE  /\ d # c /\ Inserts(d) /\ call'[d].run = call[d].run
                 /\ call[d].run \in Runs \ {r}
      BY <1>0, <1>8, <2>3, <3>1 DEF OwnershipInv, InsertsFresh, TypeOK, CallTypeOK, Inserts
    <3> QED
      BY <2>1, <2>3, <3>1 DEF OwnershipInv, InsertsFresh
  <2>5. AbandonsWaiting'
    <3>1. ASSUME NEW d \in Callers, call'[d].step = "abandonRow"
          PROVE  d # c /\ call'[d] = call[d] /\ call[d].run \in Runs
      BY <1>0, <1>8, <2>3, <3>1 DEF TypeOK, CallTypeOK
    <3>2. ASSUME NEW d \in Callers, call'[d].step = "abandonRow"
          PROVE  run'[call'[d].run].status \in {"waiting_input", "cancelled"}
      <4>1. run[call[d].run].status \in {"waiting_input", "cancelled"}
        BY <3>1, <3>2 DEF OwnershipInv, AbandonsWaiting
      <4> QED
        BY <2>1, <3>1, <3>2, <4>1
    <3> QED
      BY <3>2 DEF AbandonsWaiting
  <2> QED
    BY <2>2, <2>4, <2>5 DEF OwnershipInv
<1>9. CASE CancelQueuedRow(c)
  <2>1. call[c].run \in Runs
    BY <1>0, <1>9 DEF CancelQueuedRow, TypeOK, CallTypeOK
  <2> QED
    BY <1>1, <1>2, <1>8, <1>9, <2>1 DEF CancelQueuedRow, CancellableRow, CallSteps
<1>10. CASE CancelSaveSession(c)
  BY <1>1, <1>10 DEF CancelSaveSession, CallSteps
<1>11. CASE CancelEmit(c)
  BY <1>2, <1>11 DEF CancelEmit
<1>12. CASE CancelSignal(c)
  BY <1>2, <1>12 DEF CancelSignal
<1>13. CASE AbandonRow(c)
  <2>1. call[c].run \in Runs /\ run[call[c].run].status \in {"waiting_input", "cancelled"}
    BY <1>0, <1>13 DEF AbandonRow, OwnershipInv, AbandonsWaiting, TypeOK, CallTypeOK
  <2> QED
    BY <1>8, <1>13, <2>1 DEF AbandonRow, CallSteps
<1>14. CASE AbandonEmit(c)
  BY <1>1, <1>14 DEF AbandonEmit, CallSteps
<1>15. CASE DeleteRow(c)
  BY <1>2, <1>15 DEF DeleteRow
<1> QED
  BY <1>3, <1>5, <1>6, <1>7, <1>9, <1>10, <1>11, <1>12, <1>13, <1>14, <1>15 DEF Handler

\* A worker that writes the end of the run it executes.
LEMMA FinishKeepsOwnership ==
  ASSUME OwnershipInv, TypeOK', UNCHANGED call, NEW w \in Workers, NEW r \in Runs,
         Executes(w, r), run'[r].status \notin {"none", "queued"},
         \A q \in Runs \ {r} : run'[q] = run[q],
         wpc'[w] \in {"emit", "ack"}, UNCHANGED wrun,
         \A v \in Workers \ {w} : wpc'[v] = wpc[v]
  PROVE  OwnershipInv'
<1>0. TypeOK /\ run[r].status = "running"
  BY DEF OwnershipInv, ExecutingIsRunning
<1>1. \A v \in Workers, q \in Runs : /\ Executes(v, q)' => Executes(v, q) /\ v # w
                                     /\ Holds(v, q)' => Holds(v, q)
  BY DEF Executes, Holds
<1>2. \A v \in Workers : Executes(v, r) => v = w
  BY DEF OwnershipInv, ExclusiveExecution, Holds
<1>3. ExecutingIsRunning'
  BY <1>1, <1>2 DEF OwnershipInv, ExecutingIsRunning
<1>4. ExclusiveExecution'
  BY <1>1 DEF OwnershipInv, ExclusiveExecution
<1>5. HeldWasStarted'
  BY <1>1 DEF OwnershipInv, HeldWasStarted
<1>6. InsertsFresh'
  <2>1. ASSUME NEW c \in Callers, Inserts(c) PROVE call[c].run \in Runs \ {r}
    BY <1>0, <2>1 DEF OwnershipInv, InsertsFresh, TypeOK, CallTypeOK, Inserts
  <2> QED
    BY <2>1 DEF OwnershipInv, InsertsFresh, Inserts
<1>7. AbandonsWaiting'
  <2>1. ASSUME NEW c \in Callers, call[c].step = "abandonRow" PROVE call[c].run \in Runs \ {r}
    BY <1>0, <2>1 DEF OwnershipInv, AbandonsWaiting, TypeOK, CallTypeOK
  <2> QED
    BY <2>1 DEF OwnershipInv, AbandonsWaiting
<1> QED
  BY <1>3, <1>4, <1>5, <1>6, <1>7 DEF OwnershipInv

\* TryStartRun is the only way to a run, and nobody holds a run that is queued.
LEMMA StartKeepsOwnership ==
  ASSUME OwnershipInv, TypeOK', NEW w \in Workers, NEW r \in Runs, TryStartRun(w, r)
  PROVE  OwnershipInv'
<1>0. /\ TypeOK /\ run[r].status = "queued" /\ UNCHANGED call
      /\ run'[r].status = "running" /\ \A q \in Runs \ {r} : run'[q] = run[q]
  BY DEF OwnershipInv, TypeOK, DbTypeOK, RunRow, TryStartRun, Startable
<1>1. /\ \A v \in Workers \ {w} : wpc'[v] = wpc[v] /\ wrun'[v] = wrun[v]
      /\ wpc'[w] = "started" /\ wrun'[w] = r
  BY <1>0 DEF TryStartRun, Take, TypeOK, WorkerTypeOK
<1>2. ASSUME NEW v \in Workers, NEW q \in Runs
      PROVE  /\ Executes(v, q)' => (v = w /\ q = r) \/ (v # w /\ q # r /\ Executes(v, q))
             /\ Holds(v, q)' => (v = w /\ q = r) \/ (v # w /\ q # r /\ Holds(v, q))
  <2>1. ~Holds(v, r) /\ ~Executes(v, r)
    BY <1>0 DEF OwnershipInv, HeldWasStarted, Holds
  <2> QED
    BY <1>1, <2>1 DEF Executes, Holds
<1>3. ExecutingIsRunning'
  BY <1>0, <1>2 DEF OwnershipInv, ExecutingIsRunning
<1>4. ExclusiveExecution'
  BY <1>2 DEF OwnershipInv, ExclusiveExecution
<1>5. HeldWasStarted'
  BY <1>0, <1>2 DEF OwnershipInv, HeldWasStarted
<1>6. InsertsFresh'
  <2>1. ASSUME NEW c \in Callers, Inserts(c) PROVE call[c].run \in Runs \ {r}
    BY <1>0, <2>1 DEF OwnershipInv, InsertsFresh, TypeOK, CallTypeOK, Inserts
  <2> QED
    BY <1>0, <2>1 DEF OwnershipInv, InsertsFresh, Inserts
<1>7. AbandonsWaiting'
  <2>1. ASSUME NEW c \in Callers, call[c].step = "abandonRow" PROVE call[c].run \in Runs \ {r}
    BY <1>0, <2>1 DEF OwnershipInv, AbandonsWaiting, TypeOK, CallTypeOK
  <2> QED
    BY <1>0, <2>1 DEF OwnershipInv, AbandonsWaiting
<1> QED
  BY <1>3, <1>4, <1>5, <1>6, <1>7 DEF OwnershipInv

LEMMA WorkerKeepsOwnership ==
  ASSUME OwnershipInv, TypeOK', NEW w \in Workers,
         \/ Consume(w) \/ AgentReturns(w) \/ LoadSessionFails(w) \/ Crash(w)
         \/ \E r \in Runs : LoadRunFails(w, r)
  PROVE  OwnershipInv'
<1> USE DEF dbVars, redisVars, workerVars, auxVars
<1>0. /\ TypeOK
      /\ DOMAIN wpc = Workers /\ DOMAIN wrun = Workers
      /\ wpc[w] # "poll" => wrun[w] \in Runs
  BY DEF OwnershipInv, TypeOK, WorkerTypeOK
<1>1. ASSUME NEW r \in Runs, TryStartRun(w, r) PROVE OwnershipInv'
  BY <1>1, StartKeepsOwnership
<1>2. ASSUME NEW r \in Runs, Take(w, r, "ack"), UNCHANGED <<run, call>> PROVE OwnershipInv'
  <2>1. /\ \A v \in Workers \ {w} : wpc'[v] = wpc[v] /\ wrun'[v] = wrun[v]
        /\ wpc'[w] = "ack"
    BY <1>0, <1>2 DEF Take
  <2> QED
    BY <1>2, <2>1, WorkerStepKeepsOwnership DEF Executes, Holds
<1>3. ASSUME wpc[w] \in {"started", "exec", "save"}, NEW step \in {"exec", "save", "row"},
             wpc' = [wpc EXCEPT ![w] = step], UNCHANGED <<run, call, wrun>>
      PROVE  OwnershipInv'
  <2>1. /\ \A v \in Workers \ {w} : wpc'[v] = wpc[v] /\ wrun'[v] = wrun[v]
        /\ wpc'[w] = step
    BY <1>0, <1>3
  <2>2. \A r \in Runs : (Executes(w, r)' => Executes(w, r)) /\ (Holds(w, r)' => Holds(w, r))
    BY <1>3, <2>1 DEF Executes, Holds
  <2> QED
    BY <1>3, <2>1, <2>2, WorkerStepKeepsOwnership
<1>4. ASSUME NEW step \in {"ack", "poll"}, wpc' = [wpc EXCEPT ![w] = step],
             UNCHANGED wrun \/ wrun' = [wrun EXCEPT ![w] = None], UNCHANGED <<run, call>>
      PROVE  OwnershipInv'
  <2>1. /\ \A v \in Workers \ {w} : wpc'[v] = wpc[v] /\ wrun'[v] = wrun[v]
        /\ wpc'[w] = step
    BY <1>0, <1>4
  <2>2. \A r \in Runs : ~Executes(w, r)' /\ ~Holds(w, r)'
    BY <1>4, <2>1 DEF Executes, Holds
  <2> QED
    BY <1>4, <2>1, <2>2, WorkerStepKeepsOwnership
<1>5. CASE FinishRow(w) \/ LoadSessionFails(w)
  <2>1. Executes(w, wrun[w]) /\ wrun[w] \in Runs /\ UNCHANGED <<wrun, call>>
    BY <1>0, <1>5 DEF FinishRow, LoadSessionFails, Executes
  <2>2. /\ \A v \in Workers \ {w} : wpc'[v] = wpc[v]
        /\ wpc'[w] \in {"emit", "ack"}
    BY <1>0, <1>5 DEF FinishRow, LoadSessionFails
  <2>3. /\ run'[wrun[w]].status \in FinalStatuses \cup {"running"}
        /\ \A q \in Runs \ {wrun[w]} : run'[q] = run[q]
    <3>1. run[wrun[w]].status = "running"
      BY <2>1 DEF OwnershipInv, ExecutingIsRunning
    <3>2. CASE FinishRow(w)
      <4>1. wout[w] \in FinalStatuses
        BY <1>0, <3>2 DEF FinishRow, TypeOK, WorkerTypeOK
      <4> QED
        BY <1>0, <2>1, <3>1, <3>2, <4>1 DEF FinishRow, TypeOK, DbTypeOK, RunRow
    <3>3. CASE LoadSessionFails(w)
      BY <1>0, <2>1, <3>1, <3>3 DEF LoadSessionFails, TypeOK, DbTypeOK, RunRow, FinalStatuses
    <3> QED
      BY <1>5, <3>2, <3>3
  <2> QED
    BY <2>1, <2>2, <2>3, FinishKeepsOwnership DEF FinalStatuses
<1>6. ASSUME NEW r \in Runs, SkipRun(w, r) \/ LoadRunFails(w, r) PROVE OwnershipInv'
  BY <1>2, <1>6 DEF SkipRun, LoadRunFails
<1>7. CASE LoadSession(w) \/ SaveOutcome(w) \/ AgentReturns(w)
  BY <1>3, <1>7 DEF LoadSession, SaveOutcome, AgentReturns
<1>8. CASE Announce(w) \/ Ack(w) \/ Crash(w)
  BY <1>4, <1>8 DEF Announce, Ack, Crash
<1> QED
  BY <1>1, <1>5, <1>6, <1>7, <1>8 DEF Consume

LEMMA NextKeepsOwnership == OwnershipInv /\ [Next]_vars => OwnershipInv'
<1> SUFFICES ASSUME OwnershipInv, [Next]_vars PROVE OwnershipInv'
  OBVIOUS
<1> USE DEF dbVars, redisVars, workerVars, auxVars
<1>0. TypeOK /\ TypeOK'
  BY NextTypeOK DEF OwnershipInv
<1>1. ASSUME UNCHANGED <<run, call, wpc, wrun>> PROVE OwnershipInv'
  BY <1>0, <1>1
  DEF OwnershipInv, ExecutingIsRunning, ExclusiveExecution, HeldWasStarted, InsertsFresh,
      AbandonsWaiting, Executes, Holds, Inserts
<1>2. CASE Request
  BY <1>0, <1>2, RequestKeepsOwnership
<1>3. CASE \E c \in Callers : Handler(c)
  BY <1>0, <1>3, HandlerKeepsOwnership
<1>4. CASE \E w \in Workers : Consume(w) \/ AgentReturns(w)
  BY <1>0, <1>4, WorkerKeepsOwnership
<1>5. CASE \E r \in Runs : ReadGroup(r) \/ DeliverCancel(r)
  BY <1>1, <1>5 DEF ReadGroup, DeliverCancel
<1>6. CASE EnsureConsumerGroup \/ Tick \/ UNCHANGED vars
  BY <1>1, <1>6 DEF EnsureConsumerGroup, Tick, vars
<1>7. ASSUME NEW c \in Callers, CallFails(c) PROVE OwnershipInv'
  <2>1. /\ \A d \in Callers \ {c} : call'[d] = call[d]
        /\ call'[c].run = None /\ call'[c].step = "idle"
    BY <1>0, <1>7 DEF CallFails, Return, NoCall, TypeOK, CallTypeOK
  <2> QED
    BY <1>0, <1>7, <2>1, CallStepKeepsOwnership DEF CallFails, Inserts
<1>8. CASE Failure
  <2>1. CASE \E k \in Runs : ExpireCheckpoint(k)
    BY <1>1, <2>1 DEF ExpireCheckpoint
  <2> QED
    BY <1>0, <1>7, <1>8, <2>1, WorkerKeepsOwnership DEF Failure
<1> QED
  BY <1>2, <1>3, <1>4, <1>5, <1>6, <1>8 DEF Next

\* A run is executed by one worker at a time, however often its message is delivered
\* again, whichever calls fail and whatever clients request.
THEOREM ExecutionIsExclusive == Spec => []ExclusiveExecution
<1>1. OwnershipInv => ExclusiveExecution
  BY DEF OwnershipInv
<1> QED
  BY <1>1, InitOwnership, NextKeepsOwnership, PTL DEF Spec

\* Nothing changes the status of a run while a worker executes it, so the unguarded
\* UPDATE of FinishRun never overwrites an outcome.
THEOREM ExecutionOwnsItsRow == Spec => []ExecutingIsRunning
<1>1. OwnershipInv => ExecutingIsRunning
  BY DEF OwnershipInv
<1> QED
  BY <1>1, InitOwnership, NextKeepsOwnership, PTL DEF Spec
=============================================================================
