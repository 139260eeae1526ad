-------------------------- MODULE RunDeliveryProofs --------------------------
(***************************************************************************)
(* Proof that no queued run is lost, as long as database calls do not fail *)
(* where the code drops their error, requests run to their end, and the    *)
(* consumer group exists before the first request: whatever workers crash, *)
(* acknowledgements fail, cancel messages are lost or checkpoints expire.  *)
(***************************************************************************)
EXTENDS RunLifecycleProofs

Reliable == Faults \cap {"dbErr", "apiErr", "lateGroup"} = {}

\* A row is never taken back: what was inserted stays, what was started stays started.
RowsAdvance ==
  \A r \in Runs : /\ run'[r].status = "none" => run[r].status = "none"
                  /\ run'[r].status = "queued" => run[r].status = "queued"

\* A request that is about to send its message is so before and after the step.
SendersStay ==
  \A c \in Callers : "enqueue" \in {call[c].step, call'[c].step} => call'[c] = call[c]

\* The messages on their way stay there, except those of runs that are not queued.
MessagesStay ==
  /\ group' = group
  /\ (stream \cup pending)' \subseteq stream \cup pending
  /\ \A r \in Runs : r \in stream \cup pending /\ run'[r].status = "queued" =>
       r \in (stream \cup pending)'

AcksSettled ==
  \A w \in Workers : wpc[w] = "ack" => run[wrun[w]].status \notin {"none", "queued"}

-----------------------------------------------------------------------------
LEMMA InitDelivery == ASSUME Reliable PROVE Init => DeliveryInv
<1> SUFFICES ASSUME Init PROVE DeliveryInv
  OBVIOUS
<1>1. "lateGroup" \notin Faults
  BY DEF Reliable
<1>2. group
  BY <1>1 DEF Init
<1>3. MessagesHaveRows
  BY DEF Init, MessagesHaveRows, NoCall
<1>4. NoLostRun
  BY DEF Init, NoLostRun, NoRun
<1> QED
  BY <1>2, <1>3, <1>4, InitOwnership DEF DeliveryInv

\* A step that only moves messages, rows and workers on.
LEMMA AdvanceKeepsDelivery ==
  ASSUME DeliveryInv, OwnershipInv', RowsAdvance, SendersStay, MessagesStay, AcksSettled'
  PROVE  DeliveryInv'
<1>0. TypeOK
  BY DEF DeliveryInv, OwnershipInv
<1>1. stream \cup pending \subseteq Runs /\ \A c \in Callers : call[c].step = "enqueue" => call[c].run \in Runs
  BY <1>0 DEF TypeOK, RedisTypeOK, CallTypeOK
<1>2. MessagesHaveRows'
  BY <1>1
  DEF DeliveryInv, MessagesHaveRows, RowsAdvance, SendersStay, MessagesStay, AcksSettled
<1>3. NoLostRun'
  BY DEF DeliveryInv, NoLostRun, RowsAdvance, SendersStay, MessagesStay
<1> QED
  BY <1>2, <1>3 DEF DeliveryInv, MessagesStay

\* A step of a request that does not send, or of no request.
LEMMA AcksStay ==
  ASSUME DeliveryInv, RowsAdvance, UNCHANGED <<wpc, wrun>>
  PROVE  AcksSettled'
<1>1. \A w \in Workers : wpc[w] = "ack" => wrun[w] \in Runs
  BY DEF DeliveryInv, OwnershipInv, TypeOK, WorkerTypeOK
<1> QED
  BY <1>1 DEF DeliveryInv, MessagesHaveRows, RowsAdvance, AcksSettled

LEMMA RequestKeepsDelivery ==
  ASSUME DeliveryInv, OwnershipInv', Request
  PROVE  DeliveryInv'
<1> USE DEF dbVars, redisVars, workerVars, auxVars
<1>0. DOMAIN call = Callers
  BY DEF DeliveryInv, OwnershipInv, TypeOK, CallTypeOK
<1>1. UNCHANGED <<run, group, stream, pending, wpc, wrun>>
  BY DEF Request, CreateSession, CreateCheck, ResumeCheck, CancelCheck, DeleteCheck
<1>2. RowsAdvance /\ MessagesStay
  BY <1>1 DEF RowsAdvance, MessagesStay
<1>3. ASSUME NEW c \in Callers, call[c].step = "idle", NEW k, k.step # "enqueue",
             call' = [call EXCEPT ![c] = k]
      PROVE  SendersStay
  BY <1>0, <1>3 DEF SendersStay
<1>4. ASSUME NEW s \in Sessions, CreateSession(s) PROVE SendersStay
  BY <1>4 DEF CreateSession, SendersStay
<1>5. ASSUME NEW c \in Callers, NEW s \in Sessions, NEW r \in Runs, CreateCheck(c, s, r)
      PROVE  SendersStay
  <2> DEFINE k == [NoCall EXCEPT !.step = "saveSession", !.sess = s, !.run = r,
                                 !.ckpt = r, !.at = clock]
  <2>1. k.step = "saveSession" /\ call' = [call EXCEPT ![c] = k] /\ call[c].step = "idle"
    BY <1>5 DEF CreateCheck, NoCall
  <2> HIDE DEF k
  <2> QED
    BY <1>3, <2>1
<1>6. ASSUME NEW c \in Callers, NEW p \in Runs, NEW r \in Runs, ResumeCheck(c, p, r)
      PROVE  SendersStay
  <2> DEFINE k == [NoCall EXCEPT !.step = "insertResume", !.sess = run[p].sess, !.run = r,
                                 !.parent = p, !.ckpt = ResumeCheckpoint(run[p].sess, r),
                                 !.at = clock]
  <2>1. k.step = "insertResume" /\ call' = [call EXCEPT ![c] = k] /\ call[c].step = "idle"
    BY <1>6 DEF ResumeCheck, NoCall
  <2> HIDE DEF k
  <2> QED
    BY <1>3, <2>1
<1>7. ASSUME NEW c \in Callers, NEW r \in Runs, CancelCheck(c, r)
      PROVE  SendersStay
  <2> DEFINE k == [NoCall EXCEPT
                     !.step = IF run[r].status = "queued" THEN "cancelRow" ELSE "signal",
                     !.sess = run[r].sess, !.run = r, !.ckpt = run[r].ckpt]
  <2>1. /\ k.step \in {"cancelRow", "signal"} /\ call[c].step = "idle"
        /\ call' = [call EXCEPT ![c] = k]
    BY <1>7 DEF CancelCheck, NoCall
  <2> HIDE DEF k
  <2> QED
    BY <1>3, <2>1
<1>8. ASSUME NEW c \in Callers, NEW s \in Sessions, DeleteCheck(c, s)
      PROVE  SendersStay
  <2> DEFINE j == [NoCall EXCEPT !.step = "deleteRow", !.sess = s]
             k(l) == [NoCall EXCEPT !.step = IF run[l].status = "waiting_input"
                                             THEN "abandonRow" ELSE "deleteRow",
                                    !.sess = s, !.run = l, !.ckpt = run[l].ckpt]
  <2>1. j.step = "deleteRow" /\ \A l : k(l).step \in {"abandonRow", "deleteRow"}
    BY DEF NoCall
  <2>2. /\ call[c].step = "idle"
        /\ \/ call' = [call EXCEPT ![c] = j]
           \/ \E l \in LastRuns(s) : call' = [call EXCEPT ![c] = k(l)]
    BY <1>8 DEF DeleteCheck
  <2> HIDE DEF j, k
  <2> QED
    BY <1>3, <2>1, <2>2
<1>9. SendersStay
  BY <1>4, <1>5, <1>6, <1>7, <1>8 DEF Request
<1> QED
  BY <1>1, <1>2, <1>9, AcksStay, AdvanceKeepsDelivery

LEMMA HandlerKeepsDelivery ==
  ASSUME DeliveryInv, OwnershipInv', NEW c \in Callers, Handler(c)
  PROVE  DeliveryInv'
<1> USE DEF dbVars, redisVars, workerVars, auxVars
<1>0. /\ TypeOK /\ OwnershipInv /\ DOMAIN call = Callers
      /\ call[c].step # "idle" /\ call[c].step # "deleteRow" => call[c].run \in Runs
  BY DEF DeliveryInv, OwnershipInv, TypeOK, CallTypeOK
<1>1. UNCHANGED <<wpc, wrun>>
  BY DEF Handler, CreateSaveSession, CreateInsertRun, ResumeInsertRun, InsertRow, EnqueueRun,
         CancelQueuedRow, CancelSaveSession, CancelEmit, CancelSignal, AbandonRow, AbandonEmit,
         DeleteRow
<1>2. ASSUME NEW kind, Inserts(c), InsertRow(c, kind) PROVE DeliveryInv'
  <2> DEFINE r == call[c].run
  <2>1. r \in Runs /\ run[r].status = "none"
    BY <1>0, <1>2 DEF OwnershipInv, InsertsFresh, Inserts
  <2>2. /\ run'[r].status = "queued" /\ \A q \in Runs \ {r} : run'[q] = run[q]
        /\ UNCHANGED <<group, stream, pending>>
    BY <1>0, <1>2, <2>1 DEF InsertRow, TypeOK, DbTypeOK
  <2>3. /\ call'[c].step = "enqueue" /\ call'[c].run = r
        /\ \A d \in Callers \ {c} : call'[d] = call[d]
    BY <1>0, <1>2 DEF InsertRow, Goto, TypeOK, CallTypeOK, Call
  <2>4. /\ stream \cup pending \subseteq Runs
        /\ \A d \in Callers : call[d].step = "enqueue" => call[d].run \in Runs
        /\ \A w \in Workers : wpc[w] = "ack" => wrun[w] \in Runs
    BY <1>0 DEF TypeOK, RedisTypeOK, CallTypeOK, WorkerTypeOK
  <2>5. MessagesHaveRows'
    BY <1>1, <2>1, <2>2, <2>3, <2>4 DEF DeliveryInv, MessagesHaveRows
  <2>6. NoLostRun'
    BY <1>2, <2>2, <2>3 DEF DeliveryInv, NoLostRun, Inserts
  <2> QED
    BY <2>2, <2>5, <2>6 DEF DeliveryInv
<1>3. CASE EnqueueRun(c)
  <2>1. /\ stream' = stream \cup {call[c].run} /\ UNCHANGED <<run, group, pending>>
        /\ call'[c].step = "idle" /\ \A d \in Callers \ {c} : call'[d] = call[d]
        /\ call[c].step = "enqueue"
    BY <1>0, <1>3 DEF EnqueueRun, Return, NoCall
  <2>2. MessagesHaveRows'
    BY <1>1, <2>1 DEF DeliveryInv, MessagesHaveRows
  <2>3. NoLostRun'
    BY <2>1 DEF DeliveryInv, NoLostRun
  <2> QED
    BY <2>1, <2>2, <2>3 DEF DeliveryInv
<1>4. ASSUME RowsAdvance, UNCHANGED <<group, stream, pending>>, call[c].step # "enqueue",
             NEW step \in CallSteps \ {"enqueue"}, Goto(c, step) \/ Return(c)
      PROVE  DeliveryInv'
  <2>1. /\ call'[c].step # "enqueue"
        /\ \A d \in Callers \ {c} : call'[d] = call[d]
    BY <1>0, <1>4 DEF Goto, Return, NoCall, TypeOK, CallTypeOK, Call
  <2>2. SendersStay /\ MessagesStay
    BY <1>4, <2>1 DEF SendersStay, MessagesStay
  <2> QED
    BY <1>1, <1>4, <2>2, AcksStay, AdvanceKeepsDelivery
<1>5. ASSUME UNCHANGED run PROVE RowsAdvance
  BY <1>5 DEF RowsAdvance
<1>6. ASSUME NEW r \in Runs,
             run[r].status # "none",
             run' = [run EXCEPT ![r].status = "cancelled", ![r].ckpt = None]
      PROVE  RowsAdvance
  BY <1>0, <1>6 DEF RowsAdvance, TypeOK, DbTypeOK, RunRow
<1>7. CASE CreateInsertRun(c) \/ ResumeInsertRun(c)
  BY <1>2, <1>7 DEF CreateInsertRun, ResumeInsertRun, Inserts
<1>8. CASE CreateSaveSession(c) \/ CancelSaveSession(c) \/ AbandonEmit(c)
  BY <1>4, <1>5, <1>8 DEF CreateSaveSession, CancelSaveSession, AbandonEmit, CallSteps
<1>9. CASE CancelEmit(c) \/ CancelSignal(c) \/ DeleteRow(c)
  BY <1>4, <1>5, <1>9 DEF CancelEmit, CancelSignal, DeleteRow, CallSteps
<1>10. CASE CancelQueuedRow(c)
  <2>1. call[c].run \in Runs
    BY <1>0, <1>10 DEF CancelQueuedRow
  <2>2. RowsAdvance
    BY <1>5, <1>6, <1>10, <2>1 DEF CancelQueuedRow, CancellableRow
  <2> QED
    BY <1>4, <1>10, <2>2 DEF CancelQueuedRow, CallSteps
<1>11. CASE AbandonRow(c)
  <2>1. call[c].run \in Runs /\ run[call[c].run].status # "none"
    BY <1>0, <1>11 DEF AbandonRow, OwnershipInv, AbandonsWaiting
  <2>2. RowsAdvance
    BY <1>6, <1>11, <2>1 DEF AbandonRow
  <2> QED
    BY <1>4, <1>11, <2>2 DEF AbandonRow, CallSteps
<1> QED
  BY <1>3, <1>7, <1>8, <1>9, <1>10, <1>11 DEF Handler

LEMMA WorkerKeepsDelivery ==
  ASSUME DeliveryInv, OwnershipInv', NEW w \in Workers,
         Consume(w) \/ AgentReturns(w) \/ Crash(w)
  PROVE  DeliveryInv'
<1> USE DEF dbVars, redisVars, workerVars, auxVars
<1>0. /\ TypeOK /\ OwnershipInv
      /\ DOMAIN wpc = Workers /\ DOMAIN wrun = Workers
      /\ \A v \in Workers : wpc[v] # "poll" => wrun[v] \in Runs
  BY DEF DeliveryInv, OwnershipInv, TypeOK, WorkerTypeOK
<1>1. /\ UNCHANGED <<call, group, stream>>
      /\ ~Ack(w) => UNCHANGED pending
  BY DEF Consume, TryStartRun, SkipRun, LoadSession, AgentReturns, SaveOutcome, FinishRow,
         Announce, Ack, Crash
<1>2. /\ \A v \in Workers \ {w} : wpc'[v] = wpc[v] /\ wrun'[v] = wrun[v]
      /\ wpc'[w] = "ack" =>
           \/ Announce(w) /\ wrun'[w] = wrun[w]
           \/ \E r \in Runs : SkipRun(w, r) /\ wrun'[w] = r /\ r \in pending
  <2>1. CASE \E r \in Runs : TryStartRun(w, r) \/ SkipRun(w, r)
    BY <1>0, <2>1 DEF TryStartRun, SkipRun, Take
  <2>2. CASE LoadSession(w) \/ AgentReturns(w) \/ SaveOutcome(w) \/ FinishRow(w) \/ Announce(w)
    BY <1>0, <2>2 DEF LoadSession, AgentReturns, SaveOutcome, FinishRow, Announce
  <2>3. CASE Ack(w) \/ Crash(w)
    BY <1>0, <2>3 DEF Ack, Crash
  <2> QED
    BY <2>1, <2>2, <2>3 DEF Consume
<1>3. RowsAdvance
  <2>1. CASE UNCHANGED run
    BY <2>1 DEF RowsAdvance
  <2>2. ASSUME NEW r \in Runs, TryStartRun(w, r) PROVE RowsAdvance
    BY <1>0, <2>2 DEF TryStartRun, RowsAdvance, TypeOK, DbTypeOK, RunRow
  <2>3. CASE FinishRow(w)
    <3>1. wrun[w] \in Runs /\ wout[w] \in FinalStatuses
      BY <1>0, <2>3 DEF FinishRow, TypeOK, WorkerTypeOK
    <3> QED
      BY <1>0, <2>3, <3>1 DEF FinishRow, RowsAdvance, TypeOK, DbTypeOK, RunRow, FinalStatuses
  <2> QED
    BY <2>1, <2>2, <2>3
    DEF Consume, SkipRun, LoadSession, AgentReturns, SaveOutcome, Announce, Ack, Crash
<1>4. SendersStay
  BY <1>1 DEF SendersStay
<1>5. MessagesStay
  <2>1. CASE ~Ack(w)
    BY <1>1, <2>1 DEF MessagesStay
  <2>2. CASE Ack(w)
    <3>1. run[wrun[w]].status \notin {"none", "queued"} /\ UNCHANGED run
      BY <2>2 DEF Ack, DeliveryInv, MessagesHaveRows
    <3> QED
      BY <1>1, <2>2, <3>1 DEF Ack, MessagesStay
  <2> QED
    BY <2>1, <2>2
<1>6. AcksSettled'
  <2>1. ASSUME NEW v \in Workers \ {w}, wpc'[v] = "ack"
        PROVE  run'[wrun'[v]].status \notin {"none", "queued"}
    BY <1>0, <1>2, <1>3, <2>1 DEF RowsAdvance, DeliveryInv, MessagesHaveRows
  <2>2. CASE Announce(w)
    <3>1. run[wrun[w]].status \notin {"none", "queued"} /\ UNCHANGED <<run, wrun>>
      BY <1>0, <2>2 DEF Announce, OwnershipInv, HeldWasStarted, Holds
    <3> QED
      BY <2>1, <3>1 DEF AcksSettled
  <2>3. ASSUME NEW r \in Runs, SkipRun(w, r), wrun'[w] = r, r \in pending
        PROVE  run'[wrun'[w]].status \notin {"none", "queued"}
    BY <2>3 DEF SkipRun, Startable, DeliveryInv, MessagesHaveRows
  <2> QED
    BY <1>2, <2>1, <2>2, <2>3 DEF AcksSettled
<1> QED
  BY <1>3, <1>4, <1>5, <1>6, AdvanceKeepsDelivery

LEMMA NextKeepsDelivery ==
  ASSUME Reliable PROVE DeliveryInv /\ [Next]_vars => DeliveryInv'
<1> SUFFICES ASSUME DeliveryInv, [Next]_vars PROVE DeliveryInv'
  OBVIOUS
<1> USE DEF dbVars, redisVars, workerVars, auxVars
<1>0. OwnershipInv' /\ OwnershipInv
  BY NextKeepsOwnership DEF DeliveryInv
<1>1. ASSUME UNCHANGED <<run, call, wpc, wrun, group>>,
             (stream \cup pending)' = stream \cup pending
      PROVE  DeliveryInv'
  <2>1. RowsAdvance /\ SendersStay /\ MessagesStay
    BY <1>1 DEF RowsAdvance, SendersStay, MessagesStay
  <2> QED
    BY <1>0, <1>1, <2>1, AcksStay, AdvanceKeepsDelivery
<1>2. CASE Request
  BY <1>0, <1>2, RequestKeepsDelivery
<1>3. CASE \E c \in Callers : Handler(c)
  BY <1>0, <1>3, HandlerKeepsDelivery
<1>4. CASE \E w \in Workers : Consume(w) \/ AgentReturns(w)
  BY <1>0, <1>4, WorkerKeepsDelivery
<1>5. CASE \E r \in Runs : ReadGroup(r) \/ DeliverCancel(r)
  BY <1>1, <1>5 DEF ReadGroup, DeliverCancel
<1>6. CASE EnsureConsumerGroup
  BY <1>6 DEF EnsureConsumerGroup, DeliveryInv
<1>7. CASE Tick \/ UNCHANGED vars
  BY <1>1, <1>7 DEF Tick, vars
<1>8. CASE Failure
  <2>1. (\E w \in Workers : Crash(w)) \/ (\E k \in Runs : ExpireCheckpoint(k))
    BY <1>8 DEF Failure, Reliable, CallFails, LoadRunFails, LoadSessionFails
  <2> QED
    BY <1>0, <1>1, <2>1, WorkerKeepsDelivery DEF ExpireCheckpoint
<1> QED
  BY <1>2, <1>3, <1>4, <1>5, <1>6, <1>7, <1>8 DEF Next

\* No queued run is lost: its message is on the stream or pending, or the request that
\* inserted it is about to send it.
THEOREM QueuedRunsKeepTheirMessage ==
  ASSUME Reliable PROVE Spec => []NoLostRun
<1>1. DeliveryInv => NoLostRun
  BY DEF DeliveryInv
<1>2. Init => DeliveryInv
  BY InitDelivery
<1>3. DeliveryInv /\ [Next]_vars => DeliveryInv'
  BY NextKeepsDelivery
<1> QED
  BY <1>1, <1>2, <1>3, PTL DEF Spec
=============================================================================
