-------------------------- MODULE RunContractProofs --------------------------
(***************************************************************************)
(* Proof that RunLifecycle implements RunContract, as long as no database  *)
(* call fails where the code drops its error: for any number of overlapping*)
(* requests and workers, crashes, redeliveries and lost cancel messages.   *)
(***************************************************************************)
EXTENDS RunLifecycleProofs

RowsAreWritten == "dbErr" \notin Faults

\* What a step of RunLifecycle is in RunContract.
ContractStep == RC!Next \/ UNCHANGED <<Statuses, Owners, events>>

\* An outcome, once there, is only ever abandoned.
OutcomesStay == \A r \in Runs, k \in FinalStatuses : Settled(r, k) => Settled(r, k)'

-----------------------------------------------------------------------------
(* Steps of the contract *)

LEMMA InitContract == Init => RC!Init /\ ContractInv
<1> SUFFICES ASSUME Init PROVE RC!Init /\ ContractInv
  OBVIOUS
<1>1. Statuses = [r \in Runs |-> "none"]
  BY DEF Init, Statuses, NoRun
<1>2. Owners = {}
  BY DEF Init, Owners, Holds, Executes
<1>3. events = {}
  BY DEF Init
<1>4. AnnouncersSettled /\ AnnouncedIsSettled
  BY DEF Init, AnnouncersSettled, AnnouncedIsSettled, NoCall
<1> QED
  BY <1>1, <1>2, <1>3, <1>4, InitOwnership DEF RC!Init, ContractInv

\* Owners change only with the workers.
LEMMA OwnersStay ==
  ASSUME \A w \in Workers, r \in Runs : Holds(w, r)' <=> Holds(w, r)
  PROVE  Owners' = Owners
BY DEF Owners

LEMMA QuietStep ==
  ASSUME UNCHANGED events,
         \A r \in Runs : run'[r].status = run[r].status,
         \A w \in Workers, r \in Runs : Holds(w, r)' <=> Holds(w, r)
  PROVE  ContractStep
<1>1. Statuses' = Statuses
  BY DEF Statuses
<1> QED
  BY <1>1, OwnersStay DEF ContractStep

\* A step that moves one row on.
LEMMA StatusStep ==
  ASSUME TypeOK, NEW r \in Runs, NEW k,
         run'[r].status = k, \A q \in Runs \ {r} : run'[q] = run[q]
  PROVE  Statuses' = [Statuses EXCEPT ![r] = k]
BY DEF Statuses

LEMMA HandlerImplements ==
  ASSUME ContractInv, NEW c \in Callers, Handler(c)
  PROVE  ContractStep
<1> USE DEF dbVars, redisVars, workerVars, auxVars
<1>0. /\ TypeOK /\ OwnershipInv
      /\ call[c].step \notin {"idle", "deleteRow"} => call[c].run \in Runs
  BY DEF ContractInv, OwnershipInv, TypeOK, CallTypeOK
<1>1. \A w \in Workers, q \in Runs : Holds(w, q)' <=> Holds(w, q)
  BY DEF Holds, Executes, Handler, CreateSaveSession, CreateInsertRun, ResumeInsertRun, InsertRow,
         EnqueueRun, CancelQueuedRow, CancelSaveSession, CancelEmit, CancelSignal, AbandonRow,
         AbandonEmit, DeleteRow
<1>2. Owners' = Owners
  BY <1>1, OwnersStay
<1>3. CASE UNCHANGED <<run, events>>
  BY <1>1, <1>3, QuietStep
<1>4. ASSUME NEW kind, Inserts(c), InsertRow(c, kind) PROVE ContractStep
  <2> DEFINE r == call[c].run
  <2>1. r \in Runs /\ run[r].status = "none"
    BY <1>0, <1>4 DEF OwnershipInv, InsertsFresh, Inserts
  <2>2. run'[r].status = "queued" /\ \A q \in Runs \ {r} : run'[q] = run[q]
    BY <1>0, <1>4, <2>1 DEF InsertRow, TypeOK, DbTypeOK
  <2>3. Statuses' = [Statuses EXCEPT ![r] = "queued"] /\ Statuses[r] = "none"
    BY <1>0, <2>1, <2>2, StatusStep DEF Statuses
  <2>4. RC!Accept(r)
    BY <1>2, <1>4, <2>3 DEF RC!Accept, InsertRow
  <2> QED
    BY <2>1, <2>4 DEF ContractStep, RC!Next
<1>5. ASSUME NEW r \in Runs, run[r].status \in {"queued", "waiting_input", "cancelled"},
             run' = [run EXCEPT ![r].status = "cancelled", ![r].ckpt = None],
             UNCHANGED events
      PROVE  ContractStep
  <2>1. run'[r].status = "cancelled" /\ \A q \in Runs \ {r} : run'[q] = run[q]
    BY <1>0, <1>5 DEF TypeOK, DbTypeOK, RunRow
  <2>2. CASE run[r].status = "cancelled"
    BY <1>1, <1>5, <2>1, <2>2, QuietStep
  <2>3. CASE run[r].status # "cancelled"
    <3>1. /\ Statuses' = [Statuses EXCEPT ![r] = "cancelled"]
          /\ Statuses[r] \in {"queued", "waiting_input"}
      BY <1>0, <1>5, <2>1, <2>3, StatusStep DEF Statuses
    <3>2. RC!Withdraw(r)
      BY <1>2, <1>5, <3>1 DEF RC!Withdraw
    <3> QED
      BY <3>2 DEF ContractStep, RC!Next
  <2> QED
    BY <2>2, <2>3
<1>6. ASSUME NEW r \in Runs, run[r].status = "cancelled", UNCHANGED run,
             EmitFinalEvent(r, "cancelled")
      PROVE  ContractStep
  <2>1. CASE events' = events \cup {<<r, "cancelled">>}
    <3>1. Statuses' = Statuses /\ Statuses[r] = "cancelled"
      BY <1>6 DEF Statuses
    <3>2. RC!Announce(r, "cancelled")
      BY <1>2, <2>1, <3>1 DEF RC!Announce, RC!Settled
    <3> QED
      BY <3>2 DEF ContractStep, RC!Next, RC!Outcomes
  <2> QED
    BY <1>3, <1>6, <2>1 DEF EmitFinalEvent
<1>7. CASE CreateInsertRun(c) \/ ResumeInsertRun(c)
  BY <1>4, <1>7 DEF CreateInsertRun, ResumeInsertRun, Inserts
<1>8. CASE CreateSaveSession(c) \/ EnqueueRun(c) \/ CancelSaveSession(c) \/ CancelSignal(c) \/ DeleteRow(c)
  BY <1>3, <1>8 DEF CreateSaveSession, EnqueueRun, CancelSaveSession, CancelSignal, DeleteRow
<1>9. CASE CancelQueuedRow(c)
  BY <1>0, <1>3, <1>5, <1>9 DEF CancelQueuedRow, CancellableRow
<1>10. CASE AbandonRow(c)
  BY <1>0, <1>5, <1>10 DEF AbandonRow, OwnershipInv, AbandonsWaiting
<1>11. CASE CancelEmit(c) \/ AbandonEmit(c)
  BY <1>0, <1>6, <1>11 DEF CancelEmit, AbandonEmit, ContractInv, AnnouncersSettled
<1> QED
  BY <1>7, <1>8, <1>9, <1>10, <1>11 DEF Handler

LEMMA WorkerImplements ==
  ASSUME ContractInv, RowsAreWritten, NEW w \in Workers,
         Consume(w) \/ AgentReturns(w) \/ Crash(w)
  PROVE  ContractStep
<1> USE DEF dbVars, redisVars, workerVars, auxVars
<1>0. /\ TypeOK /\ OwnershipInv
      /\ DOMAIN wpc = Workers /\ DOMAIN wrun = Workers
      /\ wpc[w] # "poll" => wrun[w] \in Runs
  BY DEF ContractInv, OwnershipInv, TypeOK, WorkerTypeOK
<1>1. ASSUME NEW r \in Runs, TryStartRun(w, r) PROVE ContractStep
  <2>1. /\ run[r].status = "queued" /\ run'[r].status = "running" /\ UNCHANGED events
        /\ \A q \in Runs \ {r} : run'[q] = run[q]
    BY <1>0, <1>1 DEF TryStartRun, Startable, TypeOK, DbTypeOK, RunRow
  <2>2. Statuses' = [Statuses EXCEPT ![r] = "running"] /\ Statuses[r] = "queued"
    BY <1>0, <2>1, StatusStep DEF Statuses
  <2>3. /\ \A v \in Workers : ~Holds(v, r)
        /\ \A q \in Runs : ~Holds(w, q)
    BY <1>1, <2>1 DEF TryStartRun, Take, OwnershipInv, ContractInv, HeldWasStarted, Holds, Executes
  <2>4. \A v \in Workers, q \in Runs : Holds(v, q)' <=> Holds(v, q) \/ (v = w /\ q = r)
    <3>1. /\ \A v \in Workers \ {w} : wpc'[v] = wpc[v] /\ wrun'[v] = wrun[v]
          /\ wpc'[w] = "started" /\ wrun'[w] = r
      BY <1>0, <1>1 DEF TryStartRun, Take
    <3> QED
      BY <2>3, <3>1 DEF Holds, Executes
  <2>5. Owners' = Owners \cup {<<r, w>>}
    BY <2>4 DEF Owners
  <2>6. \A o \in Owners : o[1] # r /\ o[2] # w
    BY <2>3 DEF Owners
  <2>7. RC!Claim(r, w)
    BY <2>1, <2>2, <2>5, <2>6 DEF RC!Claim
  <2> QED
    BY <2>7 DEF ContractStep, RC!Next
<1>2. CASE FinishRow(w)
  <2> DEFINE r == wrun[w]  k == wout[w]
  <2>1. r \in Runs /\ k \in FinalStatuses /\ Executes(w, r) /\ Holds(w, r) /\ UNCHANGED events
    BY <1>0, <1>2 DEF FinishRow, TypeOK, WorkerTypeOK, Executes, Holds
  <2>2. /\ run[r].status = "running" /\ run'[r].status = k
        /\ \A q \in Runs \ {r} : run'[q] = run[q]
    BY <1>0, <1>2, <2>1
    DEF FinishRow, RowsAreWritten, TypeOK, DbTypeOK, RunRow, OwnershipInv, ExecutingIsRunning
  <2>3. Statuses' = [Statuses EXCEPT ![r] = k] /\ Statuses[r] = "running"
    BY <1>0, <2>1, <2>2, StatusStep DEF Statuses
  <2>4. \A v \in Workers, q \in Runs : Holds(v, q)' <=> Holds(v, q)
    BY <1>0, <1>2 DEF FinishRow, Holds, Executes
  <2>5. Owners' = Owners /\ <<r, w>> \in Owners
    BY <2>1, <2>4, OwnersStay DEF Owners
  <2>6. RC!Settle(r, w, k)
    BY <2>1, <2>3, <2>5 DEF RC!Settle
  <2> QED
    BY <2>1, <2>6 DEF ContractStep, RC!Next, RC!Outcomes, FinalStatuses
<1>3. ASSUME Announce(w) \/ Crash(w), Holds(w, wrun[w]) PROVE Owners' = Owners \ {<<wrun[w], w>>}
  <2>1. /\ \A v \in Workers \ {w} : wpc'[v] = wpc[v] /\ wrun'[v] = wrun[v]
        /\ wpc'[w] \in {"ack", "poll"}
    BY <1>0, <1>3 DEF Announce, Crash
  <2>2. \A v \in Workers, q \in Runs : Holds(v, q)' <=> Holds(v, q) /\ ~(v = w /\ q = wrun[w])
    BY <2>1 DEF Holds, Executes
  <2> QED
    BY <2>2 DEF Owners
<1>4. CASE Announce(w)
  <2> DEFINE r == wrun[w]  k == wout[w]
  <2>1. r \in Runs /\ k \in FinalStatuses /\ Holds(w, r) /\ Settled(r, k) /\ UNCHANGED run
    BY <1>0, <1>4
    DEF Announce, TypeOK, WorkerTypeOK, Holds, ContractInv, AnnouncersSettled
  <2>2. events' = events \cup {<<r, k>>}
    BY <1>4 DEF Announce, EmitFinalEvent, RowsAreWritten
  <2>3. Statuses' = Statuses /\ RC!Settled(r, k)
    BY <2>1 DEF Statuses, Settled, RC!Settled
  <2>4. RC!Announce(r, k)
    BY <1>3, <1>4, <2>1, <2>2, <2>3 DEF RC!Announce
  <2> QED
    BY <2>1, <2>4 DEF ContractStep, RC!Next, RC!Outcomes, FinalStatuses
<1>5. CASE Crash(w)
  <2>1. wrun[w] \in Runs /\ UNCHANGED <<run, events>>
    BY <1>0, <1>5 DEF Crash
  <2>2. Statuses' = Statuses
    BY <2>1 DEF Statuses
  <2>3. CASE Holds(w, wrun[w])
    <3>1. <<wrun[w], w>> \in Owners /\ Owners' = Owners \ {<<wrun[w], w>>}
      BY <1>3, <1>5, <2>1, <2>3 DEF Owners
    <3>2. RC!Release(wrun[w], w)
      BY <2>1, <2>2, <3>1 DEF RC!Release
    <3> QED
      BY <2>1, <3>2 DEF ContractStep, RC!Next
  <2>4. CASE ~Holds(w, wrun[w])
    <3>1. /\ \A v \in Workers \ {w} : wpc'[v] = wpc[v] /\ wrun'[v] = wrun[v]
          /\ wpc'[w] = "poll"
      BY <1>0, <1>5 DEF Crash
    <3>2. \A v \in Workers, q \in Runs : Holds(v, q)' <=> Holds(v, q)
      BY <2>4, <3>1 DEF Holds, Executes
    <3> QED
      BY <2>1, <3>2, QuietStep
  <2> QED
    BY <2>3, <2>4
<1>6. ASSUME NEW r \in Runs, SkipRun(w, r) PROVE ContractStep
  <2>1. /\ \A v \in Workers \ {w} : wpc'[v] = wpc[v] /\ wrun'[v] = wrun[v]
        /\ wpc'[w] = "ack" /\ wpc[w] = "poll"
    BY <1>0, <1>6 DEF SkipRun, Take
  <2>2. \A v \in Workers, q \in Runs : Holds(v, q)' <=> Holds(v, q)
    BY <2>1 DEF Holds, Executes
  <2> QED
    BY <1>6, <2>2, QuietStep DEF SkipRun
<1>7. ASSUME NEW old \in {"started", "exec", "save"}, NEW new \in {"exec", "save", "row"},
             wpc[w] = old, wpc' = [wpc EXCEPT ![w] = new], UNCHANGED <<run, events, wrun>>
      PROVE  ContractStep
  <2>1. (\A v \in Workers \ {w} : wpc'[v] = wpc[v]) /\ wpc'[w] = new
    BY <1>0, <1>7
  <2>2. \A v \in Workers, q \in Runs : Holds(v, q)' <=> Holds(v, q)
    BY <1>7, <2>1 DEF Holds, Executes
  <2> QED
    BY <1>7, <2>2, QuietStep
<1>8. CASE LoadSession(w) \/ AgentReturns(w) \/ SaveOutcome(w)
  BY <1>7, <1>8 DEF LoadSession, AgentReturns, SaveOutcome
<1>9. CASE Ack(w)
  <2>1. /\ \A v \in Workers \ {w} : wpc'[v] = wpc[v] /\ wrun'[v] = wrun[v]
        /\ wpc'[w] = "poll" /\ wpc[w] = "ack"
    BY <1>0, <1>9 DEF Ack
  <2>2. \A v \in Workers, q \in Runs : Holds(v, q)' <=> Holds(v, q)
    BY <2>1 DEF Holds, Executes
  <2> QED
    BY <1>9, <2>2, QuietStep DEF Ack
<1> QED
  BY <1>1, <1>2, <1>4, <1>5, <1>6, <1>8, <1>9 DEF Consume

LEMMA NextImplements ==
  ASSUME ContractInv, RowsAreWritten, [Next]_vars
  PROVE  ContractStep
<1> USE DEF dbVars, redisVars, workerVars, auxVars
<1>1. ASSUME UNCHANGED <<run, events, wpc, wrun>> PROVE ContractStep
  BY <1>1, QuietStep DEF Holds, Executes
<1>2. CASE Request
  BY <1>1, <1>2
  DEF Request, CreateSession, CreateCheck, ResumeCheck, CancelCheck, DeleteCheck
<1>3. CASE \E c \in Callers : Handler(c)
  BY <1>3, HandlerImplements
<1>4. CASE \E w \in Workers : Consume(w) \/ AgentReturns(w)
  BY <1>4, WorkerImplements
<1>5. CASE \/ \E r \in Runs : ReadGroup(r) \/ DeliverCancel(r)
           \/ EnsureConsumerGroup \/ Tick \/ UNCHANGED vars
  BY <1>1, <1>5 DEF ReadGroup, DeliverCancel, EnsureConsumerGroup, Tick, vars
<1>6. CASE Failure
  <2>1. \/ \E c \in Callers : CallFails(c)
        \/ \E k \in Runs : ExpireCheckpoint(k)
        \/ \E w \in Workers : Crash(w)
    BY <1>6 DEF Failure, RowsAreWritten, LoadRunFails, LoadSessionFails
  <2> QED
    BY <1>1, <2>1, WorkerImplements DEF CallFails, ExpireCheckpoint
<1> QED
  BY <1>2, <1>3, <1>4, <1>5, <1>6 DEF Next

-----------------------------------------------------------------------------
(* What is announced is settled *)

\* The contract's steps leave an outcome in place, or abandon a run that waits.
LEMMA StepsKeepOutcomes ==
  ASSUME TypeOK, ContractStep PROVE OutcomesStay
<1> SUFFICES ASSUME NEW r \in Runs, NEW k \in FinalStatuses, Settled(r, k)
             PROVE  Settled(r, k)'
  BY DEF OutcomesStay
<1>1. Statuses[r] = run[r].status /\ Statuses'[r] = run'[r].status /\ DOMAIN Statuses = Runs
  BY DEF Statuses
<1>2. \/ Statuses'[r] = Statuses[r]
      \/ Statuses[r] \in {"none", "queued", "running"}
      \/ Statuses[r] = "waiting_input" /\ Statuses'[r] = "cancelled"
  <2>1. ASSUME NEW q \in Runs, NEW j, Statuses' = [Statuses EXCEPT ![q] = j]
        PROVE  Statuses'[r] = IF r = q THEN j ELSE Statuses[r]
    BY <1>1, <2>1
  <2>2. CASE \E q \in Runs : RC!Accept(q) \/ RC!Withdraw(q)
    BY <2>1, <2>2 DEF RC!Accept, RC!Withdraw
  <2>3. CASE \E q \in Runs, w \in Workers : RC!Claim(q, w) \/ RC!Release(q, w)
    BY <2>1, <2>3 DEF RC!Claim, RC!Release
  <2>4. CASE \E q \in Runs, w \in Workers, j \in RC!Outcomes : RC!Settle(q, w, j)
    BY <2>1, <2>4 DEF RC!Settle
  <2>5. CASE \E q \in Runs, j \in RC!Outcomes : RC!Announce(q, j)
    BY <2>5 DEF RC!Announce
  <2> QED
    BY <2>2, <2>3, <2>4, <2>5 DEF ContractStep, RC!Next
<1> QED
  BY <1>1, <1>2 DEF Settled, FinalStatuses

\* Who announces next was about to, or has just written the outcome.
LEMMA AnnouncersStaySettled ==
  ASSUME ContractInv, RowsAreWritten, OwnershipInv', OutcomesStay, [Next]_vars
  PROVE  AnnouncersSettled'
<1> USE DEF dbVars, redisVars, workerVars, auxVars
<1>0. /\ TypeOK /\ TypeOK' /\ OwnershipInv
      /\ DOMAIN wpc = Workers /\ DOMAIN wrun = Workers /\ DOMAIN wout = Workers
      /\ DOMAIN call = Callers
  BY DEF ContractInv, OwnershipInv, TypeOK, WorkerTypeOK, CallTypeOK
<1>1. ASSUME NEW w \in Workers, wpc'[w] = "emit" PROVE Settled(wrun[w], wout[w])'
  <2>1. CASE wpc[w] = "emit" /\ wrun'[w] = wrun[w] /\ wout'[w] = wout[w]
    <3>1. wrun[w] \in Runs /\ wout[w] \in FinalStatuses
      BY <1>0, <2>1 DEF TypeOK, WorkerTypeOK
    <3> QED
      BY <2>1, <3>1 DEF ContractInv, AnnouncersSettled, OutcomesStay, Settled
  <2>2. CASE FinishRow(w)
    <3>1. wrun[w] \in Runs
      BY <1>0, <2>2 DEF FinishRow, TypeOK, WorkerTypeOK
    <3>2. run'[wrun[w]].status = wout[w] /\ UNCHANGED <<wrun, wout>>
      BY <1>0, <2>2, <3>1 DEF FinishRow, RowsAreWritten, TypeOK, DbTypeOK, RunRow
    <3> QED
      BY <3>2 DEF Settled
  <2>3. ASSUME NEW v \in Workers, Consume(v) \/ AgentReturns(v)
        PROVE  \/ wpc[w] = "emit" /\ wrun'[w] = wrun[w] /\ wout'[w] = wout[w]
               \/ FinishRow(w)
    <3>1. ASSUME NEW r \in Runs, TryStartRun(v, r) \/ SkipRun(v, r)
          PROVE  wpc[w] = "emit" /\ wrun'[w] = wrun[w] /\ wout'[w] = wout[w]
      BY <1>0, <1>1, <3>1 DEF TryStartRun, SkipRun, Take
    <3>2. CASE LoadSession(v) \/ AgentReturns(v) \/ SaveOutcome(v)
      BY <1>0, <1>1, <3>2 DEF LoadSession, AgentReturns, SaveOutcome
    <3>3. CASE FinishRow(v)
      BY <1>0, <1>1, <3>3 DEF FinishRow
    <3>4. CASE Announce(v) \/ Ack(v)
      BY <1>0, <1>1, <3>4 DEF Announce, Ack
    <3> QED
      BY <2>3, <3>1, <3>2, <3>3, <3>4 DEF Consume
  <2>4. ASSUME NEW v \in Workers, Crash(v)
        PROVE  wpc[w] = "emit" /\ wrun'[w] = wrun[w] /\ wout'[w] = wout[w]
    BY <1>0, <1>1, <2>4 DEF Crash
  <2>5. CASE UNCHANGED <<wpc, wrun, wout>>
    BY <1>1, <2>1, <2>5
  <2>6. CASE Request
    BY <2>5, <2>6
    DEF Request, CreateSession, CreateCheck, ResumeCheck, CancelCheck, DeleteCheck
  <2>7. CASE \E c \in Callers : Handler(c)
    BY <2>5, <2>7
    DEF Handler, CreateSaveSession, CreateInsertRun, ResumeInsertRun, InsertRow, EnqueueRun,
        CancelQueuedRow, CancelSaveSession, CancelEmit, CancelSignal, AbandonRow, AbandonEmit,
        DeleteRow
  <2>8. CASE \/ \E r \in Runs : ReadGroup(r) \/ DeliverCancel(r)
             \/ EnsureConsumerGroup \/ Tick \/ UNCHANGED vars
    BY <2>5, <2>8 DEF ReadGroup, DeliverCancel, EnsureConsumerGroup, Tick, vars
  <2>9. CASE Failure
    BY <2>1, <2>4, <2>5, <2>9
    DEF Failure, RowsAreWritten, LoadRunFails, LoadSessionFails, CallFails, ExpireCheckpoint
  <2> QED
    BY <2>1, <2>2, <2>3, <2>6, <2>7, <2>8, <2>9 DEF Next
<1>2. ASSUME NEW c \in Callers, call'[c].step \in {"cancelSave", "cancelEmit", "abandonEmit"}
      PROVE  run'[call'[c].run].status = "cancelled"
  <2>1. CASE /\ call[c].step \in {"cancelSave", "cancelEmit", "abandonEmit"}
             /\ call'[c].run = call[c].run
    <3>1. call[c].run \in Runs /\ run[call[c].run].status = "cancelled"
      BY <1>0, <2>1 DEF TypeOK, CallTypeOK, ContractInv, AnnouncersSettled
    <3>2. run'[call[c].run].status = "cancelled"
      BY <3>1 DEF OutcomesStay, Settled, FinalStatuses
    <3> QED
      BY <2>1, <3>2
  <2>2. ASSUME call'[c] = call[c] PROVE run'[call'[c].run].status = "cancelled"
    BY <1>2, <2>1, <2>2
  <2>3. CASE CancelQueuedRow(c) \/ AbandonRow(c)
    <3>1. call[c].run \in Runs /\ call[c].step \in {"cancelRow", "abandonRow"}
      BY <1>0, <2>3 DEF CancelQueuedRow, AbandonRow, TypeOK, CallTypeOK
    <3>2. \/ Return(c)
          \/ Goto(c, "signal")
          \/ /\ run' = [run EXCEPT ![call[c].run].status = "cancelled", ![call[c].run].ckpt = None]
             /\ call'[c].run = call[c].run
      BY <1>0, <2>3 DEF CancelQueuedRow, AbandonRow, Goto, TypeOK, CallTypeOK, Call
    <3>3. ~Return(c) /\ ~Goto(c, "signal")
      BY <1>0, <1>2 DEF Return, Goto, NoCall, TypeOK, CallTypeOK, Call
    <3> QED
      BY <1>0, <3>1, <3>2, <3>3 DEF TypeOK, DbTypeOK, RunRow
  <2>4. ASSUME NEW d \in Callers, Handler(d) PROVE run'[call'[c].run].status = "cancelled"
    <3>1. CASE d # c
      <4>1. call'[c] = call[c]
        BY <1>0, <2>4, <3>1
        DEF Handler, CreateSaveSession, CreateInsertRun, ResumeInsertRun, InsertRow, EnqueueRun,
            CancelQueuedRow, CancelSaveSession, CancelEmit, CancelSignal, AbandonRow, AbandonEmit,
            DeleteRow, Goto, Return
      <4> QED
        BY <2>2, <4>1
    <3>2. CASE CancelSaveSession(c)
      BY <1>0, <2>1, <3>2 DEF CancelSaveSession, Goto, TypeOK, CallTypeOK, Call
    <3>3. ASSUME NEW step \in CallSteps \ {"cancelSave", "cancelEmit", "abandonEmit"},
                 Goto(c, step) \/ Return(c)
          PROVE  FALSE
      BY <1>0, <1>2, <3>3 DEF Goto, Return, NoCall, TypeOK, CallTypeOK, Call
    <3>4. ~ \/ CreateSaveSession(c) \/ CreateInsertRun(c) \/ ResumeInsertRun(c) \/ EnqueueRun(c)
            \/ CancelEmit(c) \/ CancelSignal(c) \/ AbandonEmit(c) \/ DeleteRow(c)
      BY <3>3
      DEF CreateSaveSession, CreateInsertRun, ResumeInsertRun, InsertRow, EnqueueRun, CancelEmit,
          CancelSignal, AbandonEmit, DeleteRow, CallSteps
    <3> QED
      BY <2>3, <2>4, <3>1, <3>2, <3>4 DEF Handler
  <2>5. ASSUME NEW d \in Callers, NEW k, call' = [call EXCEPT ![d] = k],
               k.step \notin {"cancelSave", "cancelEmit", "abandonEmit"}
        PROVE  call'[c] = call[c]
    BY <1>0, <1>2, <2>5
  <2>6. CASE Request
    <3>1. ASSUME NEW d \in Callers, NEW s \in Sessions, NEW r \in Runs, CreateCheck(d, s, r)
          PROVE  call'[c] = call[c]
      BY <2>5, <3>1 DEF CreateCheck, NoCall
    <3>2. ASSUME NEW d \in Callers, NEW p \in Runs, NEW r \in Runs, ResumeCheck(d, p, r)
          PROVE  call'[c] = call[c]
      BY <2>5, <3>2 DEF ResumeCheck, NoCall
    <3>3. ASSUME NEW d \in Callers, NEW r \in Runs, CancelCheck(d, r)
          PROVE  call'[c] = call[c]
      BY <2>5, <3>3 DEF CancelCheck, NoCall
    <3>4. ASSUME NEW d \in Callers, NEW s \in Sessions, DeleteCheck(d, s)
          PROVE  call'[c] = call[c]
      BY <2>5, <3>4 DEF DeleteCheck, NoCall
    <3>5. ASSUME NEW s \in Sessions, CreateSession(s)
          PROVE  call'[c] = call[c]
      BY <3>5 DEF CreateSession
    <3> QED
      BY <2>2, <2>6, <3>1, <3>2, <3>3, <3>4, <3>5 DEF Request
  <2>7. CASE UNCHANGED call
    BY <2>2, <2>7
  <2>8. CASE \E w \in Workers : Consume(w) \/ AgentReturns(w) \/ Crash(w)
    BY <2>7, <2>8
    DEF Consume, TryStartRun, SkipRun, LoadSession, AgentReturns, SaveOutcome, FinishRow,
        Announce, Ack, Crash
  <2>9. CASE \/ \E r \in Runs : ReadGroup(r) \/ DeliverCancel(r)
             \/ EnsureConsumerGroup \/ Tick \/ UNCHANGED vars
    BY <2>7, <2>9 DEF ReadGroup, DeliverCancel, EnsureConsumerGroup, Tick, vars
  <2>10. CASE Failure
    <3>1. ASSUME NEW d \in Callers, CallFails(d) PROVE call'[c] = call[c]
      BY <1>0, <1>2, <3>1 DEF CallFails, Return, NoCall
    <3> QED
      BY <2>2, <2>7, <2>8, <2>10, <3>1
      DEF Failure, RowsAreWritten, LoadRunFails, LoadSessionFails, ExpireCheckpoint
  <2> QED
    BY <2>4, <2>6, <2>8, <2>9, <2>10 DEF Next
<1> QED
  BY <1>1, <1>2 DEF AnnouncersSettled

LEMMA NewEventsSettled ==
  ASSUME ContractInv, RowsAreWritten, OutcomesStay, ContractStep
  PROVE  AnnouncedIsSettled'
<1>1. ASSUME NEW r \in Runs, NEW k \in FinalStatuses, <<r, k>> \in events'
      PROVE  Settled(r, k)'
  <2>1. <<r, k>> \in events \/ Settled(r, k)
    <3>1. CASE \E q \in Runs, j \in RC!Outcomes : RC!Announce(q, j)
      BY <1>1, <3>1 DEF RC!Announce, RC!Settled, Settled, Statuses
    <3>2. CASE UNCHANGED events
      BY <1>1, <3>2
    <3> QED
      BY <3>1, <3>2
      DEF ContractStep, RC!Next, RC!Accept, RC!Withdraw, RC!Claim, RC!Release, RC!Settle
  <2>2. Settled(r, k)
    BY <2>1 DEF ContractInv, AnnouncedIsSettled
  <2> QED
    BY <2>2 DEF OutcomesStay
<1> QED
  BY <1>1 DEF AnnouncedIsSettled

LEMMA NextKeepsContract ==
  ASSUME RowsAreWritten
  PROVE  ContractInv /\ [Next]_vars => ContractInv' /\ ContractStep
<1> SUFFICES ASSUME ContractInv, [Next]_vars PROVE ContractInv' /\ ContractStep
  OBVIOUS
<1>1. OwnershipInv' /\ TypeOK
  BY NextKeepsOwnership DEF ContractInv, OwnershipInv
<1>2. ContractStep
  BY NextImplements
<1>3. OutcomesStay
  BY <1>1, <1>2, StepsKeepOutcomes
<1>4. AnnouncersSettled'
  BY <1>1, <1>3, AnnouncersStaySettled
<1>5. AnnouncedIsSettled'
  BY <1>2, <1>3, NewEventsSettled
<1> QED
  BY <1>1, <1>2, <1>4, <1>5 DEF ContractInv

\* What a client was told is what the row says, up to the abandonment of a run that waits.
THEOREM AnnouncementsAreTrue ==
  ASSUME RowsAreWritten PROVE Spec => []AnnouncedIsSettled
<1>1. Init => ContractInv
  BY InitContract
<1>2. ContractInv /\ [Next]_vars => ContractInv'
  BY NextKeepsContract
<1>3. ContractInv => AnnouncedIsSettled
  BY DEF ContractInv
<1> QED
  BY <1>1, <1>2, <1>3, PTL DEF Spec

\* RunLifecycle implements RunContract: its runs move along the contract's statuses, are
\* claimed once, and are settled by their owner only.
THEOREM RunsKeepContract ==
  ASSUME RowsAreWritten PROVE Spec => ImplementsRunContract
<1>1. Init => RC!Init /\ ContractInv
  BY InitContract
<1>2. ContractInv /\ [Next]_vars => ContractInv'
  BY NextKeepsContract
<1>3. ContractInv /\ [Next]_vars => [RC!Next]_(RC!vars)
  BY NextKeepsContract DEF ContractStep, RC!vars
<1> QED
  BY <1>1, <1>2, <1>3, PTL DEF Spec, ImplementsRunContract, RC!Spec
=============================================================================
