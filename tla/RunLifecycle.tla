---------------------------- MODULE RunLifecycle ----------------------------
(***************************************************************************)
(* The life of a run in the agent platform: the rows of agent_sessions and *)
(* agent_runs, the Redis stream that carries run ids to the workers, the   *)
(* checkpoint store, the cancel channel, the worker loop that executes a   *)
(* run, and the API requests (CreateRun, ResumeRun, CancelRun,             *)
(* DeleteSession) that race with it.  A step ends where the code writes    *)
(* what another actor reads, and every step interleaves with the other     *)
(* workers and requests.  The reads a request begins with are one step, and *)
(* the deletion of a checkpoint goes with the write that follows it.       *)
(*                                                                         *)
(* A checkpoint id is generated once per query run, so checkpoints are     *)
(* named by the query run that owns them.                                  *)
(***************************************************************************)
EXTENDS Naturals, FiniteSets

CONSTANTS Sessions,      \* session ids
          Runs,          \* run ids, and the ids of the checkpoints they own
          Workers,       \* stream consumers, each in a process of its own
          Callers,       \* API request goroutines
          None,          \* the empty id
          Faults,        \* which failures may happen, see FaultKinds
          SerialClients, \* clients keep to the page's discipline, see MayCall
          MaxClock,      \* bound on started_at
          MaxCrashes     \* bound on worker crashes

\* dbErr: a database call fails where the code goes on without it;  redisErr: so does
\* XACK or the deletion of a checkpoint;  apiErr: a request stops half-way (its error
\* return, or a crash of the API process);  crash: a worker process dies;  lostCancel: a
\* pub/sub message is not received;  expire: a checkpoint's TTL passes;  lateGroup: the
\* API takes requests before the first worker has created the consumer group.
FaultKinds == {"dbErr", "apiErr", "redisErr", "crash", "lostCancel", "expire", "lateGroup"}

ASSUME LifecycleAssumption ==
  /\ None \notin Runs /\ None \notin Sessions
  /\ Faults \subseteq FaultKinds
  /\ SerialClients \in BOOLEAN
  /\ MaxClock \in Nat /\ MaxCrashes \in Nat

VARIABLES
  \* database
  sess,      \* agent_sessions: status and active_checkpoint_id
  run,       \* agent_runs
  events,    \* the final events of agent_run_events, as <<run, status>>
  \* Redis
  group,     \* the consumer group exists
  stream,    \* messages of the group not yet delivered
  pending,   \* messages delivered to a consumer and not acknowledged
  ckpts,     \* checkpoints present in the store
  cancels,   \* cancel requests published and not yet received
  \* worker processes
  live,      \* liveRuns: absent, live, or live with cancelRequested set
  wpc, wrun, \* where a worker is, and the run it handles
  wout,      \* the status finishRun derived
  \* requests in flight
  call,
  \* time, and the number of crashes so far
  clock, crashes

dbVars     == <<sess, run, events>>
redisVars  == <<group, stream, pending, ckpts, cancels>>
workerVars == <<live, wpc, wrun, wout>>
auxVars    == <<clock, crashes>>
vars == <<dbVars, redisVars, workerVars, call, auxVars>>

-----------------------------------------------------------------------------
(* Types *)

SessionStatuses == {"none", "active", "done", "deleted"}
FinalStatuses   == {"waiting_input", "done", "failed", "cancelled"}
RunStatuses     == {"none", "queued", "running"} \cup FinalStatuses
WorkerSteps     == {"poll", "started", "exec", "save", "row", "emit", "ack"}
CallSteps       == {"idle", "saveSession", "insertRun", "insertResume", "enqueue",
                    "cancelRow", "cancelSave", "cancelEmit", "signal",
                    "abandonRow", "abandonEmit", "deleteRow"}

NoRun  == [status |-> "none", kind |-> "query", sess |-> None, parent |-> None,
           ckpt |-> None, at |-> 0]
NoCall == [step |-> "idle", sess |-> None, run |-> None, parent |-> None,
           ckpt |-> None, at |-> 0]

RunRow == [status: RunStatuses, kind: {"query", "resume"}, sess: Sessions \cup {None},
           parent: Runs \cup {None}, ckpt: Runs \cup {None}, at: 0..MaxClock]
SessionRow == [status: SessionStatuses, ckpt: Runs \cup {None}]
Call   == [step: CallSteps, sess: Sessions \cup {None}, run: Runs \cup {None},
           parent: Runs \cup {None}, ckpt: Runs \cup {None}, at: 0..MaxClock]

DbTypeOK ==
  /\ sess \in [Sessions -> SessionRow]
  /\ run \in [Runs -> RunRow]
  /\ events \in SUBSET (Runs \X FinalStatuses)

RedisTypeOK ==
  /\ group \in BOOLEAN
  /\ stream \in SUBSET Runs
  /\ pending \in SUBSET Runs
  /\ ckpts \in SUBSET (Runs \cup {None})
  /\ cancels \in SUBSET Runs

WorkerTypeOK ==
  /\ live \in [Runs -> {"absent", "live", "cancelRequested"}]
  /\ wpc \in [Workers -> WorkerSteps]
  /\ wrun \in [Workers -> Runs \cup {None}]
  /\ wout \in [Workers -> FinalStatuses \cup {None}]
  /\ \A w \in Workers :
       /\ wpc[w] # "poll" => wrun[w] \in Runs
       /\ wpc[w] \in {"save", "row", "emit"} => wout[w] \in FinalStatuses

CallTypeOK ==
  /\ call \in [Callers -> Call]
  /\ \A c \in Callers :
       /\ call[c].step # "idle" => call[c].sess \in Sessions
       /\ call[c].step \notin {"idle", "deleteRow"} => call[c].run \in Runs

\* Every row has a session, and so have the rows that are written without a look at them.
RowsHaveSessions ==
  /\ \A r \in Runs : run[r].status # "none" => run[r].sess \in Sessions
  /\ \A w \in Workers :
       wpc[w] \in {"started", "exec", "save", "row"} => run[wrun[w]].sess \in Sessions
  /\ \A c \in Callers : call[c].step = "abandonRow" => run[call[c].run].sess \in Sessions

\* Every store, request and worker holds what its table or struct can hold: statuses
\* only from the run statuses of types.go, a run and its outcome wherever the step of the
\* worker or of the request uses them.
TypeOK ==
  /\ DbTypeOK /\ RedisTypeOK /\ WorkerTypeOK /\ CallTypeOK /\ RowsHaveSessions
  /\ clock \in 0..MaxClock
  /\ crashes \in 0..MaxCrashes

Init ==
  /\ sess = [s \in Sessions |-> [status |-> "none", ckpt |-> None]]
  /\ run = [r \in Runs |-> NoRun]
  /\ events = {}
  /\ group = ("lateGroup" \notin Faults)
  /\ stream = {} /\ pending = {} /\ ckpts = {} /\ cancels = {}
  /\ live = [r \in Runs |-> "absent"]
  /\ wpc = [w \in Workers |-> "poll"]
  /\ wrun = [w \in Workers |-> None]
  /\ wout = [w \in Workers |-> None]
  /\ call = [c \in Callers |-> NoCall]
  /\ clock = 0 /\ crashes = 0

-----------------------------------------------------------------------------
(* Helpers *)

Unfinished == {"queued", "running", "waiting_input"}
IsRunTerminal(status) == status \in FinalStatuses

RunsOf(s) == {r \in Runs : run[r].status # "none" /\ run[r].sess = s}

\* ListRunsBySession orders by started_at, which is stored in whole seconds: any
\* run of the latest second may come last.
LastRuns(s) == {r \in RunsOf(s) : \A q \in RunsOf(s) : run[q].at <= run[r].at}

CallsOn(s) == {c \in Callers : call[c].step # "idle" /\ call[c].sess = s}
Fresh(r)   == run[r].status = "none" /\ \A c \in Callers : call[c].run # r

\* p waits for an answer: only resumes of it that failed came after it.
Awaits(p) ==
  /\ run[p].status = "waiting_input"
  /\ \A q \in RunsOf(run[p].sess) : run[q].at > run[p].at =>
       run[q].parent = p /\ run[q].status = "failed"

\* The page sends the next message, answer or deletion of a session when the request
\* before it has returned and started_at has moved on, answers the run that waits, and
\* leaves a deleted session alone.  The API enforces none of it.
MayCall(s) ==
  SerialClients => /\ sess[s].status # "deleted"
                   /\ CallsOn(s) = {}
                   /\ \A r \in RunsOf(s) : run[r].at < clock

\* A request moves to its next step; a finished or failed one leaves no trace.
Goto(c, step) == call' = [call EXCEPT ![c].step = step]
Return(c)     == call' = [call EXCEPT ![c] = NoCall]

\* requestRunCancel: marks the run only if it is in liveRuns at this moment.
RequestRunCancel(r) ==
  live' = [live EXCEPT ![r] = IF @ = "live" THEN "cancelRequested" ELSE @]

\* Calls whose error is only logged.
InvalidateCheckpoint(k) ==
  ckpts' = ckpts \ {k} \/ ("redisErr" \in Faults /\ UNCHANGED ckpts)
SaveSession(s, status, k) ==
  \/ sess' = [sess EXCEPT ![s] = [status |-> status, ckpt |-> k]]
  \/ "dbErr" \in Faults /\ UNCHANGED sess
EmitFinalEvent(r, status) ==
  events' = events \cup {<<r, status>>} \/ ("dbErr" \in Faults /\ UNCHANGED events)

-----------------------------------------------------------------------------
(* CreateSession *)

CreateSession(s) ==
  /\ sess[s].status = "none" /\ CallsOn(s) = {}
  /\ sess' = [sess EXCEPT ![s] = [status |-> "active", ckpt |-> None]]
  /\ UNCHANGED <<run, events, redisVars, workerVars, call, auxVars>>

-----------------------------------------------------------------------------
(* CreateRun: check, save the session, insert the row, put the id on the stream *)

\* Mutant: only a run that executes or waits for an answer keeps the next one out.
AcceptsRunUnlessStarted(s) ==
  RunsOf(s) = {} \/ \E l \in LastRuns(s) : run[l].status \notin {"running", "waiting_input"}

AcceptsRun(s) == RunsOf(s) = {} \/ \E l \in LastRuns(s) : run[l].status \notin Unfinished

CreateCheck(c, s, r) ==
  /\ call[c].step = "idle" /\ Fresh(r) /\ MayCall(s)
  /\ \/ sess[s].status = "none" /\ CallsOn(s) = {}    \* a session id made for this run
     \/ sess[s].status \in {"active", "done"} /\ AcceptsRun(s)
  /\ call' = [call EXCEPT ![c] = [NoCall EXCEPT !.step = "saveSession", !.sess = s,
                                                !.run = r, !.ckpt = r, !.at = clock]]
  /\ UNCHANGED <<dbVars, redisVars, workerVars, auxVars>>

CreateSaveSession(c) ==
  /\ call[c].step = "saveSession"
  /\ sess' = [sess EXCEPT ![call[c].sess] = [status |-> "active", ckpt |-> call[c].ckpt]]
  /\ Goto(c, "insertRun")
  /\ UNCHANGED <<run, events, redisVars, workerVars, auxVars>>

InsertRow(c, kind) ==
  /\ run' = [run EXCEPT ![call[c].run] =
               [status |-> "queued", kind |-> kind, sess |-> call[c].sess,
                parent |-> call[c].parent, ckpt |-> call[c].ckpt, at |-> call[c].at]]
  /\ Goto(c, "enqueue")
  /\ UNCHANGED <<sess, events, redisVars, workerVars, auxVars>>

CreateInsertRun(c) == call[c].step = "insertRun" /\ InsertRow(c, "query")

EnqueueRun(c) ==
  /\ call[c].step = "enqueue"
  /\ stream' = stream \cup {call[c].run}
  /\ Return(c)
  /\ UNCHANGED <<dbVars, group, pending, ckpts, cancels, workerVars, auxVars>>

-----------------------------------------------------------------------------
(* ResumeRun: the new run takes the checkpoint the session has at the check *)

Resumable(p) == run[p].status = "waiting_input"

\* Mutant: the answer gets a checkpoint id of its own.
ResumeCheckpointFresh(s, r) == r

ResumeCheckpoint(s, r) == sess[s].ckpt

ResumeCheck(c, p, r) ==
  LET s == run[p].sess IN
  /\ call[c].step = "idle" /\ Fresh(r) /\ Resumable(p)
  /\ MayCall(s) /\ (SerialClients => Awaits(p))
  /\ sess[s].ckpt # None
  /\ call' = [call EXCEPT ![c] =
                [NoCall EXCEPT !.step = "insertResume", !.sess = s, !.run = r,
                               !.parent = p, !.ckpt = ResumeCheckpoint(s, r), !.at = clock]]
  /\ UNCHANGED <<dbVars, redisVars, workerVars, auxVars>>

ResumeInsertRun(c) == call[c].step = "insertResume" /\ InsertRow(c, "resume")

-----------------------------------------------------------------------------
(* CancelRun and cancelQueuedRun *)

CancelCheck(c, r) ==
  /\ call[c].step = "idle"
  /\ run[r].status # "none" /\ ~IsRunTerminal(run[r].status)
  /\ call' = [call EXCEPT ![c] =
                [NoCall EXCEPT !.step = IF run[r].status = "queued" THEN "cancelRow" ELSE "signal",
                               !.sess = run[r].sess, !.run = r, !.ckpt = run[r].ckpt]]
  /\ UNCHANGED <<dbVars, redisVars, workerVars, auxVars>>

\* Mutant: the row is cancelled without looking at its status again.
CancellableUnchecked(r) == run[r].status # "none"

\* TryCancelQueuedRun's WHERE clause.
CancellableRow(r) == run[r].status = "queued"

CancelQueuedRow(c) ==
  LET r == call[c].run IN
  /\ call[c].step = "cancelRow"
  /\ \/ /\ CancellableRow(r)
        /\ run' = [run EXCEPT ![r].status = "cancelled", ![r].ckpt = None]
        /\ Goto(c, IF run[r].kind = "query" THEN "cancelSave" ELSE "cancelEmit")
     \/ /\ ~CancellableRow(r) /\ IsRunTerminal(run[r].status)
        /\ Return(c) /\ UNCHANGED run
     \/ /\ ~CancellableRow(r) /\ ~IsRunTerminal(run[r].status)
        /\ Goto(c, "signal") /\ UNCHANGED run
  /\ UNCHANGED <<sess, events, redisVars, workerVars, auxVars>>

CancelSaveSession(c) ==
  /\ call[c].step = "cancelSave"
  /\ InvalidateCheckpoint(call[c].ckpt)
  /\ SaveSession(call[c].sess, "done", None)
  /\ Goto(c, "cancelEmit")
  /\ UNCHANGED <<run, events, group, stream, pending, cancels, workerVars, auxVars>>

\* Mutant: cancelling a queued run tells no one.
CancelEmitForgotten(c) ==
  /\ call[c].step = "cancelEmit"
  /\ Return(c)
  /\ UNCHANGED <<dbVars, redisVars, workerVars, auxVars>>

CancelEmit(c) ==
  /\ call[c].step = "cancelEmit"
  /\ EmitFinalEvent(call[c].run, "cancelled")
  /\ Return(c)
  /\ UNCHANGED <<sess, run, redisVars, workerVars, auxVars>>

\* The local requestRunCancel hits only if the worker shares the request's process;
\* the published one reaches every process, later.
CancelSignal(c) ==
  LET r == call[c].run IN
  /\ call[c].step = "signal"
  /\ RequestRunCancel(r) \/ UNCHANGED live
  /\ cancels' = cancels \cup {r}
  /\ Return(c)
  /\ UNCHANGED <<dbVars, group, stream, pending, ckpts, wpc, wrun, wout, auxVars>>

DeliverCancel(r) ==
  /\ r \in cancels
  /\ cancels' = cancels \ {r}
  /\ RequestRunCancel(r) \/ ("lostCancel" \in Faults /\ UNCHANGED live)
  /\ UNCHANGED <<dbVars, group, stream, pending, ckpts, wpc, wrun, wout, call, auxVars>>

-----------------------------------------------------------------------------
(* DeleteSession and abandonWaitingInputRun *)

\* Mutant: only a run that executes keeps its session.
DeletableUnlessRunning(l) == run[l].status # "running"

Deletable(l) == run[l].status \notin {"queued", "running"}

DeleteCheck(c, s) ==
  /\ call[c].step = "idle" /\ MayCall(s)
  /\ sess[s].status \in {"active", "done"}
  /\ \/ /\ RunsOf(s) = {}
        /\ call' = [call EXCEPT ![c] = [NoCall EXCEPT !.step = "deleteRow", !.sess = s]]
     \/ \E l \in LastRuns(s) :
          /\ Deletable(l)
          /\ call' = [call EXCEPT ![c] =
               [NoCall EXCEPT !.step = IF run[l].status = "waiting_input"
                                       THEN "abandonRow" ELSE "deleteRow",
                              !.sess = s, !.run = l, !.ckpt = run[l].ckpt]]
  /\ UNCHANGED <<dbVars, redisVars, workerVars, auxVars>>

AbandonRow(c) ==
  /\ call[c].step = "abandonRow"
  /\ run' = [run EXCEPT ![call[c].run].status = "cancelled", ![call[c].run].ckpt = None]
  /\ Goto(c, "abandonEmit")
  /\ UNCHANGED <<sess, events, redisVars, workerVars, auxVars>>

AbandonEmit(c) ==
  /\ call[c].step = "abandonEmit"
  /\ InvalidateCheckpoint(call[c].ckpt)
  /\ EmitFinalEvent(call[c].run, "cancelled")
  /\ Goto(c, "deleteRow")
  /\ UNCHANGED <<sess, run, group, stream, pending, cancels, workerVars, auxVars>>

DeleteRow(c) ==
  /\ call[c].step = "deleteRow"
  /\ sess' = [sess EXCEPT ![call[c].sess].status = "deleted"]
  /\ Return(c)
  /\ UNCHANGED <<run, events, redisVars, workerVars, auxVars>>

\* A request stops before its next step; what it wrote stays.
CallFails(c) ==
  /\ "apiErr" \in Faults
  /\ call[c].step # "idle"
  /\ Return(c)
  /\ UNCHANGED <<dbVars, redisVars, workerVars, auxVars>>

-----------------------------------------------------------------------------
(* Redis stream: the consumer group, delivery and redelivery *)

\* The group is created at "$": a message added before it is never delivered.
EnsureConsumerGroup ==
  /\ ~group
  /\ group' = TRUE
  /\ stream' = {}
  /\ UNCHANGED <<dbVars, pending, ckpts, cancels, workerVars, call, auxVars>>

\* Mutant: read with NoAck, the message is gone once delivered.
ReadGroupNoAck(r) ==
  /\ group /\ r \in stream
  /\ stream' = stream \ {r}
  /\ UNCHANGED <<dbVars, group, pending, ckpts, cancels, workerVars, call, auxVars>>

\* XREADGROUP moves a message to the consumer's pending entries.
ReadGroup(r) ==
  /\ group /\ r \in stream
  /\ stream' = stream \ {r}
  /\ pending' = pending \cup {r}
  /\ UNCHANGED <<dbVars, group, ckpts, cancels, workerVars, call, auxVars>>

-----------------------------------------------------------------------------
(* processRunMessage and processQueuedRun *)

\* A free worker handles a pending message: one of the batch it has read, or one that
\* has been idle for minIdle and that XAUTOCLAIM gave it.  A message is idle that long
\* also while the worker that read it still executes its run, or waits behind another
\* run of the batch, so any pending message can be handled by any free worker.
Take(w, r, step) ==
  /\ wpc[w] = "poll" /\ r \in pending
  /\ wpc' = [wpc EXCEPT ![w] = step]
  /\ wrun' = [wrun EXCEPT ![w] = r]

\* Mutant: a redelivered run is started again.
StartableWhenRedelivered(r) == run[r].status \in {"queued", "running"}

\* TryStartRun's WHERE clause.  When the update fails, the message just stays pending.
Startable(r) == run[r].status = "queued"

TryStartRun(w, r) ==
  /\ Startable(r)
  /\ run' = [run EXCEPT ![r].status = "running"]
  /\ Take(w, r, "started")
  /\ UNCHANGED <<sess, events, redisVars, live, wout, call, auxVars>>

\* The row is missing or no longer queued: the message is acknowledged.
SkipRun(w, r) ==
  /\ ~Startable(r)
  /\ Take(w, r, "ack")
  /\ UNCHANGED <<dbVars, redisVars, live, wout, call, auxVars>>

\* GetRun fails: processQueuedRun returns nil, so the message is acknowledged.
LoadRunFails(w, r) ==
  /\ "dbErr" \in Faults
  /\ Take(w, r, "ack")
  /\ UNCHANGED <<dbVars, redisVars, live, wout, call, auxVars>>

LoadSession(w) ==
  /\ wpc[w] = "started"
  /\ live' = [live EXCEPT ![wrun[w]] = "live"]
  /\ wpc' = [wpc EXCEPT ![w] = "exec"]
  /\ UNCHANGED <<dbVars, redisVars, wrun, wout, call, auxVars>>

\* GetSession fails: the run is failed at once, without an event.
LoadSessionFails(w) ==
  /\ "dbErr" \in Faults
  /\ wpc[w] = "started"
  /\ \/ run' = [run EXCEPT ![wrun[w]].status = "failed", ![wrun[w]].ckpt = None]
     \/ UNCHANGED run
  /\ wpc' = [wpc EXCEPT ![w] = "ack"]
  /\ UNCHANGED <<sess, events, redisVars, live, wrun, wout, call, auxVars>>

\* Mutant: a cancel request does not decide the outcome.
DeriveRunStatusIgnoringCancel(outcome, cancelRequested) == outcome

\* Mutant: the flow status of an interrupt is taken for a run status.
DeriveRunStatusUnmapped(outcome, cancelRequested) ==
  IF cancelRequested THEN "cancelled"
  ELSE IF outcome = "waiting_input" THEN "need_info" ELSE outcome

DeriveRunStatus(outcome, cancelRequested) == IF cancelRequested THEN "cancelled" ELSE outcome

\* What the agent can return: to resume it needs the checkpoint.
Outcomes(r) ==
  IF run[r].kind = "resume" /\ run[r].ckpt \notin ckpts
  THEN {"failed"} ELSE {"waiting_input", "done", "failed"}

\* executeQuery or executeResume returns, and finishRun derives the status.  An
\* interrupt has stored the checkpoint, a normal end deletes it; with a cancelled
\* context either may fail.
AgentReturns(w) ==
  LET r == wrun[w]
      cancelled == live[r] = "cancelRequested" IN
  /\ wpc[w] = "exec"
  /\ \E outcome \in Outcomes(r) :
       /\ wout' = [wout EXCEPT ![w] = DeriveRunStatus(outcome, cancelled)]
       /\ \/ outcome = "waiting_input" /\ ckpts' = ckpts \cup {run[r].ckpt}
          \/ outcome = "done" /\ InvalidateCheckpoint(run[r].ckpt)
          \/ (outcome = "failed" \/ cancelled) /\ UNCHANGED ckpts
  /\ wpc' = [wpc EXCEPT ![w] = "save"]
  /\ UNCHANGED <<dbVars, group, stream, pending, cancels, live, wrun, call, auxVars>>

\* Mutant: a resume that fails ends its session too.
SaveOutcomeOfAnyKind(w) ==
  LET r == wrun[w]  s == run[r].sess IN
  /\ wpc[w] = "save"
  /\ IF wout[w] = "waiting_input"
     THEN SaveSession(s, "active", run[r].ckpt) /\ UNCHANGED ckpts
     ELSE SaveSession(s, "done", None) /\ InvalidateCheckpoint(run[r].ckpt)
  /\ wpc' = [wpc EXCEPT ![w] = "row"]
  /\ UNCHANGED <<run, events, group, stream, pending, cancels, live, wrun, wout, call, auxVars>>

\* The switch of finishRun; a failed or cancelled resume leaves the session alone.
SaveOutcome(w) ==
  LET r == wrun[w]  s == run[r].sess IN
  /\ wpc[w] = "save"
  /\ \/ /\ wout[w] = "waiting_input"
        /\ SaveSession(s, "active", run[r].ckpt) /\ UNCHANGED ckpts
     \/ /\ wout[w] = "done"
        /\ SaveSession(s, "done", None) /\ UNCHANGED ckpts
     \/ /\ wout[w] \in {"failed", "cancelled"} /\ run[r].kind = "query"
        /\ InvalidateCheckpoint(run[r].ckpt) /\ SaveSession(s, "done", None)
     \/ /\ wout[w] \in {"failed", "cancelled"} /\ run[r].kind = "resume"
        /\ UNCHANGED <<sess, ckpts>>
  /\ wpc' = [wpc EXCEPT ![w] = "row"]
  /\ UNCHANGED <<run, events, group, stream, pending, cancels, live, wrun, wout, call, auxVars>>

\* Mutant: nothing is written for a cancelled run.
FinishRowUnlessCancelled(w) ==
  LET r == wrun[w] IN
  /\ wpc[w] = "row"
  /\ run' = IF wout[w] = "cancelled" THEN run ELSE [run EXCEPT ![r].status = wout[w]]
  /\ wpc' = [wpc EXCEPT ![w] = "emit"]
  /\ UNCHANGED <<sess, events, redisVars, live, wrun, wout, call, auxVars>>

FinishRow(w) ==
  LET r == wrun[w] IN
  /\ wpc[w] = "row"
  /\ \/ run' = [run EXCEPT ![r].status = wout[w],
                           ![r].ckpt = IF wout[w] = "waiting_input" THEN @ ELSE None]
     \/ "dbErr" \in Faults /\ UNCHANGED run
  /\ wpc' = [wpc EXCEPT ![w] = "emit"]
  /\ UNCHANGED <<sess, events, redisVars, live, wrun, wout, call, auxVars>>

\* emitFinalRunEvent, then the deferred clearLiveRun.
Announce(w) ==
  /\ wpc[w] = "emit"
  /\ EmitFinalEvent(wrun[w], wout[w])
  /\ live' = [live EXCEPT ![wrun[w]] = "absent"]
  /\ wout' = [wout EXCEPT ![w] = None]
  /\ wpc' = [wpc EXCEPT ![w] = "ack"]
  /\ UNCHANGED <<sess, run, redisVars, wrun, call, auxVars>>

Ack(w) ==
  /\ wpc[w] = "ack"
  /\ pending' = pending \ {wrun[w]} \/ ("redisErr" \in Faults /\ UNCHANGED pending)
  /\ wpc' = [wpc EXCEPT ![w] = "poll"]
  /\ wrun' = [wrun EXCEPT ![w] = None]
  /\ UNCHANGED <<dbVars, group, stream, ckpts, cancels, live, wout, call, auxVars>>

\* The process dies and is started again: what it held in memory is gone.
Crash(w) ==
  /\ "crash" \in Faults /\ crashes < MaxCrashes
  /\ wpc[w] # "poll"
  /\ live' = [r \in Runs |-> IF r = wrun[w] THEN "absent" ELSE live[r]]
  /\ wpc' = [wpc EXCEPT ![w] = "poll"]
  /\ wrun' = [wrun EXCEPT ![w] = None]
  /\ wout' = [wout EXCEPT ![w] = None]
  /\ crashes' = crashes + 1
  /\ UNCHANGED <<dbVars, redisVars, call, clock>>

ExpireCheckpoint(k) ==
  /\ "expire" \in Faults /\ k \in ckpts
  /\ ckpts' = ckpts \ {k}
  /\ UNCHANGED <<dbVars, group, stream, pending, cancels, workerVars, call, auxVars>>

Tick ==
  /\ clock < MaxClock
  /\ clock' = clock + 1
  /\ UNCHANGED <<dbVars, redisVars, workerVars, call, crashes>>

-----------------------------------------------------------------------------
(* Specification *)

\* What a client may start at any time.
Request ==
  \/ \E s \in Sessions : CreateSession(s)
  \/ \E c \in Callers, s \in Sessions, r \in Runs : CreateCheck(c, s, r)
  \/ \E c \in Callers, p, r \in Runs : ResumeCheck(c, p, r)
  \/ \E c \in Callers, r \in Runs : CancelCheck(c, r)
  \/ \E c \in Callers, s \in Sessions : DeleteCheck(c, s)

\* The steps of a request once it is in the handler.
Handler(c) ==
  \/ CreateSaveSession(c) \/ CreateInsertRun(c) \/ ResumeInsertRun(c) \/ EnqueueRun(c)
  \/ CancelQueuedRow(c) \/ CancelSaveSession(c) \/ CancelEmit(c) \/ CancelSignal(c)
  \/ AbandonRow(c) \/ AbandonEmit(c) \/ DeleteRow(c)

\* The worker loop.
Consume(w) ==
  \/ \E r \in Runs : TryStartRun(w, r) \/ SkipRun(w, r)
  \/ LoadSession(w) \/ SaveOutcome(w) \/ FinishRow(w) \/ Announce(w) \/ Ack(w)

Failure ==
  \/ \E c \in Callers : CallFails(c)
  \/ \E w \in Workers, r \in Runs : LoadRunFails(w, r)
  \/ \E w \in Workers : LoadSessionFails(w) \/ Crash(w)
  \/ \E k \in Runs : ExpireCheckpoint(k)

Next ==
  \/ Request
  \/ \E c \in Callers : Handler(c)
  \/ \E w \in Workers : Consume(w) \/ AgentReturns(w)
  \/ \E r \in Runs : ReadGroup(r) \/ DeliverCancel(r)
  \/ EnsureConsumerGroup
  \/ Failure
  \/ Tick

Spec == Init /\ [][Next]_vars

\* A request that was accepted runs to its end, a worker keeps polling, reclaiming and
\* processing, and the agent comes back: its model calls have timeouts.  Nothing makes
\* a client call, a pub/sub message arrive or the clock move.
FairSpec ==
  /\ Spec
  /\ \A c \in Callers : WF_vars(Handler(c))
  /\ \A w \in Workers : WF_vars(Consume(w)) /\ WF_vars(AgentReturns(w))
  /\ \A r \in Runs : WF_vars(ReadGroup(r))

-----------------------------------------------------------------------------
(* Properties *)

Executes(w, r) == wrun[w] = r /\ wpc[w] \in {"started", "exec", "save", "row"}
Holds(w, r)    == Executes(w, r) \/ (wrun[w] = r /\ wpc[w] = "emit")

\* While a worker executes a run, from TryStartRun to FinishRun, no request and no
\* other worker changes the status of its row: FinishRun never overwrites a run that
\* was cancelled or settled behind the worker's back (it has no guard of its own).
ExecutingIsRunning ==
  \A w \in Workers, r \in Runs : Executes(w, r) => run[r].status = "running"

\* A run is executed by one worker at a time, however often its message is delivered:
\* reclaimed while the first worker still executes it, or after a crash.
ExclusiveExecution ==
  \A v, w \in Workers, r \in Runs : Holds(v, r) /\ Holds(w, r) => v = w

\* A queued run always has something that will start it: its message, or the request
\* that is about to send it.  A worker that dies or an XACK that fails loses none.
NoLostRun ==
  \A r \in Runs : run[r].status = "queued" =>
    \/ r \in stream \cup pending
    \/ \E c \in Callers : call[c].step = "enqueue" /\ call[c].run = r

\* k is what became of r; the deletion of its session can still abandon a run that waits.
Settled(r, k) ==
  run[r].status = k \/ (k = "waiting_input" /\ run[r].status = "cancelled")

\* A final event tells what the row says: a client that stops listening at run_completed,
\* run_failed, run_cancelled or run_waiting_input never reads a different outcome.
AnnouncedIsSettled ==
  \A r \in Runs, k \in FinalStatuses : <<r, k>> \in events => Settled(r, k)

\* No session has two runs queued or running at the same time.
OneActiveRunPerSession ==
  \A s \in Sessions : \A q, r \in RunsOf(s) :
    {run[q].status, run[r].status} \subseteq {"queued", "running"} => q = r

\* Between requests, the session of a run that waits for an answer points at the
\* checkpoint of that run, and the checkpoint is there, also after answers that failed.
WaitingIsResumable ==
  \A p \in Runs :
    LET s == run[p].sess IN
    Awaits(p) /\ CallsOn(s) = {} /\ sess[s].status # "deleted" =>
      sess[s] = [status |-> "active", ckpt |-> run[p].ckpt] /\ run[p].ckpt \in ckpts

\* An answer that waits in the queue still has the checkpoint of the run it answers.
QueuedAnswerHasCheckpoint ==
  \A r \in Runs : run[r].status = "queued" /\ run[r].kind = "resume" =>
    run[r].ckpt = run[run[r].parent].ckpt /\ run[r].ckpt \in ckpts

\* A deleted session has no run that is queued or executes, and none that waits for an
\* answer as its last one.
DeletedSessionQuiet ==
  \A s \in Sessions : sess[s].status = "deleted" =>
    /\ \A r \in RunsOf(s) : run[r].status \notin {"queued", "running"}
    /\ \A l \in LastRuns(s) : run[l].status # "waiting_input"

\* A cancel request that reaches the worker process while a worker there executes the
\* run, before the agent has returned, is recorded.
CancelTakesEffect ==
  [][\A w \in Workers, r \in cancels :
       r \notin cancels' /\ wrun[w] = r /\ wpc[w] \in {"started", "exec"} =>
         live'[r] = "cancelRequested"]_vars

\* The page offers to abort a flow that waits for an answer, through the same CancelRun.
WaitingFlowCanBeAborted ==
  \A r \in Runs : Awaits(r) /\ (\A c \in Callers : call[c].step = "idle") =>
    ENABLED \E c \in Callers : CancelCheck(c, r)

\* A run that was accepted is started or cancelled, also when a worker dies.
QueuedIsServed ==
  \A r \in Runs : run[r].status = "queued" ~> run[r].status # "queued"

\* A run that was started comes to an end unless its worker dies.
StartedRunFinishes ==
  \A r \in Runs :
    run[r].status = "running" ~> IsRunTerminal(run[r].status) \/ crashes > 0

\* Every end of a run is announced unless a worker dies: a client that waits for the
\* final event of the run is not left waiting.
SettledIsAnnounced ==
  \A r \in Runs :
    IsRunTerminal(run[r].status) ~> (\E k \in FinalStatuses : <<r, k>> \in events) \/ crashes > 0

\* A cancel request that was recorded before the agent returned decides the outcome,
\* unless the worker dies.
RecordedCancelWins ==
  \A r \in Runs :
    live[r] = "cancelRequested" /\ (\E w \in Workers : wrun[w] = r /\ wpc[w] = "exec")
      ~> run[r].status = "cancelled" \/ crashes > 0

Statuses == [r \in Runs |-> run[r].status]
Owners   == {o \in Runs \X Workers : Holds(o[2], o[1])}
RC == INSTANCE RunContract WITH status <- Statuses, owners <- Owners, announced <- events

\* The runs keep to the contract of RunContract.
ImplementsRunContract == RC!Spec

-----------------------------------------------------------------------------
(* The inductive invariants behind ExecutingIsRunning, ExclusiveExecution,    *)
(* NoLostRun, AnnouncedIsSettled and ImplementsRunContract.                   *)

Inserts(c) == call[c].step \in {"saveSession", "insertRun", "insertResume"}

\* A run a worker holds was started, also when it only remains to be announced.
HeldWasStarted ==
  \A w \in Workers, r \in Runs : Holds(w, r) => run[r].status \notin {"none", "queued"}

\* The id of a run to be inserted is in no row and in no other request.
InsertsFresh ==
  \A c \in Callers : Inserts(c) =>
    /\ run[call[c].run].status = "none"
    /\ \A d \in Callers : call[d].run = call[c].run => d = c

\* DeleteSession's write without a guard meets a run that waits or was cancelled.
AbandonsWaiting ==
  \A c \in Callers : call[c].step = "abandonRow" =>
    run[call[c].run].status \in {"waiting_input", "cancelled"}

OwnershipInv ==
  /\ TypeOK
  /\ ExecutingIsRunning
  /\ ExclusiveExecution
  /\ HeldWasStarted
  /\ InsertsFresh
  /\ AbandonsWaiting

\* What is on the stream, or about to be, has a row; what is about to be acknowledged is
\* no longer queued.
MessagesHaveRows ==
  /\ \A r \in stream \cup pending : run[r].status # "none"
  /\ \A c \in Callers : call[c].step = "enqueue" => run[call[c].run].status # "none"
  /\ \A w \in Workers : wpc[w] = "ack" => run[wrun[w]].status \notin {"none", "queued"}

DeliveryInv ==
  /\ OwnershipInv
  /\ group
  /\ MessagesHaveRows
  /\ NoLostRun

\* Who is about to announce an outcome finds it in the row.
AnnouncersSettled ==
  /\ \A w \in Workers : wpc[w] = "emit" => Settled(wrun[w], wout[w])
  /\ \A c \in Callers : call[c].step \in {"cancelSave", "cancelEmit", "abandonEmit"} =>
       run[call[c].run].status = "cancelled"

ContractInv ==
  /\ OwnershipInv
  /\ AnnouncersSettled
  /\ AnnouncedIsSettled
=============================================================================
