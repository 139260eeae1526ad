--------------------------- MODULE RunSessionProofs ---------------------------
(***************************************************************************)
(* Proofs that a run which waits for an answer can be answered, and that a *)
(* queued answer finds its checkpoint, for clients that keep to the page's *)
(* discipline.  They hold for every number of sessions, runs, workers and  *)
(* requests, while workers crash, Redis calls fail, cancel messages are    *)
(* lost and the consumer group comes late.                                 *)
(***************************************************************************)
EXTENDS RunOrderProofs

ExecSteps == {"started", "exec", "save", "row"}
EndSteps  == {"cancelRow", "cancelSave", "abandonRow", "abandonEmit"}
NewSteps  == {"saveSession", "insertRun"}

\* What a step leaves alone in session s, besides its rows, its pointer and the requests
\* on it: its checkpoints, ...
SameCheckpoints(s) == \A k \in RunsOf(s) : k \in ckpts' <=> k \in ckpts

\* ... a request between the session and the row of a query, ...
InsertsStay(s) ==
  \A c \in Callers : call[c].sess = s /\ call[c].step = "insertRun" => call'[c] = call[c]

\* ... and the workers that execute one of its runs: none gets on.
SameWorkers(s) ==
  \A w \in Workers : wrun'[w] \in RunsOf(s) /\ wpc'[w] \in ExecSteps =>
    /\ wrun'[w] = wrun[w] /\ wout'[w] = wout[w]
    /\ wpc'[w] = wpc[w] \/ (wpc[w] = "started" /\ wpc'[w] = "exec")

\* What a request remembers of its checkpoint is not lost on the way.
SameArguments(s) ==
  \A c \in Callers : call'[c].sess = s =>
    /\ call'[c].step \in EndSteps =>
         call[c].sess = s /\ call[c].step \in EndSteps /\ call'[c].ckpt = call[c].ckpt
    /\ call'[c].step \in NewSteps =>
         /\ call[c].sess = s /\ call[c].step \in NewSteps
         /\ call'[c].ckpt = call[c].ckpt /\ call'[c].run = call[c].run
         /\ call'[c].parent = call[c].parent

\* What a step may do when it concerns session s only.
Within(s) ==
  /\ OrderWithin(s)
  /\ \A k \in Runs \ RunsOf(s) : k \in ckpts' <=> k \in ckpts
  /\ \A w \in Workers : wpc'[w] \in ExecSteps /\ run[wrun'[w]].sess # s =>
       UNCHANGED <<wpc[w], wrun[w], wout[w]>>

-----------------------------------------------------------------------------
(* What stays true of a session that a step leaves alone *)

LEMMA InitSession == Init => SessionInv
<1> SUFFICES ASSUME Init PROVE SessionInv
  OBVIOUS
<1>1. \A s \in Sessions : RunsOf(s) = {}
  BY DEF Init, RunsOf, NoRun
<1>2. \A c \in Callers : call[c].sess \notin Sessions
  BY LifecycleAssumption DEF Init, NoCall
<1>3. ASSUME NEW s \in Sessions PROVE SessionOK(s)
  BY <1>1, <1>2
  DEF SessionOK, OwnCheckpoints, AnswersWaiting, WaitingReady, AnsweredReady, InterruptReady,
      ResumesReady
<1> QED
  BY <1>3, InitOrder DEF SessionInv

LEMMA AwaitsStay ==
  ASSUME NEW s \in Sessions, SameRows(s), NEW p \in RunsOf(s)
  PROVE  Awaits(p)' <=> Awaits(p)
<1>1. run'[p] = run[p] /\ run[p].sess = s /\ RunsOf(s)' = RunsOf(s)
  BY DEF SameRows, RunsOf
<1> QED
  BY <1>1 DEF SameRows, Awaits

LEMMA ReadyStays ==
  ASSUME NEW s \in Sessions, SameRows(s), SamePointer(s), SameCheckpoints(s),
         NEW p \in RunsOf(s), run[p].ckpt \in RunsOf(s)
  PROVE  Ready(p)' <=> Ready(p)
<1>1. run'[p] = run[p] /\ run[p].sess = s
  BY DEF SameRows, RunsOf
<1> QED
  BY <1>1 DEF SamePointer, SameCheckpoints, Ready

\* No row gets unfinished, or gets another checkpoint and remains so.
LEMMA CheckpointsStayOwn ==
  ASSUME NEW s \in Sessions, OwnCheckpoints(s), SameArguments(s),
         RunsOf(s)' = RunsOf(s),
         \A r \in RunsOf(s) :
           /\ run'[r].kind = run[r].kind /\ run'[r].parent = run[r].parent
           /\ run'[r].status \in Unfinished =>
                run[r].status \in Unfinished /\ run'[r].ckpt = run[r].ckpt
  PROVE  OwnCheckpoints(s)'
BY DEF OwnCheckpoints, SameArguments, EndSteps, NewSteps

LEMMA AnswersStayWaiting ==
  ASSUME NEW s \in Sessions, AnswersWaiting(s), SameRows(s)
  PROVE  AnswersWaiting(s)'
<1>1. \A r \in RunsOf(s) : run'[r] = run[r] /\ run[r].sess = s
  BY DEF SameRows, RunsOf
<1>2. \A r \in RunsOf(s) : \A p : Answers(r, p) => Answers(r, p)'
  BY <1>1 DEF Answers, SameRows
<1> QED
  BY <1>1, <1>2 DEF AnswersWaiting, SameRows

LEMMA WaitingStaysReady ==
  ASSUME NEW s \in Sessions, OwnCheckpoints(s), WaitingReady(s),
         SameRows(s), SamePointer(s), SameCheckpoints(s), InsertsStay(s)
  PROVE  WaitingReady(s)'
<1>1. ASSUME NEW p \in RunsOf(s), Awaits(p)', sess'[s].status # "deleted",
             \A c \in Callers : call'[c].sess = s => call'[c].step # "insertRun"
      PROVE  Ready(p)'
  <2>1. Awaits(p) /\ sess[s].status # "deleted"
    BY <1>1, AwaitsStay DEF SamePointer
  <2>2. \A c \in Callers : call[c].sess = s => call[c].step # "insertRun"
    BY <1>1 DEF InsertsStay
  <2>3. Ready(p)
    BY <2>1, <2>2 DEF WaitingReady
  <2>4. run[p].ckpt \in RunsOf(s)
    BY <2>1 DEF Awaits, OwnCheckpoints, Unfinished
  <2> QED
    BY <2>3, <2>4, ReadyStays
<1> QED
  BY <1>1 DEF WaitingReady, SameRows

LEMMA AnsweredStaysReady ==
  ASSUME OwnershipInv, NEW s \in Sessions, OwnCheckpoints(s), AnswersWaiting(s),
         AnsweredReady(s), SameRows(s), SamePointer(s), SameCheckpoints(s), SameWorkers(s)
  PROVE  AnsweredReady(s)'
<1>1. \A r \in RunsOf(s) : run'[r] = run[r] /\ run[r].sess = s
  BY DEF SameRows, RunsOf
<1>2. ASSUME NEW r \in RunsOf(s), run[r].kind = "resume", run[r].status \in Active,
             Ready(run[r].parent)
      PROVE  Ready(run[r].parent)'
  <2>1. PICK p \in RunsOf(s) : p = run[r].parent /\ run[p].status = "waiting_input"
    BY <1>1, <1>2 DEF AnswersWaiting, Answers
  <2>2. run[p].ckpt \in RunsOf(s)
    BY <2>1 DEF OwnCheckpoints, Unfinished
  <2>3. Ready(p)'
    BY <1>2, <2>1, <2>2, ReadyStays
  <2> QED
    BY <1>1, <2>1, <2>3
<1>3. ASSUME NEW r \in RunsOf(s), run[r].kind = "resume", NEW w \in Workers,
             Executes(w, r)', (wpc[w] \in {"started", "exec"} \/ wout[w] = "failed")'
      PROVE  Ready(run[r].parent)'
  <2>1. Executes(w, r) /\ (wpc[w] \in {"started", "exec"} \/ wout[w] = "failed")
    BY <1>3 DEF SameWorkers, Executes, ExecSteps
  <2>2. run[r].status = "running"
    BY <2>1 DEF OwnershipInv, ExecutingIsRunning, RunsOf
  <2>3. Ready(run[r].parent)
    BY <1>3, <2>1 DEF AnsweredReady
  <2> QED
    BY <1>2, <1>3, <2>2, <2>3 DEF Active
<1>4. ASSUME NEW r \in RunsOf(s), run[r].kind = "resume", run[r].status = "queued"
      PROVE  Ready(run[r].parent)'
  BY <1>2, <1>4 DEF AnsweredReady, Active
<1> QED
  BY <1>1, <1>3, <1>4 DEF AnsweredReady, SameRows

LEMMA InterruptStaysReady ==
  ASSUME OwnershipInv, NEW s \in Sessions, OwnCheckpoints(s), InterruptReady(s),
         SameRows(s), SamePointer(s), SameCheckpoints(s), SameWorkers(s)
  PROVE  InterruptReady(s)'
<1>1. \A r \in RunsOf(s) : run'[r] = run[r]
  BY DEF SameRows
<1>2. ASSUME NEW w \in Workers, NEW r \in RunsOf(s), wrun'[w] = r, wout'[w] = "waiting_input",
             wpc'[w] \in {"save", "row"}
      PROVE  /\ wpc'[w] = "save" => run[r].ckpt \in ckpts'
             /\ wpc'[w] = "row" => Ready(r)'
  <2>1. wrun[w] = r /\ wout[w] = "waiting_input" /\ wpc[w] = wpc'[w]
    BY <1>2 DEF SameWorkers, ExecSteps
  <2>2. run[r].ckpt \in RunsOf(s)
    BY <1>2, <2>1
    DEF OwnershipInv, ExecutingIsRunning, Executes, RunsOf, OwnCheckpoints, Unfinished
  <2> QED
    BY <1>2, <2>1, <2>2, ReadyStays DEF InterruptReady, SameCheckpoints
<1> QED
  BY <1>1, <1>2 DEF InterruptReady, SameRows

LEMMA ResumesStayReady ==
  ASSUME NEW s \in Sessions, OwnCheckpoints(s), ResumesReady(s),
         SameRows(s), SamePointer(s), SameCheckpoints(s), NoNewCalls(s)
  PROVE  ResumesReady(s)'
<1>1. ASSUME NEW c \in Callers, call'[c].sess = s, call'[c].step = "insertResume"
      PROVE  (LET p == call[c].parent IN
              p \in RunsOf(s) /\ Awaits(p) /\ Ready(p) /\ call[c].ckpt = run[p].ckpt)'
  <2>1. call'[c] = call[c]
    BY <1>1 DEF NoNewCalls, SessionSteps, Opening
  <2>2. PICK p \in RunsOf(s) :
          p = call[c].parent /\ Awaits(p) /\ Ready(p) /\ call[c].ckpt = run[p].ckpt
    BY <1>1, <2>1 DEF ResumesReady
  <2>3. run[p].ckpt \in RunsOf(s)
    BY <2>2 DEF Awaits, OwnCheckpoints, Unfinished
  <2>4. Awaits(p)' /\ Ready(p)'
    BY <2>2, <2>3, AwaitsStay, ReadyStays
  <2> QED
    BY <2>1, <2>2, <2>4 DEF SameRows, Awaits, Ready
<1> QED
  BY <1>1 DEF ResumesReady

\* The invariant of a session survives a step that leaves the session alone.
LEMMA SessionStays ==
  ASSUME SessionInv, NEW s \in Sessions,
         SameRows(s), SamePointer(s), SameCheckpoints(s), NoNewCalls(s), InsertsStay(s),
         SameWorkers(s)
  PROVE  SessionOK(s)'
<1>1. SessionOK(s) /\ OwnershipInv
  BY DEF SessionInv, OrderInv
<1>2. SameArguments(s)
  BY DEF NoNewCalls, SameArguments, SessionSteps, Opening, EndSteps, NewSteps
<1>3. OwnCheckpoints(s)'
  BY <1>1, <1>2, CheckpointsStayOwn DEF SessionOK, SameRows
<1> QED
  BY <1>1, <1>3, AnswersStayWaiting, WaitingStaysReady, AnsweredStaysReady,
     InterruptStaysReady, ResumesStayReady
  DEF SessionOK

\* A step in one session keeps the invariant of the others, ...
LEMMA StepWithin ==
  ASSUME SessionInv, OrderInv', NEW s \in Sessions, Within(s), SessionOK(s)'
  PROVE  SessionInv'
<1> SUFFICES ASSUME NEW t \in Sessions \ {s} PROVE SessionOK(t)'
  BY DEF SessionInv
<1>0. t # None
  BY LifecycleAssumption
<1>1. SameRows(t) /\ SamePointer(t)
  BY DEF Within, OrderWithin, SameRows, SamePointer, RunsOf
<1>2. SameCheckpoints(t)
  BY DEF Within, SameCheckpoints, RunsOf
<1>3. NoNewCalls(t) /\ InsertsStay(t)
  BY <1>0 DEF Within, OrderWithin, NoNewCalls, InsertsStay
<1>4. SameWorkers(t)
  BY DEF Within, SameWorkers, RunsOf
<1> QED
  BY <1>1, <1>2, <1>3, <1>4, SessionStays

\* ... and a step in no session that of all.
LEMMA StepOutside ==
  ASSUME SessionInv, OrderInv', UNCHANGED <<sess, run, ckpts>>,
         \A s \in Sessions : NoNewCalls(s) /\ InsertsStay(s) /\ SameWorkers(s)
  PROVE  SessionInv'
<1>1. ASSUME NEW s \in Sessions PROVE SessionOK(s)'
  <2>1. SameRows(s) /\ SamePointer(s) /\ SameCheckpoints(s)
    BY DEF SameRows, SamePointer, SameCheckpoints, RunsOf
  <2> QED
    BY <2>1, SessionStays
<1> QED
  BY <1>1 DEF SessionInv

-----------------------------------------------------------------------------
(* What the invariant says of a session at rest, and of one with an active run *)

\* While a run of a session is active, nothing waits for an answer.
LEMMA ActiveKeepsNoneWaiting ==
  ASSUME OrderInv, NEW s \in Sessions, NEW r \in RunsOf(s), run[r].status \in Active
  PROVE  \A p \in RunsOf(s) : ~Awaits(p)
<1> SUFFICES ASSUME NEW p \in RunsOf(s), Awaits(p) PROVE FALSE
  OBVIOUS
<1>1. p # r /\ run[p].sess = s
  BY DEF Awaits, Active, RunsOf
<1>2. run[p].at < run[r].at /\ run[p].at \in Nat /\ run[r].at \in Nat
  BY <1>1, ActiveKeepsOthersOut, TimesAreNumbers DEF OrderInv
<1>3. run[r].at > run[p].at
  BY <1>2
<1> QED
  BY <1>1, <1>3 DEF Awaits, Active

\* Once the last run was cancelled, neither.
LEMMA NothingWaits ==
  ASSUME OrderInv', NEW s \in Sessions, NEW l \in LastRuns(s)', run'[l].status = "cancelled"
  PROVE  WaitingReady(s)'
<1> SUFFICES ASSUME NEW p \in RunsOf(s)', Awaits(p)' PROVE FALSE
  BY DEF WaitingReady
<1>0. RowsInOrder(s)' /\ OwnershipInv'
  BY DEF OrderInv, OrderOK
<1>1. p # l /\ run'[p].sess = s /\ l \in RunsOf(s)' /\ {p, l} \subseteq Runs
  BY DEF Awaits, RunsOf, LastRuns
<1>2. run'[p].at \in Nat /\ run'[l].at \in Nat
  BY <1>0, <1>1 DEF OwnershipInv, TypeOK, DbTypeOK, RunRow
<1>3. run'[l].at > run'[p].at
  BY <1>0, <1>1, <1>2 DEF RowsInOrder, LastRuns
<1> QED
  BY <1>1, <1>3 DEF Awaits

\* Three parts of the invariant are about active runs only.
LEMMA IdleSession ==
  ASSUME OrderInv', NEW s \in Sessions, \A r \in RunsOf(s)' : run'[r].status \notin Active
  PROVE  AnswersWaiting(s)' /\ AnsweredReady(s)' /\ InterruptReady(s)'
<1>1. ASSUME NEW w \in Workers, NEW r \in RunsOf(s)', wrun'[w] = r, wpc'[w] \in ExecSteps
      PROVE  FALSE
  <2>1. r \in Runs /\ Executes(w, r)'
    BY <1>1 DEF Executes, RunsOf, ExecSteps
  <2> QED
    BY <1>1, <2>1 DEF OrderInv, OwnershipInv, ExecutingIsRunning, Active
<1>2. AnswersWaiting(s)'
  BY DEF AnswersWaiting
<1>3. AnsweredReady(s)'
  BY <1>1 DEF AnsweredReady, Executes, ExecSteps, Active
<1>4. InterruptReady(s)'
  BY <1>1 DEF InterruptReady, ExecSteps
<1> QED
  BY <1>2, <1>3, <1>4

\* One is about the requests that have the session.
LEMMA NobodyResumes ==
  ASSUME NEW s \in Sessions, \A c \in Callers : ~Opens(c, s)'
  PROVE  ResumesReady(s)'
BY DEF Opens, Opening, ResumesReady

-----------------------------------------------------------------------------
(* Requests *)

\* A request that starts touches no store and no worker.
LEMMA StartKeeps ==
  ASSUME SessionInv, OrderInv', NEW s \in Sessions, NEW c \in Callers, NEW k \in Call,
         UNCHANGED <<dbVars, redisVars, workerVars>>, call[c].step = "idle", k.sess = s,
         call' = [call EXCEPT ![c] = k],
         OwnCheckpoints(s)', ResumesReady(s)'
  PROVE  SessionInv'
<1> USE DEF dbVars, redisVars, workerVars
<1>0. SessionOK(s) /\ OwnershipInv /\ TypeOK
  BY DEF SessionInv, OrderInv, OwnershipInv
<1>1. call'[c] = k /\ \A d \in Callers \ {c} : call'[d] = call[d]
  BY <1>0 DEF TypeOK, CallTypeOK
<1>2. SameRows(s) /\ SamePointer(s) /\ SameCheckpoints(s) /\ InsertsStay(s) /\ SameWorkers(s)
  BY <1>1 DEF SameRows, SamePointer, SameCheckpoints, InsertsStay, SameWorkers, RunsOf
<1>3. SessionOK(s)'
  BY <1>0, <1>2, AnswersStayWaiting, WaitingStaysReady, AnsweredStaysReady,
     InterruptStaysReady
  DEF SessionOK
<1>4. Within(s)
  BY <1>1 DEF Within, OrderWithin
<1> QED
  BY <1>3, <1>4, StepWithin

LEMMA CreateSessionKeeps ==
  ASSUME SessionInv, OrderInv', NEW s \in Sessions, CreateSession(s)
  PROVE  SessionInv'
<1> USE DEF dbVars, redisVars, workerVars, auxVars
<1>0. TypeOK /\ RowsInOrder(s)
  BY DEF SessionInv, OrderInv, OrderOK, OwnershipInv
<1>1. RunsOf(s) = {}
  BY <1>0 DEF CreateSession, RowsInOrder
<1>2. \A c \in Callers : call[c].sess = s => call[c].step = "idle"
  BY DEF CreateSession, CallsOn
<1>3. \A t \in Sessions \ {s} : sess'[t] = sess[t]
  BY <1>0 DEF CreateSession, TypeOK, DbTypeOK
<1>4. RunsOf(s)' = {} /\ UNCHANGED <<run, ckpts, call, wpc, wrun, wout>>
  BY <1>1 DEF CreateSession, RunsOf
<1>5. WaitingReady(s)'
  BY <1>4 DEF WaitingReady
<1>6. AnswersWaiting(s)' /\ AnsweredReady(s)' /\ InterruptReady(s)'
  BY <1>4, IdleSession
<1>7. OwnCheckpoints(s)' /\ ResumesReady(s)'
  BY <1>2, <1>4 DEF OwnCheckpoints, ResumesReady
<1>8. Within(s)
  BY <1>3, <1>4 DEF Within, OrderWithin
<1> QED
  BY <1>5, <1>6, <1>7, <1>8, StepWithin DEF SessionOK

LEMMA CreateCheckKeeps ==
  ASSUME SessionInv, OrderInv', Disciplined,
         NEW c \in Callers, NEW s \in Sessions, NEW r \in Runs, CreateCheck(c, s, r)
  PROVE  SessionInv'
<1>0. SessionOK(s) /\ OwnershipInv /\ TypeOK
  BY DEF SessionInv, OrderInv, OwnershipInv
<1>1. /\ CallsOn(s) = {}
      /\ call[c].step = "idle" /\ UNCHANGED <<dbVars, redisVars, workerVars, auxVars>>
  BY DEF CreateCheck, MayCall, Disciplined
<1>2. PICK k : k = [NoCall EXCEPT !.step = "saveSession", !.sess = s, !.run = r, !.ckpt = r,
                                  !.at = clock]
  OBVIOUS
<1>3. k = [step |-> "saveSession", sess |-> s, run |-> r, parent |-> None, ckpt |-> r,
           at |-> clock]
  BY <1>2 DEF NoCall
<1>4. k \in Call
  BY <1>0, <1>3 DEF TypeOK, Call, CallSteps
<1>5. call' = [call EXCEPT ![c] = k]
  BY <1>2 DEF CreateCheck
<1>6. /\ call'[c] = k
      /\ \A d \in Callers \ {c} : call'[d].sess = s => call'[d].step = "idle"
  BY <1>0, <1>1, <1>4, <1>5, FirstCall
<1>7. UNCHANGED run /\ RunsOf(s)' = RunsOf(s)
  BY <1>1 DEF RunsOf, dbVars
<1>8. OwnCheckpoints(s)'
  BY <1>0, <1>3, <1>6, <1>7 DEF SessionOK, OwnCheckpoints
<1>9. ResumesReady(s)'
  BY <1>3, <1>6 DEF ResumesReady
<1> QED
  BY <1>1, <1>3, <1>4, <1>5, <1>8, <1>9, StartKeeps

LEMMA ResumeCheckKeeps ==
  ASSUME SessionInv, OrderInv', Disciplined,
         NEW c \in Callers, NEW p \in Runs, NEW r \in Runs, ResumeCheck(c, p, r)
  PROVE  SessionInv'
<1>0. OwnershipInv /\ TypeOK
  BY DEF SessionInv, OrderInv, OwnershipInv
<1>1. PICK s \in Sessions : s = run[p].sess /\ p \in RunsOf(s)
  BY <1>0, RowOK DEF ResumeCheck, Resumable, RunsOf
<1>2. SessionOK(s)
  BY DEF SessionInv
<1>3. /\ CallsOn(s) = {} /\ sess[s].status # "deleted"
      /\ call[c].step = "idle" /\ UNCHANGED <<dbVars, redisVars, workerVars, auxVars>>
      /\ Awaits(p)
  BY <1>1 DEF ResumeCheck, MayCall, Disciplined
<1>4. Ready(p)
  BY <1>1, <1>2, <1>3 DEF SessionOK, WaitingReady, CallsOn
<1>5. PICK k : k = [NoCall EXCEPT !.step = "insertResume", !.sess = s, !.run = r, !.parent = p,
                                  !.ckpt = ResumeCheckpoint(s, r), !.at = clock]
  OBVIOUS
<1>6. k = [step |-> "insertResume", sess |-> s, run |-> r, parent |-> p,
           ckpt |-> sess[s].ckpt, at |-> clock]
  BY <1>5 DEF NoCall, ResumeCheckpoint
<1>7. k \in Call
  BY <1>0, <1>6 DEF TypeOK, DbTypeOK, SessionRow, Call, CallSteps
<1>8. call' = [call EXCEPT ![c] = k]
  BY <1>1, <1>5 DEF ResumeCheck
<1>9. /\ call'[c] = k
      /\ \A d \in Callers \ {c} : call'[d].sess = s => call'[d].step = "idle"
  BY <1>0, <1>3, <1>7, <1>8, FirstCall
<1>10. UNCHANGED <<run, sess>> /\ RunsOf(s)' = RunsOf(s) /\ Awaits(p)' /\ Ready(p)'
  BY <1>3, <1>4 DEF RunsOf, Awaits, Ready, dbVars, redisVars
<1>11. k.ckpt = run[p].ckpt
  BY <1>1, <1>4, <1>6 DEF Ready
<1>12. OwnCheckpoints(s)'
  BY <1>2, <1>6, <1>9, <1>10 DEF SessionOK, OwnCheckpoints
<1>13. ResumesReady(s)'
  BY <1>1, <1>6, <1>9, <1>10, <1>11 DEF ResumesReady
<1> QED
  BY <1>3, <1>6, <1>7, <1>8, <1>12, <1>13, StartKeeps

LEMMA CancelCheckKeeps ==
  ASSUME SessionInv, OrderInv', NEW c \in Callers, NEW r \in Runs, CancelCheck(c, r)
  PROVE  SessionInv'
<1>0. OwnershipInv /\ TypeOK
  BY DEF SessionInv, OrderInv, OwnershipInv
<1>1. run[r].status \in Active
  <2>1. run[r].status \in RunStatuses
    BY <1>0 DEF TypeOK, DbTypeOK, RunRow
  <2> QED
    BY <2>1 DEF CancelCheck, IsRunTerminal, RunStatuses, Active
<1>2. PICK s \in Sessions : s = run[r].sess /\ r \in RunsOf(s)
  BY <1>0, RowOK DEF CancelCheck, RunsOf
<1>3. SessionOK(s)
  BY DEF SessionInv
<1>4. run[r].ckpt \in RunsOf(s)
  BY <1>1, <1>2, <1>3 DEF SessionOK, OwnCheckpoints, Unfinished, Active
<1>5. \A d \in Callers : ~Opens(d, s)
  BY <1>1, <1>2, ActiveKeepsOthersOut DEF SessionInv
<1>6. PICK step : step = IF run[r].status = "queued" THEN "cancelRow" ELSE "signal"
  OBVIOUS
<1>7. PICK k : k = [NoCall EXCEPT !.step = step, !.sess = run[r].sess, !.run = r,
                                  !.ckpt = run[r].ckpt]
  OBVIOUS
<1>8. k = [step |-> step, sess |-> s, run |-> r, parent |-> None, ckpt |-> run[r].ckpt, at |-> 0]
  BY <1>2, <1>7 DEF NoCall
<1>9. k \in Call /\ step \in {"cancelRow", "signal"}
  BY <1>0, <1>6, <1>8, RowOK, LifecycleAssumption DEF Call, CallSteps
<1>10. call' = [call EXCEPT ![c] = k]
  BY <1>6, <1>7 DEF CancelCheck
<1>11. call'[c] = k /\ \A d \in Callers \ {c} : call'[d] = call[d]
  BY <1>0, <1>9, <1>10 DEF TypeOK, CallTypeOK
<1>12. UNCHANGED run /\ RunsOf(s)' = RunsOf(s)
  BY DEF CancelCheck, RunsOf, dbVars
<1>13. ResumesReady(s)'
  <2>1. \A d \in Callers : ~Opens(d, s)'
    BY <1>5, <1>8, <1>9, <1>11 DEF Opens, Opening
  <2> QED
    BY <2>1, NobodyResumes
<1>14. OwnCheckpoints(s)'
  BY <1>3, <1>4, <1>8, <1>9, <1>11, <1>12 DEF SessionOK, OwnCheckpoints
<1> QED
  BY <1>8, <1>9, <1>10, <1>13, <1>14, StartKeeps DEF CancelCheck

LEMMA DeleteCheckKeeps ==
  ASSUME SessionInv, OrderInv', Disciplined,
         NEW c \in Callers, NEW s \in Sessions, DeleteCheck(c, s)
  PROVE  SessionInv'
<1>0. SessionOK(s) /\ OwnershipInv /\ TypeOK
  BY DEF SessionInv, OrderInv, OwnershipInv
<1>1. /\ CallsOn(s) = {}
      /\ call[c].step = "idle" /\ UNCHANGED <<dbVars, redisVars, workerVars, auxVars>>
  BY DEF DeleteCheck, MayCall, Disciplined
<1>2. UNCHANGED run /\ RunsOf(s)' = RunsOf(s)
  BY <1>1 DEF RunsOf, dbVars
<1>3. ASSUME NEW k \in Call, call' = [call EXCEPT ![c] = k], k.sess = s,
             k.step \in {"abandonRow", "deleteRow"},
             k.step = "abandonRow" => k.ckpt \in RunsOf(s)
      PROVE  SessionInv'
  <2>1. /\ call'[c] = k
        /\ \A d \in Callers \ {c} : call'[d].sess = s => call'[d].step = "idle"
    BY <1>0, <1>1, <1>3, FirstCall
  <2>2. OwnCheckpoints(s)'
    BY <1>0, <1>2, <1>3, <2>1 DEF SessionOK, OwnCheckpoints
  <2>3. ResumesReady(s)'
    BY <1>3, <2>1 DEF ResumesReady
  <2> QED
    BY <1>1, <1>3, <2>2, <2>3, StartKeeps
<1>4. CASE call' = [call EXCEPT ![c] = [NoCall EXCEPT !.step = "deleteRow", !.sess = s]]
  <2>1. PICK k : k = [NoCall EXCEPT !.step = "deleteRow", !.sess = s]
    OBVIOUS
  <2>2. k = [step |-> "deleteRow", sess |-> s, run |-> None, parent |-> None, ckpt |-> None,
             at |-> 0]
    BY <2>1 DEF NoCall
  <2>3. k \in Call
    BY <2>2, LifecycleAssumption DEF Call, CallSteps
  <2>4. call' = [call EXCEPT ![c] = k]
    BY <1>4, <2>1
  <2> QED
    BY <1>3, <2>2, <2>3, <2>4
<1>5. ASSUME NEW l \in LastRuns(s),
             call' = [call EXCEPT ![c] =
               [NoCall EXCEPT !.step = IF run[l].status = "waiting_input"
                                       THEN "abandonRow" ELSE "deleteRow",
                              !.sess = s, !.run = l, !.ckpt = run[l].ckpt]]
      PROVE  SessionInv'
  <2>1. PICK step : step = IF run[l].status = "waiting_input" THEN "abandonRow" ELSE "deleteRow"
    OBVIOUS
  <2>2. PICK k : k = [NoCall EXCEPT !.step = step, !.sess = s, !.run = l, !.ckpt = run[l].ckpt]
    OBVIOUS
  <2>3. k = [step |-> step, sess |-> s, run |-> l, parent |-> None, ckpt |-> run[l].ckpt,
             at |-> 0]
    BY <2>2 DEF NoCall
  <2>4. l \in RunsOf(s) /\ l \in Runs
    BY DEF LastRuns, RunsOf
  <2>5. k \in Call /\ step \in {"abandonRow", "deleteRow"}
    BY <1>0, <2>1, <2>3, <2>4, RowOK, LifecycleAssumption DEF Call, CallSteps
  <2>6. call' = [call EXCEPT ![c] = k]
    BY <1>5, <2>1, <2>2
  <2>7. step = "abandonRow" => run[l].ckpt \in RunsOf(s)
    BY <1>0, <2>1, <2>4 DEF SessionOK, OwnCheckpoints, Unfinished
  <2> QED
    BY <1>3, <2>3, <2>5, <2>6, <2>7
<1> QED
  BY <1>4, <1>5 DEF DeleteCheck

LEMMA RequestKeepsSessions ==
  ASSUME SessionInv, OrderInv', Disciplined, Request
  PROVE  SessionInv'
BY CreateSessionKeeps, CreateCheckKeeps, ResumeCheckKeeps, CancelCheckKeeps, DeleteCheckKeeps
DEF Request

-----------------------------------------------------------------------------
(* The steps of a request *)

\* A request that goes on keeps what it remembers of its checkpoint.
LEMMA ArgumentsStay ==
  ASSUME TypeOK, NEW s \in Sessions, NEW c \in Callers, NEW step, Goto(c, step),
         call[c].sess = s,
         step \in EndSteps => call[c].step \in EndSteps,
         step \in NewSteps => call[c].step \in NewSteps
  PROVE  SameArguments(s)
BY GotoShape DEF SameArguments

\* The pointer, checkpoints of the session and the request may change, and rows may be
\* settled, when no run is active any more.
LEMMA RestingKeeps ==
  ASSUME SessionInv, OrderInv', NEW s \in Sessions, SameArguments(s), Within(s),
         RunsOf(s)' = RunsOf(s),
         \A r \in RunsOf(s) :
           /\ run'[r].kind = run[r].kind /\ run'[r].parent = run[r].parent
           /\ run'[r].status \notin Active
           /\ run'[r].status = "waiting_input" =>
                run[r].status \in Unfinished /\ run'[r].ckpt = run[r].ckpt,
         WaitingReady(s)', ResumesReady(s)'
  PROVE  SessionInv'
<1>1. OwnCheckpoints(s)'
  BY CheckpointsStayOwn DEF SessionInv, SessionOK, Unfinished, Active
<1>2. AnswersWaiting(s)' /\ AnsweredReady(s)' /\ InterruptReady(s)'
  BY IdleSession
<1> QED
  BY <1>1, <1>2, StepWithin DEF SessionOK

LEMMA CreateSaveSessionKeeps ==
  ASSUME SessionInv, OrderInv', NEW c \in Callers, CreateSaveSession(c)
  PROVE  SessionInv'
<1> USE DEF dbVars, redisVars, workerVars, auxVars
<1>0. TypeOK
  BY DEF SessionInv, OrderInv, OwnershipInv
<1>1. PICK s \in Sessions : s = call[c].sess
  BY <1>0 DEF CreateSaveSession, TypeOK, CallTypeOK
<1>2. Opens(c, s) /\ OrderOK(s)
  BY <1>1 DEF CreateSaveSession, Opens, Opening, SessionInv, OrderInv
<1>3. /\ \A d \in Callers : Opens(d, s) => d = c
      /\ \A r \in RunsOf(s) : run[r].status \notin Active
  BY <1>2 DEF OrderOK, OpensAlone
<1>4. /\ \A d \in Callers \ {c} : call'[d] = call[d]
      /\ call'[c].step = "insertRun" /\ call'[c].sess = s
  BY <1>0, <1>1, GotoShape DEF CreateSaveSession
<1>5. \A t \in Sessions \ {s} : sess'[t] = sess[t]
  BY <1>0, <1>1 DEF CreateSaveSession, TypeOK, DbTypeOK
<1>6. RunsOf(s)' = RunsOf(s) /\ UNCHANGED <<run, ckpts, wpc, wrun, wout>>
  BY DEF CreateSaveSession, RunsOf
<1>7. SameArguments(s)
  BY <1>0, <1>1, ArgumentsStay DEF CreateSaveSession, EndSteps, NewSteps
<1>8. WaitingReady(s)' /\ ResumesReady(s)'
  BY <1>3, <1>4 DEF WaitingReady, ResumesReady, Opens, Opening
<1>9. Within(s)
  BY <1>1, <1>4, <1>5, <1>6 DEF Within, OrderWithin
<1> QED
  BY <1>3, <1>6, <1>7, <1>8, <1>9, RestingKeeps DEF Unfinished

\* A new row is the last of its session; if it answers a run, that run is ready.
LEMMA InsertRowKeeps ==
  ASSUME SessionInv, OrderInv', NEW c \in Callers, NEW kind \in {"query", "resume"},
         call[c].step = IF kind = "query" THEN "insertRun" ELSE "insertResume",
         InsertRow(c, kind)
  PROVE  SessionInv'
<1> USE DEF dbVars, redisVars, workerVars, auxVars
<1>0. OrderInv /\ TypeOK /\ OwnershipInv /\ OwnershipInv'
  BY DEF SessionInv, OrderInv, OwnershipInv
<1>1. PICK s \in Sessions, r \in Runs : s = call[c].sess /\ r = call[c].run
  BY <1>0 DEF TypeOK, CallTypeOK
<1>2. SessionOK(s) /\ OrderOK(s)
  BY DEF SessionInv, OrderInv
<1>3. /\ Opens(c, s) /\ run[r].status = "none" /\ r \notin RunsOf(s)
      /\ run'[r].status = "queued" /\ run'[r].kind = kind
      /\ run'[r].sess = s /\ run'[r].parent = call[c].parent
      /\ run'[r].ckpt = call[c].ckpt /\ run'[r].at = call[c].at
      /\ \A q \in Runs \ {r} : run'[q] = run[q]
      /\ RunsOf(s)' = RunsOf(s) \cup {r}
  BY <1>0, <1>1, InsertShape
<1>4. /\ \A d \in Callers : Opens(d, s) => d = c
      /\ \A q \in RunsOf(s) : run[q].status \notin Active
  BY <1>2, <1>3 DEF OrderOK, OpensAlone
<1>5. /\ \A d \in Callers \ {c} : call'[d] = call[d]
      /\ call'[c].step = "enqueue" /\ call'[c].sess = s
  BY <1>0, <1>1, GotoShape DEF InsertRow
<1>6. UNCHANGED <<sess, ckpts, wpc, wrun, wout>>
  BY DEF InsertRow
<1>7. \A q \in RunsOf(s) : run[q].at < call[c].at /\ run'[q] = run[q] /\ run[q].sess = s
  <2>1. \A q \in RunsOf(s) : run[q].at < call[c].at
    BY <1>1, <1>2 DEF OrderOK, InsertsLast, Inserts
  <2> QED
    BY <1>3, <2>1 DEF RunsOf
<1>8. /\ \A q \in RunsOf(s) : run[q].at \in Nat
      /\ call[c].at \in Nat
  BY <1>0, TimesAreNumbers DEF TypeOK, CallTypeOK, Call
<1>9. /\ kind = "query" => call[c].parent = None /\ call[c].ckpt = r
      /\ kind = "resume" =>
           /\ call[c].parent \in RunsOf(s)
           /\ Awaits(call[c].parent) /\ Ready(call[c].parent)
           /\ call[c].ckpt = run[call[c].parent].ckpt
  BY <1>1, <1>2 DEF SessionOK, OwnCheckpoints, ResumesReady
<1>10. SameArguments(s)
  BY <1>0, <1>1, ArgumentsStay DEF InsertRow, EndSteps, NewSteps
<1>11. OwnCheckpoints(s)'
  <2>1. call[c].ckpt \in RunsOf(s)'
    BY <1>2, <1>3, <1>9 DEF SessionOK, OwnCheckpoints, Awaits, Unfinished
  <2>2. \A q \in RunsOf(s)' : /\ run'[q].status \in Unfinished => run'[q].ckpt \in RunsOf(s)'
                              /\ run'[q].kind = "query" => run'[q].parent = None
    BY <1>2, <1>3, <1>7, <1>9, <2>1 DEF SessionOK, OwnCheckpoints
  <2>3. \A d \in Callers : call'[d].sess = s =>
          /\ call'[d].step \in EndSteps => call'[d].ckpt \in RunsOf(s)'
          /\ call'[d].step \in NewSteps => call'[d].parent = None /\ call'[d].ckpt = call'[d].run
    BY <1>2, <1>3, <1>10 DEF SessionOK, OwnCheckpoints, SameArguments, EndSteps, NewSteps
  <2> QED
    BY <2>2, <2>3 DEF OwnCheckpoints, EndSteps, NewSteps
<1>12. AnswersWaiting(s)'
  <2>1. ASSUME kind = "resume" PROVE Answers(r, run[r].parent)'
    <3>1. PICK p \in RunsOf(s) : /\ p = call[c].parent /\ Awaits(p)
                                 /\ call[c].ckpt = run[p].ckpt
      BY <1>9, <2>1
    <3>2. /\ run[p].status = "waiting_input" /\ run'[p] = run[p] /\ p # r /\ p \in RunsOf(s)'
          /\ run[p].at < call[c].at
      BY <1>3, <1>7, <3>1 DEF Awaits
    <3>3. \A q \in RunsOf(s)' \ {r} :
            run'[q].at > run'[p].at => run'[q].parent = p /\ run'[q].status = "failed"
      BY <1>3, <1>7, <3>1 DEF Awaits
    <3> QED
      BY <1>3, <3>1, <3>2, <3>3 DEF Answers
  <2>2. \A q \in RunsOf(s) : run'[q].status \notin Active
    BY <1>4, <1>7
  <2> QED
    BY <1>3, <2>1, <2>2 DEF AnswersWaiting
<1>13. WaitingReady(s)'
  <2> SUFFICES ASSUME NEW p \in RunsOf(s)', Awaits(p)' PROVE FALSE
    BY DEF WaitingReady
  <2>1. p \in RunsOf(s) /\ run'[p].sess = s
    BY <1>3, <1>7 DEF Awaits
  <2>2. r \in RunsOf(s)' /\ run'[r].at > run'[p].at
    BY <1>3, <1>7, <1>8, <2>1
  <2> QED
    BY <1>3, <2>1, <2>2 DEF Awaits
<1>14. \A w \in Workers, q \in RunsOf(s)' : ~Executes(w, q)'
  <2>1. \A w \in Workers, q \in RunsOf(s)' : Executes(w, q)' => run'[q].status = "running"
    BY <1>0 DEF OwnershipInv, ExecutingIsRunning, RunsOf
  <2> QED
    BY <1>3, <1>4, <1>7, <2>1 DEF Active
<1>15. AnsweredReady(s)'
  <2>1. \A q \in RunsOf(s)' : run'[q].status = "queued" => q = r
    BY <1>3, <1>4, <1>7 DEF Active
  <2>2. ASSUME kind = "resume" PROVE Ready(run[r].parent)'
    <3>1. PICK p \in RunsOf(s) : p = call[c].parent /\ Ready(p)
      BY <1>9, <2>2
    <3>2. Ready(p)'
      BY <1>6, <1>7, <3>1 DEF Ready
    <3> QED
      BY <1>3, <3>1, <3>2
  <2> QED
    BY <1>3, <1>14, <2>1, <2>2 DEF AnsweredReady
<1>16. InterruptReady(s)'
  BY <1>14 DEF InterruptReady, Executes
<1>17. ResumesReady(s)'
  <2>1. \A d \in Callers : ~Opens(d, s)'
    BY <1>4, <1>5 DEF Opens, Opening
  <2> QED
    BY <2>1, NobodyResumes
<1>18. Within(s)
  BY <1>1, <1>3, <1>5, <1>6 DEF Within, OrderWithin
<1> QED
  BY <1>11, <1>12, <1>13, <1>15, <1>16, <1>17, <1>18, StepWithin DEF SessionOK

LEMMA CancelQueuedRowKeeps ==
  ASSUME SessionInv, OrderInv', NEW c \in Callers, CancelQueuedRow(c)
  PROVE  SessionInv'
<1> USE DEF dbVars, redisVars, workerVars, auxVars
<1>0. OrderInv /\ TypeOK
  BY DEF SessionInv, OrderInv, OwnershipInv
<1>1. PICK s \in Sessions, r \in Runs : s = call[c].sess /\ r = call[c].run
  BY <1>0 DEF CancelQueuedRow, TypeOK, CallTypeOK
<1>2. r \in RunsOf(s) /\ run[r].sess = s
  BY <1>0, <1>1 DEF CancelQueuedRow, OrderInv, OrderOK, EndsLast, RunsOf
<1>3. UNCHANGED <<sess, ckpts, wpc, wrun, wout>>
  BY DEF CancelQueuedRow
<1>4. CASE /\ CancellableRow(r)
           /\ run' = [run EXCEPT ![r].status = "cancelled", ![r].ckpt = None]
           /\ Goto(c, IF run[r].kind = "query" THEN "cancelSave" ELSE "cancelEmit")
  <2>1. run[r].status \in Active
    BY <1>4 DEF CancellableRow, Active
  <2>2. /\ \A d \in Callers : ~Opens(d, s)
        /\ r \in LastRuns(s)
        /\ \A q \in RunsOf(s) \ {r} : run[q].status \notin Active
    BY <1>0, <1>2, <2>1, ActiveKeepsOthersOut
  <2>3. PICK step \in {"cancelSave", "cancelEmit"} : Goto(c, step)
    BY <1>4
  <2>4. /\ \A d \in Callers \ {c} : call'[d] = call[d]
        /\ call'[c].step = step /\ call'[c].sess = s
    BY <1>0, <1>1, <2>3, GotoShape
  <2>5. SameArguments(s)
    BY <1>0, <1>1, <2>3, ArgumentsStay DEF CancelQueuedRow, EndSteps, NewSteps
  <2>6. /\ run'[r].status = "cancelled"
        /\ run'[r].kind = run[r].kind /\ run'[r].sess = run[r].sess
        /\ run'[r].parent = run[r].parent /\ run'[r].at = run[r].at
        /\ \A q \in Runs \ {r} : run'[q] = run[q]
    BY <1>0, <1>4, RowShape
  <2>7. RunsOf(s)' = RunsOf(s) /\ LastRuns(s)' = LastRuns(s)
    BY <1>0, <1>2, <1>3, <2>1, <2>2, <2>6, SettledRow, ActiveKeepsOthersOut
    DEF OrderInv, OrderOK, Active
  <2>8. WaitingReady(s)'
    BY <2>2, <2>6, <2>7, NothingWaits
  <2>9. ResumesReady(s)'
    <3>1. \A d \in Callers : ~Opens(d, s)'
      BY <2>2, <2>4 DEF Opens, Opening
    <3> QED
      BY <3>1, NobodyResumes
  <2>10. \A q \in RunsOf(s) \ {r} : run'[q] = run[q]
    BY <2>6 DEF RunsOf
  <2>11. Within(s)
    BY <1>1, <1>2, <1>3, <2>4, <2>6 DEF Within, OrderWithin
  <2> QED
    BY <2>2, <2>5, <2>6, <2>7, <2>8, <2>9, <2>10, <2>11, RestingKeeps DEF Active, Unfinished
<1>5. CASE UNCHANGED run /\ (Return(c) \/ Goto(c, "signal"))
  <2>1. (\A d \in Callers \ {c} : call'[d] = call[d]) /\ call'[c].step \in {"idle", "signal"}
    BY <1>0, <1>5, GotoShape, ReturnShape
  <2>2. \A t \in Sessions : NoNewCalls(t) /\ InsertsStay(t) /\ SameWorkers(t)
    BY <1>3, <2>1
    DEF CancelQueuedRow, NoNewCalls, InsertsStay, SameWorkers, SessionSteps, Opening
  <2> QED
    BY <1>3, <1>5, <2>2, StepOutside
<1> QED
  BY <1>1, <1>4, <1>5 DEF CancelQueuedRow

LEMMA CancelSaveSessionKeeps ==
  ASSUME SessionInv, OrderInv', NEW c \in Callers, CancelSaveSession(c)
  PROVE  SessionInv'
<1> USE DEF dbVars, redisVars, workerVars, auxVars
<1>0. OrderInv /\ TypeOK
  BY DEF SessionInv, OrderInv, OwnershipInv
<1>1. PICK s \in Sessions, r \in Runs : s = call[c].sess /\ r = call[c].run
  BY <1>0 DEF CancelSaveSession, TypeOK, CallTypeOK
<1>2. /\ r \in LastRuns(s) /\ run[r].status = "cancelled"
      /\ \A d \in Callers : ~Opens(d, s)
  BY <1>0, <1>1 DEF CancelSaveSession, OrderInv, OrderOK, EndsLast, OpensAlone
<1>3. call[c].ckpt \in RunsOf(s)
  BY <1>1 DEF CancelSaveSession, SessionInv, SessionOK, OwnCheckpoints
<1>4. \A q \in RunsOf(s) : run[q].status \notin Active
  BY <1>0, <1>2, NoneActive DEF Active
<1>5. /\ \A d \in Callers \ {c} : call'[d] = call[d]
      /\ call'[c].step = "cancelEmit" /\ call'[c].sess = s
  BY <1>0, <1>1, GotoShape DEF CancelSaveSession
<1>6. \A t \in Sessions \ {s} : sess'[t] = sess[t]
  BY <1>0, <1>1, PointerShape DEF CancelSaveSession
<1>7. /\ \A k \in Runs \ RunsOf(s) : k \in ckpts' <=> k \in ckpts
      /\ UNCHANGED <<run, wpc, wrun, wout>>
  BY <1>3 DEF CancelSaveSession, InvalidateCheckpoint
<1>8. RunsOf(s)' = RunsOf(s) /\ LastRuns(s)' = LastRuns(s)
  BY <1>7 DEF RunsOf, LastRuns
<1>9. WaitingReady(s)'
  BY <1>2, <1>7, <1>8, NothingWaits
<1>10. ResumesReady(s)'
  <2>1. \A d \in Callers : ~Opens(d, s)'
    BY <1>2, <1>5 DEF Opens, Opening
  <2> QED
    BY <2>1, NobodyResumes
<1>11. SameArguments(s)
  BY <1>0, <1>1, ArgumentsStay DEF CancelSaveSession, EndSteps, NewSteps
<1>12. Within(s)
  BY <1>1, <1>5, <1>6, <1>7 DEF Within, OrderWithin
<1> QED
  BY <1>4, <1>7, <1>8, <1>9, <1>10, <1>11, <1>12, RestingKeeps DEF Unfinished

LEMMA AbandonRowKeeps ==
  ASSUME SessionInv, OrderInv', NEW c \in Callers, AbandonRow(c)
  PROVE  SessionInv'
<1> USE DEF dbVars, redisVars, workerVars, auxVars
<1>0. OrderInv /\ TypeOK
  BY DEF SessionInv, OrderInv, OwnershipInv
<1>1. PICK s \in Sessions, r \in Runs : s = call[c].sess /\ r = call[c].run
  BY <1>0 DEF AbandonRow, TypeOK, CallTypeOK
<1>2. OrderOK(s) /\ Opens(c, s)
  BY <1>0, <1>1 DEF OrderInv, AbandonRow, Opens, Opening
<1>3. r \in LastRuns(s) /\ r \in RunsOf(s) /\ run[r].sess = s
  BY <1>1, <1>2 DEF AbandonRow, OrderOK, EndsLast, LastRuns, RunsOf
<1>4. /\ \A d \in Callers : Opens(d, s) => d = c
      /\ \A q \in RunsOf(s) : run[q].status \notin Active
  BY <1>2 DEF OrderOK, OpensAlone
<1>5. /\ \A d \in Callers \ {c} : call'[d] = call[d]
      /\ call'[c].step = "abandonEmit" /\ call'[c].sess = s
  BY <1>0, <1>1, GotoShape DEF AbandonRow
<1>6. /\ run'[r].status = "cancelled"
      /\ run'[r].kind = run[r].kind /\ run'[r].sess = run[r].sess
      /\ run'[r].parent = run[r].parent /\ run'[r].at = run[r].at
      /\ \A q \in Runs \ {r} : run'[q] = run[q]
  BY <1>0, <1>1, RowShape DEF AbandonRow
<1>7. UNCHANGED <<sess, ckpts, wpc, wrun, wout>> /\ sess[s].status # "none"
  BY <1>2, <1>3 DEF AbandonRow, OrderOK, RowsInOrder
<1>8. RunsOf(s)' = RunsOf(s) /\ LastRuns(s)' = LastRuns(s)
  BY <1>2, <1>3, <1>6, <1>7, SettledRow DEF OrderOK, Active
<1>9. WaitingReady(s)'
  BY <1>3, <1>6, <1>8, NothingWaits
<1>10. ResumesReady(s)'
  BY <1>4, <1>5 DEF ResumesReady, Opens, Opening
<1>11. SameArguments(s)
  BY <1>0, <1>1, ArgumentsStay DEF AbandonRow, EndSteps, NewSteps
<1>12. \A q \in RunsOf(s) \ {r} : run'[q] = run[q]
  BY <1>6 DEF RunsOf
<1>13. Within(s)
  BY <1>1, <1>3, <1>5, <1>6, <1>7 DEF Within, OrderWithin
<1> QED
  BY <1>4, <1>6, <1>8, <1>9, <1>10, <1>11, <1>12, <1>13, RestingKeeps DEF Active, Unfinished

LEMMA AbandonEmitKeeps ==
  ASSUME SessionInv, OrderInv', NEW c \in Callers, AbandonEmit(c)
  PROVE  SessionInv'
<1> USE DEF dbVars, redisVars, workerVars, auxVars
<1>0. OrderInv /\ TypeOK
  BY DEF SessionInv, OrderInv, OwnershipInv
<1>1. PICK s \in Sessions, r \in Runs : s = call[c].sess /\ r = call[c].run
  BY <1>0 DEF AbandonEmit, TypeOK, CallTypeOK
<1>2. OrderOK(s) /\ Opens(c, s)
  BY <1>0, <1>1 DEF OrderInv, AbandonEmit, Opens, Opening
<1>3. r \in LastRuns(s) /\ run[r].status = "cancelled" /\ call[c].ckpt \in RunsOf(s)
  BY <1>1, <1>2
  DEF AbandonEmit, OrderOK, EndsLast, SessionInv, SessionOK, OwnCheckpoints
<1>4. /\ \A d \in Callers : Opens(d, s) => d = c
      /\ \A q \in RunsOf(s) : run[q].status \notin Active
  BY <1>2 DEF OrderOK, OpensAlone
<1>5. /\ \A d \in Callers \ {c} : call'[d] = call[d]
      /\ call'[c].step = "deleteRow" /\ call'[c].sess = s
  BY <1>0, <1>1, GotoShape DEF AbandonEmit
<1>6. /\ \A k \in Runs \ RunsOf(s) : k \in ckpts' <=> k \in ckpts
      /\ UNCHANGED <<sess, run, wpc, wrun, wout>>
  BY <1>3 DEF AbandonEmit, InvalidateCheckpoint
<1>7. RunsOf(s)' = RunsOf(s) /\ LastRuns(s)' = LastRuns(s)
  BY <1>6 DEF RunsOf, LastRuns
<1>8. WaitingReady(s)'
  BY <1>3, <1>6, <1>7, NothingWaits
<1>9. ResumesReady(s)'
  BY <1>4, <1>5 DEF ResumesReady, Opens, Opening
<1>10. SameArguments(s)
  BY <1>0, <1>1, ArgumentsStay DEF AbandonEmit, EndSteps, NewSteps
<1>11. Within(s)
  BY <1>1, <1>5, <1>6 DEF Within, OrderWithin
<1> QED
  BY <1>4, <1>6, <1>7, <1>8, <1>9, <1>10, <1>11, RestingKeeps DEF Unfinished

LEMMA DeleteRowKeeps ==
  ASSUME SessionInv, OrderInv', NEW c \in Callers, DeleteRow(c)
  PROVE  SessionInv'
<1> USE DEF dbVars, redisVars, workerVars, auxVars
<1>0. OrderInv /\ TypeOK
  BY DEF SessionInv, OrderInv, OwnershipInv
<1>1. PICK s \in Sessions : s = call[c].sess
  BY <1>0 DEF DeleteRow, TypeOK, CallTypeOK
<1>2. OrderOK(s) /\ Opens(c, s)
  BY <1>0, <1>1 DEF OrderInv, DeleteRow, Opens, Opening
<1>3. /\ \A d \in Callers : Opens(d, s) => d = c
      /\ \A q \in RunsOf(s) : run[q].status \notin Active
  BY <1>2 DEF OrderOK, OpensAlone
<1>4. /\ \A d \in Callers \ {c} : call'[d] = call[d]
      /\ call'[c].step = "idle" /\ call'[c].sess = None
  BY <1>0, ReturnShape DEF DeleteRow
<1>5. sess'[s].status = "deleted" /\ \A t \in Sessions \ {s} : sess'[t] = sess[t]
  BY <1>0, <1>1 DEF DeleteRow, TypeOK, DbTypeOK, SessionRow
<1>6. RunsOf(s)' = RunsOf(s) /\ UNCHANGED <<run, ckpts, wpc, wrun, wout>>
  BY DEF DeleteRow, RunsOf
<1>7. WaitingReady(s)'
  BY <1>5 DEF WaitingReady
<1>8. ResumesReady(s)' /\ SameArguments(s)
  BY <1>3, <1>4
  DEF ResumesReady, SameArguments, EndSteps, NewSteps, Opens, Opening
<1>9. Within(s)
  BY <1>1, <1>4, <1>5, <1>6 DEF Within, OrderWithin
<1> QED
  BY <1>3, <1>6, <1>7, <1>8, <1>9, RestingKeeps DEF Unfinished

LEMMA HandlerKeepsSessions ==
  ASSUME SessionInv, OrderInv', NEW c \in Callers, Handler(c)
  PROVE  SessionInv'
<1> USE DEF dbVars, redisVars, workerVars, auxVars
<1>1. CASE EnqueueRun(c) \/ CancelEmit(c) \/ CancelSignal(c)
  <2>1. UNCHANGED <<sess, run, ckpts, wpc, wrun, wout>> /\ Return(c)
        /\ call[c].step # "insertRun"
    BY <1>1 DEF EnqueueRun, CancelEmit, CancelSignal
  <2>2. (\A d \in Callers \ {c} : call'[d] = call[d]) /\ call'[c].step = "idle"
    BY <2>1, ReturnShape DEF SessionInv, OrderInv, OwnershipInv
  <2>3. \A s \in Sessions : NoNewCalls(s) /\ InsertsStay(s) /\ SameWorkers(s)
    BY <2>1, <2>2 DEF NoNewCalls, InsertsStay, SameWorkers, SessionSteps, Opening
  <2> QED
    BY <2>1, <2>3, StepOutside
<1>2. CASE CreateInsertRun(c)
  BY <1>2, InsertRowKeeps DEF CreateInsertRun
<1>3. CASE ResumeInsertRun(c)
  BY <1>3, InsertRowKeeps DEF ResumeInsertRun
<1> QED
  BY <1>1, <1>2, <1>3, CreateSaveSessionKeeps, CancelQueuedRowKeeps, CancelSaveSessionKeeps,
     AbandonRowKeeps, AbandonEmitKeeps, DeleteRowKeeps
  DEF Handler

-----------------------------------------------------------------------------
(* The worker *)

\* A worker that executes a run is the only one at work in the run's session.
LEMMA WorkerStepShape ==
  ASSUME SessionInv, NEW w \in Workers, NEW r \in Runs, Executes(w, r)
  PROVE  /\ run[r].status = "running" /\ run[r].sess \in Sessions
         /\ r \in RunsOf(run[r].sess)
         /\ run[r].ckpt \in RunsOf(run[r].sess)
         /\ \A v \in Workers \ {w}, q \in RunsOf(run[r].sess) : ~Executes(v, q)
<1>0. OrderInv /\ OwnershipInv /\ TypeOK
  BY DEF SessionInv, OrderInv, OwnershipInv
<1>1. run[r].status = "running"
  BY <1>0 DEF OwnershipInv, ExecutingIsRunning
<1>2. PICK s \in Sessions : s = run[r].sess /\ r \in RunsOf(s)
  BY <1>0, <1>1, RowOK DEF RunsOf
<1>3. run[r].ckpt \in RunsOf(s)
  BY <1>1, <1>2 DEF SessionInv, SessionOK, OwnCheckpoints, Unfinished
<1>4. ASSUME NEW v \in Workers \ {w}, NEW q \in RunsOf(s), Executes(v, q) PROVE FALSE
  <2>1. q # r
    BY <1>0, <1>4 DEF OwnershipInv, ExclusiveExecution, Holds
  <2>2. run[q].status = "running"
    BY <1>0, <1>4 DEF OwnershipInv, ExecutingIsRunning, RunsOf
  <2> QED
    BY <1>0, <1>1, <1>2, <2>1, <2>2, ActiveKeepsOthersOut DEF Active
<1> QED
  BY <1>1, <1>2, <1>3, <1>4

\* While nothing happens to the requests on a session, and nobody opens it.
LEMMA CallsStay ==
  ASSUME NEW s \in Sessions, UNCHANGED call, \A d \in Callers : ~Opens(d, s)
  PROVE  SameArguments(s) /\ NoNewCalls(s) /\ ResumesReady(s)'
BY DEF SameArguments, NoNewCalls, Opens, Opening, ResumesReady

LEMMA TryStartRunKeeps ==
  ASSUME SessionInv, OrderInv', NEW w \in Workers, NEW r \in Runs, TryStartRun(w, r)
  PROVE  SessionInv'
<1> USE DEF dbVars, redisVars, workerVars, auxVars
<1>0. OrderInv /\ OwnershipInv /\ TypeOK
  BY DEF SessionInv, OrderInv, OwnershipInv
<1>1. run[r].status = "queued" /\ run[r].status \in Active
  BY DEF TryStartRun, Startable, Active
<1>2. PICK s \in Sessions : s = run[r].sess /\ r \in RunsOf(s)
  BY <1>0, <1>1, RowOK DEF RunsOf
<1>3. SessionOK(s)
  BY DEF SessionInv
<1>4. /\ \A d \in Callers : ~Opens(d, s)
      /\ \A q \in RunsOf(s) \ {r} : run[q].status \notin Active /\ run[q].at < run[r].at
  BY <1>0, <1>1, <1>2, ActiveKeepsOthersOut
<1>5. /\ run'[r].status = "running" /\ run'[r].ckpt = run[r].ckpt
      /\ run'[r].kind = run[r].kind /\ run'[r].sess = run[r].sess
      /\ run'[r].parent = run[r].parent /\ run'[r].at = run[r].at
      /\ \A q \in Runs \ {r} : run'[q] = run[q]
  BY <1>0 DEF TryStartRun, TypeOK, DbTypeOK, RunRow
<1>6. /\ wpc'[w] = "started" /\ wrun'[w] = r
      /\ \A v \in Workers \ {w} : wpc'[v] = wpc[v] /\ wrun'[v] = wrun[v]
      /\ UNCHANGED <<sess, ckpts, call, wout>>
  BY <1>0 DEF TryStartRun, Take, TypeOK, WorkerTypeOK
<1>7. RunsOf(s)' = RunsOf(s) /\ run'[r].status \in Active
  BY <1>1, <1>2, <1>5 DEF RunsOf, Active
<1>8. \A q \in RunsOf(s) \ {r} : run'[q] = run[q]
  BY <1>5 DEF RunsOf
<1>9. OwnCheckpoints(s)' /\ ResumesReady(s)'
  BY <1>1, <1>3, <1>4, <1>5, <1>6, <1>7, <1>8, CallsStay, CheckpointsStayOwn
  DEF SessionOK, Unfinished
<1>10. AnswersWaiting(s)'
  <2>1. ASSUME run[r].kind = "resume" PROVE Answers(r, run[r].parent)'
    <3>1. PICK p \in RunsOf(s) : p = run[r].parent /\ Answers(r, p)
      BY <1>1, <1>2, <1>3, <2>1 DEF SessionOK, AnswersWaiting, Answers
    <3>2. p # r /\ run'[p] = run[p]
      BY <1>1, <1>8, <3>1 DEF Answers
    <3>3. Answers(r, p)'
      BY <1>2, <1>5, <1>7, <1>8, <3>1, <3>2 DEF Answers
    <3> QED
      BY <1>5, <3>1, <3>3
  <2> QED
    BY <1>4, <1>5, <1>7, <1>8, <2>1 DEF AnswersWaiting
<1>11. WaitingReady(s)'
  <2> SUFFICES ASSUME NEW p \in RunsOf(s)', Awaits(p)' PROVE FALSE
    BY DEF WaitingReady
  <2>1. p # r /\ p \in RunsOf(s) /\ run'[p].sess = s
    BY <1>5, <1>7 DEF Awaits, RunsOf
  <2>2. run'[r].at > run'[p].at
    <3>1. run[p].at \in Nat /\ run[r].at \in Nat
      BY <1>0, <1>2, <2>1, TimesAreNumbers
    <3> QED
      BY <1>4, <1>5, <1>8, <2>1, <3>1
  <2> QED
    BY <1>2, <1>5, <1>7, <2>1, <2>2 DEF Awaits
<1>12. \A v \in Workers, q \in RunsOf(s) : Executes(v, q)' => v = w /\ q = r
  <2>1. \A v \in Workers, q \in RunsOf(s) : ~Executes(v, q)
    <3>1. \A v \in Workers, q \in RunsOf(s) : Executes(v, q) => run[q].status = "running"
      BY <1>0 DEF OwnershipInv, ExecutingIsRunning, RunsOf
    <3> QED
      BY <1>1, <1>4, <3>1 DEF Active
  <2> QED
    BY <1>6, <2>1 DEF Executes
<1>13. AnsweredReady(s)'
  <2>1. \A q \in RunsOf(s) : run'[q].status # "queued"
    BY <1>4, <1>5, <1>8 DEF Active
  <2>2. ASSUME run[r].kind = "resume" PROVE Ready(run[r].parent)'
    <3>1. PICK p \in RunsOf(s) : p = run[r].parent /\ run[p].status = "waiting_input"
      BY <1>1, <1>2, <1>3, <2>2 DEF SessionOK, AnswersWaiting, Answers
    <3>2. Ready(p) /\ p # r
      BY <1>1, <1>2, <1>3, <2>2, <3>1 DEF SessionOK, AnsweredReady
    <3>3. Ready(p)'
      BY <1>6, <1>8, <3>1, <3>2 DEF Ready
    <3> QED
      BY <1>5, <3>1, <3>3
  <2> QED
    BY <1>5, <1>7, <1>12, <2>1, <2>2 DEF AnsweredReady
<1>14. InterruptReady(s)'
  BY <1>6, <1>7, <1>12 DEF InterruptReady, Executes
<1>15. Within(s)
  BY <1>2, <1>5, <1>6 DEF Within, OrderWithin
<1> QED
  BY <1>9, <1>10, <1>11, <1>13, <1>14, <1>15, StepWithin DEF SessionOK

\* The agent returns, or its outcome is saved: the row is still running, the pointer or
\* the checkpoint may change.
LEMMA OutcomeKeeps ==
  ASSUME SessionInv, OrderInv',
         NEW w \in Workers, NEW s \in Sessions, NEW r \in RunsOf(s),
         Executes(w, r), UNCHANGED <<run, call, wrun>>,
         \A v \in Workers \ {w} : wpc'[v] = wpc[v] /\ wout'[v] = wout[v],
         \A t \in Sessions \ {s} : sess'[t] = sess[t],
         \A k \in Runs \ RunsOf(s) : k \in ckpts' <=> k \in ckpts,
         wpc'[w] \in {"save", "row"},
         wout'[w] = "failed" /\ run[r].kind = "resume" =>
           /\ wpc[w] = "exec" \/ wout[w] = "failed"
           /\ UNCHANGED <<sess, ckpts>>,
         wout'[w] = "waiting_input" =>
           /\ wpc'[w] = "save" => run[r].ckpt \in ckpts'
           /\ wpc'[w] = "row" => Ready(r)'
  PROVE  SessionInv'
<1>0. OrderInv /\ SessionOK(s)
  BY DEF SessionInv
<1>1. /\ run[r].sess = s /\ run[r].status = "running" /\ run[r].status \in Active /\ r \in Runs
      /\ \A v \in Workers \ {w}, q \in RunsOf(s) : ~Executes(v, q)
  BY WorkerStepShape DEF RunsOf, Active
<1>2. /\ \A d \in Callers : ~Opens(d, s)
      /\ \A q \in RunsOf(s) \ {r} : run[q].status \notin Active
  BY <1>0, <1>1, ActiveKeepsOthersOut
<1>3. SameRows(s)
  BY DEF SameRows, RunsOf
<1>4. OwnCheckpoints(s)' /\ ResumesReady(s)'
  BY <1>0, <1>2, <1>3, CallsStay, CheckpointsStayOwn DEF SessionOK, SameRows
<1>5. AnswersWaiting(s)'
  BY <1>0, <1>3, AnswersStayWaiting DEF SessionOK
<1>6. WaitingReady(s)'
  BY <1>0, <1>1, <1>3, ActiveKeepsNoneWaiting, AwaitsStay DEF WaitingReady, SameRows
<1>7. \A v \in Workers, q \in RunsOf(s) : Executes(v, q)' => v = w /\ q = r
  BY <1>1 DEF Executes
<1>8. AnsweredReady(s)'
  <2>1. ASSUME run[r].kind = "resume", wout'[w] = "failed" PROVE Ready(run[r].parent)'
    <3>1. Ready(run[r].parent)
      BY <1>0, <2>1 DEF SessionOK, AnsweredReady
    <3> QED
      BY <2>1, <3>1 DEF Ready
  <2>2. \A q \in RunsOf(s) : run[q].status # "queued"
    BY <1>1, <1>2 DEF Active
  <2> QED
    BY <1>3, <1>7, <2>1, <2>2 DEF AnsweredReady, SameRows
<1>9. InterruptReady(s)'
  BY <1>3, <1>7 DEF InterruptReady, Executes, SameRows
<1>10. Within(s)
  BY <1>1 DEF Within, OrderWithin, Executes
<1> QED
  BY <1>4, <1>5, <1>6, <1>8, <1>9, <1>10, StepWithin DEF SessionOK

LEMMA AgentReturnsKeeps ==
  ASSUME SessionInv, OrderInv', NEW w \in Workers, AgentReturns(w)
  PROVE  SessionInv'
<1> USE DEF dbVars, redisVars, workerVars, auxVars
<1>0. TypeOK
  BY DEF SessionInv, OrderInv, OwnershipInv
<1>1. PICK r \in Runs : r = wrun[w] /\ Executes(w, r)
  BY <1>0 DEF AgentReturns, TypeOK, WorkerTypeOK, Executes
<1>2. PICK s \in Sessions : s = run[r].sess /\ r \in RunsOf(s) /\ run[r].ckpt \in RunsOf(s)
  BY <1>1, WorkerStepShape
<1>3. PICK outcome \in {"waiting_input", "done", "failed"} :
        /\ wout' = [wout EXCEPT ![w] = DeriveRunStatus(outcome, live[r] = "cancelRequested")]
        /\ \/ outcome = "waiting_input" /\ ckpts' = ckpts \cup {run[r].ckpt}
           \/ outcome = "done" /\ InvalidateCheckpoint(run[r].ckpt)
           \/ (outcome = "failed" \/ live[r] = "cancelRequested") /\ UNCHANGED ckpts
  BY <1>1 DEF AgentReturns, Outcomes
<1>4. /\ wpc[w] = "exec" /\ wpc'[w] = "save"
      /\ wout'[w] = DeriveRunStatus(outcome, live[r] = "cancelRequested")
      /\ \A v \in Workers \ {w} : wpc'[v] = wpc[v] /\ wout'[v] = wout[v]
      /\ UNCHANGED <<sess, run, call, wrun>>
  BY <1>0, <1>3 DEF AgentReturns, TypeOK, WorkerTypeOK
<1>5. \A k \in Runs \ RunsOf(s) : k \in ckpts' <=> k \in ckpts
  BY <1>2, <1>3 DEF InvalidateCheckpoint
<1>6. wout'[w] = "failed" => UNCHANGED ckpts
  BY <1>3, <1>4 DEF DeriveRunStatus
<1>7. wout'[w] = "waiting_input" => run[r].ckpt \in ckpts'
  BY <1>3, <1>4 DEF DeriveRunStatus
<1> QED
  BY <1>1, <1>2, <1>4, <1>5, <1>6, <1>7, OutcomeKeeps

LEMMA SaveOutcomeKeeps ==
  ASSUME SessionInv, OrderInv', Disciplined, NEW w \in Workers, SaveOutcome(w)
  PROVE  SessionInv'
<1> USE DEF dbVars, redisVars, workerVars, auxVars
<1>0. TypeOK
  BY DEF SessionInv, OrderInv, OwnershipInv
<1>1. PICK r \in Runs : r = wrun[w] /\ Executes(w, r)
  BY <1>0 DEF SaveOutcome, TypeOK, WorkerTypeOK, Executes
<1>2. PICK s \in Sessions : s = run[r].sess /\ r \in RunsOf(s) /\ run[r].ckpt \in RunsOf(s)
  BY <1>1, WorkerStepShape
<1>3. /\ wpc[w] = "save" /\ wpc'[w] = "row"
      /\ \A v \in Workers \ {w} : wpc'[v] = wpc[v]
      /\ UNCHANGED <<run, call, wrun, wout>>
  BY <1>0 DEF SaveOutcome, TypeOK, WorkerTypeOK
<1>4. \/ sess' = [sess EXCEPT ![s] = [status |-> "active", ckpt |-> run[r].ckpt]]
      \/ sess' = [sess EXCEPT ![s] = [status |-> "done", ckpt |-> None]]
      \/ UNCHANGED sess
  BY <1>1, <1>2 DEF SaveOutcome, SaveSession
<1>5. \A t \in Sessions \ {s} : sess'[t] = sess[t]
  BY <1>0, <1>4 DEF TypeOK, DbTypeOK
<1>6. \A k \in Runs \ RunsOf(s) : k \in ckpts' <=> k \in ckpts
  BY <1>1, <1>2 DEF SaveOutcome, InvalidateCheckpoint
<1>7. wout[w] = "failed" /\ run[r].kind = "resume" => UNCHANGED <<sess, ckpts>>
  BY <1>1 DEF SaveOutcome
<1>8. ASSUME wout[w] = "waiting_input" PROVE Ready(r)'
  <2>1. run[r].ckpt \in ckpts
    BY <1>1, <1>2, <1>3, <1>8 DEF SessionInv, SessionOK, InterruptReady
  <2>2. UNCHANGED ckpts /\ sess' = [sess EXCEPT ![s] = [status |-> "active", ckpt |-> run[r].ckpt]]
    BY <1>1, <1>2, <1>8 DEF SaveOutcome, SaveSession, Disciplined
  <2> QED
    BY <1>0, <1>2, <1>3, <2>1, <2>2 DEF Ready, TypeOK, DbTypeOK
<1> QED
  BY <1>1, <1>2, <1>3, <1>5, <1>6, <1>7, <1>8, OutcomeKeeps

\* A run that is written as waiting is ready; a run whose answer is written as failed
\* waits again, and is ready still.
LEMMA FinishRowKeeps ==
  ASSUME SessionInv, OrderInv', Disciplined, NEW w \in Workers, FinishRow(w)
  PROVE  SessionInv'
<1> USE DEF dbVars, redisVars, workerVars, auxVars
<1>0. OrderInv /\ OwnershipInv /\ TypeOK
  BY DEF SessionInv, OrderInv, OwnershipInv
<1>1. PICK r \in Runs : r = wrun[w] /\ Executes(w, r)
  BY <1>0 DEF FinishRow, TypeOK, WorkerTypeOK, Executes
<1>2. PICK s \in Sessions : s = run[r].sess /\ r \in RunsOf(s)
  BY <1>1, WorkerStepShape
<1>3. run[r].status = "running" /\ run[r].status \in Active /\ SessionOK(s)
  BY <1>1, WorkerStepShape DEF SessionInv, Active
<1>4. /\ \A d \in Callers : ~Opens(d, s)
      /\ sess[s].status # "none"
      /\ \A q \in RunsOf(s) \ {r} : run[q].status \notin Active /\ run[q].at < run[r].at
  BY <1>0, <1>2, <1>3, ActiveKeepsOthersOut
<1>5. PICK k : k = IF wout[w] = "waiting_input" THEN run[r].ckpt ELSE None
  OBVIOUS
<1>6. run' = [run EXCEPT ![r].status = wout[w], ![r].ckpt = k]
  BY <1>1, <1>5 DEF FinishRow, Disciplined
<1>7. /\ run'[r].status = wout[w] /\ run'[r].ckpt = k
      /\ run'[r].kind = run[r].kind /\ run'[r].sess = run[r].sess
      /\ run'[r].parent = run[r].parent /\ run'[r].at = run[r].at
      /\ \A q \in Runs \ {r} : run'[q] = run[q]
  BY <1>0, <1>6, RowShape
<1>8. wout[w] \in FinalStatuses /\ wpc[w] = "row"
  BY <1>0 DEF FinishRow, TypeOK, WorkerTypeOK
<1>9. /\ \A v \in Workers \ {w} : wpc'[v] = wpc[v]
      /\ wpc'[w] = "emit" /\ UNCHANGED <<sess, ckpts, call, wrun, wout>>
  BY <1>0 DEF FinishRow, TypeOK, WorkerTypeOK
<1>10. RunsOf(s)' = RunsOf(s)
  BY <1>2, <1>3, <1>7, <1>8 DEF RunsOf, FinalStatuses
<1>11. \A q \in RunsOf(s) \ {r} : run'[q] = run[q] /\ run[q].sess = s
  BY <1>7 DEF RunsOf
<1>12. WaitingReady(s)'
  <2> SUFFICES ASSUME NEW p \in RunsOf(s), Awaits(p)' PROVE Ready(p)'
    BY <1>10 DEF WaitingReady
  <2>1. CASE p = r
    <3>1. wout[w] = "waiting_input"
      BY <1>7, <2>1 DEF Awaits
    <3>2. Ready(r)
      BY <1>1, <1>2, <1>3, <1>8, <3>1 DEF SessionOK, InterruptReady
    <3> QED
      BY <1>5, <1>7, <1>9, <2>1, <3>1, <3>2 DEF Ready
  <2>2. CASE p # r
    <3>1. run[p].at \in Nat /\ run[r].at \in Nat /\ run[p].at < run[r].at
      BY <1>0, <1>2, <1>4, <2>2, TimesAreNumbers
    <3>2. run'[p] = run[p] /\ run[p].sess = s
      BY <1>11, <2>2
    <3>3. run'[r].at > run'[p].at /\ r \in RunsOf(s)' /\ run'[p].sess = s
      BY <1>2, <1>7, <1>10, <3>1, <3>2
    <3>4. run[r].parent = p /\ wout[w] = "failed"
      BY <1>7, <3>3 DEF Awaits
    <3>5. run[r].kind = "resume"
      <4>1. run[r].kind \in {"query", "resume"} /\ p # None
        BY <1>0, LifecycleAssumption DEF TypeOK, DbTypeOK, RunRow, RunsOf
      <4> QED
        BY <1>2, <1>3, <3>4, <4>1 DEF SessionOK, OwnCheckpoints
    <3>6. Ready(p)
      BY <1>1, <1>2, <1>3, <3>4, <3>5 DEF SessionOK, AnsweredReady
    <3> QED
      BY <1>9, <3>2, <3>6 DEF Ready
  <2> QED
    BY <2>1, <2>2
<1>13. SameArguments(s) /\ ResumesReady(s)'
  BY <1>4, <1>9, CallsStay
<1>14. Within(s)
  BY <1>2, <1>7, <1>9 DEF Within, OrderWithin, ExecSteps
<1>15. /\ run'[r].status \notin Active
       /\ run'[r].status = "waiting_input" =>
            run[r].status \in Unfinished /\ run'[r].ckpt = run[r].ckpt
  BY <1>3, <1>5, <1>7, <1>8 DEF Active, Unfinished, FinalStatuses
<1> QED
  BY <1>4, <1>7, <1>10, <1>11, <1>12, <1>13, <1>14, <1>15, RestingKeeps DEF Unfinished

LEMMA WorkerKeepsSessions ==
  ASSUME SessionInv, OrderInv', Disciplined,
         NEW w \in Workers, Consume(w) \/ AgentReturns(w) \/ Crash(w)
  PROVE  SessionInv'
<1> USE DEF dbVars, redisVars, workerVars, auxVars
<1>0. TypeOK
  BY DEF SessionInv, OrderInv, OwnershipInv
<1>1. ASSUME UNCHANGED <<sess, run, ckpts, call>>,
             \A v \in Workers \ {w} : UNCHANGED <<wpc[v], wrun[v], wout[v]>>,
             \/ wpc'[w] \notin ExecSteps
             \/ /\ wpc[w] = "started" /\ wpc'[w] = "exec"
                /\ UNCHANGED <<wrun[w], wout[w]>>
      PROVE  SessionInv'
  <2>1. \A s \in Sessions : NoNewCalls(s) /\ InsertsStay(s) /\ SameWorkers(s)
    BY <1>1 DEF NoNewCalls, InsertsStay, SameWorkers
  <2> QED
    BY <1>1, <2>1, StepOutside
<1>2. ASSUME NEW r \in Runs, SkipRun(w, r) PROVE SessionInv'
  BY <1>0, <1>1, <1>2 DEF SkipRun, Take, TypeOK, WorkerTypeOK, ExecSteps
<1>3. CASE LoadSession(w)
  BY <1>0, <1>1, <1>3 DEF LoadSession, TypeOK, WorkerTypeOK
<1>4. CASE Announce(w)
  BY <1>0, <1>1, <1>4 DEF Announce, TypeOK, WorkerTypeOK, ExecSteps
<1>5. CASE Ack(w)
  BY <1>0, <1>1, <1>5 DEF Ack, TypeOK, WorkerTypeOK, ExecSteps
<1>6. CASE Crash(w)
  BY <1>0, <1>1, <1>6 DEF Crash, TypeOK, WorkerTypeOK, ExecSteps
<1> QED
  BY <1>2, <1>3, <1>4, <1>5, <1>6, TryStartRunKeeps, AgentReturnsKeeps, SaveOutcomeKeeps,
     FinishRowKeeps
  DEF Consume

-----------------------------------------------------------------------------
(* The theorems *)

LEMMA NextKeepsSessions ==
  ASSUME Disciplined
  PROVE  SessionInv /\ [Next]_vars => SessionInv'
<1> SUFFICES ASSUME SessionInv, [Next]_vars PROVE SessionInv'
  OBVIOUS
<1> USE DEF dbVars, redisVars, workerVars, auxVars
<1>0. OrderInv'
  BY NextKeepsOrder DEF SessionInv, Disciplined
<1>1. ASSUME UNCHANGED <<sess, run, ckpts, call, wpc, wrun, wout>> PROVE SessionInv'
  <2>1. \A s \in Sessions : NoNewCalls(s) /\ InsertsStay(s) /\ SameWorkers(s)
    BY <1>1 DEF NoNewCalls, InsertsStay, SameWorkers
  <2> QED
    BY <1>0, <1>1, <2>1, StepOutside
<1>2. CASE Request
  BY <1>0, <1>2, RequestKeepsSessions
<1>3. CASE \E c \in Callers : Handler(c)
  BY <1>0, <1>3, HandlerKeepsSessions
<1>4. CASE \E w \in Workers : Consume(w) \/ AgentReturns(w)
  BY <1>0, <1>4, WorkerKeepsSessions
<1>5. CASE \E r \in Runs : ReadGroup(r) \/ DeliverCancel(r)
  BY <1>1, <1>5 DEF ReadGroup, DeliverCancel
<1>6. CASE EnsureConsumerGroup \/ Tick \/ UNCHANGED vars
  BY <1>1, <1>6 DEF EnsureConsumerGroup, Tick, vars
<1>7. CASE Failure
  <2>1. PICK w \in Workers : Crash(w)
    BY <1>7 DEF Failure, Disciplined, CallFails, LoadRunFails, LoadSessionFails, ExpireCheckpoint
  <2> QED
    BY <1>0, <2>1, WorkerKeepsSessions
<1> QED
  BY <1>2, <1>3, <1>4, <1>5, <1>6, <1>7 DEF Next

\* Rows, pointer and checkpoints of every session stay consistent at every moment of every
\* request and of every execution.
THEOREM SessionsAreConsistent ==
  ASSUME Disciplined
  PROVE  Spec => []SessionInv
BY InitSession, NextKeepsSessions, PTL DEF Spec

\* A client that answers a run that waits, with no request on its session under way and
\* no other answer outstanding, finds the session pointing at the run's checkpoint and
\* the checkpoint in Redis, also after answers that failed.
THEOREM WaitingRunsAreResumable ==
  ASSUME Disciplined
  PROVE  Spec => []WaitingIsResumable
<1>1. SessionInv => WaitingIsResumable
  <2> SUFFICES ASSUME SessionInv, NEW p \in Runs, NEW s, s = run[p].sess,
                      Awaits(p), CallsOn(s) = {}, sess[s].status # "deleted"
               PROVE  sess[s] = [status |-> "active", ckpt |-> run[p].ckpt]
                      /\ run[p].ckpt \in ckpts
    BY DEF WaitingIsResumable
  <2>1. s \in Sessions /\ p \in RunsOf(s)
    BY RowOK DEF SessionInv, OrderInv, OwnershipInv, Awaits, RunsOf
  <2>2. \A c \in Callers : call[c].sess = s => call[c].step # "insertRun"
    BY DEF CallsOn
  <2> QED
    BY <2>1, <2>2 DEF SessionInv, SessionOK, WaitingReady, Ready
<1> QED
  BY <1>1, SessionsAreConsistent, PTL

\* An answer that waits in the queue has the checkpoint of the run it answers, and the
\* checkpoint is still in Redis when a worker takes it, whatever else is done to the
\* session meanwhile.
THEOREM QueuedAnswersHaveCheckpoints ==
  ASSUME Disciplined
  PROVE  Spec => []QueuedAnswerHasCheckpoint
<1>1. SessionInv => QueuedAnswerHasCheckpoint
  <2> SUFFICES ASSUME SessionInv, NEW r \in Runs,
                      run[r].status = "queued", run[r].kind = "resume"
               PROVE  run[r].ckpt = run[run[r].parent].ckpt /\ run[r].ckpt \in ckpts
    BY DEF QueuedAnswerHasCheckpoint
  <2>1. PICK s \in Sessions : s = run[r].sess /\ r \in RunsOf(s)
    BY RowOK DEF SessionInv, OrderInv, OwnershipInv, RunsOf
  <2>2. Answers(r, run[r].parent)
    BY <2>1 DEF SessionInv, SessionOK, AnswersWaiting, Active
  <2>3. Ready(run[r].parent)
    BY <2>1 DEF SessionInv, SessionOK, AnsweredReady
  <2> QED
    BY <2>2, <2>3 DEF Answers, Ready
<1> QED
  BY <1>1, SessionsAreConsistent, PTL
=============================================================================
