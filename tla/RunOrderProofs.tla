---------------------------- MODULE RunOrderProofs ----------------------------
(***************************************************************************)
(* Proofs about the order of the runs of a session, for clients that keep  *)
(* to the page's discipline: one active run per session, and a deleted     *)
(* session is quiet.  They hold for every number of sessions, runs,        *)
(* workers and requests, whichever calls fail and whoever crashes.         *)
(***************************************************************************)
EXTENDS RunLifecycleProofs, RunSessionInvariant

SessionSteps == Opening \cup {"cancelRow", "cancelSave"}

\* What a step leaves alone in session s: its rows, its own row, ...
SameRows(s)    == RunsOf(s)' = RunsOf(s) /\ \A r \in RunsOf(s) : run'[r] = run[r]
SamePointer(s) == sess'[s] = sess[s]

\* ... and the requests on it: none gets to a step that concerns it.
NoNewCalls(s) ==
  \A c \in Callers :
    call'[c].sess = s /\ call'[c].step \in SessionSteps => call'[c] = call[c]

\* What a step may do to the database and to the requests when it concerns s only.
OrderWithin(s) ==
  /\ \A r \in Runs : run'[r] # run[r] =>
       run'[r].sess = s /\ (run[r].status = "none" \/ run[r].sess = s)
  /\ \A t \in Sessions \ {s} : sess'[t] = sess[t]
  /\ \A c \in Callers : call'[c] # call[c] =>
       call'[c].sess \in {s, None} /\ (call[c].sess = s \/ call[c].step = "idle")

-----------------------------------------------------------------------------
(* What stays true of a session that a step leaves alone *)

LEMMA InitOrder == Init => OrderInv
<1> SUFFICES ASSUME Init PROVE OrderInv
  OBVIOUS
<1>1. \A s \in Sessions : RunsOf(s) = {}
  BY DEF Init, RunsOf, NoRun
<1>2. \A s \in Sessions : sess[s].status = "none"
  BY DEF Init
<1>3. \A c \in Callers : call[c].sess \notin Sessions
  BY LifecycleAssumption DEF Init, NoCall
<1>4. ASSUME NEW s \in Sessions PROVE OrderOK(s)
  BY <1>1, <1>2, <1>3
  DEF OrderOK, RowsInOrder, Opens, OpensAlone, InsertsLast, EndsLast, Quiet, LastRuns
<1> QED
  BY <1>4, InitOwnership DEF OrderInv

LEMMA EndsStayLast ==
  ASSUME NEW s \in Sessions, EndsLast(s), SameRows(s), NoNewCalls(s)
  PROVE  EndsLast(s)'
<1>1. \A c \in Callers : call'[c].sess = s /\ call'[c].step \in SessionSteps => call'[c] = call[c]
  BY DEF NoNewCalls
<1>2. LastRuns(s)' = LastRuns(s)
  BY DEF LastRuns, SameRows
<1>3. \A r \in LastRuns(s) : r \in RunsOf(s)
  BY DEF LastRuns
<1> QED
  BY <1>1, <1>2, <1>3 DEF EndsLast, SameRows, SessionSteps, Opening

LEMMA OrderStays ==
  ASSUME OrderInv, NEW s \in Sessions, SameRows(s), SamePointer(s), NoNewCalls(s)
  PROVE  OrderOK(s)'
<1>0. OrderOK(s)
  BY DEF OrderInv
<1>1. LastRuns(s)' = LastRuns(s)
  BY DEF LastRuns, SameRows
<1>2. \A c \in Callers : call'[c].sess = s /\ call'[c].step \in SessionSteps => call'[c] = call[c]
  BY DEF NoNewCalls
<1>3. RowsInOrder(s)'
  BY <1>0 DEF OrderOK, RowsInOrder, SameRows, SamePointer
<1>4. OpensAlone(s)'
  <2>1. \A c \in Callers : Opens(c, s)' => Opens(c, s)
    BY <1>2 DEF SessionSteps, Opens
  <2> QED
    BY <1>0, <1>2, <2>1 DEF OrderOK, OpensAlone, SameRows, SamePointer, SessionSteps
<1>5. InsertsLast(s)'
  <2>1. \A c \in Callers : call'[c].sess = s /\ Inserts(c)' => call'[c] = call[c]
    BY <1>2 DEF SessionSteps, Opening, Inserts
  <2> QED
    BY <1>0, <2>1 DEF OrderOK, InsertsLast, Inserts, SameRows, SamePointer
<1>6. Quiet(s)'
  <2>1. \A c \in Callers : call'[c].sess = s /\ call'[c].step = "deleteRow" => call'[c] = call[c]
    BY <1>2 DEF SessionSteps, Opening
  <2> QED
    BY <1>0, <1>1, <2>1 DEF OrderOK, Quiet, SameRows, SamePointer, LastRuns
<1> QED
  BY <1>0, <1>3, <1>4, <1>5, <1>6, EndsStayLast DEF OrderOK

\* A step in one session keeps the order of the others, ...
LEMMA OrderElsewhere ==
  ASSUME OrderInv, OwnershipInv', NEW s \in Sessions, OrderWithin(s), OrderOK(s)'
  PROVE  OrderInv'
<1> SUFFICES ASSUME NEW t \in Sessions \ {s} PROVE OrderOK(t)'
  BY DEF OrderInv
<1>0. t # None
  BY LifecycleAssumption
<1>1. SameRows(t) /\ SamePointer(t)
  BY DEF OrderWithin, SameRows, SamePointer, RunsOf
<1>2. NoNewCalls(t)
  BY <1>0 DEF OrderWithin, NoNewCalls
<1> QED
  BY <1>1, <1>2, OrderStays

\* ... and a step in no session that of all.
LEMMA OrderUndisturbed ==
  ASSUME OrderInv, OwnershipInv', UNCHANGED <<sess, run>>, \A s \in Sessions : NoNewCalls(s)
  PROVE  OrderInv'
<1>1. \A s \in Sessions : SameRows(s) /\ SamePointer(s)
  BY DEF SameRows, SamePointer, RunsOf
<1>2. \A s \in Sessions : OrderOK(s)'
  BY <1>1, OrderStays
<1> QED
  BY <1>2 DEF OrderInv

-----------------------------------------------------------------------------
(* What the order says of a session at rest, and of one with an active run *)

LEMMA TimesAreNumbers ==
  ASSUME OwnershipInv, NEW s \in Sessions PROVE \A r \in RunsOf(s) : run[r].at \in Nat
BY DEF OwnershipInv, TypeOK, DbTypeOK, RunRow, RunsOf

LEMMA LastIsUnique ==
  ASSUME OrderInv, NEW s \in Sessions, NEW l \in LastRuns(s)
  PROVE  /\ \A q \in RunsOf(s) \ {l} : run[q].at < run[l].at
         /\ \A q \in LastRuns(s) : q = l
<1>1. \A q \in RunsOf(s) : run[q].at \in Nat
  BY TimesAreNumbers DEF OrderInv
<1>2. RowsInOrder(s)
  BY DEF OrderInv, OrderOK
<1> QED
  BY <1>1, <1>2 DEF RowsInOrder, LastRuns

LEMMA NoneActive ==
  ASSUME OrderInv, NEW s \in Sessions, NEW l \in LastRuns(s), run[l].status \notin Active
  PROVE  \A r \in RunsOf(s) : run[r].status \notin Active
BY LastIsUnique DEF OrderInv, OrderOK, RowsInOrder, LastRuns

\* While a run of the session is active it is the last, and no request has the session.
LEMMA ActiveKeepsOthersOut ==
  ASSUME OrderInv, NEW s \in Sessions, NEW r \in RunsOf(s), run[r].status \in Active
  PROVE  /\ \A c \in Callers : ~Opens(c, s)
         /\ \A c \in Callers : call[c].sess = s => call[c].step # "cancelSave"
         /\ sess[s].status \notin {"none", "deleted"}
         /\ r \in LastRuns(s)
         /\ \A q \in RunsOf(s) \ {r} : run[q].status \notin Active /\ run[q].at < run[r].at
<1>0. OrderOK(s) /\ OwnershipInv
  BY DEF OrderInv
<1>1. /\ r \in LastRuns(s)
      /\ \A q \in RunsOf(s) \ {r} : run[q].status \notin Active /\ run[q].at < run[r].at
  BY <1>0, TimesAreNumbers DEF OrderOK, RowsInOrder, LastRuns
<1>2. \A c \in Callers : ~Opens(c, s)
  BY <1>0 DEF OrderOK, OpensAlone
<1>3. ASSUME NEW c \in Callers, call[c].sess = s, call[c].step = "cancelSave" PROVE FALSE
  <2>1. call[c].run \in LastRuns(s) /\ run[call[c].run].status = "cancelled"
    BY <1>0, <1>3 DEF OrderOK, EndsLast
  <2> QED
    BY <2>1, NoneActive DEF Active
<1>4. sess[s].status \notin {"none", "deleted"}
  BY <1>0 DEF OrderOK, Quiet, RowsInOrder
<1> QED
  BY <1>1, <1>2, <1>3, <1>4

\* Two parts of the invariant are about the requests that have the session.
LEMMA NobodyOpens ==
  ASSUME NEW s \in Sessions, \A c \in Callers : ~Opens(c, s)'
  PROVE  /\ OpensAlone(s)' /\ InsertsLast(s)'
         /\ sess'[s].status # "deleted" => Quiet(s)'
BY DEF Opens, Opening, OpensAlone, InsertsLast, Inserts, Quiet

-----------------------------------------------------------------------------
(* The shapes of a step *)

LEMMA GotoShape ==
  ASSUME TypeOK, NEW c \in Callers, NEW step, Goto(c, step)
  PROVE  /\ \A d \in Callers \ {c} : call'[d] = call[d]
         /\ call'[c].step = step
         /\ call'[c].sess = call[c].sess /\ call'[c].run = call[c].run
         /\ call'[c].parent = call[c].parent /\ call'[c].ckpt = call[c].ckpt
         /\ call'[c].at = call[c].at
BY DEF TypeOK, CallTypeOK, Call, Goto

LEMMA ReturnShape ==
  ASSUME TypeOK, NEW c \in Callers, Return(c)
  PROVE  /\ \A d \in Callers \ {c} : call'[d] = call[d]
         /\ call'[c].step = "idle" /\ call'[c].sess = None
BY DEF TypeOK, CallTypeOK, Return, NoCall

\* The update of a row that stays in its session.
LEMMA RowShape ==
  ASSUME TypeOK, NEW r \in Runs, NEW status, NEW k,
         run' = [run EXCEPT ![r].status = status, ![r].ckpt = k]
  PROVE  /\ run'[r].status = status /\ run'[r].ckpt = k
         /\ run'[r].kind = run[r].kind /\ run'[r].sess = run[r].sess
         /\ run'[r].parent = run[r].parent /\ run'[r].at = run[r].at
         /\ \A q \in Runs \ {r} : run'[q] = run[q]
BY DEF TypeOK, DbTypeOK, RunRow

\* The saving of a session.
LEMMA PointerShape ==
  ASSUME TypeOK, NEW s \in Sessions, NEW status, NEW k, SaveSession(s, status, k)
  PROVE  /\ \A t \in Sessions \ {s} : sess'[t] = sess[t]
         /\ sess'[s] = sess[s] \/ sess'[s].status = status
BY DEF SaveSession, TypeOK, DbTypeOK

\* The insertion of a row.
LEMMA InsertShape ==
  ASSUME OrderInv, NEW c \in Callers, NEW kind,
         call[c].step \in {"insertRun", "insertResume"}, InsertRow(c, kind),
         NEW s \in Sessions, s = call[c].sess, NEW r \in Runs, r = call[c].run
  PROVE  /\ Opens(c, s) /\ run[r].status = "none" /\ r \notin RunsOf(s)
         /\ run'[r].status = "queued" /\ run'[r].kind = kind
         /\ run'[r].sess = s /\ run'[r].parent = call[c].parent
         /\ run'[r].ckpt = call[c].ckpt /\ run'[r].at = call[c].at
         /\ \A q \in Runs \ {r} : run'[q] = run[q]
         /\ RunsOf(s)' = RunsOf(s) \cup {r}
<1>1. run[r].status = "none" /\ r \notin RunsOf(s)
  BY DEF OrderInv, OwnershipInv, InsertsFresh, Inserts, RunsOf
<1>2. /\ run'[r].status = "queued" /\ run'[r].kind = kind /\ run'[r].sess = s
      /\ run'[r].parent = call[c].parent /\ run'[r].ckpt = call[c].ckpt
      /\ run'[r].at = call[c].at
      /\ \A q \in Runs \ {r} : run'[q] = run[q]
  BY DEF InsertRow, OrderInv, OwnershipInv, TypeOK, DbTypeOK
<1>3. RunsOf(s)' = RunsOf(s) \cup {r}
  BY <1>1, <1>2 DEF RunsOf
<1> QED
  BY <1>1, <1>2, <1>3 DEF Opens, Opening

\* A row that is settled and keeps its place leaves the rows in order.
LEMMA SettledRow ==
  ASSUME NEW s \in Sessions, RowsInOrder(s), NEW r \in RunsOf(s),
         run'[r].status \notin Active \cup {"none"},
         run'[r].kind = run[r].kind, run'[r].sess = run[r].sess, run'[r].at = run[r].at,
         \A q \in Runs \ {r} : run'[q] = run[q],
         sess'[s].status # "none"
  PROVE  /\ RunsOf(s)' = RunsOf(s) /\ LastRuns(s)' = LastRuns(s)
         /\ RowsInOrder(s)'
<1>1. RunsOf(s)' = RunsOf(s)
  BY DEF RunsOf
<1>2. \A q \in RunsOf(s) : run'[q].at = run[q].at
  BY DEF RunsOf
<1>3. LastRuns(s)' = LastRuns(s)
  BY <1>1, <1>2 DEF LastRuns
<1>4. \A q \in RunsOf(s) : run'[q].status \in Active => run[q].status \in Active
  BY DEF RunsOf
<1>5. RowsInOrder(s)'
  BY <1>1, <1>2, <1>4 DEF RowsInOrder
<1> QED
  BY <1>1, <1>3, <1>5

\* A request that starts when there is no other on the session.
LEMMA FirstCall ==
  ASSUME TypeOK, NEW s \in Sessions, NEW c \in Callers, NEW k \in Call,
         CallsOn(s) = {}, call' = [call EXCEPT ![c] = k]
  PROVE  /\ call'[c] = k /\ \A d \in Callers \ {c} : call'[d] = call[d]
         /\ \A d \in Callers \ {c} : call'[d].sess = s => call'[d].step = "idle"
BY DEF TypeOK, CallTypeOK, CallsOn

-----------------------------------------------------------------------------
(* Requests *)

\* A request that starts touches no table.
LEMMA StartWithin ==
  ASSUME OrderInv, OwnershipInv', NEW s \in Sessions, NEW c \in Callers, NEW k \in Call,
         UNCHANGED dbVars, call[c].step = "idle", k.sess = s, call' = [call EXCEPT ![c] = k],
         OpensAlone(s)', InsertsLast(s)', EndsLast(s)', Quiet(s)'
  PROVE  OrderInv'
<1> USE DEF dbVars
<1>0. OrderOK(s) /\ TypeOK
  BY DEF OrderInv, OwnershipInv
<1>1. call'[c] = k /\ \A d \in Callers \ {c} : call'[d] = call[d]
  BY <1>0 DEF TypeOK, CallTypeOK
<1>2. RowsInOrder(s)'
  BY <1>0 DEF OrderOK, RowsInOrder, RunsOf
<1>3. OrderWithin(s)
  BY <1>1 DEF OrderWithin
<1> QED
  BY <1>2, <1>3, OrderElsewhere DEF OrderOK

LEMMA CreateSessionOrder ==
  ASSUME OrderInv, OwnershipInv', NEW s \in Sessions, CreateSession(s)
  PROVE  OrderInv'
<1>0. OrderOK(s) /\ TypeOK
  BY DEF OrderInv, OwnershipInv
<1>1. RunsOf(s) = {}
  BY <1>0 DEF CreateSession, OrderOK, RowsInOrder
<1>2. \A c \in Callers : call[c].sess = s => call[c].step = "idle"
  BY DEF CreateSession, CallsOn
<1>3. sess'[s].status = "active" /\ \A t \in Sessions \ {s} : sess'[t] = sess[t]
  BY <1>0 DEF CreateSession, TypeOK, DbTypeOK
<1>4. RunsOf(s)' = {} /\ UNCHANGED <<run, call>>
  BY <1>1 DEF CreateSession, RunsOf
<1>5. RowsInOrder(s)' /\ EndsLast(s)'
  BY <1>2, <1>4 DEF RowsInOrder, EndsLast
<1>6. OpensAlone(s)' /\ InsertsLast(s)' /\ Quiet(s)'
  BY <1>2, <1>3, <1>4, NobodyOpens DEF Opens, Opening
<1>7. OrderWithin(s)
  BY <1>3, <1>4 DEF OrderWithin
<1> QED
  BY <1>5, <1>6, <1>7, OrderElsewhere DEF OrderOK

LEMMA CreateCheckOrder ==
  ASSUME OrderInv, OwnershipInv', SerialClients,
         NEW c \in Callers, NEW s \in Sessions, NEW r \in Runs, CreateCheck(c, s, r)
  PROVE  OrderInv'
<1>0. OrderOK(s) /\ TypeOK
  BY DEF OrderInv, OwnershipInv
<1>1. /\ CallsOn(s) = {} /\ sess[s].status # "deleted"
      /\ \A q \in RunsOf(s) : run[q].at < clock
      /\ call[c].step = "idle" /\ UNCHANGED <<dbVars, redisVars, workerVars, auxVars>>
  BY DEF CreateCheck, MayCall
<1>2. \A q \in RunsOf(s) : run[q].status \notin Active
  <2>1. CASE RunsOf(s) = {}
    BY <2>1
  <2>2. CASE \E l \in LastRuns(s) : run[l].status \notin Unfinished
    BY <2>2, NoneActive DEF Unfinished, Active
  <2> QED
    BY <1>0, <2>1, <2>2 DEF CreateCheck, AcceptsRun, OrderOK, RowsInOrder
<1>3. PICK k : k = [NoCall EXCEPT !.step = "saveSession", !.sess = s, !.run = r, !.ckpt = r,
                                  !.at = clock]
  OBVIOUS
<1>4. k = [step |-> "saveSession", sess |-> s, run |-> r, parent |-> None, ckpt |-> r,
           at |-> clock]
  BY <1>3 DEF NoCall
<1>5. k \in Call
  BY <1>0, <1>4 DEF TypeOK, Call, CallSteps
<1>6. call' = [call EXCEPT ![c] = k]
  BY <1>3 DEF CreateCheck
<1>7. /\ call'[c] = k /\ \A d \in Callers \ {c} : call'[d] = call[d]
      /\ \A d \in Callers \ {c} : call'[d].sess = s => call'[d].step = "idle"
  BY <1>0, <1>1, <1>5, <1>6, FirstCall
<1>8. RunsOf(s)' = RunsOf(s) /\ UNCHANGED <<sess, run>>
  BY <1>1 DEF RunsOf, dbVars
<1>9. OpensAlone(s)' /\ InsertsLast(s)' /\ EndsLast(s)'
  BY <1>1, <1>2, <1>4, <1>7, <1>8 DEF Opens, Opening, OpensAlone, InsertsLast, Inserts, EndsLast
<1>10. Quiet(s)'
  BY <1>1, <1>4, <1>7, <1>8 DEF Quiet
<1> QED
  BY <1>1, <1>4, <1>5, <1>6, <1>9, <1>10, StartWithin

LEMMA ResumeCheckOrder ==
  ASSUME OrderInv, OwnershipInv', SerialClients,
         NEW c \in Callers, NEW p \in Runs, NEW r \in Runs, ResumeCheck(c, p, r)
  PROVE  OrderInv'
<1>0. OwnershipInv /\ TypeOK
  BY DEF OrderInv, OwnershipInv
<1>1. PICK s \in Sessions : s = run[p].sess /\ p \in RunsOf(s)
  BY <1>0, RowOK DEF ResumeCheck, Resumable, RunsOf
<1>2. /\ CallsOn(s) = {} /\ sess[s].status # "deleted"
      /\ \A q \in RunsOf(s) : run[q].at < clock
      /\ call[c].step = "idle" /\ UNCHANGED <<dbVars, redisVars, workerVars, auxVars>>
      /\ Awaits(p)
  BY <1>1 DEF ResumeCheck, MayCall
<1>3. \A q \in RunsOf(s) : run[q].status \notin Active
  <2> SUFFICES ASSUME NEW q \in RunsOf(s), run[q].status \in Active PROVE FALSE
    OBVIOUS
  <2>1. q # p
    BY <1>2 DEF Awaits, Active
  <2>2. run[q].at > run[p].at
    <3>1. run[q].at \in Nat /\ run[p].at \in Nat
      BY <1>0, <1>1, TimesAreNumbers
    <3> QED
      BY <1>1, <2>1, <3>1, ActiveKeepsOthersOut
  <2> QED
    BY <1>1, <1>2, <2>2 DEF Awaits, Active
<1>4. PICK k : k = [NoCall EXCEPT !.step = "insertResume", !.sess = s, !.run = r, !.parent = p,
                                  !.ckpt = ResumeCheckpoint(s, r), !.at = clock]
  OBVIOUS
<1>5. k = [step |-> "insertResume", sess |-> s, run |-> r, parent |-> p,
           ckpt |-> sess[s].ckpt, at |-> clock]
  BY <1>4 DEF NoCall, ResumeCheckpoint
<1>6. k \in Call
  BY <1>0, <1>5 DEF TypeOK, DbTypeOK, SessionRow, Call, CallSteps
<1>7. call' = [call EXCEPT ![c] = k]
  BY <1>1, <1>4 DEF ResumeCheck
<1>8. /\ call'[c] = k /\ \A d \in Callers \ {c} : call'[d] = call[d]
      /\ \A d \in Callers \ {c} : call'[d].sess = s => call'[d].step = "idle"
  BY <1>0, <1>2, <1>6, <1>7, FirstCall
<1>9. RunsOf(s)' = RunsOf(s) /\ UNCHANGED <<sess, run>> /\ sess[s].status # "none"
  BY <1>1, <1>2 DEF RunsOf, OrderInv, OrderOK, RowsInOrder, dbVars
<1>10. OpensAlone(s)' /\ EndsLast(s)' /\ InsertsLast(s)'
  BY <1>2, <1>3, <1>5, <1>8, <1>9
  DEF Opens, Opening, OpensAlone, EndsLast, InsertsLast, Inserts
<1>11. Quiet(s)'
  BY <1>2, <1>5, <1>8, <1>9 DEF Quiet
<1> QED
  BY <1>2, <1>5, <1>6, <1>7, <1>10, <1>11, StartWithin

LEMMA CancelCheckOrder ==
  ASSUME OrderInv, OwnershipInv', NEW c \in Callers, NEW r \in Runs, CancelCheck(c, r)
  PROVE  OrderInv'
<1>0. OwnershipInv /\ TypeOK
  BY DEF OrderInv, OwnershipInv
<1>1. run[r].status \in Active
  <2>1. run[r].status \in RunStatuses
    BY <1>0 DEF TypeOK, DbTypeOK, RunRow
  <2> QED
    BY <2>1 DEF CancelCheck, IsRunTerminal, RunStatuses, Active
<1>2. PICK s \in Sessions : s = run[r].sess /\ r \in RunsOf(s)
  BY <1>0, RowOK DEF CancelCheck, RunsOf
<1>3. (\A d \in Callers : ~Opens(d, s)) /\ sess[s].status # "deleted"
  BY <1>1, <1>2, ActiveKeepsOthersOut
<1>4. PICK step : step = IF run[r].status = "queued" THEN "cancelRow" ELSE "signal"
  OBVIOUS
<1>5. PICK k : k = [NoCall EXCEPT !.step = step, !.sess = run[r].sess, !.run = r,
                                  !.ckpt = run[r].ckpt]
  OBVIOUS
<1>6. k = [step |-> step, sess |-> s, run |-> r, parent |-> None, ckpt |-> run[r].ckpt, at |-> 0]
  BY <1>2, <1>5 DEF NoCall
<1>7. k \in Call /\ step \in {"cancelRow", "signal"}
  BY <1>0, <1>4, <1>6, RowOK, LifecycleAssumption DEF Call, CallSteps
<1>8. call' = [call EXCEPT ![c] = k]
  BY <1>4, <1>5 DEF CancelCheck
<1>9. call'[c] = k /\ \A d \in Callers \ {c} : call'[d] = call[d]
  BY <1>0, <1>7, <1>8 DEF TypeOK, CallTypeOK
<1>10. RunsOf(s)' = RunsOf(s) /\ LastRuns(s)' = LastRuns(s) /\ UNCHANGED <<run, sess>>
  BY DEF CancelCheck, RunsOf, LastRuns, dbVars
<1>11. \A d \in Callers : ~Opens(d, s)'
  BY <1>3, <1>6, <1>7, <1>9 DEF Opens, Opening
<1>12. OpensAlone(s)' /\ InsertsLast(s)' /\ Quiet(s)'
  BY <1>3, <1>10, <1>11, NobodyOpens
<1>13. EndsLast(s)'
  BY <1>2, <1>6, <1>7, <1>9, <1>10 DEF OrderInv, OrderOK, EndsLast
<1> QED
  BY <1>6, <1>7, <1>8, <1>12, <1>13, StartWithin DEF CancelCheck

LEMMA DeleteCheckOrder ==
  ASSUME OrderInv, OwnershipInv', SerialClients,
         NEW c \in Callers, NEW s \in Sessions, DeleteCheck(c, s)
  PROVE  OrderInv'
<1>0. OrderOK(s) /\ OwnershipInv /\ TypeOK
  BY DEF OrderInv, OwnershipInv
<1>1. /\ CallsOn(s) = {} /\ sess[s].status # "deleted"
      /\ call[c].step = "idle" /\ UNCHANGED <<dbVars, redisVars, workerVars, auxVars>>
  BY DEF DeleteCheck, MayCall
<1>2. RunsOf(s)' = RunsOf(s) /\ LastRuns(s)' = LastRuns(s) /\ UNCHANGED <<sess, run>>
  BY <1>1 DEF RunsOf, LastRuns, dbVars
<1>3. ASSUME NEW k \in Call, call' = [call EXCEPT ![c] = k], k.sess = s,
             k.step \in {"abandonRow", "deleteRow"},
             \A q \in RunsOf(s) : run[q].status \notin Active,
             k.step = "abandonRow" => k.run \in LastRuns(s),
             k.step = "deleteRow" => \A l \in LastRuns(s) : run[l].status # "waiting_input"
      PROVE  OrderInv'
  <2>1. /\ call'[c] = k /\ \A d \in Callers \ {c} : call'[d] = call[d]
        /\ \A d \in Callers \ {c} : call'[d].sess = s => call'[d].step = "idle"
    BY <1>0, <1>1, <1>3, FirstCall
  <2>2. OpensAlone(s)' /\ InsertsLast(s)' /\ EndsLast(s)'
    BY <1>1, <1>2, <1>3, <2>1 DEF Opens, Opening, OpensAlone, InsertsLast, Inserts, EndsLast
  <2>3. Quiet(s)'
    BY <1>1, <1>2, <1>3, <2>1 DEF Quiet
  <2> QED
    BY <1>1, <1>3, <2>2, <2>3, StartWithin
<1>4. CASE /\ RunsOf(s) = {}
           /\ call' = [call EXCEPT ![c] = [NoCall EXCEPT !.step = "deleteRow", !.sess = s]]
  <2>1. PICK k : k = [NoCall EXCEPT !.step = "deleteRow", !.sess = s]
    OBVIOUS
  <2>2. k = [step |-> "deleteRow", sess |-> s, run |-> None, parent |-> None, ckpt |-> None,
             at |-> 0]
    BY <2>1 DEF NoCall
  <2>3. k \in Call
    BY <2>2, LifecycleAssumption DEF Call, CallSteps
  <2>4. call' = [call EXCEPT ![c] = k]
    BY <1>4, <2>1
  <2> QED
    BY <1>3, <1>4, <2>2, <2>3, <2>4 DEF LastRuns
<1>5. ASSUME NEW l \in LastRuns(s), Deletable(l),
             call' = [call EXCEPT ![c] =
               [NoCall EXCEPT !.step = IF run[l].status = "waiting_input"
                                       THEN "abandonRow" ELSE "deleteRow",
                              !.sess = s, !.run = l, !.ckpt = run[l].ckpt]]
      PROVE  OrderInv'
  <2>1. PICK step : step = IF run[l].status = "waiting_input" THEN "abandonRow" ELSE "deleteRow"
    OBVIOUS
  <2>2. PICK k : k = [NoCall EXCEPT !.step = step, !.sess = s, !.run = l, !.ckpt = run[l].ckpt]
    OBVIOUS
  <2>3. k = [step |-> step, sess |-> s, run |-> l, parent |-> None, ckpt |-> run[l].ckpt,
             at |-> 0]
    BY <2>2 DEF NoCall
  <2>4. l \in Runs
    BY DEF LastRuns, RunsOf
  <2>5. k \in Call /\ step \in {"abandonRow", "deleteRow"}
    BY <1>0, <2>1, <2>3, <2>4, RowOK, LifecycleAssumption DEF Call, CallSteps
  <2>6. call' = [call EXCEPT ![c] = k]
    BY <1>5, <2>1, <2>2
  <2>7. \A q \in RunsOf(s) : run[q].status \notin Active
    BY <1>5, NoneActive DEF Deletable, Active
  <2>8. \A q \in LastRuns(s) : q = l
    BY LastIsUnique
  <2> QED
    BY <1>3, <2>1, <2>3, <2>5, <2>6, <2>7, <2>8
<1> QED
  BY <1>4, <1>5 DEF DeleteCheck

LEMMA RequestKeepsOrder ==
  ASSUME OrderInv, OwnershipInv', SerialClients, Request
  PROVE  OrderInv'
BY CreateSessionOrder, CreateCheckOrder, ResumeCheckOrder, CancelCheckOrder, DeleteCheckOrder
DEF Request

-----------------------------------------------------------------------------
(* The steps of a request *)

LEMMA CreateSaveSessionOrder ==
  ASSUME OrderInv, OwnershipInv', NEW c \in Callers, CreateSaveSession(c)
  PROVE  OrderInv'
<1>0. OwnershipInv /\ TypeOK
  BY DEF OrderInv, OwnershipInv
<1>1. PICK s \in Sessions : s = call[c].sess
  BY <1>0 DEF CreateSaveSession, TypeOK, CallTypeOK
<1>2. OrderOK(s) /\ Opens(c, s)
  BY <1>1 DEF OrderInv, CreateSaveSession, Opens, Opening
<1>3. /\ \A d \in Callers : Opens(d, s) => d = c
      /\ \A d \in Callers : call[d].sess = s => call[d].step # "cancelSave"
      /\ \A q \in RunsOf(s) : run[q].status \notin Active
  BY <1>2 DEF OrderOK, OpensAlone
<1>4. /\ \A d \in Callers \ {c} : call'[d] = call[d]
      /\ call'[c].step = "insertRun" /\ call'[c].sess = s /\ call'[c].at = call[c].at
  BY <1>0, <1>1, GotoShape DEF CreateSaveSession
<1>5. sess'[s].status = "active" /\ \A t \in Sessions \ {s} : sess'[t] = sess[t]
  BY <1>0, <1>1 DEF CreateSaveSession, TypeOK, DbTypeOK
<1>6. UNCHANGED run /\ RunsOf(s)' = RunsOf(s) /\ LastRuns(s)' = LastRuns(s)
  BY DEF CreateSaveSession, RunsOf, LastRuns
<1>7. RowsInOrder(s)'
  BY <1>2, <1>5, <1>6 DEF OrderOK, RowsInOrder
<1>8. OpensAlone(s)'
  BY <1>3, <1>4, <1>5, <1>6 DEF Opens, Opening, OpensAlone
<1>9. InsertsLast(s)'
  BY <1>1, <1>2, <1>3, <1>4, <1>5, <1>6
  DEF CreateSaveSession, OrderOK, InsertsLast, Inserts, Opens, Opening
<1>10. EndsLast(s)'
  BY <1>2, <1>4, <1>6 DEF OrderOK, EndsLast
<1>11. Quiet(s)'
  BY <1>3, <1>4, <1>5 DEF Quiet, Opens, Opening
<1>12. OrderWithin(s)
  BY <1>1, <1>4, <1>5, <1>6 DEF OrderWithin
<1> QED
  BY <1>7, <1>8, <1>9, <1>10, <1>11, <1>12, OrderElsewhere DEF OrderOK

\* The new row is the only active one of its session, and the last.
LEMMA InsertRowOrder ==
  ASSUME OrderInv, OwnershipInv', NEW c \in Callers, NEW kind,
         call[c].step \in {"insertRun", "insertResume"}, InsertRow(c, kind)
  PROVE  OrderInv'
<1>0. OwnershipInv /\ TypeOK
  BY DEF OrderInv, OwnershipInv
<1>1. PICK s \in Sessions, r \in Runs : s = call[c].sess /\ r = call[c].run
  BY <1>0 DEF TypeOK, CallTypeOK
<1>2. OrderOK(s)
  BY DEF OrderInv
<1>3. /\ Opens(c, s) /\ run[r].status = "none" /\ r \notin RunsOf(s)
      /\ run'[r].status = "queued" /\ run'[r].sess = s /\ run'[r].at = call[c].at
      /\ \A q \in Runs \ {r} : run'[q] = run[q]
      /\ RunsOf(s)' = RunsOf(s) \cup {r}
  BY <1>1, InsertShape
<1>4. /\ \A d \in Callers : Opens(d, s) => d = c
      /\ \A d \in Callers : call[d].sess = s => call[d].step # "cancelSave"
      /\ \A q \in RunsOf(s) : run[q].status \notin Active
      /\ sess[s].status # "deleted"
  BY <1>2, <1>3 DEF OrderOK, OpensAlone
<1>5. /\ \A d \in Callers \ {c} : call'[d] = call[d]
      /\ call'[c].step = "enqueue" /\ call'[c].sess = s
  BY <1>0, <1>1, GotoShape DEF InsertRow
<1>6. UNCHANGED sess
  BY DEF InsertRow
<1>7. sess[s].status # "none"
  BY <1>1, <1>2 DEF OrderOK, InsertsLast
<1>8. /\ \A q \in RunsOf(s) : run[q].at < call[c].at /\ run'[q] = run[q] /\ run[q].at \in Nat
      /\ call[c].at \in Nat
  <2>1. \A q \in RunsOf(s) : run[q].at < call[c].at
    BY <1>1, <1>2 DEF OrderOK, InsertsLast, Inserts
  <2>2. \A q \in RunsOf(s) : run[q].at \in Nat
    BY <1>0, TimesAreNumbers
  <2>3. call[c].at \in Nat
    BY <1>0 DEF TypeOK, CallTypeOK, Call
  <2>4. \A q \in RunsOf(s) : run'[q] = run[q]
    BY <1>3 DEF RunsOf
  <2> QED
    BY <2>1, <2>2, <2>3, <2>4
<1>9. RowsInOrder(s)'
  <2>1. \A p, q \in RunsOf(s)' : p # q => run'[p].at # run'[q].at
    BY <1>2, <1>3, <1>8 DEF OrderOK, RowsInOrder
  <2>2. \A p, q \in RunsOf(s)' : run'[p].at < run'[q].at => run'[p].status \notin Active
    BY <1>3, <1>4, <1>8
  <2> QED
    BY <1>6, <1>7, <2>1, <2>2 DEF RowsInOrder
<1>10. \A d \in Callers : ~Opens(d, s)'
  BY <1>4, <1>5 DEF Opens, Opening
<1>11. OpensAlone(s)' /\ InsertsLast(s)' /\ Quiet(s)'
  BY <1>4, <1>6, <1>10, NobodyOpens
<1>12. EndsLast(s)'
  BY <1>2, <1>3, <1>4, <1>5 DEF OrderOK, EndsLast, Opens, Opening
<1>13. OrderWithin(s)
  BY <1>1, <1>3, <1>5, <1>6 DEF OrderWithin
<1> QED
  BY <1>9, <1>11, <1>12, <1>13, OrderElsewhere DEF OrderOK

LEMMA CancelQueuedRowOrder ==
  ASSUME OrderInv, OwnershipInv', NEW c \in Callers, CancelQueuedRow(c)
  PROVE  OrderInv'
<1>0. OwnershipInv /\ TypeOK
  BY DEF OrderInv, OwnershipInv
<1>1. PICK s \in Sessions, r \in Runs : s = call[c].sess /\ r = call[c].run
  BY <1>0 DEF CancelQueuedRow, TypeOK, CallTypeOK
<1>2. OrderOK(s)
  BY DEF OrderInv
<1>3. r \in RunsOf(s) /\ run[r].sess = s /\ UNCHANGED sess
  BY <1>1, <1>2 DEF CancelQueuedRow, OrderOK, EndsLast, RunsOf
<1>4. CASE /\ CancellableRow(r)
           /\ run' = [run EXCEPT ![r].status = "cancelled", ![r].ckpt = None]
           /\ Goto(c, IF run[r].kind = "query" THEN "cancelSave" ELSE "cancelEmit")
  <2>1. run[r].status \in Active
    BY <1>4 DEF CancellableRow, Active
  <2>2. /\ \A d \in Callers : ~Opens(d, s)
        /\ \A d \in Callers : call[d].sess = s => call[d].step # "cancelSave"
        /\ sess[s].status \notin {"none", "deleted"}
        /\ r \in LastRuns(s)
    BY <1>3, <2>1, ActiveKeepsOthersOut
  <2>3. PICK step \in {"cancelSave", "cancelEmit"} : Goto(c, step)
    BY <1>4
  <2>4. /\ \A d \in Callers \ {c} : call'[d] = call[d]
        /\ call'[c].step = step /\ call'[c].sess = s /\ call'[c].run = r
    BY <1>0, <1>1, <2>3, GotoShape
  <2>5. /\ run'[r].status = "cancelled" /\ run'[r].kind = run[r].kind
        /\ run'[r].sess = run[r].sess /\ run'[r].at = run[r].at
        /\ \A q \in Runs \ {r} : run'[q] = run[q]
    BY <1>0, <1>4, RowShape
  <2>6. /\ RunsOf(s)' = RunsOf(s) /\ LastRuns(s)' = LastRuns(s)
        /\ RowsInOrder(s)'
    BY <1>2, <1>3, <2>2, <2>5, SettledRow DEF OrderOK, Active
  <2>7. \A d \in Callers : ~Opens(d, s)'
    BY <2>2, <2>4 DEF Opens, Opening
  <2>8. OpensAlone(s)' /\ InsertsLast(s)' /\ Quiet(s)'
    BY <1>3, <2>2, <2>7, NobodyOpens
  <2>9. EndsLast(s)'
    BY <1>2, <1>3, <2>2, <2>4, <2>5, <2>6 DEF OrderOK, EndsLast, Opens, Opening
  <2>10. OrderWithin(s)
    BY <1>1, <1>3, <2>4, <2>5 DEF OrderWithin
  <2> QED
    BY <2>6, <2>8, <2>9, <2>10, OrderElsewhere DEF OrderOK
<1>5. CASE UNCHANGED run /\ (Return(c) \/ Goto(c, "signal"))
  <2>1. (\A d \in Callers \ {c} : call'[d] = call[d]) /\ call'[c].step \in {"idle", "signal"}
    BY <1>0, <1>5, GotoShape, ReturnShape
  <2>2. \A t \in Sessions : NoNewCalls(t)
    BY <2>1 DEF NoNewCalls, SessionSteps, Opening
  <2> QED
    BY <1>3, <1>5, <2>2, OrderUndisturbed
<1> QED
  BY <1>1, <1>4, <1>5 DEF CancelQueuedRow

LEMMA CancelSaveSessionOrder ==
  ASSUME OrderInv, OwnershipInv', NEW c \in Callers, CancelSaveSession(c)
  PROVE  OrderInv'
<1>0. OwnershipInv /\ TypeOK
  BY DEF OrderInv, OwnershipInv
<1>1. PICK s \in Sessions, r \in Runs : s = call[c].sess /\ r = call[c].run
  BY <1>0 DEF CancelSaveSession, TypeOK, CallTypeOK
<1>2. OrderOK(s)
  BY DEF OrderInv
<1>3. r \in LastRuns(s) /\ run[r].status = "cancelled" /\ r \in RunsOf(s)
  BY <1>1, <1>2 DEF CancelSaveSession, OrderOK, EndsLast, LastRuns
<1>4. \A d \in Callers : ~Opens(d, s)
  BY <1>1, <1>2 DEF CancelSaveSession, OrderOK, OpensAlone
<1>5. /\ \A d \in Callers \ {c} : call'[d] = call[d]
      /\ call'[c].step = "cancelEmit" /\ call'[c].sess = s
  BY <1>0, <1>1, GotoShape DEF CancelSaveSession
<1>6. /\ \A t \in Sessions \ {s} : sess'[t] = sess[t]
      /\ sess'[s] = sess[s] \/ sess'[s].status = "done"
  BY <1>0, <1>1, PointerShape DEF CancelSaveSession
<1>7. UNCHANGED run /\ RunsOf(s)' = RunsOf(s) /\ LastRuns(s)' = LastRuns(s)
  BY DEF CancelSaveSession, RunsOf, LastRuns
<1>8. RowsInOrder(s)'
  BY <1>2, <1>6, <1>7 DEF OrderOK, RowsInOrder
<1>9. \A d \in Callers : ~Opens(d, s)'
  BY <1>4, <1>5 DEF Opens, Opening
<1>10. OpensAlone(s)' /\ InsertsLast(s)'
  BY <1>9, NobodyOpens
<1>11. Quiet(s)'
  <2>1. \A q \in RunsOf(s) : run[q].status \notin Active
    BY <1>3, NoneActive DEF Active
  <2>2. \A l \in LastRuns(s) : run[l].status # "waiting_input"
    BY <1>3, LastIsUnique
  <2> QED
    BY <1>7, <2>1, <2>2 DEF Quiet
<1>12. EndsLast(s)'
  BY <1>2, <1>5, <1>7 DEF OrderOK, EndsLast
<1>13. OrderWithin(s)
  BY <1>1, <1>5, <1>6, <1>7 DEF OrderWithin
<1> QED
  BY <1>8, <1>10, <1>11, <1>12, <1>13, OrderElsewhere DEF OrderOK

LEMMA AbandonRowOrder ==
  ASSUME OrderInv, OwnershipInv', NEW c \in Callers, AbandonRow(c)
  PROVE  OrderInv'
<1>0. OwnershipInv /\ TypeOK
  BY DEF OrderInv, OwnershipInv
<1>1. PICK s \in Sessions, r \in Runs : s = call[c].sess /\ r = call[c].run
  BY <1>0 DEF AbandonRow, TypeOK, CallTypeOK
<1>2. OrderOK(s) /\ Opens(c, s)
  BY <1>1 DEF OrderInv, AbandonRow, Opens, Opening
<1>3. r \in LastRuns(s) /\ r \in RunsOf(s) /\ run[r].sess = s
  BY <1>1, <1>2 DEF AbandonRow, OrderOK, EndsLast, LastRuns, RunsOf
<1>4. /\ \A d \in Callers : Opens(d, s) => d = c
      /\ \A d \in Callers : call[d].sess = s => call[d].step # "cancelSave"
      /\ \A q \in RunsOf(s) : run[q].status \notin Active
      /\ sess[s].status # "deleted"
  BY <1>2 DEF OrderOK, OpensAlone
<1>5. /\ \A d \in Callers \ {c} : call'[d] = call[d]
      /\ call'[c].step = "abandonEmit" /\ call'[c].sess = s /\ call'[c].run = r
  BY <1>0, <1>1, GotoShape DEF AbandonRow
<1>6. /\ run'[r].status = "cancelled" /\ run'[r].kind = run[r].kind
      /\ run'[r].sess = run[r].sess /\ run'[r].at = run[r].at
      /\ \A q \in Runs \ {r} : run'[q] = run[q]
  BY <1>0, <1>1, RowShape DEF AbandonRow
<1>7. UNCHANGED sess /\ sess[s].status # "none"
  BY <1>2, <1>3 DEF AbandonRow, OrderOK, RowsInOrder
<1>8. /\ RunsOf(s)' = RunsOf(s) /\ LastRuns(s)' = LastRuns(s)
      /\ RowsInOrder(s)'
  BY <1>2, <1>3, <1>6, <1>7, SettledRow DEF OrderOK, Active
<1>9. \A q \in RunsOf(s)' : run'[q].status \notin Active
  BY <1>4, <1>6, <1>8 DEF Active, RunsOf
<1>10. OpensAlone(s)' /\ InsertsLast(s)'
  BY <1>4, <1>5, <1>7, <1>9 DEF Opens, Opening, OpensAlone, InsertsLast, Inserts
<1>11. EndsLast(s)'
  BY <1>2, <1>3, <1>4, <1>5, <1>6, <1>8 DEF OrderOK, EndsLast, Opens, Opening
<1>12. Quiet(s)'
  BY <1>4, <1>5, <1>7 DEF Quiet, Opens, Opening
<1>13. OrderWithin(s)
  BY <1>1, <1>3, <1>5, <1>6, <1>7 DEF OrderWithin
<1> QED
  BY <1>8, <1>10, <1>11, <1>12, <1>13, OrderElsewhere DEF OrderOK

LEMMA AbandonEmitOrder ==
  ASSUME OrderInv, OwnershipInv', NEW c \in Callers, AbandonEmit(c)
  PROVE  OrderInv'
<1>0. OwnershipInv /\ TypeOK
  BY DEF OrderInv, OwnershipInv
<1>1. PICK s \in Sessions, r \in Runs : s = call[c].sess /\ r = call[c].run
  BY <1>0 DEF AbandonEmit, TypeOK, CallTypeOK
<1>2. OrderOK(s) /\ Opens(c, s)
  BY <1>1 DEF OrderInv, AbandonEmit, Opens, Opening
<1>3. r \in LastRuns(s) /\ run[r].status = "cancelled"
  BY <1>1, <1>2 DEF AbandonEmit, OrderOK, EndsLast
<1>4. /\ \A d \in Callers : Opens(d, s) => d = c
      /\ \A d \in Callers : call[d].sess = s => call[d].step # "cancelSave"
      /\ \A q \in RunsOf(s) : run[q].status \notin Active
      /\ sess[s].status # "deleted"
  BY <1>2 DEF OrderOK, OpensAlone
<1>5. /\ \A d \in Callers \ {c} : call'[d] = call[d]
      /\ call'[c].step = "deleteRow" /\ call'[c].sess = s
  BY <1>0, <1>1, GotoShape DEF AbandonEmit
<1>6. UNCHANGED <<sess, run>> /\ RunsOf(s)' = RunsOf(s) /\ LastRuns(s)' = LastRuns(s)
  BY DEF AbandonEmit, RunsOf, LastRuns
<1>7. RowsInOrder(s)'
  BY <1>2, <1>6 DEF OrderOK, RowsInOrder
<1>8. OpensAlone(s)' /\ InsertsLast(s)'
  BY <1>4, <1>5, <1>6 DEF Opens, Opening, OpensAlone, InsertsLast, Inserts
<1>9. EndsLast(s)'
  BY <1>2, <1>5, <1>6 DEF OrderOK, EndsLast
<1>10. Quiet(s)'
  BY <1>3, <1>4, <1>6, LastIsUnique DEF Quiet
<1>11. OrderWithin(s)
  BY <1>1, <1>5, <1>6 DEF OrderWithin
<1> QED
  BY <1>7, <1>8, <1>9, <1>10, <1>11, OrderElsewhere DEF OrderOK

LEMMA DeleteRowOrder ==
  ASSUME OrderInv, OwnershipInv', NEW c \in Callers, DeleteRow(c)
  PROVE  OrderInv'
<1>0. OwnershipInv /\ TypeOK
  BY DEF OrderInv, OwnershipInv
<1>1. PICK s \in Sessions : s = call[c].sess
  BY <1>0 DEF DeleteRow, TypeOK, CallTypeOK
<1>2. OrderOK(s) /\ Opens(c, s)
  BY <1>1 DEF OrderInv, DeleteRow, Opens, Opening
<1>3. /\ \A d \in Callers : Opens(d, s) => d = c
      /\ \A q \in RunsOf(s) : run[q].status \notin Active
      /\ \A l \in LastRuns(s) : run[l].status # "waiting_input"
  BY <1>1, <1>2 DEF DeleteRow, OrderOK, OpensAlone, Quiet
<1>4. /\ \A d \in Callers \ {c} : call'[d] = call[d]
      /\ call'[c].step = "idle" /\ call'[c].sess = None
  BY <1>0, ReturnShape DEF DeleteRow
<1>5. sess'[s].status = "deleted" /\ \A t \in Sessions \ {s} : sess'[t] = sess[t]
  BY <1>0, <1>1 DEF DeleteRow, TypeOK, DbTypeOK, SessionRow
<1>6. UNCHANGED run /\ RunsOf(s)' = RunsOf(s) /\ LastRuns(s)' = LastRuns(s)
  BY DEF DeleteRow, RunsOf, LastRuns
<1>7. RowsInOrder(s)'
  BY <1>2, <1>5, <1>6 DEF OrderOK, RowsInOrder
<1>8. \A d \in Callers : ~Opens(d, s)'
  BY <1>3, <1>4 DEF Opens, Opening
<1>9. OpensAlone(s)' /\ InsertsLast(s)'
  BY <1>8, NobodyOpens
<1>10. EndsLast(s)' /\ Quiet(s)'
  BY <1>2, <1>3, <1>4, <1>6 DEF OrderOK, EndsLast, Quiet
<1>11. OrderWithin(s)
  BY <1>1, <1>4, <1>5, <1>6 DEF OrderWithin
<1> QED
  BY <1>7, <1>9, <1>10, <1>11, OrderElsewhere DEF OrderOK

\* A request that returns without a write to the session's tables, or fails.
LEMMA ReturnOrder ==
  ASSUME OrderInv, OwnershipInv', NEW c \in Callers,
         EnqueueRun(c) \/ CancelEmit(c) \/ CancelSignal(c) \/ CallFails(c)
  PROVE  OrderInv'
<1>1. UNCHANGED <<sess, run>> /\ Return(c)
  BY DEF EnqueueRun, CancelEmit, CancelSignal, CallFails, dbVars
<1>2. (\A d \in Callers \ {c} : call'[d] = call[d]) /\ call'[c].step = "idle"
  BY <1>1, ReturnShape DEF OrderInv, OwnershipInv
<1>3. \A s \in Sessions : NoNewCalls(s)
  BY <1>2 DEF NoNewCalls, SessionSteps, Opening
<1> QED
  BY <1>1, <1>3, OrderUndisturbed

LEMMA HandlerKeepsOrder ==
  ASSUME OrderInv, OwnershipInv', NEW c \in Callers, Handler(c)
  PROVE  OrderInv'
<1>1. CASE CreateInsertRun(c) \/ ResumeInsertRun(c)
  BY <1>1, InsertRowOrder DEF CreateInsertRun, ResumeInsertRun
<1> QED
  BY <1>1, CreateSaveSessionOrder, CancelQueuedRowOrder, CancelSaveSessionOrder,
     AbandonRowOrder, AbandonEmitOrder, DeleteRowOrder, ReturnOrder
  DEF Handler

-----------------------------------------------------------------------------
(* The worker *)

LEMMA TryStartRunOrder ==
  ASSUME OrderInv, OwnershipInv', NEW w \in Workers, NEW r \in Runs, TryStartRun(w, r)
  PROVE  OrderInv'
<1>0. OwnershipInv /\ TypeOK
  BY DEF OrderInv, OwnershipInv
<1>1. run[r].status = "queued" /\ run[r].status \in Active
  BY DEF TryStartRun, Startable, Active
<1>2. PICK s \in Sessions : s = run[r].sess /\ r \in RunsOf(s)
  BY <1>0, <1>1, RowOK DEF RunsOf
<1>3. OrderOK(s)
  BY DEF OrderInv
<1>4. /\ \A d \in Callers : ~Opens(d, s)
      /\ \A d \in Callers : call[d].sess = s => call[d].step # "cancelSave"
      /\ sess[s].status # "deleted"
  BY <1>1, <1>2, ActiveKeepsOthersOut
<1>5. /\ run'[r].status = "running" /\ run'[r].sess = run[r].sess /\ run'[r].at = run[r].at
      /\ \A q \in Runs \ {r} : run'[q] = run[q]
      /\ UNCHANGED <<sess, call>>
  BY <1>0 DEF TryStartRun, TypeOK, DbTypeOK, RunRow
<1>6. RunsOf(s)' = RunsOf(s)
  BY <1>1, <1>2, <1>5 DEF RunsOf
<1>7. \A q \in RunsOf(s) \ {r} : run'[q] = run[q]
  BY <1>5 DEF RunsOf
<1>8. RowsInOrder(s)'
  BY <1>1, <1>3, <1>5, <1>6, <1>7 DEF OrderOK, RowsInOrder, Active
<1>9. OpensAlone(s)' /\ InsertsLast(s)' /\ Quiet(s)'
  BY <1>4, <1>5, NobodyOpens DEF Opens
<1>10. EndsLast(s)'
  BY <1>3, <1>4, <1>5, <1>6 DEF OrderOK, EndsLast, Opens, Opening
<1>11. OrderWithin(s)
  BY <1>2, <1>5 DEF OrderWithin
<1> QED
  BY <1>8, <1>9, <1>10, <1>11, OrderElsewhere DEF OrderOK

\* The session of a run that executes is saved.
LEMMA SaveOutcomeOrder ==
  ASSUME OrderInv, OwnershipInv', NEW w \in Workers, SaveOutcome(w)
  PROVE  OrderInv'
<1>0. OwnershipInv /\ TypeOK
  BY DEF OrderInv, OwnershipInv
<1>1. PICK r \in Runs : r = wrun[w] /\ run[r].status = "running"
  BY <1>0
  DEF SaveOutcome, TypeOK, WorkerTypeOK, OwnershipInv, ExecutingIsRunning, Executes
<1>2. PICK s \in Sessions : s = run[r].sess /\ r \in RunsOf(s)
  BY <1>0, <1>1, RowOK DEF RunsOf
<1>3. /\ \A d \in Callers : ~Opens(d, s)
      /\ sess[s].status \notin {"none", "deleted"}
  BY <1>1, <1>2, ActiveKeepsOthersOut DEF Active
<1>4. UNCHANGED <<run, call>>
  BY DEF SaveOutcome
<1>5. /\ \A t \in Sessions \ {s} : sess'[t] = sess[t]
      /\ sess'[s] = sess[s] \/ sess'[s].status \in {"active", "done"}
  <2>1. \/ \E k : SaveSession(s, "active", k)
        \/ \E k : SaveSession(s, "done", k)
        \/ UNCHANGED sess
    BY <1>1, <1>2 DEF SaveOutcome
  <2> QED
    BY <1>0, <2>1, PointerShape
<1>6. SameRows(s) /\ NoNewCalls(s)
  BY <1>4 DEF SameRows, NoNewCalls, RunsOf
<1>7. RowsInOrder(s)'
  BY <1>3, <1>5, <1>6 DEF OrderInv, OrderOK, RowsInOrder, SameRows
<1>8. OpensAlone(s)' /\ InsertsLast(s)' /\ Quiet(s)'
  BY <1>3, <1>4, <1>5, NobodyOpens DEF Opens
<1>9. EndsLast(s)'
  BY <1>6, EndsStayLast DEF OrderInv, OrderOK
<1>10. OrderWithin(s)
  BY <1>4, <1>5 DEF OrderWithin
<1> QED
  BY <1>7, <1>8, <1>9, <1>10, OrderElsewhere DEF OrderOK

\* A run that executes is settled: finished, or failed because its session cannot be read.
LEMMA SettleOrder ==
  ASSUME OrderInv, OwnershipInv', NEW w \in Workers, NEW r \in Runs, Executes(w, r),
         UNCHANGED <<sess, call>>, NEW status \in FinalStatuses, NEW k,
         run' = [run EXCEPT ![r].status = status, ![r].ckpt = k]
  PROVE  OrderInv'
<1>0. OwnershipInv /\ TypeOK
  BY DEF OrderInv, OwnershipInv
<1>1. run[r].status = "running" /\ run[r].status \in Active
  BY <1>0 DEF OwnershipInv, ExecutingIsRunning, Active
<1>2. PICK s \in Sessions : s = run[r].sess /\ r \in RunsOf(s)
  BY <1>0, <1>1, RowOK DEF RunsOf
<1>3. OrderOK(s)
  BY DEF OrderInv
<1>4. /\ \A d \in Callers : ~Opens(d, s)
      /\ \A d \in Callers : call[d].sess = s => call[d].step # "cancelSave"
      /\ sess[s].status \notin {"none", "deleted"}
  BY <1>1, <1>2, ActiveKeepsOthersOut
<1>5. /\ run'[r].status = status /\ run'[r].kind = run[r].kind
      /\ run'[r].sess = run[r].sess /\ run'[r].at = run[r].at
      /\ \A q \in Runs \ {r} : run'[q] = run[q]
  BY <1>0, RowShape
<1>6. /\ RunsOf(s)' = RunsOf(s) /\ LastRuns(s)' = LastRuns(s)
      /\ RowsInOrder(s)'
  BY <1>2, <1>3, <1>4, <1>5, SettledRow DEF OrderOK, Active, FinalStatuses
<1>7. OpensAlone(s)' /\ InsertsLast(s)' /\ Quiet(s)'
  BY <1>4, NobodyOpens DEF Opens
<1>8. EndsLast(s)'
  BY <1>3, <1>4, <1>6 DEF OrderOK, EndsLast, Opens, Opening
<1>9. OrderWithin(s)
  BY <1>2, <1>5 DEF OrderWithin
<1> QED
  BY <1>6, <1>7, <1>8, <1>9, OrderElsewhere DEF OrderOK

LEMMA WorkerKeepsOrder ==
  ASSUME OrderInv, OwnershipInv', NEW w \in Workers,
         Consume(w) \/ AgentReturns(w) \/ LoadSessionFails(w) \/ Crash(w)
         \/ \E r \in Runs : LoadRunFails(w, r)
  PROVE  OrderInv'
<1> USE DEF dbVars
<1>0. TypeOK
  BY DEF OrderInv, OwnershipInv
<1>1. ASSUME UNCHANGED <<sess, run, call>> PROVE OrderInv'
  BY <1>1, OrderUndisturbed DEF NoNewCalls
<1>2. CASE LoadSession(w) \/ Announce(w) \/ Ack(w) \/ AgentReturns(w) \/ Crash(w)
  BY <1>1, <1>2 DEF LoadSession, Announce, Ack, AgentReturns, Crash
<1>3. CASE \E r \in Runs : SkipRun(w, r) \/ LoadRunFails(w, r)
  BY <1>1, <1>3 DEF SkipRun, LoadRunFails
<1>4. CASE FinishRow(w)
  <2>1. PICK r \in Runs : r = wrun[w] /\ Executes(w, r)
    BY <1>0, <1>4 DEF FinishRow, TypeOK, WorkerTypeOK, Executes
  <2>2. PICK k : k = IF wout[w] = "waiting_input" THEN run[r].ckpt ELSE None
    OBVIOUS
  <2>3. UNCHANGED run \/ run' = [run EXCEPT ![r].status = wout[w], ![r].ckpt = k]
    BY <1>4, <2>1, <2>2 DEF FinishRow
  <2>4. wout[w] \in FinalStatuses
    BY <1>0, <1>4 DEF FinishRow, TypeOK, WorkerTypeOK
  <2> QED
    BY <1>1, <1>4, <2>1, <2>3, <2>4, SettleOrder DEF FinishRow
<1>5. CASE LoadSessionFails(w)
  <2>1. PICK r \in Runs : r = wrun[w] /\ Executes(w, r)
    BY <1>0, <1>5 DEF LoadSessionFails, TypeOK, WorkerTypeOK, Executes
  <2>2. UNCHANGED run \/ run' = [run EXCEPT ![r].status = "failed", ![r].ckpt = None]
    BY <1>5, <2>1 DEF LoadSessionFails
  <2>3. UNCHANGED <<sess, call>> /\ "failed" \in FinalStatuses
    BY <1>5 DEF LoadSessionFails, FinalStatuses
  <2> QED
    BY <1>1, <2>1, <2>2, <2>3, SettleOrder
<1> QED
  BY <1>2, <1>3, <1>4, <1>5, TryStartRunOrder, SaveOutcomeOrder DEF Consume

-----------------------------------------------------------------------------
(* The theorems *)

LEMMA NextKeepsOrder ==
  ASSUME SerialClients
  PROVE  OrderInv /\ [Next]_vars => OrderInv'
<1> SUFFICES ASSUME OrderInv, [Next]_vars PROVE OrderInv'
  OBVIOUS
<1> USE DEF dbVars
<1>0. OwnershipInv'
  BY NextKeepsOwnership DEF OrderInv
<1>1. ASSUME UNCHANGED <<sess, run, call>> PROVE OrderInv'
  BY <1>0, <1>1, OrderUndisturbed DEF NoNewCalls
<1>2. CASE Request
  BY <1>0, <1>2, RequestKeepsOrder
<1>3. CASE \E c \in Callers : Handler(c)
  BY <1>0, <1>3, HandlerKeepsOrder
<1>4. CASE \E w \in Workers : Consume(w) \/ AgentReturns(w)
  BY <1>0, <1>4, WorkerKeepsOrder
<1>5. CASE \E r \in Runs : ReadGroup(r) \/ DeliverCancel(r)
  BY <1>1, <1>5 DEF ReadGroup, DeliverCancel
<1>6. CASE EnsureConsumerGroup \/ Tick \/ UNCHANGED vars
  BY <1>1, <1>6 DEF EnsureConsumerGroup, Tick, vars
<1>7. CASE Failure
  <2>1. CASE \E k \in Runs : ExpireCheckpoint(k)
    BY <1>1, <2>1 DEF ExpireCheckpoint
  <2> QED
    BY <1>0, <1>7, <2>1, ReturnOrder, WorkerKeepsOrder DEF Failure
<1> QED
  BY <1>2, <1>3, <1>4, <1>5, <1>6, <1>7 DEF Next

\* Clients that send one request at a time per session never make two runs of it active,
\* though nothing in the database keeps a second one out.
THEOREM SessionRunsOneAtATime ==
  ASSUME SerialClients
  PROVE  Spec => []OneActiveRunPerSession
<1>1. OrderInv => OneActiveRunPerSession
  <2> SUFFICES ASSUME OrderInv, NEW s \in Sessions, NEW q \in RunsOf(s), NEW r \in RunsOf(s),
                      {run[q].status, run[r].status} \subseteq Active
               PROVE  q = r
    BY DEF OneActiveRunPerSession, Active
  <2> QED
    BY ActiveKeepsOthersOut
<1> QED
  BY <1>1, InitOrder, NextKeepsOrder, PTL DEF Spec

\* A session that is deleted stays without a run that executes, is queued or waits last.
THEOREM DeletedSessionsStayQuiet ==
  ASSUME SerialClients
  PROVE  Spec => []DeletedSessionQuiet
<1>1. OrderInv => DeletedSessionQuiet
  BY DEF OrderInv, OrderOK, Quiet, DeletedSessionQuiet, Active
<1> QED
  BY <1>1, InitOrder, NextKeepsOrder, PTL DEF Spec
=============================================================================
