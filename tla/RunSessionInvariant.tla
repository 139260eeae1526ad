------------------------- MODULE RunSessionInvariant -------------------------
(***************************************************************************)
(* The inductive invariants behind the properties of RunLifecycle that are *)
(* about sessions: what the rows of a session, its pointer to a checkpoint, *)
(* the requests on it and the workers that execute its runs are to each    *)
(* other at every moment, also half-way through a request.  OrderInv is    *)
(* behind OneActiveRunPerSession and DeletedSessionQuiet, SessionInv behind *)
(* WaitingIsResumable and QueuedAnswerHasCheckpoint.                       *)
(***************************************************************************)
EXTENDS RunLifecycle

Active == {"queued", "running"}

-----------------------------------------------------------------------------
(* Order: clients that keep to the page's discipline, whatever fails *)

\* Rows of a session differ in started_at, and only the last is queued or running.
RowsInOrder(s) ==
  /\ RunsOf(s) # {} => sess[s].status # "none"
  /\ \A q, r \in RunsOf(s) : q # r => run[q].at # run[r].at
  /\ \A q, r \in RunsOf(s) : run[q].at < run[r].at => run[q].status \notin Active

\* The requests that have the session from their check to their last write.
Opening == {"saveSession", "insertRun", "insertResume", "abandonRow", "abandonEmit", "deleteRow"}
Opens(c, s) == call[c].sess = s /\ call[c].step \in Opening

\* One at a time, while no run is active and no cancellation has the session to save.
OpensAlone(s) ==
  \A c \in Callers : Opens(c, s) =>
    /\ \A d \in Callers : Opens(d, s) => d = c
    /\ \A d \in Callers : call[d].sess = s => call[d].step # "cancelSave"
    /\ \A r \in RunsOf(s) : run[r].status \notin Active
    /\ sess[s].status # "deleted"

\* A row that is to be inserted will be the last one.
InsertsLast(s) ==
  \A c \in Callers : call[c].sess = s =>
    /\ Inserts(c) => \A r \in RunsOf(s) : run[r].at < call[c].at
    /\ call[c].step \in {"insertRun", "insertResume"} => sess[s].status # "none"

\* A request that ends a run is about a run of its session, and past the check about the
\* last one.
EndsLast(s) ==
  \A c \in Callers : call[c].sess = s =>
    /\ call[c].step = "cancelRow" => call[c].run \in RunsOf(s)
    /\ call[c].step \in {"cancelSave", "abandonRow", "abandonEmit"} =>
         call[c].run \in LastRuns(s)
    /\ call[c].step \in {"cancelSave", "abandonEmit"} =>
         run[call[c].run].status = "cancelled"

\* A session that is deleted, or is about to be, is quiet.
Quiet(s) ==
  /\ sess[s].status = "deleted" => \A r \in RunsOf(s) : run[r].status \notin Active
  /\ \/ sess[s].status = "deleted"
     \/ \E c \in Callers : call[c].sess = s /\ call[c].step = "deleteRow"
     => \A l \in LastRuns(s) : run[l].status # "waiting_input"

OrderOK(s) ==
  RowsInOrder(s) /\ OpensAlone(s) /\ InsertsLast(s) /\ EndsLast(s) /\ Quiet(s)

OrderInv == OwnershipInv /\ \A s \in Sessions : OrderOK(s)

-----------------------------------------------------------------------------
(* Checkpoints: neither the database nor the API fails half-way, and none expires *)

\* Workers may crash, Redis calls fail, cancel messages be lost, the group come late.
Disciplined == SerialClients /\ Faults \cap {"dbErr", "apiErr", "expire"} = {}

\* The session points at the checkpoint of p, and the checkpoint is there.
Ready(p) ==
  /\ sess[run[p].sess] = [status |-> "active", ckpt |-> run[p].ckpt]
  /\ run[p].ckpt \in ckpts

\* The rows of a session, and the requests on it, name checkpoints of this session.
OwnCheckpoints(s) ==
  /\ \A r \in RunsOf(s) :
       /\ run[r].status \in Unfinished => run[r].ckpt \in RunsOf(s)
       /\ run[r].kind = "query" => run[r].parent = None
  /\ \A c \in Callers : call[c].sess = s =>
       /\ call[c].step \in {"cancelRow", "cancelSave", "abandonRow", "abandonEmit"} =>
            call[c].ckpt \in RunsOf(s)
       /\ call[c].step \in {"saveSession", "insertRun"} =>
            call[c].parent = None /\ call[c].ckpt = call[c].run

\* r answers p: only answers that failed came between them.
Answers(r, p) ==
  /\ p \in RunsOf(run[r].sess)
  /\ run[p].status = "waiting_input" /\ run[p].ckpt = run[r].ckpt /\ run[p].at < run[r].at
  /\ \A q \in RunsOf(run[r].sess) \ {r} :
       run[q].at > run[p].at => run[q].parent = p /\ run[q].status = "failed"

\* An answer that is queued or running answers a run that still waits.
AnswersWaiting(s) ==
  \A r \in RunsOf(s) :
    run[r].status \in Active /\ run[r].kind = "resume" => Answers(r, run[r].parent)

\* A run that waits for an answer has what the answer needs, until the row of a new
\* query that has already taken over the session is inserted.
WaitingReady(s) ==
  \A p \in RunsOf(s) :
    /\ Awaits(p) /\ sess[s].status # "deleted"
    /\ \A c \in Callers : call[c].sess = s => call[c].step # "insertRun"
    => Ready(p)

\* So has a run whose answer is queued, executes or is about to be written as failed.
AnsweredReady(s) ==
  \A r \in RunsOf(s) : run[r].kind = "resume" =>
    /\ run[r].status = "queued" => Ready(run[r].parent)
    /\ \A w \in Workers :
         Executes(w, r) /\ (wpc[w] \in {"started", "exec"} \/ wout[w] = "failed") =>
           Ready(run[r].parent)

\* And a run that a worker is about to write as waiting.
InterruptReady(s) ==
  \A w \in Workers, r \in RunsOf(s) : wrun[w] = r /\ wout[w] = "waiting_input" =>
    /\ wpc[w] = "save" => run[r].ckpt \in ckpts
    /\ wpc[w] = "row" => Ready(r)

\* And a run whose answer is about to be inserted.
ResumesReady(s) ==
  \A c \in Callers : call[c].sess = s /\ call[c].step = "insertResume" =>
    LET p == call[c].parent IN
    p \in RunsOf(s) /\ Awaits(p) /\ Ready(p) /\ call[c].ckpt = run[p].ckpt

SessionOK(s) ==
  /\ OwnCheckpoints(s) /\ AnswersWaiting(s)
  /\ WaitingReady(s) /\ AnsweredReady(s) /\ InterruptReady(s) /\ ResumesReady(s)

SessionInv == OrderInv /\ \A s \in Sessions : SessionOK(s)
=============================================================================
