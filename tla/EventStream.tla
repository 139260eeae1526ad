---------------------------- MODULE EventStream ----------------------------
(***************************************************************************)
(* The events of one run, from the agents that report them to the pages    *)
(* that wait for the run to end.                                           *)
(*                                                                         *)
(* An event is appended to agent_run_events (its id is its position), then *)
(* offered to the subscribers in the process of the worker through bounded *)
(* channels, then announced on Redis to all processes.  The three steps    *)
(* are not atomic and the agents of a run work in parallel.  A driver that *)
(* does not report the id of an inserted row (SQL Server) leaves it to a   *)
(* query for the largest id of the run, which may be another event's: the  *)
(* channels then offer the event under that id.  A page                    *)
(* subscribes, reads the database once, and then takes whichever comes     *)
(* first: an event of its channel, a wake-up, or a tick of its poll timer. *)
(* It keeps one cursor, the id it was last shown an event under, and takes *)
(* no event that comes under a smaller one.                                *)
(***************************************************************************)
EXTENDS Naturals, Sequences, FiniteSets

CONSTANTS Agents,      \* the agents of the run that report events
          Pages,       \* the requests that wait for the run
          Local,       \* those served by the process that executes the run
          Capacity,    \* capacity of a subscriber's channel (64)
          MaxEvents,   \* bound: ids the run may use
          OneWriter,   \* sqlite: one write transaction at a time
          Worker       \* the goroutine that executes the run

ASSUME StreamAssumption ==
    /\ Local \subseteq Pages
    /\ Capacity \in Nat \ {0}
    /\ MaxEvents \in Nat
    /\ OneWriter \in BOOLEAN
    /\ Worker \notin Agents

VARIABLES
    (* database *)
    row,           \* agent_run_events: "free", "open" (uncommitted), "kept", "lost"
    runRow,        \* agent_runs.status: "running", "finished", "stuck" (write failed)
    (* process of the worker *)
    worker,        \* "begin", "starting", "agents", "final", "closing", "clear", "gone"
    left,          \* agents still working after the worker stopped listening
    emit,          \* emitter -> [at : step of emitRunEvent, row : its row,
                   \*             id : record.ID, 0 until it is known]
    deduped,       \* eventDedup holds a lifecycle event reported within the window
    closing,       \* the row of the closing event, 0 if none
    subscribers,   \* pages in s.subscribers[runID]
    chan,          \* page -> buffered events, each with its row and record.ID
    chanOpen,      \* pages whose channel is open
    (* pages *)
    page,          \* "away", "subscribed", "waiting", "complete", "cut"
    cursor,        \* afterID
    shown,         \* events the page was shown
    (* history *)
    overlapped     \* events whose emission overlapped another one's

database == <<row, runRow>>
process == <<worker, left, emit, deduped, closing>>
subs == <<subscribers, chan, chanOpen>>
pages == <<page, cursor, shown>>
vars == <<row, runRow, worker, left, emit, deduped, closing, subscribers, chan,
          chanOpen, page, cursor, shown, overlapped>>

Ids == 1 .. MaxEvents
Emitters == Agents \cup {Worker}
Idle == [at |-> "idle", row |-> 0, id |-> 0]

Emission == [at : {"idle", "insert", "append", "broadcast"},
             row : 0 .. MaxEvents, id : 0 .. MaxEvents]
RunEvent == [row : Ids, id : Ids]
EmitTypeOK ==
    /\ emit \in [Emitters -> Emission]
    /\ \A e \in Emitters :
          /\ emit[e].at \in {"append", "broadcast"} => emit[e].row \in Ids
          /\ emit[e].at = "broadcast" => emit[e].id \in Ids
ChanTypeOK ==
    /\ chan \in [Pages -> Seq(RunEvent)]
    /\ \A p \in Pages : Len(chan[p]) <= Capacity

TypeOK ==
    /\ row \in [Ids -> {"free", "open", "kept", "lost"}]
    /\ runRow \in {"running", "finished", "stuck"}
    /\ worker \in {"begin", "starting", "agents", "final", "closing", "clear", "gone"}
    /\ left \subseteq Agents
    /\ EmitTypeOK
    /\ deduped \in BOOLEAN
    /\ closing \in 0 .. MaxEvents
    /\ subscribers \subseteq Local
    /\ ChanTypeOK
    /\ chanOpen \subseteq Local
    /\ page \in [Pages -> {"away", "subscribed", "waiting", "complete", "cut"}]
    /\ cursor \in [Pages -> 0 .. MaxEvents]
    /\ shown \in [Pages -> SUBSET Ids]
    /\ overlapped \subseteq Ids

Kept == {i \in Ids : row[i] = "kept"}
Free == {i \in Ids : row[i] = "free"}
Busy(e) == emit[e].at # "idle"
Largest(S) == CHOOSE c \in S : \A i \in S : c >= i

Init ==
    /\ row = [i \in Ids |-> "free"]
    /\ runRow = "running"
    /\ worker = "begin"
    /\ left = {}
    /\ emit = [e \in Emitters |-> Idle]
    /\ deduped = FALSE
    /\ closing = 0
    /\ subscribers = {}
    /\ chan = [p \in Pages |-> << >>]
    /\ chanOpen = {}
    /\ page = [p \in Pages |-> "away"]
    /\ cursor = [p \in Pages |-> 0]
    /\ shown = [p \in Pages |-> {}]
    /\ overlapped = {}

(* ---------------------------------------------------------------------- *)
(* emitRunEvent, by whichever goroutine reports                           *)
(* ---------------------------------------------------------------------- *)

Enter(e) == emit' = [emit EXCEPT ![e].at = "insert"]

(* The worker reports that the run started.                               *)
EmitStarted ==
    /\ worker = "begin"
    /\ Enter(Worker)
    /\ worker' = "starting"
    /\ UNCHANGED <<database, left, deduped, closing, subs, pages, overlapped>>

(* MaxEvents: an agent reports only while the closing event keeps an id.  *)
Room == Cardinality(Free) > 1 + Cardinality({e \in Emitters : emit[e].at = "insert"})

(* An agent reports.  A lifecycle event (agent entered, agent completed)  *)
(* seen within the window is dropped, another one is noted.               *)
EmitStep(a, lifecycle) ==
    /\ worker = "agents" \/ a \in left
    /\ ~Busy(a)
    /\ Room
    /\ lifecycle => ~deduped
    /\ deduped' = (deduped \/ lifecycle)
    /\ Enter(a)
    /\ UNCHANGED <<database, worker, left, closing, subs, pages, overlapped>>

(* The window of 300 ms passes.                                           *)
WindowPasses ==
    /\ deduped
    /\ deduped' = FALSE
    /\ UNCHANGED <<database, worker, left, emit, closing, subs, pages, overlapped>>

(* AppendRunEvent inserts the row and so takes the next id.  sqlite has   *)
(* one writer at a time, other databases let transactions overlap.        *)
Insert(e) ==
    /\ emit[e].at = "insert"
    /\ OneWriter => \A i \in Ids : row[i] # "open"
    /\ \E i \in Free :
          /\ \A j \in Free : i <= j
          /\ row' = [row EXCEPT ![i] = "open"]
          /\ emit' = [emit EXCEPT ![e] = [at |-> "append", row |-> i, id |-> 0]]
          /\ closing' = IF e = Worker /\ worker = "closing" THEN i ELSE closing
          /\ LET others == {emit[o].row : o \in {o \in Emitters \ {e} :
                              emit[o].at \in {"append", "broadcast"}}}
             IN overlapped' = IF others = {} THEN overlapped
                              ELSE overlapped \cup others \cup {i}
    /\ UNCHANGED <<runRow, worker, left, deduped, subs, pages>>

(* The driver reports the id of the row, or else the transaction asks for *)
(* the largest id of the run among the rows it sees, its own and the      *)
(* committed ones.  At once after the insert the two are the same, as     *)
(* ids are given in order; later the largest may be another event's.      *)
LearnID(e) ==
    /\ emit[e].at = "append"
    /\ emit[e].id = 0
    /\ emit' = [emit EXCEPT ![e].id = Largest(Kept \cup {emit[e].row})]
    /\ UNCHANGED <<database, worker, left, deduped, closing, subs, pages, overlapped>>

(* After its emission the worker goes on.                                 *)
Proceed(e) ==
    worker' = CASE e = Worker /\ worker = "starting" -> "agents"
                [] e = Worker /\ worker = "closing" -> "clear"
                [] OTHER -> worker

Commit(e) ==
    /\ emit[e].at = "append"
    /\ emit[e].id # 0
    /\ row' = [row EXCEPT ![emit[e].row] = "kept"]
    /\ emit' = [emit EXCEPT ![e].at = "broadcast"]
    /\ UNCHANGED <<runRow, worker, left, deduped, closing, subs, pages, overlapped>>

(* The transaction fails: the event is logged and lost.                   *)
AppendFails(e) ==
    /\ emit[e].at = "append"
    /\ row' = [row EXCEPT ![emit[e].row] = "lost"]
    /\ emit' = [emit EXCEPT ![e] = Idle]
    /\ Proceed(e)
    /\ UNCHANGED <<runRow, left, deduped, closing, subs, pages, overlapped>>

(* broadcastRunEvent: a subscriber whose channel is full is dropped and   *)
(* its channel closed.  The wake-up that follows on Redis may be lost and *)
(* leads to a flush, which the timer of a page allows at any moment too,  *)
(* so it needs no state here.                                             *)
(* A channel is taken as full one event too late.                          *)
FullLate == {p \in subscribers : Len(chan[p]) > Capacity}

Full == {p \in subscribers : Len(chan[p]) >= Capacity}

Broadcast(e) ==
    /\ emit[e].at = "broadcast"
    /\ chan' = [p \in Pages |-> IF p \in subscribers \ Full
                                THEN Append(chan[p], [row |-> emit[e].row, id |-> emit[e].id]) ELSE chan[p]]
    /\ subscribers' = subscribers \ Full
    /\ chanOpen' = chanOpen \ Full
    /\ emit' = [emit EXCEPT ![e] = Idle]
    /\ Proceed(e)
    /\ UNCHANGED <<database, left, deduped, closing, pages, overlapped>>

(* ---------------------------------------------------------------------- *)
(* The end of the run                                                     *)
(* ---------------------------------------------------------------------- *)

(* The worker stops listening: when the agents are done, or at the first  *)
(* error, which leaves the others working.  It writes the row of the run, *)
(* a failed write is only logged.                                         *)
(* The closing event is emitted before the row is written.                 *)
FinishRunUnwritten(still) ==
    /\ worker = "agents"
    /\ \A a \in Agents : Busy(a) => a \in still
    /\ left' = still
    /\ worker' = "final"
    /\ UNCHANGED <<database, emit, deduped, closing, subs, pages, overlapped>>

FinishRun(still) ==
    /\ worker = "agents"
    /\ \A a \in Agents : Busy(a) => a \in still
    /\ left' = still
    /\ runRow' \in {"finished", "stuck"}
    /\ worker' = "final"
    /\ UNCHANGED <<row, emit, deduped, closing, subs, pages, overlapped>>

(* An agent the worker abandoned comes to its end.                        *)
Stop(a) ==
    /\ a \in left
    /\ ~Busy(a)
    /\ left' = left \ {a}
    /\ UNCHANGED <<database, worker, emit, deduped, closing, subs, pages, overlapped>>

(* emitFinalRunEvent                                                      *)
EmitFinal ==
    /\ worker = "final"
    /\ Enter(Worker)
    /\ worker' = "closing"
    /\ UNCHANGED <<database, left, deduped, closing, subs, pages, overlapped>>

(* clearLiveRun, deferred by the goroutine of the run.                    *)
ClearLive ==
    /\ worker = "clear"
    /\ worker' = "gone"
    /\ deduped' = FALSE
    /\ UNCHANGED <<database, left, emit, closing, subs, pages, overlapped>>

(* ---------------------------------------------------------------------- *)
(* waitForRunTerminal, one page                                           *)
(* ---------------------------------------------------------------------- *)

(* SubscribeRun and SubscribeRunWake; a page of another process has no    *)
(* events in its channel, so it is left out of the subscribers here.      *)
(* The page does not read the database after it subscribed.                *)
SubscribeOnly(p) ==
    /\ page[p] = "away"
    /\ page' = [page EXCEPT ![p] = "waiting"]
    /\ subscribers' = subscribers \cup ({p} \cap Local)
    /\ chanOpen' = chanOpen \cup ({p} \cap Local)
    /\ UNCHANGED <<database, process, chan, cursor, shown, overlapped>>

Subscribe(p) ==
    /\ page[p] = "away"
    /\ page' = [page EXCEPT ![p] = "subscribed"]
    /\ subscribers' = subscribers \cup ({p} \cap Local)
    /\ chanOpen' = chanOpen \cup ({p} \cap Local)
    /\ UNCHANGED <<database, process, chan, cursor, shown, overlapped>>

(* The deferred unsubscribe: removes and closes the channel if it is      *)
(* still in the table.                                                    *)
(* The channel is closed but stays in the table.                           *)
UnsubscribeKeepsEntry(p) ==
    /\ subscribers' = subscribers
    /\ chanOpen' = chanOpen \ {p}

Unsubscribe(p) ==
    /\ subscribers' = subscribers \ {p}
    /\ chanOpen' = chanOpen \ {p}

(* The page returns or goes on waiting after it was shown a batch.        *)
Show(p, batch, upto) ==
    /\ shown' = [shown EXCEPT ![p] = @ \cup batch]
    /\ cursor' = [cursor EXCEPT ![p] = upto]
    /\ IF closing \in batch
       THEN /\ page' = [page EXCEPT ![p] = "complete"]
            /\ Unsubscribe(p)
       ELSE /\ page' = [page EXCEPT ![p] = "waiting"]
            /\ UNCHANGED <<subscribers, chanOpen>>

(* flushEvents reads what the database has after the cursor: once at      *)
(* first, then at a wake-up and at every tick of the timer.               *)
Unread(p) == {i \in Kept : i > cursor[p]}

(* The page relies on its channel alone after the first read.              *)
FlushOnce(p) ==
    /\ page[p] = "subscribed"
    /\ Show(p, Unread(p), Largest(Unread(p) \cup {cursor[p]}))
    /\ UNCHANGED <<database, process, chan, overlapped>>

Flush(p) ==
    /\ page[p] \in {"subscribed", "waiting"}
    /\ Show(p, Unread(p), Largest(Unread(p) \cup {cursor[p]}))
    /\ UNCHANGED <<database, process, chan, overlapped>>

(* An event of the channel is skipped when the cursor is past the id it   *)
(* came under.                                                            *)
(* Events of the channel are not compared with the cursor.                 *)
ReceiveAll(p) ==
    /\ page[p] = "waiting"
    /\ chan[p] # << >>
    /\ chan' = [chan EXCEPT ![p] = Tail(@)]
    /\ Show(p, {Head(chan[p]).row}, Head(chan[p]).id)
    /\ UNCHANGED <<database, process, overlapped>>

Receive(p) ==
    LET event == Head(chan[p]) IN
    /\ page[p] = "waiting"
    /\ chan[p] # << >>
    /\ chan' = [chan EXCEPT ![p] = Tail(@)]
    /\ IF event.id > cursor[p]
       THEN Show(p, {event.row}, event.id)
       ELSE UNCHANGED <<shown, cursor, page, subscribers, chanOpen>>
    /\ UNCHANGED <<database, process, overlapped>>

(* The channel was closed and is empty: the page returns without the      *)
(* closing event.                                                         *)
ChannelClosed(p) ==
    /\ page[p] = "waiting"
    /\ p \in Local \ chanOpen
    /\ chan[p] = << >>
    /\ page' = [page EXCEPT ![p] = "cut"]
    /\ Unsubscribe(p)
    /\ UNCHANGED <<database, process, chan, cursor, shown, overlapped>>

(* The client went away, a write to it failed, or a read of the database. *)
Leave(p) ==
    /\ page[p] \in {"subscribed", "waiting"}
    /\ page' = [page EXCEPT ![p] = "cut"]
    /\ Unsubscribe(p)
    /\ UNCHANGED <<database, process, chan, cursor, shown, overlapped>>

EmitterNext(e) ==
    \/ Insert(e)
    \/ LearnID(e)
    \/ Commit(e)
    \/ AppendFails(e)
    \/ Broadcast(e)

WorkerNext ==
    \/ EmitStarted
    \/ \E still \in SUBSET Agents : FinishRun(still)
    \/ EmitFinal
    \/ ClearLive

PageNext(p) ==
    \/ Subscribe(p)
    \/ Flush(p)
    \/ Receive(p)
    \/ ChannelClosed(p)
    \/ Leave(p)

AgentNext(a) ==
    \/ \E lifecycle \in BOOLEAN : EmitStep(a, lifecycle)
    \/ Stop(a)

Next ==
    \/ \E e \in Emitters : EmitterNext(e)
    \/ \E a \in Agents : AgentNext(a)
    \/ \E p \in Pages : PageNext(p)
    \/ WorkerNext
    \/ WindowPasses

(* The poll timer of a page ticks again and again, and Go's select does   *)
(* not starve it.  Nothing else is assumed: events may be lost, wake-ups  *)
(* too, and agents need not report.                                       *)
Fairness == \A p \in Pages : WF_vars(Flush(p))

Spec == Init /\ [][Next]_vars
FairSpec == Spec /\ Fairness

-----------------------------------------------------------------------------
(* Properties                                                             *)

(* The cursor of a page passes an event it was not shown only if the      *)
(* emission of that event overlapped another one's: an event whose append *)
(* and broadcast were over before the next began is never missed,         *)
(* whatever the order in which the page reads its channel and the         *)
(* database, and whatever ids other events are offered under              *)
(* (a2ui.go:838-860, run_runtime.go:361-362, storage.go:591-597).         *)
SkippedOnlyByOverlap ==
    \A p \in Pages : \A i \in Kept :
        i <= cursor[p] /\ i \notin shown[p] => i \in overlapped

(* A page that was shown the closing event renders a run whose row was    *)
(* written before: the row is finished, or its write failed               *)
(* (run_runtime.go:189-193).                                              *)
ClosedAfterTheRow ==
    \A p \in Pages : page[p] = "complete" => runRow \in {"finished", "stuck"}

(* The table of subscribers holds exactly the open channels, so that a    *)
(* broadcast never sends on a closed one and none is closed twice, and no *)
(* page that returned is in it (run_runtime.go:455-493).                  *)
NothingLeftBehind ==
    /\ subscribers = chanOpen
    /\ \A p \in subscribers : page[p] \in {"subscribed", "waiting"}

(* A page that waits when the closing event is in the database returns,   *)
(* even if its wake-up was lost and its channel holds nothing, unless its *)
(* cursor passed the closing event unseen (a2ui.go:854-858).              *)
ClosingNoticed ==
    \A p \in Pages :
        closing \in Kept /\ page[p] \in {"subscribed", "waiting"}
            ~> \/ page[p] \in {"complete", "cut"}
               \/ closing <= cursor[p] /\ closing \notin shown[p]

(* What a feed sees of the closing event and of the pages.                *)
FeedClosing == IF closing \in Kept THEN closing ELSE 0
FeedPage == [p \in Pages |-> IF page[p] \in {"subscribed", "waiting"} THEN "reading" ELSE page[p]]

(* The stream is an event feed: pages get recorded events only, none      *)
(* twice, and are complete with the closing one.  They get them in the    *)
(* order of the ids they come under, and an event whose emission met no   *)
(* other comes under its own (a2ui.go:838-889, storage.go:591-597).       *)
Feed == INSTANCE EventFeed WITH
            Events <- Ids, NoEvent <- 0, recorded <- Kept, closing <- FeedClosing,
            given <- shown, mark <- cursor,
            mixed <- overlapped, page <- FeedPage
ImplementsEventFeed == Feed!FeedSpec

=============================================================================
