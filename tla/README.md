# Verification of the agent platform

TLA+ models of this repository, checked with TLC, and proofs about them, checked
with TLAPS. Paths are relative to the repository; `ap/` stands for
`src/internal/service/agentplatform/`.

## The system

A client posts a message, the service stores a *run* (one query, or one answer to a
question the agent asked) and puts its id on a Redis stream; a worker takes it from
the stream, lets an agent (an eino graph of supervisors and leaf agents) work on it,
and stores and announces the outcome. An agent may *interrupt* itself to ask the
user: the run then ends in `waiting_input`, the graph is kept under a checkpoint id,
and the answer is a new run of kind `resume` that takes over the checkpoint. API
processes and workers may be the same process (`MODE=all`) or different ones, on
several machines, over one database (SQLite or SQL Server) and one Redis.

### Inventory

| Component | Where | State | Operations | What is hard | What makes it correct |
| --- | --- | --- | --- | --- | --- |
| Run service (requests) | `ap/service.go`, `ap/session_history.go` | rows of `agent_sessions`, `agent_runs` | CreateSession, CreateRun, ResumeRun, CancelRun, DeleteSession, readers | check-then-act over several database calls without a transaction; races with the worker | one active run per session; a waiting flow can be answered; a deleted session is quiet |
| Run worker | `ap/service.go`, `ap/run_runtime.go` | `liveRuns`, the run in hand | processQueuedRun, executeQuery/Resume, finishRun | crash between two writes; cancel at any moment; unguarded FinishRun | one executor per run; the outcome written is the one announced |
| Run queue | `ap/redis_runtime.go` | stream, consumer group, pending entries, cancel channel | enqueue, read, reclaim, ack, publish/consume cancel | at-least-once delivery, redelivery while the first worker is at work, lost pub/sub messages | no accepted run is lost |
| Repository | `ap/storage.go` | the tables | conditional updates, upserts, purge | seconds as the order of runs; upsert of a deleted session; rows deleted in a transaction after a read outside it | the conditional updates decide every race |
| Checkpoint store | `ap/checkpoint.go` | Redis keys with a TTL | Get, Set, Delete | deleted or expired while a session refers to it | an unanswered flow has its checkpoint |
| Flow response | `ap/response.go` | – | consumeIterator, response assembly | an end without result, an interrupt after partial results | status and checkpoint agree |
| Run event stream | `ap/run_runtime.go`, `ap/redis_runtime.go`, `src/internal/controller/agent/a2ui.go` | event rows, subscribers, dedup window | emit, broadcast, subscribe, wake, waitForRunTerminal | full channels, missed wake-ups, several sources of the same events, parallel agents | events in order and once, the closing one noticed |
| Agent page | `src/internal/controller/agent/` | what the page shows | actions, stream, rendering | runs and messages paired by position | the composer is blocked while a run is unfinished |
| ITSM ticket agent | `src/internal/service/itsmagent/` | draft, stage, checkpoint, record of the submission | Query, Resume: collect, confirm, cancel, submit | answered twice, or with an old question; crash and failing stores around the submission | a ticket is complete, as confirmed, and not made again |
| ITSM client | `src/internal/service/itsmclient/client.go` | – | POST with retries | retry of a request that succeeded | attempts are bounded |
| Incident signal | `src/internal/service/itsmagent/signal.go` | recent reports and their clusters in Redis | Prepare, Record | read-decide-write around the ticket | a promotion is backed by reports of the same object |
| User memories | `ap/memory.go`, `ap/storage.go` | bounded queue, rows | enqueue, extract, upsert, clear | full queue; clear racing a late job | cleared memories stay cleared |
| Purge worker | `ap/deleted_session_cleanup.go`, `ap/storage.go` | – | purge | a session brought back in between | only deleted sessions lose rows |
| Routing and planning | `src/internal/service/rootassistant/`, `src/internal/service/domainassistant/` | root plan, module plans, clarification states, the session value `latest_user_message` | assess, route, plan, run stages, ask, resume | interrupts in the middle of nested plans, a shared message that every answer overwrites | nothing is written before all is read; plans are followed once, in order, on what the user asked |
| Knowledge agent | `src/internal/service/knowledgeagent/`, `src/internal/service/leafagent/knowledge/` | – | retrieve, merge, answer, cite | failing and overlapping bases, limits | fair and true sources |
| Agent tree | `src/internal/cmd/config_validate.go`, `ap/config.go`, `ap/registry.go` | the tree, the paths of its nodes | validate, default, build | limits checked before they are defaulted, shared leaves | what is accepted can be built; steps are shown where they belong |
| Models, embeddings, HTTP API, clients, timing | the rest | – | calls | – | – |

`PROJECT.json` lists them all, with every hazard at its line.

Interactions: requests and workers share only the database, the stream, the
checkpoint store and the cancel channel; a request and a worker of the same process
also share `liveRuns`, and a page is told of events through the subscriber table of
its process, through Redis, and by polling the event rows. Inside a run the agents
share the session values of eino and nothing else; the ticket agent and its incident
signal keep their own records in Redis. Nothing is locked across two calls: the only guards are the
WHERE clauses of `TryStartRun` and `TryCancelQueuedRun`.

## Modules

| Module | What it is |
| --- | --- |
| `RunLifecycle` | requests, queue, worker, checkpoints and cancel channel, composed |
| `RunContract` | abstract specification: what the platform promises about one run |
| `EventStream` | the events of one run: emission, subscriptions, pages that wait |
| `EventFeed` | abstract specification: what a page is given of a run's events |
| `TicketFlow` | the ticket agent over interrupts, its stores, the ITSM client |
| `IncidentSignal` | classification, clusters and promotion, as operators of TicketFlow |
| `Turn` | one request to the root assistant, through modules, leaves and questions, to the response |
| `AgentTree` | the configured tree, its validation, defaults and paths, as operators of Turn |
| `KnowledgeBase` | retrieval, merging, limits and sources, as operators of Turn |
| `MCRunLifecycle`, `MCEventStream`, `MCTicketFlow`, `MCTurn` | the instances for TLC |
| `RunSessionInvariant` | what rows, pointer, checkpoints and requests of a session are to each other; for TLC and the proofs |
| `RunLifecycleProofs` | type correctness and ownership, proved |
| `RunDeliveryProofs` | no queued run is lost, proved |
| `RunContractProofs` | announced outcomes are true, and RunLifecycle implements RunContract, proved |
| `RunOrderProofs` | one active run per session, and quiet deleted ones, proved |
| `RunSessionProofs` | waiting runs and queued answers have what they need, proved |
| `EventStreamProofs` | what pages may miss, when a run counts as closed, and EventStream implements EventFeed, proved |
| `TicketFlowProofs` | types, and what every ticket and every promotion is, proved; no second ticket, proved |
| `TurnProofs` | types, stages, plans, the shared message, sources, tickets and paths of a response, proved |

### RunLifecycle

State and code: `sess` and `run` are the tables (only status, kind, session, parent,
checkpoint id and `started_at`), `events` the final rows of `agent_run_events`;
`group`, `stream`, `pending` the Redis stream with its consumer group, `ckpts` the
checkpoint keys, `cancels` the cancel messages in flight; `live` is `liveRuns` with
its `cancelRequested`; `wpc`, `wrun`, `wout` are the position and locals of each
worker, `call` those of each request in flight.

Every action ends where the code writes something another actor reads:

| Code | Actions |
| --- | --- |
| `CreateRun` | `CreateCheck`, `CreateSaveSession`, `CreateInsertRun`, `EnqueueRun` |
| `ResumeRun` | `ResumeCheck`, `ResumeInsertRun`, `EnqueueRun` |
| `CancelRun`, `cancelQueuedRun` | `CancelCheck`, `CancelQueuedRow`, `CancelSaveSession`, `CancelEmit`, `CancelSignal` |
| `consumeCancelRequests` | `DeliverCancel` |
| `DeleteSession`, `abandonWaitingInputRun` | `DeleteCheck`, `AbandonRow`, `AbandonEmit`, `DeleteRow` |
| `ensureConsumerGroup`, `consumeRuns`, `reclaimPendingRuns`, `processRunMessage` | `EnsureConsumerGroup`, `ReadGroup`, `Take`, `Ack` |
| `processQueuedRun` | `TryStartRun`, `SkipRun`, `LoadRunFails`, `LoadSession`, `LoadSessionFails`, `AgentReturns` |
| `finishRun` | `SaveOutcome`, `FinishRow`, `Announce` |
| process death, `apiErr`, TTL | `Crash`, `CallFails`, `ExpireCheckpoint` |

What is merged: the reads at the start of a request are one step with each other (a
request decides on one state of the database, and then races with its first write);
deleting a checkpoint goes with the write that follows it; `CancelRun`'s second look
at the row goes with the failed conditional update; `finishRun`'s reading of
`cancelRequested` goes with the return of the agent. The agent itself is a choice of
outcome. Messages, memories, progress events and the texts are left out.

`started_at` is the only order of the runs of a session and is stored in whole
seconds, so `LastRuns` is a set: runs of the same second come in any order. Clock
steps (`Tick`) are free.

`Faults` selects the failures: `dbErr` (a database call fails where the code goes
on), `redisErr` (so does XACK, or the deletion of a checkpoint), `apiErr` (a request
stops between two steps), `crash`, `lostCancel`, `expire`, `lateGroup` (requests
before the consumer group exists). `SerialClients` restricts clients to what the
page does and a little more (`isComposerBlockedStatus`, and the actions handler that
answers only when the run has ended): no next message, answer or deletion before the
previous request has returned and the clock has moved (the page does not wait for the
clock; without it two runs of one second have no order, see `RunDeletedSession`); answers
go to the waiting run; deleted sessions are left alone. Cancelling is never restricted.
The API enforces none of this, so properties that need it say something about the page
and the API together.

Two functions nobody calls, `launchQueryRun`/`launchResumeRun` and
`MarkStaleRunsFailed`, are not in the model: a run whose worker died stays `running`
for good, and its session accepts nothing but deletion attempts that fail. The
example in `src/api/agent/v1/agent.go:50` ("service restarted before run completed")
shows that it was meant otherwise. The liveness properties below therefore hold "up to a crash".

### RunContract

Status, owners and announced outcomes of the runs: status moves only along
none → queued → running → outcome, queued → cancelled and waiting → cancelled; a run
is claimed once, by an owner who owns nothing else; only the owner settles it; only
settled outcomes are announced. `RunLifecycle` implements it with
`status` = the status column, `owners` = who is between `TryStartRun` and the final
event, `announced` = the final events. What makes the refinement interesting: the
implementation writes rows without a guard (`FinishRun` from the worker and from
`abandonWaitingInputRun`), announces from three places, and redelivers messages.

### EventStream and EventFeed

`row` is `agent_run_events` of one run with the commit state of each id, `emit` the
position of every goroutine in `emitRunEvent` (id taken, committed, broadcast),
`deduped` the dedup window, `subscribers`, `chan` and `chanOpen` the hub, `page`,
`cursor` and `shown` what `waitForRunTerminal` knows. Agents of a parallel stage emit
at the same time, and agents the worker no longer listens to go on (`left`).

An event has a row and the id it is offered under (`RunEvent`). The two are the same
where the driver reports the id of an inserted row. Where it does not, as with SQL
Server, the transaction asks for the largest id of the run (`ap/storage.go:591-597`):
`LearnID` takes the largest among its own row and the committed ones, at any moment
between the insert and the commit. When transactions overlap this may be the id of
another event, already committed, which is then broadcast under its own id too.

| Code | Actions |
| --- | --- |
| `emitRunEvent`, `shouldDropAgentLifecycleEvent`, `AppendRunEvent` | `EmitStarted`, `EmitStep`, `WindowPasses`, `Insert`, `LearnID`, `Commit`, `AppendFails` |
| `broadcastRunEvent` | `Broadcast` |
| `finishRun`, `emitFinalRunEvent`, `clearLiveRun` | `FinishRun`, `EmitFinal`, `ClearLive`, `Stop` |
| `subscribeRun` and its unsubscribe, `waitForRunTerminal` | `Subscribe`, `Flush`, `Receive`, `ChannelClosed`, `Leave` |

The Redis wake-up makes a page flush; its poll timer does so at any moment, so a
wake-up that is lost, late or doubled is one of the behaviours of `Flush` and needs no
state. `overlapped` is history: events between whose insert and broadcast another
event's lay. `EventFeed` says what is promised: recorded events only, under ids that
grow, none twice, complete with the closing one, and an event that overlapped no other
under its own id. One that did overlap (`mixed`) may come late, under another event's id,
hence out of the order of the rows. It is still not shown twice: the event whose id it
takes is committed before it is, so that a read of the database that returns the one
returns the other, and the cursor is past the id of both. What may be missed is left to
`SkippedOnlyByOverlap`.

### TicketFlow and IncidentSignal

A request (`req`) is a `Query`, which opens a flow, or a `Resume` of one: it loads the
checkpoint (`ckpt`), and its answer counts only if it names the pending interrupt.
`prompts` are the questions that users were shown, `idem` the records of
submissions, `signals` the recorded reports, `tickets` what the ITSM system holds
(one attempt that reached it is one ticket). A draft is data: texts are sets of
words that `IncidentSignal` classifies, level and priority the raw strings of the
model, so that `Normalize`, `SureEnum` and `MissingFields` do what the code does.

| Code | Actions |
| --- | --- |
| `Service.Query`, `Service.Resume`, `Run`, `Resume` of the agent | `Query`, `Resume`, `AskAgain`, `CollectAnswer`, `CancelTicket`, `Confirm` |
| `submitTicket`, `Prepare`, `CreateTicket`, `Record` | `Prepare`, `Post`, `Record`, `Remember`, `FinishSubmit` |
| process death, TTLs, seconds | `Crash`, `Expire`, `Tick` |

`Faults` and `MaxFaults` select and bound the failures, `SerialClients` lets a client
wait for its answer before it sends the next.

### Turn, AgentTree and KnowledgeBase

`Turn` is one request as the agents see it. `root`, `plan` and `original` are the root
assistant's position, stored plan and clarification state, `mod` those of every
module, `message` the shared session value, `response` what `consumeIterator` has
collected in the execution at hand. A message is the set of keyword lists it matches.

| Code | Actions |
| --- | --- |
| `campusAgent.Run`, `assessModules`, `chooseRoute`, `runWithPlan`, `runFallback`, `interruptForClarify` | `Query`, `Route` |
| `plannedAgent.Run`, `Plan`, `runWithPlan`, `runClarifyOrError` | `RunModule` |
| leaf agents, `consumeIterator` | `RunLeaf`, `ResumeLeaf`, `PlanDone`, `EndStage` |
| `Resume` of root and module, `executeResume` | `Resume` (`AnswerRoot`, `AnswerModule`, `AnswerLeaf`) |

What eino does is modelled from how the code uses it and marked external: a parallel
stage waits for all its members, an interrupt of one leaves the others to finish, a
sequential agent goes on where it was interrupted, and the run path of an event
contains the agents that ran before it (as `ap/response_test.go` shows it). The ticket
agent is reduced to asking, succeeding and failing; `TicketFlow` has its inside.
`AgentTree` holds the checks of the configuration as assumptions on `Tree`, so TLC
evaluates them on the instance.

A knowledge agent asks its bases once or, with `rewriteQueries` above 1 (the default is
3), lets the model rewrite the question into several queries. `Found` is what the bases
return for each of the queries, or that the model failed to rewrite; a query merges its
bases in turns (`RetrieveOnce`), and eino's multi-query retriever, modelled from how
`buildKnowledgeRetriever` configures it, puts the queries' passages one after another and
drops a node that came before (`Fuse`). The limits for the answer and the sources cut that
list. Between queries nothing keeps the bases apart: when the first query finds only
passages of one base, and a later one finds one of the same and one of a second base, two
sources are both of the first base. `FairShare` therefore speaks of the sources of the
first query, which for an agent that asks once are all; if the agent rewrites questions
and the first query finds a node twice, it says nothing.

`Fail` ends the turn at the first error, as `consumeIterator` stops listening. What agents
of a parallel stage beside it still do in the code, their tickets included, is not
modelled; every property leaves failed turns out.

## Runs

The first eight use `MCRunLifecycle`; one session (the code relates nothing across
sessions except through run ids).

| Run | Instance | Question | Result |
| --- | --- | --- | --- |
| `RunFaults` | 2 runs, 2 workers, 1 request at a time, dbErr, apiErr, lostCancel, 1 crash | is a run executed by one worker, whose row is left alone? | holds |
| `RunContract` | 2 runs, 2 workers, 1 request at a time, redisErr, expire, lateGroup, 1 crash | does every run keep to RunContract? | holds |
| `RunProgress` | 2 runs, 1 worker, 1 request, crash (2) and lostCancel, fair | is everything accepted served, finished, announced; does a recorded cancel win? | holds, up to a crash where said |
| `RunSessions` | 3 runs, 2 workers, 2 requests, clock 2, lostCancel, serial clients | do session, checkpoint and runs stay consistent, also half-way through a request (`SessionInv`)? | holds |
| `RunLostByDatabaseError` | 1 run, dbErr | is a queued run ever lost? | violated |
| `RunDeletedSession` | 3 runs, clock 2, unrestricted client | is a deleted session quiet? | violated |
| `RunCancelIgnored` | 1 run | does a cancel that reaches the executing worker count? | violated |
| `RunAbortWaiting` | 1 run | can a waiting flow be aborted? | violated |
| `Tickets` | 2 users, 4 requests, 1 fault of 10 kinds, 2 attempts, serial clients | are tickets complete, as shown, backed, and made once? | holds |
| `TicketsConfirmedTwice` | 1 user, overlapping requests, no faults | is a ticket made once per confirmation? | violated |
| `Stream` | 2 agents and the worker, 1 page, channel of 1, 4 event ids, overlapping transactions, ids reported or queried, fair | does a page get the events in the order of the ids they come under, none twice, and notice the end? | holds (710,836 states) |
| `Turns` | 2 modules that share the ticket agent, 3 knowledge leaves, 10 messages, 5 assessments and 4 plans of the model, 4 results of each query, 3 answers, fair | are plans followed, messages kept, responses and sources right, and does every turn settle? | holds (246,092 states) |

Why the bounds are enough: the races are between one run's worker, a second worker
that receives the same message, and one or two requests; a second run is needed for
an answer to a waiting run or the next message, a third for what follows an answer
that failed. The second worker matters only for redelivery, so the liveness run has
one, which crashes and takes its message again. Two crashes let a run be reclaimed
and reclaimed once more. Overlapping requests run in `RunSessions`; for the properties of
`RunFaults` and `RunContract` the theorems below cover any number of them, and every
combination of faults. Symmetry (runs, workers, callers are interchangeable in
Init, Next and the properties) is used only in runs without liveness.

The other runs: four requests are a query, its answer and two confirmations, or two
flows of two users that promote a third; one fault shows each failure alone, and
`NoTicketAfterSuccess` is not promised for two. In `Stream` a channel of one event is
full after one, three ids go to the worker and one to an agent or the other way
round, so two emissions overlap before the closing one; pages do not affect each other, so one is
enough for TLC, and the theorems cover any number. In `Turns` two modules can read
together, write one after the other, or both; the model's answers include unknown
words, scores of 0 and above 100, leaves of the other module, unknown leaves and
repeated ones; one knowledge agent asks once, one rewrites, one has the default, and among
what the queries find is a case in which one base is cited twice and the other never; three answers let a module be asked, answered and asked again while
the other waits. The properties name the cases they leave out: leaves that run after a
ticket agent, a leaf that several domains share, agents with only one limit written,
sources of later queries.

`CHECK_DEADLOCK FALSE` in every configuration: when all ids are used and all
runs have ended, or the user stops answering, the system is quiescent.

Fairness (`FairSpec`): a request in flight runs to its end (`Handler`), a worker
keeps polling and processing (`Consume`), the agent returns (`AgentReturns`; model
and HTTP calls have timeouts), and an existing message is read by some consumer
(`ReadGroup`; `consumeRuns` loops forever with a blocking read). There is none on
client requests, on the arrival of pub/sub messages or on the clock. Restarted
workers poll again: `Crash` leaves the worker at `poll`, as the process is restarted
by its supervisor. `EventStream` assumes only that a page's poll timer is served
(`WF(Flush)`): not that agents report, that transactions succeed or that wake-ups
arrive. `Turn` assumes that the goroutines of the runner go on; users need not answer.

## Findings

- A database error of `GetRun` in the worker counts as success
  (`ap/service.go:134`): the message is acknowledged and the queued run is never
  started, against the comment at `ap/redis_runtime.go:185`.
- `DeleteSession` may look at an older run of the same second (`ap/storage.go:567`,
  `:637`) and delete a session with a queued run, against
  `src/api/agent/v1/agent.go:182`. The SQLite index on `started_at DESC`, read
  backwards, makes this the likely order of a tie. Leaving same-second runs aside,
  the same state is reached by answering, in a session deleted after an answer that
  failed, the older run that still waits: `ResumeRun` never looks at the session status.
- A cancel that arrives between `TryStartRun` and `setLiveRun` (`ap/service.go:137`,
  `:171`) is dropped although `CancelRun` reported success.
- The page's "中止当前流程" button (`src/internal/controller/agent/a2ui.go:506`)
  calls `CancelRun`, which rejects every run in `waiting_input`
  (`ap/service.go:458`, `ap/run_runtime.go:497`).
- Two overlapping confirmations of one ticket both find no record of it
  (`src/internal/service/itsmagent/agent.go:243`) and make two tickets, against the
  comments at `agent.go:241` and `:313`; `ResumeRun` lets both through
  (`ap/service.go:338`).

Met while modelling, and left out of the properties where they bite (no document says
otherwise):

- An answer's summary replaces `latest_user_message` (`ap/run_runtime.go:101-111`): a
  knowledge agent that runs after a ticket agent is asked "confirmed", not what the
  user asked. (`LeavesSeeTheRequest`)
- An error of a later agent drops what the response had collected, a ticket that was
  made included (`ap/response.go:45-48`). (`TicketReported`)
- A vague phrase of the first message stays in the clarified one
  (`src/internal/service/domainassistant/planner.go:365`): the question is asked again
  whatever the answer is.
- `sourceLimit` is compared with `maxContextDocs` only when both are written
  (`src/internal/cmd/config_validate.go:433`); with one default, agents cite passages
  the model was not given. (`CitesWhatWasRead`)
- An agent that rewrites questions keeps no balance of its bases across queries
  (`src/internal/service/knowledgeagent/agent.go:44-95`): a base found only by later queries
  may have no source. (`FairShare`)
- With a driver that reports no id an event may be broadcast under the id of another that
  overlapped it (`ap/storage.go:591-597`). (`ImplementsEventFeed`)
- The start-up check accepts a leaf as a child of a root, which the registry refuses
  (`ap/registry.go:139-149`); a leaf of several domains has the path of the last
  (`ap/registry.go:203`). (`Buildable`, `ShownUnderItsModule`)
- A page misses an event that is committed after a later one was shown, and an agent
  still at work after the worker has returned can overtake the closing event: the page
  then waits until its client leaves. (`SkippedOnlyByOverlap`, `ClosingNoticed`)
- One failing knowledge base loses what the others found
  (`src/internal/service/knowledgeagent/retriever.go:80-96`).

## Proofs

### RunLifecycle

For every number of sessions, runs, workers and requests, every subset of `Faults`
and every bound; the only assumption is `LifecycleAssumption` (`None` is no id,
`Faults` names known faults, bounds are naturals).

- `TypeCorrect`: `Spec => []TypeOK`. `TypeOK` is inductive because it includes
  `RowsHaveSessions`: every row, and every row a worker or a deletion is about to
  write, has a session.
- `ExecutionIsExclusive`, `ExecutionOwnsItsRow`: `Spec => []ExclusiveExecution` and
  `Spec => []ExecutingIsRunning`, from the inductive invariant `OwnershipInv`. The
  two alone are not inductive: `TryStartRun` needs that nobody holds a queued run
  (`HeldWasStarted`, also for a worker that only has to announce), the INSERT needs
  that its id is in no row and in no other request (`InsertsFresh`), and the
  unguarded UPDATE of `abandonWaitingInputRun` needs that it meets a waiting or
  cancelled row (`AbandonsWaiting`), which no worker executes. The guards that carry
  the argument are the two WHERE clauses: a run leaves `queued` once.
- `QueuedRunsKeepTheirMessage`: `Spec => []NoLostRun` under the named assumption
  `Reliable` (no `dbErr`, `apiErr`, `lateGroup`; the run `RunLostByDatabaseError`
  shows that it is needed), whatever `crash`, `redisErr`, `lostCancel` and `expire`
  do. `DeliveryInv` adds that what is on the stream or about to be has a row, and
  that what is about to be acknowledged is no longer queued (`MessagesHaveRows`).
- `AnnouncementsAreTrue`: `Spec => []AnnouncedIsSettled`, and `RunsKeepContract`:
  `Spec => ImplementsRunContract`, under the named assumption `RowsAreWritten` (no
  `dbErr`): `finishRun` only logs an error of the UPDATE and announces the outcome
  all the same. The invariant is `ContractInv`: `OwnershipInv`, `AnnouncedIsSettled`,
  and `AnnouncersSettled`, which says that whoever is about to announce, worker or
  request, finds the row settled with the outcome it will announce. The row cannot
  change in between because outcomes other than `waiting_input` stay, and because of
  the same two WHERE clauses. For the refinement each action is shown to be one of
  Accept, Claim, Settle, Withdraw, Announce and Release of the contract, or a stutter.

- `SessionRunsOneAtATime`, `DeletedSessionsStayQuiet`: `Spec => []OneActiveRunPerSession`
  and `Spec => []DeletedSessionQuiet` for `SerialClients`, whatever fails. Nothing in the
  database keeps a second run out: the check of a request and the insert of its row are
  separate steps. `OrderInv` says what the page's discipline makes of them. Rows differ in
  `started_at` and only the last may be active (`RowsInOrder`); one request at most is
  between its check and its last write, and meets no active run and no cancellation that
  has yet to save the session (`OpensAlone`); the row it inserts will be the last
  (`InsertsLast`); a request that ends a run is about the last one (`EndsLast`); a deleted
  session, or one about to be, has nothing that waits (`Quiet`). Cancels come at any
  moment, and the worker goes on whatever clients do.
- `SessionsAreConsistent`, `WaitingRunsAreResumable`, `QueuedAnswersHaveCheckpoints`:
  `Spec => []SessionInv`, `[]WaitingIsResumable` and `[]QueuedAnswerHasCheckpoint` under
  `Disciplined`: serial clients and no `dbErr`, `apiErr` or `expire`. `SessionInv` adds to
  the order who a checkpoint belongs to (`OwnCheckpoints`), that an answer under way
  answers a run that still waits with only failed answers in between (`AnswersWaiting`),
  and that the session points at a checkpoint that is there whenever somebody may need it:
  a run that waits, one whose answer is queued, executes or is about to be written as
  failed, one about to be written as waiting, one whose answer is about to be inserted.
  The excluded failures break it: `expire` removes the checkpoint itself; with `dbErr` the
  worker ends a run whose session it could not save; with `apiErr` a new query, which is
  accepted after an answer that failed, saves the session and stops before its row is
  there, so that the waiting run is the last one and its pointer gone. Crashes, Redis
  errors, lost cancels and a late group are allowed. Before the proof TLC checked
  `SessionInv` on the instance of `RunSessions` (685,637 states) and with crash,
  redisErr, lostCancel and lateGroup (one worker, 1,592,767 states).

### EventStream

For every number of agents, pages and events, every capacity of the channels, and with
or without overlapping transactions; the assumption is `StreamAssumption`.

- `TypeCorrect`: `Spec => []TypeOK`, with `MaxEvents` and `Capacity` any bounds.
- `SubscribersAreOpen`: `Spec => []NothingLeftBehind`; inductive with the types.
- `RowBeforeClosing`: `Spec => []ClosedAfterTheRow`, because the closing event gets its
  id after the row of the run was written, and keeps it (`ClosingIsLast`).
- `OnlyOverlapIsSkipped`: `Spec => []SkippedOnlyByOverlap`. The invariant is
  `StreamInv`. An event that is committed when a cursor is past it was still being
  emitted when a later one had its id, so both overlap (`LaterOverlap`, from
  `IdsInOrder`). An event whose emission is over, and overlapped none, was in the
  database before any later one was broadcast: a page that waits has either read past
  it, or has it in its channel before everything later (`OwedIsQueued`), unless its
  channel was dropped and only the database is left to it. The first read after
  subscribing is what closes the gap between the two.
- `StreamIsAFeed`: `Spec => ImplementsEventFeed`, from `StreamInv`: `Commit` is Record,
  an insert next to other emissions is Mix, `Subscribe` is Open, a batch that is not empty
  is Give, the ends of a page are Cut, and all the rest is a stutter. That an event under
  another's id is shown once rests on `IdsAreAhead` (the id an event is offered under is
  its own or that of a later event that is committed and overlapped it, `MayBeCalled`) and
  on `WayIsClear`: of the events still to be broadcast to a page or in its channel, each
  comes under one id, and one that the page was shown already comes under an id that its
  cursor has reached.

### TicketFlow

For every number of requests and any users, messages, extractions and edits, every subset
of `Faults`, and, but for the last theorem, with or without `SerialClients`.
`OnlyCompleteTickets` and `OnlyConfirmedTickets` use no assumption of the module, the
others what `TicketAssumption` and `SignalAssumption` say of constants (ids and users are
not `None` or empty, texts are sets of strings, bounds are numbers).

- `OnlyCompleteTickets`: `Spec => []TicketIsComplete`, and `OnlyConfirmedTickets`:
  `Spec => []TicketAsShown`. Neither says anything of a draft on its way to a ticket;
  the inductive invariant `FlowInv` does: a checkpoint at the confirmation is complete and
  is what a client was shown (`CkptOK`), a request that resumes holds the draft of the
  interrupt it answers (`LoadedOK`), and one that submits was confirmed (`SubmitsOK`): its
  user may have edited the texts, which cannot become empty (`EditedIsComplete`).
  Interrupts are only added, so that requests of one flow that race, stop or find a
  checkpoint expired do not disturb each other.
- `ClustersAreCoherent`, `PromotionsAreBacked`: `Spec => []ClusterIsCoherent` and
  `Spec => []EscalationIsBacked`, from `SignalInv`. A request compares its report with
  what is recorded, makes the ticket, and records its report later, or never. `Clusters`
  therefore speaks of the recorded events and of the decisions that are still to be
  recorded: two of one cluster agree in domain and object, an object is unknown exactly
  when the domain is, and a cluster named after its request is new. `Backed` says that every recorded event has its ticket, and that a decision to promote
  counts enough users already, its own included, although its own ticket is still to be
  made; what expires meanwhile does not matter, since the promotion is backed by tickets.
- `TypeCorrect`: `Spec => []TypeOK`. `TypeInv` adds that a request has made no attempt
  before it submits.
- `NoSecondTicket`: `OneFaultAtMost /\ Spec => NoTicketAfterSuccess`, where
  `OneFaultAtMost` is `SerialClients /\ MaxFaults <= 1`: this one is not promised for
  overlapping confirmations (`TicketsConfirmedTwice`) nor for two failures. `OnceInv`
  bounds the requests of a flow that are at work to one (`OnePerFlow`), and says of a
  request that is done: either its record was written and the one failure is used up, or
  its flow is closed, with no checkpoint and nobody at work in it.

### Turn

For any tree of agents the check at the start accepts, any messages, assessments, plans
and knowledge, and any number of answers. The assumptions are `TreeAssumption`,
`TurnAssumption` (what the constants range over; an answer is not empty) and, where named,
what the code takes for granted without checking it; `MCTurn` assumes the same, so that
TLC evaluates them on the instance.

- `StagesInOrder`: `Spec => []ReadBeforeWrite`. `StageInv` adds that nothing has begun
  before the root has a plan, that only modules of the plan begin, and that all that reads
  is done while the root is at the stage that writes; an answer takes the root back to the
  stage of the module that asked.
- `LeavesKeepTheRequest`: `Spec => []LeavesSeeTheRequest`. `MessageKept` says where the
  request is at each position: in the message of the session, in what the question of the
  root or of a module has kept of it, or, once a ticket agent has run, nowhere.
- `PlansAreFollowed`: `Spec => []PlanIsFollowed`. `FollowInv` says of each module that it
  holds a plan of its own leaves, none twice, and that what it has started is that plan up
  to its position. It rests on `EveryPlan`: whatever a rule proposes and the model says,
  what `Plan` returns names leaves of the module once each (`NormalPlan`), and on
  `AtPlacesIs`, which says what the entries of one module in the common history are.
- `EverySourceIsCited`: `Spec => []CitesEverySource`. `CitedInv` says of the response, at
  every moment of an execution, that its sources are those of its steps, each once
  (`Merged`, of `mergeSources`), and that a result already there has some of them; the end
  of the flow merges the rest in. `SourcesWereRead`: `Spec => []CitesWhatWasRead`, from the
  same invariant and the limits that the check and the defaults leave (`Limits`).
- `TurnTypes`: `Spec => []TypeOK`. `TypeInv` adds what `ByScore` needs to be a
  permutation: every assessment has a score, since all of them are normalised.
- `TicketsAreReported`: `Spec => []TicketReported`, under `TicketAgentsAreItsm`. One
  response has room for one ticket, so that the theorem needs that one execution makes at
  most one: `OneResumed` says that at most one module goes on with an answered ticket
  agent, that it may work in the stage at hand, and that nobody does once a ticket was
  made. An answer starts a new execution, with an empty response.
- `StepsAreShown`: `Spec => []ShownUnderItsModule`, under `TicketAgentsAreItsm`. eino's
  path to a step leads through the modules that ran before; `ShownWay` says what
  `normalizeVisiblePath` leaves of it, by induction on the path, and `ResolvedUnder` that
  the path of the tree takes its place where only one module holds the agent.
- `BasesShare`: `Spec => []FairShare`, under `BasesAreDistinct` and `HitsNameTheirBase`.
  The round robin is counted: visits to one base are a round apart (`TurnIsRound`), so
  that every base had its earlier turns before any visit (`OneTurnAVisit`), and passages
  of one base come in different turns. If one base has two passages more than another,
  the other had a turn that found nothing, thus has none left (`FairMerge`). From one
  query to an answer: `FusedIs` and `FuseBegins` say that the passages of several queries
  begin with those of the first, if no node is repeated in it, `UptoBegins` that a limit
  keeps a beginning, and `AnswerShares` that what holds of the first query's passages holds
  of those that are cited.

`TicketAgentsAreItsm`: the response knows a ticket agent by the key `itsm`
(`ap/response.go:68`), which is only the key in the example configuration; a ticket agent
of another key makes tickets nobody is told of, and the check at the start accepts it.
`BasesAreDistinct`: an agent that names a base twice gives it two turns, and the check at
the start accepts that too. `HitsNameTheirBase`: the base named in a passage is the one
the service was asked for (`src/internal/service/knowledgeagent/retriever.go:100-113`
copies it from the reply). `NoneIsNoResult`, also assumed by the two theorems on the
response, only says that `None` is not a record.

Model-checked only: the liveness properties `QueuedIsServed`, `StartedRunFinishes`,
`SettledIsAnnounced`, `RecordedCancelWins`, `ClosingNoticed` and `Settles`, whose fairness
argument TLAPS does not support, and `WaitingFlowCanBeAborted`, which uses ENABLED. Every
safety property that a passing run checks is proved, under the conditions named above.

No module uses a RECURSIVE operator. What the functions of `Turn` compute is proved where a
theorem needs it (`ByScoreIs`, `AtPlacesIs`, `VisiblePath`, `MergedIsFirst`). The induction
theorems of the library take an operator and cannot be instantiated by the provers, so
`TurnProofs` proves what it needs from the well-founded order of the naturals, with the
property as a set of numbers (`Induction`).

## Not modelled

- User memories: a bounded queue whose jobs ask a model for facts and write them; they
  enter the prompts and no state the properties relate.
- The purge of deleted sessions, which touches rows that have been deleted for a week.
- Messages of a session and their pairing with runs on the page: rendering.
- What the models make of a prompt (also the text of rewritten queries), embeddings, file names, HTTP: calls of external
  services, present as choices of what they return.
- Signing, encoding, texts, languages, logging, timing, OpenAPI: data and layout.
- The rest of configuration and start: settings read once.

Next: the page's pairing of messages and runs, the memory queue and the purge as a
composition with RunLifecycle's session rows.
