----------------------------- MODULE TicketFlow -----------------------------
(***************************************************************************)
(* A ticket, from the user's first message to the ITSM system: the draft   *)
(* is extracted and completed over interrupts, confirmed, and submitted    *)
(* once.  The actors are the API requests, each a goroutine of its own; a  *)
(* step ends where the request reads or writes what another one sees: the  *)
(* checkpoint, the idempotency record, the incident signal and the ITSM    *)
(* system.  A flow is named by the request that opened it (Query generates *)
(* its checkpoint id), and an interrupt by the request that raised it.     *)
(***************************************************************************)
EXTENDS IncidentSignal

CONSTANTS Requests,       \* request ids, each used once
          Users,          \* employee ids
          Messages,       \* what users write: sets of words
          Extractions,    \* what the model may extract, see ExtractResult
          Edits,          \* subjects and descriptions a user may type at the confirmation
          None,
          EnumThreshold,  \* agent.enumConfidenceThreshold, in percent
          MaxAttempts,    \* itsm.retry.maxAttempts
          SerialClients,  \* one request of a flow at a time
          Faults,         \* which failures may happen, see FaultKinds
          MaxFaults,      \* bound on failures
          MaxClock        \* bound on time

\* idemGet, idemSet, delete, signal: a call of Redis (or of the embedding service) fails
\* where the code goes on;  serverErr: the ITSM system fails without a ticket;  refused: it
\* refuses for good;  lostReply: it makes the ticket and the reply is lost;  gone: the context
\* of the request ends while it waits for a retry;  crash: a request stops half-way;  expire:
\* a TTL passes.
FaultKinds == {"idemGet", "idemSet", "delete", "signal", "serverErr", "refused", "lostReply",
               "gone", "crash", "expire"}

(* What the model may answer for a level or a priority; "10" stands for the other numbers. *)
RawLevels   == {"", "1", "2", "3", "4", "5", "10", "highest", "high", "medium", "low"}
LevelWords  == [highest |-> "1", high |-> "2", medium |-> "3", low |-> "4"]
RawPriorities == {"", "1", "2", "3", "4", "5", "10", "consult", "service", "fault", "feedback"}
PriorityWords == [consult |-> "1", service |-> "2", fault |-> "3", feedback |-> "4"]


ExtractResult == [subject: SUBSET STRING, othersDesc: SUBSET STRING,
                  serviceLevel: RawLevels, levelConf: 0..100,
                  priority: RawPriorities, prioConf: 0..100]

ASSUME TicketAssumption ==
  /\ None \notin Requests /\ "" \notin Users
  /\ Extractions \subseteq ExtractResult
  /\ Messages \subseteq SUBSET STRING /\ Edits \subseteq SUBSET STRING
  /\ EnumThreshold \in 1..100 /\ MaxAttempts \in Nat \ {0}
  /\ SerialClients \in BOOLEAN
  /\ Faults \subseteq FaultKinds
  /\ MaxFaults \in Nat /\ MaxClock \in Nat

VARIABLES
  ckpt,    \* checkpoint of each flow: the stage, the draft and the pending interrupt
  idem,    \* idempotency records: the flow and the content of tickets known as made
  signals, \* events of the incident signal
  tickets, \* tickets made in the ITSM system
  prompts, \* interrupts clients were shown
  req,     \* the requests
  clock, faults

stores == <<ckpt, idem, signals, tickets>>
vars == <<ckpt, idem, signals, tickets, prompts, req, clock, faults>>

-----------------------------------------------------------------------------
(* Drafts *)

\* normalizeServiceLevel, normalizePriority: a number counts when its text lies between "1"
\* and "4", which is so of "10" as well; "" stands for no value.
Normalize(v, names) ==
  IF v \in DOMAIN names THEN names[v]
  ELSE IF v \in {"1", "2", "3", "4", "10"} THEN v ELSE ""

NewDraft(user) == [userCode |-> user, subject |-> {}, othersDesc |-> {},
                   serviceLevel |-> "", levelConf |-> 0, priority |-> "", prioConf |-> 0]

Or(new, old, empty) == IF new = empty THEN old ELSE new

\* FillDraft: what the model found replaces what the draft had; a level without a confidence
\* counts as certain; the user's words are the last resort for the description.
FillDraft(draft, x, message) ==
  LET level == Normalize(x.serviceLevel, LevelWords)
      prio  == Normalize(x.priority, PriorityWords)
  IN  [draft EXCEPT
        !.subject      = Or(x.subject, @, {}),
        !.othersDesc   = Or(Or(x.othersDesc, @, {}), message, {}),
        !.serviceLevel = Or(level, @, ""),
        !.levelConf    = IF level = "" THEN @ ELSE Or(x.levelConf, 100, 0),
        !.priority     = Or(prio, @, ""),
        !.prioConf     = IF prio = "" THEN @ ELSE Or(x.prioConf, 100, 0)]

SureEnumAnyValue(v, conf) == v # "" /\ (conf = 0 \/ conf >= EnumThreshold)

SureEnum(v, conf) == v \in {"1", "2", "3", "4"} /\ (conf = 0 \/ conf >= EnumThreshold)

\* needInfoInterrupt: the service decides what is missing, not the model.
MissingFields(draft) ==
  (IF draft.subject = {} THEN {"subject"} ELSE {}) \cup
  (IF \/ draft.othersDesc = {}
      \/ ~SureEnum(draft.serviceLevel, draft.levelConf)
      \/ ~SureEnum(draft.priority, draft.prioConf) THEN {"othersDesc"} ELSE {})

StageOf(draft) == IF MissingFields(draft) = {} THEN "confirm" ELSE "collect"

\* idempotencyKey: the flow and the fields of the ticket.
Content(draft) == [userCode |-> draft.userCode, subject |-> draft.subject,
                   serviceLevel |-> draft.serviceLevel, priority |-> draft.priority,
                   othersDesc |-> draft.othersDesc]
IdempotencyKey(flow, draft) == <<flow, Content(draft)>>

-----------------------------------------------------------------------------
(* State *)

NoReq == [step |-> "new", flow |-> None, stage |-> "confirm", draft |-> NewDraft(""),
          decision |-> None, attempts |-> 0, answered |-> None]
NoCkpt == [stage |-> "none", draft |-> NewDraft(""), prompt |-> None]

Init ==
  /\ ckpt = [f \in Requests |-> NoCkpt]
  /\ idem = {} /\ signals = {} /\ tickets = {} /\ prompts = {}
  /\ req = [r \in Requests |-> NoReq]
  /\ clock = 0 /\ faults = 0

\* The answers of a request: an interrupt, an error, the end of the flow with or without a
\* ticket, or none.
Answers == {"asked", "error", "done", "notDone", "crashed"}
InFlight(r) == req[r].step \notin Answers \cup {"new"}

\* A client that waits for the answer of its last request before it sends the next one.
MayCall(flow) == SerialClients => \A r \in Requests : req[r].flow = flow => ~InFlight(r)

Fails(kind) ==
  /\ kind \in Faults /\ faults < MaxFaults
  /\ faults' = faults + 1

\* A call that succeeds, or fails in a way the code ignores.
MayFail(kind, done, failed) ==
  \/ done /\ UNCHANGED faults
  \/ Fails(kind) /\ failed

Goto(r, step) == req' = [req EXCEPT ![r].step = step]

\* The runner saves the interrupted state under the flow's id, and the client is shown it.
Interrupt(r, flow, stage, draft) ==
  /\ ckpt' = [ckpt EXCEPT ![flow] = [stage |-> stage, draft |-> draft, prompt |-> r]]
  /\ prompts' = prompts \cup {[id |-> r, flow |-> flow, stage |-> stage, draft |-> draft]}
  /\ req' = [req EXCEPT ![r].step = "asked", ![r].flow = flow]
  /\ UNCHANGED <<idem, signals, tickets>>

\* done, or cancelled: the checkpoint is invalidated, and an error of that only logged.
Finish(r, answer) ==
  /\ MayFail("delete", ckpt' = [ckpt EXCEPT ![req[r].flow] = NoCkpt], UNCHANGED ckpt)
  /\ Goto(r, answer)
  /\ UNCHANGED <<idem, signals, tickets, prompts, clock>>

-----------------------------------------------------------------------------
(* Requests *)

\* Query: a request without a user or a message, or whose user is unknown or extraction
\* failed, is answered with an error and leaves nothing behind.
Query(r) ==
  /\ req[r].step = "new"
  /\ \E user \in Users, message \in Messages \ {{}}, x \in Extractions :
       LET draft == FillDraft(NewDraft(user), x, message)
       IN  Interrupt(r, r, StageOf(draft), draft)
  /\ UNCHANGED <<clock, faults>>

\* The answer is taken for that of the pending interrupt, whichever it answers.
ResumeAnyInterrupt(r, flow, prompt) ==
  /\ req[r].step = "new"
  /\ \E p \in prompts : p.id = prompt /\ p.flow = flow
  /\ MayCall(flow)
  /\ req' = [req EXCEPT ![r] = [@ EXCEPT
       !.flow = flow, !.stage = ckpt[flow].stage, !.draft = ckpt[flow].draft,
       !.answered = prompt,
       !.step = IF ckpt[flow].stage = "none" THEN "error" ELSE "resume"]]
  /\ UNCHANGED <<stores, prompts, clock, faults>>

\* A flow without a checkpoint is resumed all the same.
ResumeFinished(r, flow, prompt) ==
  /\ req[r].step = "new"
  /\ \E p \in prompts : p.id = prompt /\ p.flow = flow
  /\ MayCall(flow)
  /\ req' = [req EXCEPT ![r] = [@ EXCEPT
       !.flow = flow, !.stage = ckpt[flow].stage, !.draft = ckpt[flow].draft,
       !.answered = prompt,
       !.step = IF ckpt[flow].prompt # prompt THEN "again" ELSE "resume"]]
  /\ UNCHANGED <<stores, prompts, clock, faults>>

\* Resume: the runner loads the checkpoint, and takes the answer to be that of interrupt
\* "prompt".  Without a checkpoint the answer is an error.
Resume(r, flow, prompt) ==
  /\ req[r].step = "new"
  /\ \E p \in prompts : p.id = prompt /\ p.flow = flow
  /\ MayCall(flow)
  /\ req' = [req EXCEPT ![r] = [@ EXCEPT
       !.flow = flow, !.stage = ckpt[flow].stage, !.draft = ckpt[flow].draft,
       !.answered = prompt,
       !.step = IF ckpt[flow].stage = "none" THEN "error"
                ELSE IF ckpt[flow].prompt # prompt THEN "again" ELSE "resume"]]
  /\ UNCHANGED <<stores, prompts, clock, faults>>

\* Not the answer of the pending interrupt, or not an answer for its stage: asked again.
AskAgain(r) ==
  /\ req[r].step \in {"again", "resume"}
  /\ Interrupt(r, req[r].flow, req[r].stage, req[r].draft)
  /\ UNCHANGED <<clock, faults>>

\* The answer says confirmed=false, in either stage.
CancelTicket(r) == req[r].step = "resume" /\ Finish(r, "notDone")

\* An answer to the questions, and the extraction that may fail.
CollectAnswer(r) ==
  /\ req[r].step = "resume" /\ req[r].stage = "collect"
  /\ \/ \E message \in Messages \ {{}}, x \in Extractions :
          LET draft == FillDraft(req[r].draft, x, message)
          IN  Interrupt(r, req[r].flow, StageOf(draft), draft)
     \/ Goto(r, "error") /\ UNCHANGED <<stores, prompts>>
  /\ UNCHANGED <<clock, faults>>

\* confirmed=true, with the subject and the description as the user edited them; submitTicket
\* looks for a result of the same ticket, and goes on when the lookup fails.
Confirm(r) ==
  /\ req[r].step = "resume" /\ req[r].stage = "confirm"
  /\ \E subject \in Edits \cup {{}}, desc \in Edits \cup {{}} :
       LET draft == [req[r].draft EXCEPT !.subject = Or(subject, @, {}),
                                         !.othersDesc = Or(desc, @, {})]
           known == IdempotencyKey(req[r].flow, draft) \in idem
           Then(step) == req' = [req EXCEPT ![r].draft = draft, ![r].step = step]
       IN  MayFail("idemGet", Then(IF known THEN "finish" ELSE "prepare"), Then("prepare"))
  /\ UNCHANGED <<stores, prompts, clock>>

\* prepareSignalDecision: only incidents of level 1 to 3; without a decision the ticket keeps
\* its level and is not recorded.
Prepare(r) ==
  /\ req[r].step = "prepare"
  /\ LET draft == req[r].draft
         event == NormalizeSignalEvent(draft, clock)
         Decide(d) == req' = [req EXCEPT ![r].step = "post", ![r].decision = d]
     IN  IF draft.priority # "3" \/ draft.serviceLevel \notin {"1", "2", "3"}
         THEN Decide(None) /\ UNCHANGED faults
         ELSE \/ Fails("signal") /\ Decide(None)
              \/ /\ UNCHANGED faults
                 /\ \E recent \in LoadRecentEvents(signals, clock) :
                    \E cluster \in Or(MatchCluster(event, recent), {r}, {}) :
                      LET summary == SummarizeCluster(cluster, recent, event)
                          level == IF ShouldPromoteP1(draft.serviceLevel, summary)
                                   THEN "1" ELSE draft.serviceLevel
                      IN  Decide([event |-> [event EXCEPT !.cluster = cluster], level |-> level])
  /\ UNCHANGED <<stores, prompts, clock>>

\* CreateTicket: one attempt.  Timeouts and server errors are retried, a refusal, a broken
\* connection and a reply that cannot be read are not, and
\* nothing in the request tells the ITSM system that it has seen it before.
MakeTicket(r) ==
  LET d == req[r].decision IN
  tickets' = tickets \cup
    {[id |-> <<r, req[r].attempts>>, flow |-> req[r].flow, prompt |-> req[r].answered,
      draft |-> req[r].draft,
      level |-> IF d = None THEN req[r].draft.serviceLevel ELSE d.level,
      at |-> IF d = None THEN clock ELSE d.event.at]}

Retry(r) == req' = [req EXCEPT ![r].attempts = @ + 1,
                               ![r].step = IF req[r].attempts + 1 < MaxAttempts
                                           THEN "post" ELSE "failed"]

Post(r) ==
  /\ req[r].step = "post"
  /\ \/ MakeTicket(r) /\ Goto(r, IF req[r].decision = None THEN "remember" ELSE "record")
        /\ UNCHANGED faults
     \/ Fails("lostReply") /\ MakeTicket(r) /\ (Retry(r) \/ Goto(r, "failed"))
     \/ Fails("serverErr") /\ UNCHANGED tickets /\ Retry(r)
     \/ Fails("refused") /\ UNCHANGED tickets /\ Goto(r, "failed")
     \/ req[r].attempts > 0 /\ Fails("gone") /\ UNCHANGED tickets /\ Goto(r, "failed")
  /\ UNCHANGED <<ckpt, idem, signals, prompts, clock>>

\* The decision is recorded after the ticket was made.
Record(r) ==
  /\ req[r].step = "record"
  /\ MayFail("signal", signals' = RecordEvent(signals, req[r].decision.event), UNCHANGED signals)
  /\ Goto(r, "remember")
  /\ UNCHANGED <<ckpt, idem, tickets, prompts, clock>>

\* The record is kept per request instead of per flow.
RememberPerRequest(r) ==
  /\ req[r].step = "remember"
  /\ MayFail("idemSet", idem' = idem \cup {IdempotencyKey(r, req[r].draft)}, UNCHANGED idem)
  /\ Goto(r, "finish")
  /\ UNCHANGED <<ckpt, signals, tickets, prompts, clock>>

\* SetNX of the successful result; a failed one is not remembered, so that it can be tried again.
Remember(r) ==
  /\ req[r].step = "remember"
  /\ MayFail("idemSet", idem' = idem \cup {IdempotencyKey(req[r].flow, req[r].draft)},
             UNCHANGED idem)
  /\ Goto(r, "finish")
  /\ UNCHANGED <<ckpt, signals, tickets, prompts, clock>>

\* consumeIterator returns the result; a failed submission ends the flow just as well.
FinishSubmit(r) ==
  \/ req[r].step = "finish" /\ Finish(r, "done")
  \/ req[r].step = "failed" /\ Finish(r, "notDone")

-----------------------------------------------------------------------------
(* The environment *)

\* The API process dies, and the request with it.
Crash(r) ==
  /\ InFlight(r) /\ Fails("crash")
  /\ Goto(r, "crashed")
  /\ UNCHANGED <<stores, prompts, clock>>

\* The TTL of a checkpoint or of an idempotency record.
Expire(f) ==
  /\ Fails("expire")
  /\ \/ ckpt[f] # NoCkpt /\ ckpt' = [ckpt EXCEPT ![f] = NoCkpt] /\ UNCHANGED idem
     \/ \E k \in idem : k[1] = f /\ idem' = idem \ {k} /\ UNCHANGED ckpt
  /\ UNCHANGED <<signals, tickets, prompts, req, clock>>

Tick ==
  /\ clock < MaxClock
  /\ clock' = clock + 1
  /\ UNCHANGED <<stores, prompts, req, faults>>

Step(r) ==
  \/ AskAgain(r) \/ CancelTicket(r) \/ CollectAnswer(r) \/ Confirm(r)
  \/ Prepare(r) \/ Post(r) \/ Record(r) \/ Remember(r) \/ FinishSubmit(r)

Next ==
  \/ \E r \in Requests : Query(r) \/ Step(r) \/ Crash(r) \/ Expire(r)
  \/ \E r, flow, prompt \in Requests : Resume(r, flow, prompt)
  \/ Tick

Spec == Init /\ [][Next]_vars
-----------------------------------------------------------------------------
(* Properties *)

Draft == [userCode: Users \cup {""}, subject: SUBSET STRING, othersDesc: SUBSET STRING,
          serviceLevel: RawLevels, levelConf: 0..100, priority: RawPriorities, prioConf: 0..100]

\* Checkpoints, prompts, tickets and requests hold drafts of known users; a request that is
\* past "new" has a flow, one that resumes has a stage, and one that submits a ticket has
\* fewer than MaxAttempts attempts.
TypeOK ==
  /\ \A f \in Requests : /\ ckpt[f].stage \in {"none", "collect", "confirm"}
                          /\ ckpt[f].draft \in Draft
                          /\ ckpt[f].prompt \in Requests \cup {None}
  /\ \A k \in idem : k[1] \in Requests
  /\ \A p \in prompts : p.id \in Requests /\ p.flow \in Requests /\ p.draft \in Draft
  /\ \A t \in tickets : t.id \in Requests \X (0..MaxAttempts - 1) /\ t.draft \in Draft
  /\ \A r \in Requests :
       /\ req[r].draft \in Draft
       /\ req[r].step # "new" => req[r].flow \in Requests
       /\ req[r].attempts \in 0..MaxAttempts
       /\ req[r].step = "post" => req[r].attempts < MaxAttempts
       /\ req[r].step \in {"again", "resume"} => req[r].stage \in {"collect", "confirm"}
  /\ clock \in 0..MaxClock /\ faults \in 0..MaxFaults

\* No ticket reaches the ITSM system with a subject, a description, a level or a priority
\* missing, unknown or uncertain, whatever the model extracted and whichever way the draft
\* took: the confirmation only edits texts, and only needInfoInterrupt lets a draft through.
TicketIsComplete ==
  \A t \in tickets :
    /\ t.draft.subject # {} /\ t.draft.othersDesc # {}
    /\ {t.level, t.draft.serviceLevel, t.draft.priority} \subseteq {"1", "2", "3", "4"}
    /\ \A c \in {t.draft.levelConf, t.draft.prioConf} : c = 0 \/ c >= EnumThreshold

\* The user of a ticket, its priority and its level (but for a promotion) are those of the
\* confirmation that its user was shown and answered: an answer to an older interrupt of the
\* flow, whose draft has changed since, submits nothing.
TicketAsShown ==
  \A t \in tickets : \E p \in prompts :
    /\ p.id = t.prompt /\ p.flow = t.flow /\ p.stage = "confirm"
    /\ p.draft.userCode = t.draft.userCode /\ p.draft.priority = t.draft.priority
    /\ t.level \in {p.draft.serviceLevel, "1"}

\* A ticket is promoted only when, within the window, tickets of MinDistinctUsers users were
\* made for the same object: reports whose ticket was refused do not count, nor old ones.
SameObject(d, e) ==
  LET a == NormalizeSignalEvent(d, 0)
      b == NormalizeSignalEvent(e, 0)
  IN  a.domain = b.domain /\ a.object = b.object

EscalationIsBacked ==
  \A t \in tickets : t.level # t.draft.serviceLevel =>
    MinDistinctUsers <=
      Cardinality({o.draft.userCode : o \in {u \in tickets : /\ u.at + WindowTicks >= t.at
                                                            /\ SameObject(u.draft, t.draft)}})

\* The events of a cluster are about one object of one domain, although each of them was
\* only compared with some event of the cluster.
ClusterIsCoherent ==
  \A d, e \in signals : d.cluster = e.cluster => d.domain = e.domain /\ d.object = e.object

\* Once the user was told that a ticket is made, the same ticket of the flow is not made
\* again: the checkpoint is gone or the idempotency record is there.  This takes clients
\* that wait for an answer, and at most one failure.
KeyOf(t) == IdempotencyKey(t.flow, t.draft)
Told == {IdempotencyKey(req[r].flow, req[r].draft) : r \in {q \in Requests : req[q].step = "done"}}
NoTicketAfterSuccess == [][\A t \in tickets' \ tickets : KeyOf(t) \notin Told]_vars

\* A flow makes a ticket once, however often the user confirms it.
NoDuplicateTicket == \A t, u \in tickets : KeyOf(t) = KeyOf(u) => t = u

=============================================================================
