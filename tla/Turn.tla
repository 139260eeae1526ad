-------------------------------- MODULE Turn --------------------------------
(***************************************************************************)
(* One request of a user to the root assistant: the modules (domains)      *)
(* assess it in parallel, the root routes it, every chosen module plans    *)
(* the leaf agents it calls, modules that read run in parallel, and after  *)
(* them modules that write one after the other.  The root, a module that   *)
(* cannot plan and a ticket agent may interrupt the flow with a question;  *)
(* the user answers one interrupt at a time and the flow goes on there.    *)
(* All agents share the session value "latest_user_message".               *)
(*                                                                         *)
(* A text is the set of the keyword lists of planner.go it matches, with   *)
(* "long" for more than four characters; a score is in percent.            *)
(***************************************************************************)
EXTENDS AgentTree

CONSTANTS Messages,         \* what users say first
          Answers,          \* what users answer to a question
          ModelAssessments, \* what the model may say of a message
          ModelPlans,       \* the plans the model may propose
          Hits,             \* what the knowledge bases may return for a query
          MaxAnswers        \* bound: answers of the user in one flow

Words == {"it", "nonIt", "write", "submit", "guide", "lookup", "howTo", "tried", "process",
          "internal", "vague", "long", "confirmed", "cancelled"}

ASSUME TurnAssumption ==
    /\ Messages \subseteq SUBSET Words /\ Answers \subseteq SUBSET Words
    /\ {} \notin Answers
    /\ \A a \in ModelAssessments : a.score \in Int
    /\ \A p \in ModelPlans : p.steps \in Seq(STRING)
    /\ MaxAnswers \in Nat

-----------------------------------------------------------------------------
(* Assessment                                                              *)

First(places) == CHOOSE i \in places : \A j \in places : i <= j

(* The key of the first of some leaves of m, "" without one.               *)
FirstKey(m, places) == IF places = {} THEN "" ELSE Leaves[m][First(places)].key
Preferred(places, others) == IF places # {} THEN places ELSE others

(* primaryInterruptibleAgent: a ticket agent before any other that asks.   *)
InterruptibleAgent(m) ==
    FirstKey(m, Preferred({i \in DOMAIN Leaves[m] : Leaves[m][i].kind = "itsm"},
                          {i \in DOMAIN Leaves[m] : Leaves[m][i].interruptible}))

(* preferredKnowledgeAgent: internal questions go to an internal knowledge *)
(* base, others to a public one, and each to any other if there is none.   *)
KnowledgeAgent(m, msg) ==
    LET all == {i \in DOMAIN Leaves[m] : Leaves[m][i].kind = "knowledge" \/ ~Leaves[m][i].interruptible}
    IN  FirstKey(m, Preferred({i \in all : Leaves[m][i].internal = ("internal" \in msg)}, all))

Assessed(status, phase, score) ==
    [status |-> status, phase |-> phase, score |-> score, prompt |-> status = "need_clarify"]

LooksVague(msg) == "vague" \in msg \/ "long" \notin msg

(* assessByHeuristic; None leaves it to the model.                         *)
AssessByHeuristic(m, msg) ==
    CASE msg = {} -> Assessed("need_clarify", "read", 55)
      [] msg # {} /\ LooksVague(msg) -> Assessed("need_clarify", "read", 62)
      [] ~LooksVague(msg) /\ "it" \in msg ->
            IF "write" \in msg /\ InterruptibleAgent(m) # ""
            THEN Assessed("ready", "write", 90) ELSE Assessed("ready", "read", 84)
      [] ~LooksVague(msg) /\ "it" \notin msg /\ "nonIt" \in msg -> Assessed("reject", "read", 5)
      [] OTHER -> None

Statuses == {"ready", "need_clarify", "reject"}

(* normalizeAssessment: unknown words become the safe ones, a score of 0   *)
(* the default of its status, and only a question keeps a prompt.          *)
NormalizeAssessment(a) ==
    LET status == IF a.status \in Statuses THEN a.status ELSE "reject"
        score  == IF a.score > 100 THEN 100 ELSE IF a.score < 0 THEN 0 ELSE a.score
        usual  == [ready |-> 80, need_clarify |-> 55, reject |-> 5]
    IN  Assessed(status, IF a.phase \in {"read", "write"} THEN a.phase ELSE "read",
                 IF score = 0 THEN usual[status] ELSE score)

(* Assess: what may come out; None when the model fails, or says something *)
(* that is not an assessment.                                              *)
Assess(m, msg) ==
    LET rule == AssessByHeuristic(m, msg)
    IN  IF rule # None THEN {NormalizeAssessment(rule)}
        ELSE {NormalizeAssessment(a) : a \in ModelAssessments} \cup {None}

(* assessModules waits for all; one that failed rejects, with score 0.     *)
AssessModules(msg) ==
    LET rejected == [Assessed("reject", "read", 5) EXCEPT !.score = 0]
        Of(m) == {IF a = None THEN rejected ELSE a : a \in Assess(m, msg)}
    IN  {f \in [Modules -> UNION {Of(m) : m \in Modules}] : \A m \in Modules : f[m] \in Of(m)}

-----------------------------------------------------------------------------
(* Routing                                                                 *)

ReadyThreshold == 55

Place(m) == CHOOSE i \in DOMAIN ModuleOrder : ModuleOrder[i] = m

(* The best score first, equal ones in the order of the configuration.     *)
ByScore(a, ms) ==
    LET Before(m, n) == a[m].score > a[n].score \/ (a[m].score = a[n].score /\ Place(m) < Place(n))
    IN  [k \in 1 .. Cardinality(ms) |->
            CHOOSE m \in ms : Cardinality({n \in ms : Before(n, m)}) = k - 1]

(* chooseRoute: the modules that are ready, by phase.                      *)
IsReady(a) == a.status = "ready" /\ a.score >= ReadyThreshold
ReadModules(a) == ByScore(a, {m \in Modules : IsReady(a[m]) /\ a[m].phase # "write"})
WriteModules(a) == ByScore(a, {m \in Modules : IsReady(a[m]) /\ a[m].phase = "write"})

(* Only if none is ready, a module that has a question may ask it.         *)
AsksBack(a) == \E m \in Modules : a[m].status = "need_clarify" /\ a[m].prompt

-----------------------------------------------------------------------------
(* Planning                                                                *)

(* planByHeuristic: the first rule that gives leaves to call; << >> leaves *)
(* it to the model.                                                        *)
OneStep(key) == IF key = "" THEN << >> ELSE <<key>>
FirstSteps(rules) ==
    LET fitting == {i \in DOMAIN rules : rules[i] # << >>}
    IN  IF fitting = {} THEN << >> ELSE rules[First(fitting)]
PlanByHeuristic(m, msg) ==
    LET If(cond, key) == IF cond THEN OneStep(key) ELSE << >>
        Says(word) == word \in msg
        kb == KnowledgeAgent(m, msg)
        asks == InterruptibleAgent(m)
        rules == << If(Says("howTo") /\ ~Says("submit"), kb),
                    If(/\ Says("process") /\ ~Says("guide")
                       /\ Says("submit") \/ Says("tried"), asks),
                    If(Says("submit") /\ Says("guide"), kb) \o If(Says("submit"), asks),
                    If((Says("guide") \/ Says("lookup")) /\ ~Says("process"), kb) >>
    IN  FirstSteps(rules)

(* normalizePlan: leaves of the module only, each once.                    *)
(* Steps of the model are taken as they are.                               *)
NormalizePlanNot(m, steps) == steps

NormalizePlan(m, steps) ==
    AtPlaces(steps, {i \in DOMAIN steps :
        steps[i] \in Elements(Keys(Leaves[m])) /\ \A j \in 1 .. i - 1 : steps[j] # steps[i]})

(* fallbackExecutablePlan: one leaf, by what the rules say of the message. *)
FallbackPlan(m, msg) ==
    LET rule == AssessByHeuristic(m, msg)
        key == IF rule = None \/ (rule # None /\ rule.status # "ready") THEN ""
               ELSE IF rule.phase = "write" THEN InterruptibleAgent(m) ELSE KnowledgeAgent(m, msg)
    IN  OneStep(key)

(* planFallbackOrError                                                     *)
PlanFallbackOrError(m, msg, cause) ==
    LET steps == FallbackPlan(m, msg)
    IN  [mode |-> "sequential", steps |-> steps, failure |-> IF steps = << >> THEN cause ELSE "none"]

(* Plan: the rules, then the model, then one leaf by the rules.  What may  *)
(* come out, and why there is no plan: "underivable" when the model gave   *)
(* none, "error" when it failed or did not say a plan.                     *)
Plan(m, msg) ==
    LET rule == NormalizePlan(m, PlanByHeuristic(m, msg))
        Of(p) == LET steps == NormalizePlan(m, p.steps)
                 IN  IF p.mode = "supervisor" \/ steps = << >>
                     THEN PlanFallbackOrError(m, msg, "underivable")
                     ELSE [mode |-> p.mode, steps |-> steps, failure |-> "none"]
    IN  IF rule # << >> THEN {[mode |-> "sequential", steps |-> rule, failure |-> "none"]}
        ELSE {Of(p) : p \in ModelPlans} \cup {PlanFallbackOrError(m, msg, "error")}

(* combineClarifiedMessage                                                 *)
(* The answer replaces the question's message.                             *)
CombineNot(original0, answer) == answer

Combine(original, answer) == IF original = {} THEN answer ELSE original \cup answer \cup {"long"}

-----------------------------------------------------------------------------
VARIABLES
    root,      \* "idle", "routing", "asking", "reading", "writing", "waiting", "answered", "failed"
    message,   \* session value latest_user_message
    original,  \* rootClarifyState.OriginalMessage
    plan,      \* session value campus_execution_plan: [reads, writes], None before
    mod,       \* module -> [at, steps (its stored plan), next (step), original]
    response,  \* what consumeIterator collects: [steps, sources, result]
    answers,   \* answers of the user so far
    (* history *)
    request,   \* what the user said first and in answer to the root
    executed,  \* the leaves that were started, and the message each worked on
    created    \* tickets of this execution

vars == <<root, message, original, plan, mod, response, answers, request, executed, created>>

(* A response has the steps of one execution, from the request or the      *)
(* answer to the next question, answer or error.                           *)
NoResponse == [steps |-> << >>, sources |-> << >>, result |-> None]

Untouched == [at |-> "todo", steps |-> << >>, next |-> 1, original |-> {}]

Init ==
    /\ root = "idle"
    /\ message = {} /\ original = {} /\ request = {}
    /\ plan = None
    /\ mod = [m \in Modules |-> Untouched]
    /\ response = NoResponse
    /\ answers = 0
    /\ executed = << >>
    /\ created = {}

Reads == IF plan = None THEN {} ELSE Elements(plan.reads)
Writes == IF plan = None THEN {} ELSE Elements(plan.writes)
At(states) == {m \in Modules : mod[m].at \in states}

(* The modules of the stage, and those that may work: all that read, or    *)
(* the first of those that write that is not done.                         *)
Stage == IF root = "reading" THEN Reads ELSE Writes
IsNext(m) ==
    /\ mod[m].at # "done"
    /\ \E i \in DOMAIN plan.writes :
          plan.writes[i] = m /\ \A j \in 1 .. i - 1 : mod[plan.writes[j]].at = "done"
Active ==
    CASE root = "reading" -> Reads
      [] root = "writing" -> {m \in Writes : IsNext(m)}
      [] OTHER -> {}

Goto(m, at) == mod' = [mod EXCEPT ![m].at = at]
Elsewhere == <<message, original, plan, answers, request>>

LeafOf(m, key) == Node(Leaves[m], key)
StepOf(m) == LeafOf(m, mod[m].steps[mod[m].next])

(* ---------------------------------------------------------------------- *)
(* The response                                                           *)
(* ---------------------------------------------------------------------- *)

(* The way to the agent that works for m: eino notes the agents that ran  *)
(* before it in a sequence, in the stage as well as in the plan.          *)
RunPath(m) ==
    LET before == IF root = "reading" THEN << >>
                  ELSE (IF Len(plan.reads) = 1 THEN plan.reads ELSE << >>)
                       \o AtPlaces(plan.writes, {i \in DOMAIN plan.writes :
                                plan.writes[i] # m /\ mod[plan.writes[i]].at = "done"})
    IN  <<Assistant>> \o before \o <<m>> \o SubSeq(mod[m].steps, 1, mod[m].next)

(* runPathStrings                                                         *)
RunPathStrings(m) == NormalizeVisiblePath[RunPath(m)]

(* A knowledge agent or a ticket agent ends: a step of the response.  The *)
(* result of a ticket replaces the one before; it is known by the key     *)
(* "itsm" on the way to it.                                               *)
Step(m, keys, hits, answer) ==
    [module |-> m, agent |-> StepOf(m), path |-> ResolveNodePath(RunPathStrings(m), keys),
     hits |-> hits, context |-> answer.context, sources |-> answer.sources]
AddKnowledge(m, hits, answer) ==
    response' = [response EXCEPT
        !.steps   = Append(@, Step(m, <<StepOf(m).key, StepOf(m).key>>, hits, answer)),
        !.sources = MergeSources(@, answer.sources)]

AddTicket(m, success) ==
    LET ticket == IF success THEN m ELSE None
        said == [context |-> << >>, sources |-> << >>]
    IN  /\ response' = IF "itsm" \in Elements(RunPathStrings(m))
                       THEN [response EXCEPT
                               !.steps  = Append(@, Step(m, <<"itsm", StepOf(m).key>>, None, said)),
                               !.result = [ticket |-> ticket, sources |-> response.sources]]
                       ELSE response
        /\ created' = created \cup ({ticket} \ {None})

(* At an interrupt what was said so far replaces the result.              *)
PausedAlways(r) ==
    IF r.steps # << >> THEN [r EXCEPT !.result = [ticket |-> None, sources |-> r.sources]] ELSE r

(* At an interrupt what was said so far becomes the result, unless a      *)
(* ticket did.                                                            *)
Paused(r) ==
    IF r.result = None /\ r.steps # << >>
    THEN [r EXCEPT !.result = [ticket |-> None, sources |-> r.sources]] ELSE r

Completed(r) ==
    LET result == IF r.result = None THEN [ticket |-> None, sources |-> r.sources]
                  ELSE [r.result EXCEPT !.sources = MergeSources(@, r.sources)]
    IN  [r EXCEPT !.result = result]

(* ---------------------------------------------------------------------- *)
(* The root assistant                                                     *)
(* ---------------------------------------------------------------------- *)

(* interruptForClarify: the message is kept for the answer to be added.   *)
InterruptForClarify(msg) == root' = "asking" /\ original' = msg

(* Run with an empty message asks at once.                                *)
RunRoot(msg) ==
    /\ message' = msg
    /\ IF msg = {} THEN InterruptForClarify({})
                   ELSE root' = "routing" /\ UNCHANGED original
    /\ UNCHANGED <<plan, mod, executed>>

Query ==
    /\ root = "idle"
    /\ \E msg \in Messages : RunRoot(msg) /\ request' = msg
    /\ UNCHANGED <<response, answers, created>>

(* The plan of the root is stored, and its first stage begins.            *)
RunRootPlan(reads, writes) ==
    /\ plan' = [reads |-> reads, writes |-> writes]
    /\ root' = IF reads # << >> THEN "reading" ELSE "writing"
    /\ UNCHANGED <<original, response>>

(* The root answers by itself, whether or not the model answers it.       *)
RunFallback ==
    /\ root' = "answered"
    /\ response' = Completed(response)
    /\ UNCHANGED <<original, plan>>

Route ==
    /\ root = "routing"
    /\ \E a \in AssessModules(message) :
          LET reads == ReadModules(a)
              writes == WriteModules(a)
          IN  IF reads \o writes # << >> THEN RunRootPlan(reads, writes)
              ELSE IF AsksBack(a)
              THEN InterruptForClarify(message) /\ UNCHANGED <<plan, response>>
              ELSE RunFallback
    /\ UNCHANGED <<message, mod, answers, request, executed, created>>

(* ---------------------------------------------------------------------- *)
(* A module                                                               *)
(* ---------------------------------------------------------------------- *)

(* An error of a module ends the flow, and the response is the error.     *)
(* What the modules beside it still do, a ticket that one of them makes   *)
(* included, nobody hears of: the model leaves it out.                    *)
Fail(m) == root' = "failed" /\ response' = NoResponse /\ UNCHANGED <<mod, executed, created>>

(* The plan is stored and executed; a plan of a mode that nothing can     *)
(* execute fails.                                                         *)
RunWithPlan(m, p) ==
    IF p.mode = "sequential"
    THEN /\ mod' = [mod EXCEPT ![m] = [@ EXCEPT !.at = "running", !.steps = p.steps]]
         /\ UNCHANGED <<root, response, executed, created>>
    ELSE Fail(m)

(* Without a plan the module assesses the message again and asks, unless  *)
(* that fails, or planning failed and there is nothing to ask.            *)
RunClarifyOrError(m, p) ==
    \E a \in Assess(m, message) :
       IF a # None /\ (a.prompt \/ p.failure = "underivable")
       THEN /\ mod' = [mod EXCEPT ![m] = [@ EXCEPT !.at = "asking", !.original = message]]
            /\ UNCHANGED <<root, response, executed, created>>
       ELSE Fail(m)

RunModule(m) ==
    /\ m \in Active
    /\ mod[m].at = "todo"
    /\ \E p \in Plan(m, message) :
          IF p.failure = "none" THEN RunWithPlan(m, p) ELSE RunClarifyOrError(m, p)
    /\ UNCHANGED Elsewhere

(* What the bases of a knowledge agent may return for its queries: the    *)
(* question, or what the model makes of it, no more than there may be.    *)
Found(key) ==
    LET agent == KnowledgeTool(key)
    IN  IF ~RewritesQueries(agent) THEN {<<hits>> : hits \in Hits}
        ELSE {None} \cup UNION {[1 .. n -> Hits] : n \in 0 .. agent.rewriteQueries}

(* What a knowledge agent may answer, by what its bases return; a step    *)
(* keeps what they return for the first query.                            *)
KnowledgeAnswers == [key \in Elements(Keys(Tree.leaves)) |-> [found \in Found(key) |->
    {Answer(KnowledgeTool(key), found, answered) : answered \in GenerateAnswer}]]
FirstHits(found) == IF found \in {None, << >>} THEN None ELSE found[1]

(* The next leaf of the plan starts, on the message of the session.  A    *)
(* knowledge agent answers, a ticket agent interrupts, either may fail.   *)
RunLeaf(m) ==
    /\ m \in Active
    /\ mod[m].at = "running" /\ mod[m].next <= Len(mod[m].steps)
    /\ \/ /\ IF StepOf(m).kind = "itsm"
             THEN Goto(m, "waiting") /\ UNCHANGED response
             ELSE /\ mod' = [mod EXCEPT ![m].next = @ + 1]
                  /\ \E found \in Found(StepOf(m).key) :
                       \E answer \in KnowledgeAnswers[StepOf(m).key][found] :
                          AddKnowledge(m, FirstHits(found), answer)
          /\ executed' = Append(executed, [module |-> m, leaf |-> StepOf(m), saw |-> message])
          /\ UNCHANGED <<root, created>>
       \/ Fail(m)
    /\ UNCHANGED Elsewhere

(* A ticket agent that was given an answer asks again, is done, or fails. *)
ResumeLeaf(m) ==
    /\ m \in Active
    /\ mod[m].at = "resumed"
    /\ \/ Goto(m, "waiting") /\ UNCHANGED <<root, response, executed, created>>
       \/ /\ mod' = [mod EXCEPT ![m].at = "running", ![m].next = @ + 1]
          /\ \E success \in BOOLEAN : AddTicket(m, success)
          /\ UNCHANGED <<root, executed>>
       \/ Fail(m)
    /\ UNCHANGED Elsewhere

PlanDone(m) ==
    /\ m \in Active
    /\ mod[m].at = "running" /\ mod[m].next > Len(mod[m].steps)
    /\ Goto(m, "done")
    /\ UNCHANGED <<root, response, executed, created>>
    /\ UNCHANGED Elsewhere

(* The stage ends when nothing in it can work: it waits for the answers   *)
(* to its interrupts, or the next stage begins.                           *)
Interrupted == At({"asking", "waiting"})

Ended(next) ==
    CASE next = "waiting" -> Paused(response)
      [] next = "answered" -> Completed(response)
      [] OTHER -> response

(* The next stage begins although a module of this one waits.              *)
EndStageEarly ==
    /\ root \in {"reading", "writing"}
    /\ Active \subseteq At({"asking", "waiting", "done"})
    /\ root' = IF root = "reading" /\ Writes # {} THEN "writing"
               ELSE IF Stage \cap Interrupted # {} THEN "waiting" ELSE "answered"
    /\ response' = Ended(root')
    /\ UNCHANGED <<mod, executed, created>>
    /\ UNCHANGED Elsewhere

(* The stage ends only when all its modules are done.                      *)
EndStageWhenDone ==
    /\ root \in {"reading", "writing"}
    /\ Active \subseteq At({"done"})
    /\ root' = IF root = "reading" /\ Writes # {} THEN "writing" ELSE "answered"
    /\ response' = Ended(root')
    /\ UNCHANGED <<mod, executed, created>>
    /\ UNCHANGED Elsewhere

EndStage ==
    /\ root \in {"reading", "writing"}
    /\ Active \subseteq At({"asking", "waiting", "done"})
    /\ root' = IF Stage \cap Interrupted # {} THEN "waiting"
               ELSE IF root = "reading" /\ Writes # {} THEN "writing" ELSE "answered"
    /\ response' = Ended(root')
    /\ UNCHANGED <<mod, executed, created>>
    /\ UNCHANGED Elsewhere

(* ---------------------------------------------------------------------- *)
(* The user answers one interrupt; the others interrupt again unchanged.  *)
(* executeResume puts a summary of the answer in latest_user_message.     *)
(* ---------------------------------------------------------------------- *)

Approvals == {{"confirmed", "long"}, {"cancelled", "long"}}

StageOf(m) == IF m \in Reads THEN "reading" ELSE "writing"

(* The question of the root: only a text answers it, and the root starts  *)
(* over with the clarified message.                                       *)
AnswerRoot(a) ==
    /\ root = "asking"
    /\ IF a \in Approvals
       THEN message' = a /\ UNCHANGED <<root, original, plan, mod, request, executed>>
       ELSE RunRoot(Combine(original, a)) /\ request' = request \cup a

(* The question of a module: it plans again, for the clarified message.   *)
AnswerModule(m, a) ==
    /\ root = "waiting" /\ mod[m].at = "asking"
    /\ IF a \in Approvals
       THEN message' = a /\ UNCHANGED <<root, mod>>
       ELSE /\ message' = Combine(mod[m].original, a)
            /\ Goto(m, "todo")
            /\ root' = StageOf(m)
    /\ UNCHANGED <<original, plan, request, executed>>

(* The question of a ticket agent.                                        *)
(* A leaf that was answered is started again.                              *)
AnswerLeafRestarts(m, a) ==
    /\ root = "waiting" /\ mod[m].at = "waiting"
    /\ message' = a
    /\ Goto(m, "running")
    /\ root' = StageOf(m)
    /\ UNCHANGED <<original, plan, request, executed>>

AnswerLeaf(m, a) ==
    /\ root = "waiting" /\ mod[m].at = "waiting"
    /\ message' = a
    /\ Goto(m, "resumed")
    /\ root' = StageOf(m)
    /\ UNCHANGED <<original, plan, request, executed>>

Resume ==
    /\ answers < MaxAnswers
    /\ answers' = answers + 1
    /\ response' = NoResponse
    /\ created' = {}
    /\ \E a \in Answers \cup Approvals :
          \/ AnswerRoot(a)
          \/ \E m \in Modules : AnswerModule(m, a) \/ AnswerLeaf(m, a)

ModuleNext(m) == RunModule(m) \/ RunLeaf(m) \/ ResumeLeaf(m) \/ PlanDone(m)

Next ==
    \/ Query
    \/ Route
    \/ \E m \in Modules : ModuleNext(m)
    \/ EndStage
    \/ Resume

(* The goroutines of the runner go on; the user need not answer.          *)
Fairness == WF_vars(Route \/ EndStage \/ \E m \in Modules : ModuleNext(m))

Spec == Init /\ [][Next]_vars
FairSpec == Spec /\ Fairness

-----------------------------------------------------------------------------
(* What the code takes for granted and nothing checks at the start: every  *)
(* ticket agent has the key that response.go:68 looks for, no agent names  *)
(* a base twice, and what a base returns says that it is of that base      *)
(* (retriever.go:100-113).  Some theorems need one of them.                *)

TicketAgentsAreItsm == \A l \in Elements(Tree.leaves) : l.type = "itsm" => l.key = "itsm"

BasesAreDistinct ==
    \A l \in Elements(Tree.leaves) :
       \A i, j \in DOMAIN l.kbIDs : i # j => l.kbIDs[i] # l.kbIDs[j]

HitsNameTheirBase ==
    \A l \in Elements(Tree.leaves), hits \in Hits : \A b \in Elements(l.kbIDs) :
       hits[b] # None => /\ hits[b] \in Seq(Elements(hits[b]))
                         /\ \A i \in DOMAIN hits[b] : hits[b][i].base = b

-----------------------------------------------------------------------------
(* Properties                                                             *)

TypeOK ==
    /\ root \in {"idle", "routing", "asking", "reading", "writing", "waiting", "answered", "failed"}
    /\ {message, original, request} \subseteq SUBSET Words
    /\ plan # None => Elements(plan.reads) \cup Elements(plan.writes) \subseteq Modules
    /\ \A m \in Modules :
          /\ mod[m].at \in {"todo", "asking", "running", "waiting", "resumed", "done"}
          /\ Elements(mod[m].steps) \subseteq Elements(Keys(Leaves[m]))
          /\ mod[m].next \in 1 .. Len(mod[m].steps) + 1
          /\ mod[m].at = "todo" => mod[m].next = 1
    /\ response.result # None => response.result.ticket \in Modules \cup {None}
    /\ created \subseteq Modules
    /\ answers \in 0 .. MaxAnswers

(* Nothing is written before everything that reads is done, although a    *)
(* module that reads may be interrupted, answered and interrupted again   *)
(* in between (supervisor.go:215-238).                                    *)
ReadBeforeWrite ==
    \A m \in Modules : m \in Writes \ Reads /\ (mod[m].at # "todo" \/ root = "writing")
                        => Reads \subseteq At({"done"})

(* A module calls the leaves of its stored plan in order, each once: an   *)
(* interrupt and its answer neither repeat a finished leaf nor skip one   *)
(* (planned.go:87-112, 220-241, planner.go:473-499).                      *)
StartedBy(m) == AtPlaces(executed, {i \in DOMAIN executed : executed[i].module = m})
PlanIsFollowed ==
    \A m \in Modules :
       LET started == StartedBy(m)
           n == mod[m].next - (IF mod[m].at \in {"waiting", "resumed"} THEN 0 ELSE 1)
       IN  /\ Len(started) = n
           /\ \A i \in 1 .. n : started[i].leaf.key = mod[m].steps[i]
           /\ \A i, j \in 1 .. n : i # j => started[i].leaf # started[j].leaf

(* A leaf works on what the user asked for, whatever questions were asked *)
(* and answered before, unless a ticket agent ran before it: the summary  *)
(* of the answer it got stays in the session (run_runtime.go:101-111,     *)
(* planned.go:189-196).                                                   *)
IsTicket(e) == e.leaf.kind = "itsm"
LeavesSeeTheRequest ==
    \A i \in DOMAIN executed :
       request \subseteq executed[i].saw \/ \E j \in 1 .. i - 1 : IsTicket(executed[j])

(* The user learns of a ticket from the response of the execution that    *)
(* made it, whatever else the flow does in it: one response has room for  *)
(* one ticket, and no later step or question takes its place.  An error   *)
(* of a later agent does (response.go:45-48, 77-83, 134-140).             *)
TicketReported ==
    root \in {"asking", "waiting", "answered"} =>
       \A m \in created : response.result # None /\ response.result.ticket = m

(* An answer cites every source of every agent that contributed to it,    *)
(* each once, also those that came before or after a ticket               *)
(* (response.go:58-66, 150-161, 208-231).                                 *)
CitesEverySource ==
    root = "answered" =>
       LET cited == response.result.sources
       IN  /\ Elements(cited) = UNION {Elements(s.sources) : s \in Elements(response.steps)}
           /\ Len(cited) = Cardinality(Elements(cited))

(* No base crowds out another among the sources of the first query: one   *)
(* that still had a passage to give has as many of them as any other,     *)
(* give or take one (retriever.go:119-145).  For an agent that asks once  *)
(* these are all its sources.  One that rewrites the question puts those  *)
(* of later queries behind them, so that this holds where none of the     *)
(* first query's is dropped as a node that came before; between several   *)
(* queries nothing keeps the bases apart (agent.go:44-95).                *)
NodesDiffer(docs) == \A i, j \in DOMAIN docs : docs[i].node = docs[j].node => i = j
FairShare ==
    \A s \in {x \in Elements(response.steps) : x.sources # << >>} :
       LET agent == KnowledgeTool(s.agent.key)
           docs  == RetrieveOnce(agent, s.hits)
           first == Upto(s.sources, Len(docs))
           From(b) == Cardinality({i \in DOMAIN first : first[i].base = b})
       IN  ~RewritesQueries(agent) \/ NodesDiffer(docs) =>
              \A b, c \in Elements(agent.kbIDs) : From(b) > From(c) + 1 => From(c) = Len(s.hits[c])

(* An agent cites only passages its answer was made from, when both of    *)
(* its limits are in the configuration or neither is: the check at the    *)
(* start compares only limits that are written, and a default may be      *)
(* larger than the other limit (config_validate.go:436, config.go:71-76). *)
CitesWhatWasRead ==
    \A s \in Elements(response.steps) :
       LET l == Node(Tree.leaves, s.agent.key)
       IN  s.agent.kind = "knowledge" /\ (l.sourceLimit > 0 <=> l.maxContextDocs > 0)
              => Elements(s.sources) \subseteq Elements(s.context)

(* A step is shown under the module that ran it, although the way of the  *)
(* run to it leads through the agents that ran before; a leaf of several  *)
(* modules may be shown under another one (response.go:303-382,           *)
(* registry.go:172-210).                                                  *)
ShownUnderItsModule ==
    \A s \in Elements(response.steps) :
       Cardinality(HoldersOf(s.agent.key)) = 1 => s.path = <<Assistant, s.module, s.agent.key>>

(* A flow that goes on comes to an answer, a question or an error.        *)
Settles ==
    root \in {"routing", "reading", "writing"} ~> root \in {"asking", "waiting", "answered", "failed"}

=============================================================================
