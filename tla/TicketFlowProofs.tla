-------------------------- MODULE TicketFlowProofs --------------------------
(***************************************************************************)
(* What every ticket is, for any extractions, edits and messages, any      *)
(* number of clients, answers and failures, also of clients that do not    *)
(* wait: complete, what its user was shown and confirmed, and promoted     *)
(* only for as many users as it takes.  And what takes clients that wait,  *)
(* and one failure at most: no second ticket once its user was told.       *)
(***************************************************************************)
EXTENDS TicketFlow, FiniteSetTheorems, TLAPS

-----------------------------------------------------------------------------
(* The invariants *)

IsDraft(d) ==
  d = [userCode |-> d.userCode, subject |-> d.subject, othersDesc |-> d.othersDesc,
       serviceLevel |-> d.serviceLevel, levelConf |-> d.levelConf,
       priority |-> d.priority, prioConf |-> d.prioConf]
IsReq(q) ==
  /\ q = [step |-> q.step, flow |-> q.flow, stage |-> q.stage, draft |-> q.draft,
          decision |-> q.decision, attempts |-> q.attempts, answered |-> q.answered]
  /\ IsDraft(q.draft)
IsCkpt(c) == c = [stage |-> c.stage, draft |-> c.draft, prompt |-> c.prompt] /\ IsDraft(c.draft)

Shapes ==
  /\ req = [r \in Requests |-> req[r]] /\ \A r \in Requests : IsReq(req[r])
  /\ ckpt = [f \in Requests |-> ckpt[f]] /\ \A f \in Requests : IsCkpt(ckpt[f])

\* What a client was shown, and what it is shown to confirm is complete.
Shown(ps, id, flow, stage, draft) ==
  [id |-> id, flow |-> flow, stage |-> stage, draft |-> draft] \in ps
Complete(draft) == MissingFields(draft) = {}
Confirmable(stage, draft) == stage = "confirm" => Complete(draft)

\* The checkpoint of a flow holds the draft of the interrupt that is pending.
CkptOK(f, c, ps) ==
  c.stage # "none" => Confirmable(c.stage, c.draft) /\ Shown(ps, c.prompt, f, c.stage, c.draft)

\* A request holds the checkpoint it loaded.
LoadedOK(q, ps) ==
  /\ q.step \in {"again", "resume"} => Confirmable(q.stage, q.draft)
  /\ q.step = "resume" => Shown(ps, q.answered, q.flow, q.stage, q.draft)

\* It submits what was confirmed, but for the texts the user may still edit.
Confirmed(q, p) ==
  /\ p.id = q.answered /\ p.flow = q.flow /\ p.stage = "confirm"
  /\ p.draft.userCode = q.draft.userCode /\ p.draft.priority = q.draft.priority
  /\ p.draft.serviceLevel = q.draft.serviceLevel
SubmitsOK(q, ps) ==
  q.step \in {"prepare", "post"} => Complete(q.draft) /\ \E p \in ps : Confirmed(q, p)
DecisionOK(q) ==
  q.step = "post" => q.decision = None \/ q.decision.level \in {q.draft.serviceLevel, "1"}

ReqOK(q, ps) == LoadedOK(q, ps) /\ SubmitsOK(q, ps) /\ DecisionOK(q)

FlowInv ==
  /\ Shapes
  /\ \A f \in Requests : CkptOK(f, ckpt[f], prompts)
  /\ \A r \in Requests : ReqOK(req[r], prompts)

TicketInv == FlowInv /\ TicketIsComplete /\ TicketAsShown

-----------------------------------------------------------------------------
(* Steps *)

\* What was shown once stays shown.
LEMMA MorePrompts ==
  ASSUME NEW ps, NEW more, ps \subseteq more
  PROVE  /\ \A f, c : CkptOK(f, c, ps) => CkptOK(f, c, more)
         /\ \A q : ReqOK(q, ps) => ReqOK(q, more)
BY DEF CkptOK, ReqOK, LoadedOK, SubmitsOK, Shown

\* A request that neither resumes nor submits holds nothing to keep.
LEMMA Quiet ==
  ASSUME NEW q, NEW ps, q.step \notin {"again", "resume", "prepare", "post"}
  PROVE  ReqOK(q, ps)
BY DEF ReqOK, LoadedOK, SubmitsOK, DecisionOK

LEMMA FillShape ==
  ASSUME NEW d, NEW x, NEW m, NEW filled, IsDraft(d), filled = FillDraft(d, x, m)
  PROVE  IsDraft(filled)
BY DEF FillDraft, IsDraft

LEMMA NewShape == ASSUME NEW u PROVE IsDraft(NewDraft(u))
BY DEF NewDraft, IsDraft

LEMMA StageConfirmable ==
  ASSUME NEW d PROVE Confirmable(StageOf(d), d)
BY DEF Confirmable, StageOf, Complete

\* One request changes, the others and the checkpoints do not.
LEMMA OneRequest ==
  ASSUME FlowInv, NEW r \in Requests, NEW q, req' = [req EXCEPT ![r] = q],
         IsReq(q), ReqOK(q, prompts), UNCHANGED <<ckpt, prompts>>
  PROVE  FlowInv'
BY DEF FlowInv, Shapes

LEMMA GotoQuiet ==
  ASSUME FlowInv, NEW r \in Requests, NEW step, Goto(r, step),
         step \notin {"again", "resume", "prepare", "post"}, UNCHANGED <<ckpt, prompts>>
  PROVE  FlowInv'
<1> DEFINE q == [req[r] EXCEPT !.step = step]
<1>1. req' = [req EXCEPT ![r] = q]
  BY DEF Goto, FlowInv, Shapes
<1>2. IsReq(q) /\ q.step = step
  BY DEF FlowInv, Shapes, IsReq
<1> QED
  BY <1>1, <1>2, Quiet, OneRequest

\* An interrupt: the client is shown what the checkpoint holds.
LEMMA InterruptStep ==
  ASSUME FlowInv, NEW r \in Requests, NEW flow, NEW stage, NEW draft,
         Interrupt(r, flow, stage, draft), Confirmable(stage, draft), IsDraft(draft)
  PROVE  FlowInv' /\ tickets' = tickets /\ prompts \subseteq prompts'
<1>0. PICK q : q = [req[r] EXCEPT !.step = "asked", !.flow = flow]
  OBVIOUS
<1> DEFINE c == [stage |-> stage, draft |-> draft, prompt |-> r]
<1>1. req' = [req EXCEPT ![r] = q] /\ ckpt' = [ckpt EXCEPT ![flow] = c]
  BY <1>0 DEF Interrupt, FlowInv, Shapes, IsReq
<1>2. IsReq(q) /\ q.step = "asked" /\ IsCkpt(c)
  <2>1. IsReq(req[r])
    BY DEF FlowInv, Shapes
  <2>2. IsReq(q) /\ q.step = "asked"
    BY <1>0, <2>1 DEF IsReq
  <2>3. IsCkpt(c)
    BY DEF IsCkpt
  <2> QED
    BY <2>2, <2>3
<1>3. prompts \subseteq prompts' /\ Shown(prompts', r, flow, stage, draft) /\ tickets' = tickets
  BY DEF Interrupt, Shown
<1>4. CkptOK(flow, c, prompts') /\ ReqOK(q, prompts')
  BY <1>2, <1>3, Quiet DEF CkptOK
<1>5. /\ \A f \in Requests : CkptOK(f, ckpt[f], prompts')
      /\ \A n \in Requests : ReqOK(req[n], prompts')
  BY <1>3, MorePrompts DEF FlowInv
<1>6. Shapes'
  BY <1>1, <1>2 DEF FlowInv, Shapes
<1>7. /\ \A f \in Requests : CkptOK(f, ckpt'[f], prompts')
      /\ \A n \in Requests : ReqOK(req'[n], prompts')
  BY <1>1, <1>4, <1>5 DEF FlowInv, Shapes
<1> QED
  BY <1>3, <1>6, <1>7 DEF FlowInv

\* The end of a flow.
LEMMA FinishStep ==
  ASSUME FlowInv, NEW r \in Requests, NEW answer \in {"done", "notDone"}, Finish(r, answer)
  PROVE  FlowInv' /\ UNCHANGED <<tickets, prompts>>
<1> DEFINE f == req[r].flow
<1>1. UNCHANGED <<tickets, prompts>> /\ Goto(r, answer)
  BY DEF Finish
<1>2. ckpt' = [ckpt EXCEPT ![f] = NoCkpt] \/ UNCHANGED ckpt
  BY DEF Finish, MayFail
<1>3. IsCkpt(NoCkpt) /\ \A g : CkptOK(g, NoCkpt, prompts)
  BY NewShape DEF NoCkpt, IsCkpt, CkptOK
<1>4. /\ ckpt' = [g \in Requests |-> ckpt'[g]] /\ \A g \in Requests : IsCkpt(ckpt'[g])
      /\ \A g \in Requests : CkptOK(g, ckpt'[g], prompts)
  BY <1>2, <1>3 DEF FlowInv, Shapes
<1> DEFINE q == [req[r] EXCEPT !.step = answer]
<1>5. req' = [req EXCEPT ![r] = q] /\ IsReq(q) /\ ReqOK(q, prompts)
  <2>1. IsReq(q) /\ q.step = answer
    BY DEF FlowInv, Shapes, IsReq
  <2> QED
    BY <1>1, <2>1, Quiet DEF Goto, FlowInv, Shapes
<1> QED
  BY <1>1, <1>4, <1>5 DEF FlowInv, Shapes

\* A request that goes on with the checkpoint of its flow.
LEMMA ResumeStep ==
  ASSUME FlowInv, NEW r \in Requests, NEW flow \in Requests, NEW prompt, Resume(r, flow, prompt)
  PROVE  FlowInv' /\ UNCHANGED <<tickets, prompts>>
<1> DEFINE step == IF ckpt[flow].stage = "none" THEN "error"
                   ELSE IF ckpt[flow].prompt # prompt THEN "again" ELSE "resume"
<1>1. PICK q : q = [req[r] EXCEPT !.flow = flow, !.stage = ckpt[flow].stage,
                                  !.draft = ckpt[flow].draft, !.answered = prompt, !.step = step]
  OBVIOUS
<1>2. req' = [req EXCEPT ![r] = q] /\ UNCHANGED <<ckpt, tickets, prompts>>
  BY <1>1 DEF Resume, FlowInv, Shapes, stores
<1>3. IsReq(req[r]) /\ IsCkpt(ckpt[flow]) /\ CkptOK(flow, ckpt[flow], prompts)
  BY DEF FlowInv, Shapes
<1>4. IsReq(q)
  BY <1>1, <1>3 DEF IsReq, IsCkpt
<1>5. /\ q.flow = flow /\ q.stage = ckpt[flow].stage /\ q.draft = ckpt[flow].draft
      /\ q.answered = prompt /\ q.step = step
  BY <1>1, <1>3 DEF IsReq
<1>6. ReqOK(q, prompts)
  BY <1>3, <1>5 DEF ReqOK, LoadedOK, SubmitsOK, DecisionOK, CkptOK
<1> QED
  BY <1>2, <1>4, <1>6, OneRequest

\* The texts of a complete draft may be edited, but not removed.
LEMMA EditedIsComplete ==
  ASSUME NEW d, IsDraft(d), Complete(d), NEW s, NEW t, NEW e,
         e = [d EXCEPT !.subject = Or(s, @, {}), !.othersDesc = Or(t, @, {})]
  PROVE  /\ IsDraft(e) /\ Complete(e)
         /\ e.userCode = d.userCode /\ e.priority = d.priority /\ e.serviceLevel = d.serviceLevel
<1>1. /\ e.subject = Or(s, d.subject, {}) /\ e.othersDesc = Or(t, d.othersDesc, {})
      /\ e.userCode = d.userCode /\ e.serviceLevel = d.serviceLevel /\ e.levelConf = d.levelConf
      /\ e.priority = d.priority /\ e.prioConf = d.prioConf
      /\ IsDraft(e)
  BY DEF IsDraft
<1>2. d.subject # {} /\ d.othersDesc # {}
  BY DEF Complete, MissingFields
<1>3. e.subject # {} /\ e.othersDesc # {}
  BY <1>1, <1>2 DEF Or
<1>4. MissingFields(e) = {}
  BY <1>1, <1>3 DEF Complete, MissingFields
<1> QED
  BY <1>1, <1>4 DEF Complete

LEMMA ConfirmStep ==
  ASSUME FlowInv, NEW r \in Requests, Confirm(r)
  PROVE  FlowInv' /\ UNCHANGED <<tickets, prompts>>
<1>1. PICK s, t : \E known \in BOOLEAN :
        LET draft == [req[r].draft EXCEPT !.subject = Or(s, @, {}), !.othersDesc = Or(t, @, {})]
            Then(step) == req' = [req EXCEPT ![r].draft = draft, ![r].step = step]
        IN  Then("finish") \/ Then("prepare")
  BY DEF Confirm, MayFail
<1>2. PICK e : e = [req[r].draft EXCEPT !.subject = Or(s, @, {}), !.othersDesc = Or(t, @, {})]
  OBVIOUS
<1>3. PICK step \in {"finish", "prepare"} :
        req' = [req EXCEPT ![r].draft = e, ![r].step = step]
  BY <1>1, <1>2
<1>4. PICK q : q = [req[r] EXCEPT !.draft = e, !.step = step]
  OBVIOUS
<1>5. IsReq(req[r]) /\ req[r].step = "resume" /\ req[r].stage = "confirm"
  BY DEF FlowInv, Shapes, Confirm
<1>6. Complete(req[r].draft) /\ Shown(prompts, req[r].answered, req[r].flow, "confirm", req[r].draft)
  BY <1>5 DEF FlowInv, ReqOK, LoadedOK, Confirmable
<1>7. /\ IsDraft(e) /\ Complete(e)
      /\ e.userCode = req[r].draft.userCode /\ e.priority = req[r].draft.priority
      /\ e.serviceLevel = req[r].draft.serviceLevel
  <2>1. PICK d : d = req[r].draft
    OBVIOUS
  <2>2. IsDraft(d) /\ Complete(d) /\ e = [d EXCEPT !.subject = Or(s, @, {}), !.othersDesc = Or(t, @, {})]
    BY <1>2, <1>5, <1>6, <2>1 DEF IsReq
  <2>3. /\ IsDraft(e) /\ Complete(e)
        /\ e.userCode = d.userCode /\ e.priority = d.priority /\ e.serviceLevel = d.serviceLevel
    <3>1. e.userCode = d.userCode /\ e.priority = d.priority /\ e.serviceLevel = d.serviceLevel
      BY <2>2 DEF IsDraft
    <3> QED
      BY <2>2, <3>1, EditedIsComplete, Zenon
  <2> QED
    BY <2>1, <2>3
<1>8. /\ IsReq(q) /\ q.draft = e /\ q.step = step
      /\ q.answered = req[r].answered /\ q.flow = req[r].flow
  BY <1>4, <1>5, <1>7 DEF IsReq
<1>9. ReqOK(q, prompts)
  <2>1. PICK p : /\ p \in prompts
                 /\ p = [id |-> req[r].answered, flow |-> req[r].flow, stage |-> "confirm",
                         draft |-> req[r].draft]
    BY <1>6 DEF Shown
  <2>2. Confirmed(q, p)
    BY <1>7, <1>8, <2>1 DEF Confirmed
  <2> QED
    BY <1>7, <1>8, <2>1, <2>2 DEF ReqOK, LoadedOK, SubmitsOK, DecisionOK
<1>10. req' = [req EXCEPT ![r] = q] /\ UNCHANGED <<ckpt, tickets, prompts>>
  <2>1. UNCHANGED <<ckpt, tickets, prompts>>
    BY DEF Confirm, stores
  <2>2. req' = [req EXCEPT ![r] = q]
    BY <1>3, <1>4 DEF FlowInv, Shapes
  <2> QED
    BY <2>1, <2>2
<1> QED
  BY <1>8, <1>9, <1>10, OneRequest

LEMMA PrepareStep ==
  ASSUME FlowInv, NEW r \in Requests, Prepare(r)
  PROVE  FlowInv' /\ UNCHANGED <<tickets, prompts>>
<1> DEFINE Level == req[r].draft.serviceLevel
<1>1. PICK d : /\ req' = [req EXCEPT ![r].step = "post", ![r].decision = d]
               /\ d = None \/ d.level \in {Level, "1"}
  BY DEF Prepare
<1>2. PICK q : q = [req[r] EXCEPT !.step = "post", !.decision = d]
  OBVIOUS
<1>3. IsReq(req[r]) /\ req[r].step = "prepare" /\ ReqOK(req[r], prompts)
  BY DEF FlowInv, Shapes, Prepare
<1>4. /\ IsReq(q) /\ q.step = "post" /\ q.decision = d /\ q.draft = req[r].draft
      /\ q.answered = req[r].answered /\ q.flow = req[r].flow
  BY <1>2, <1>3 DEF IsReq
<1>5. ReqOK(q, prompts)
  BY <1>1, <1>3, <1>4 DEF ReqOK, LoadedOK, SubmitsOK, DecisionOK, Confirmed
<1>6. req' = [req EXCEPT ![r] = q] /\ UNCHANGED <<ckpt, tickets, prompts>>
  BY <1>1, <1>2 DEF Prepare, stores, FlowInv, Shapes
<1> QED
  BY <1>4, <1>5, <1>6, OneRequest

\* An attempt fails: the request tries again with what it had, or gives up.
LEMMA RetryStep ==
  ASSUME FlowInv, NEW r \in Requests, req[r].step = "post", Retry(r), UNCHANGED <<ckpt, prompts>>
  PROVE  FlowInv'
<1>1. PICK q : q = [req[r] EXCEPT !.attempts = @ + 1,
                                  !.step = IF req[r].attempts + 1 < MaxAttempts
                                           THEN "post" ELSE "failed"]
  OBVIOUS
<1>2. IsReq(req[r]) /\ ReqOK(req[r], prompts)
  BY DEF FlowInv, Shapes
<1>3. /\ IsReq(q) /\ q.step \in {"post", "failed"} /\ q.decision = req[r].decision
      /\ q.draft = req[r].draft /\ q.answered = req[r].answered /\ q.flow = req[r].flow
  BY <1>1, <1>2 DEF IsReq
<1>4. ReqOK(q, prompts)
  BY <1>2, <1>3 DEF ReqOK, LoadedOK, SubmitsOK, DecisionOK, Confirmed
<1>5. req' = [req EXCEPT ![r] = q]
  BY <1>1 DEF Retry, FlowInv, Shapes
<1> QED
  BY <1>3, <1>4, <1>5, OneRequest

LEMMA PostStep ==
  ASSUME FlowInv, NEW r \in Requests, Post(r)
  PROVE  FlowInv' /\ prompts' = prompts /\ (MakeTicket(r) \/ tickets' = tickets)
<1>1. req[r].step = "post" /\ UNCHANGED <<ckpt, prompts>>
  BY DEF Post
<1>2. Retry(r) \/ \E step \in {"remember", "record", "failed"} : Goto(r, step)
  BY DEF Post
<1>3. MakeTicket(r) \/ tickets' = tickets
  BY DEF Post
<1> QED
  BY <1>1, <1>2, <1>3, RetryStep, GotoQuiet

-----------------------------------------------------------------------------
(* Theorems *)

LEMMA InitFlow == Init => TicketInv
<1> SUFFICES ASSUME Init PROVE TicketInv
  OBVIOUS
<1>1. IsDraft(NewDraft(""))
  BY NewShape
<1>2. IsReq(NoReq) /\ IsCkpt(NoCkpt) /\ NoReq.step = "new" /\ NoCkpt.stage = "none"
  BY <1>1 DEF NoReq, NoCkpt, IsReq, IsCkpt
<1>3. Shapes
  BY <1>2 DEF Init, Shapes
<1>4. \A f \in Requests : CkptOK(f, ckpt[f], prompts)
  BY <1>2 DEF Init, CkptOK
<1>5. \A r \in Requests : ReqOK(req[r], prompts)
  BY <1>2, Quiet DEF Init
<1> QED
  BY <1>3, <1>4, <1>5 DEF Init, TicketInv, FlowInv, TicketIsComplete, TicketAsShown

LEMMA StepFlow == FlowInv /\ [Next]_vars => FlowInv'
<1> SUFFICES ASSUME FlowInv, [Next]_vars PROVE FlowInv'
  OBVIOUS
<1>1. ASSUME NEW r \in Requests, Query(r) PROVE FlowInv'
  <2>1. PICK user, x, message :
          Interrupt(r, r, StageOf(FillDraft(NewDraft(user), x, message)),
                    FillDraft(NewDraft(user), x, message))
    BY <1>1 DEF Query
  <2> QED
    BY <2>1, NewShape, FillShape, StageConfirmable, InterruptStep
<1>2. ASSUME NEW r \in Requests, AskAgain(r) PROVE FlowInv'
  <2>1. Confirmable(req[r].stage, req[r].draft) /\ IsDraft(req[r].draft)
    BY <1>2 DEF AskAgain, FlowInv, Shapes, IsReq, ReqOK, LoadedOK
  <2> QED
    BY <1>2, <2>1, InterruptStep DEF AskAgain
<1>3. ASSUME NEW r \in Requests, CollectAnswer(r) PROVE FlowInv'
  <2>1. CASE Goto(r, "error") /\ UNCHANGED <<stores, prompts>>
    BY <2>1, GotoQuiet DEF stores
  <2>2. CASE \E x, message :
               Interrupt(r, req[r].flow, StageOf(FillDraft(req[r].draft, x, message)),
                         FillDraft(req[r].draft, x, message))
    <3>1. IsDraft(req[r].draft)
      BY DEF FlowInv, Shapes, IsReq
    <3> QED
      BY <2>2, <3>1, FillShape, StageConfirmable, InterruptStep
  <2> QED
    BY <1>3, <2>1, <2>2 DEF CollectAnswer
<1>4. ASSUME NEW r \in Requests, CancelTicket(r) \/ FinishSubmit(r) PROVE FlowInv'
  BY <1>4, FinishStep DEF CancelTicket, FinishSubmit
<1>5. ASSUME NEW r \in Requests, Record(r) \/ Remember(r) \/ Crash(r) PROVE FlowInv'
  BY <1>5, GotoQuiet DEF Record, Remember, Crash, stores
<1>6. ASSUME NEW f \in Requests, Expire(f) PROVE FlowInv'
  <2>1. UNCHANGED <<req, prompts>> /\ (ckpt' = [ckpt EXCEPT ![f] = NoCkpt] \/ UNCHANGED ckpt)
    BY <1>6 DEF Expire
  <2>2. IsCkpt(NoCkpt) /\ CkptOK(f, NoCkpt, prompts)
    BY NewShape DEF NoCkpt, IsCkpt, CkptOK
  <2> QED
    BY <2>1, <2>2 DEF FlowInv, Shapes
<1>7. CASE UNCHANGED <<ckpt, req, prompts>>
  BY <1>7 DEF FlowInv, Shapes
<1> QED
  BY <1>1, <1>2, <1>3, <1>4, <1>5, <1>6, <1>7, ConfirmStep, PrepareStep, PostStep, ResumeStep
     DEF Next, Step, Tick, vars, stores

\* A ticket is made of a complete draft that was confirmed.
LEMMA StepTickets ==
  TicketInv /\ [Next]_vars => (TicketIsComplete /\ TicketAsShown)'
<1> SUFFICES ASSUME TicketInv, [Next]_vars PROVE (TicketIsComplete /\ TicketAsShown)'
  OBVIOUS
<1>1. CASE tickets' = tickets /\ prompts \subseteq prompts'
  BY <1>1 DEF TicketInv, TicketIsComplete, TicketAsShown
<1>2. ASSUME NEW r \in Requests, Post(r), MakeTicket(r) PROVE (TicketIsComplete /\ TicketAsShown)'
  <2> DEFINE d == req[r].draft
  <2>1. Complete(d) /\ req[r].step = "post" /\ DecisionOK(req[r]) /\ prompts' = prompts
    BY <1>2 DEF TicketInv, FlowInv, ReqOK, SubmitsOK, Post
  <2>2. PICK p \in prompts : Confirmed(req[r], p)
    BY <1>2 DEF TicketInv, FlowInv, ReqOK, SubmitsOK, Post
  <2>3. PICK t : /\ tickets' = tickets \cup {t}
                 /\ t.flow = req[r].flow /\ t.prompt = req[r].answered /\ t.draft = d
                 /\ t.level \in {d.serviceLevel, "1"}
    <3>1. PICK t : /\ tickets' = tickets \cup {t}
                   /\ t = [id |-> <<r, req[r].attempts>>, flow |-> req[r].flow,
                           prompt |-> req[r].answered, draft |-> d,
                           level |-> IF req[r].decision = None THEN d.serviceLevel
                                     ELSE req[r].decision.level,
                           at |-> IF req[r].decision = None THEN clock
                                  ELSE req[r].decision.event.at]
      BY <1>2 DEF MakeTicket
    <3>2. t.level \in {d.serviceLevel, "1"}
      BY <2>1, <3>1 DEF DecisionOK
    <3> QED
      BY <3>1, <3>2
  <2>4. /\ d.subject # {} /\ d.othersDesc # {}
        /\ d.serviceLevel \in {"1", "2", "3", "4"} /\ d.priority \in {"1", "2", "3", "4"}
        /\ \A c \in {d.levelConf, d.prioConf} : c = 0 \/ c >= EnumThreshold
    BY <2>1 DEF Complete, MissingFields, SureEnum
  <2>5. TicketIsComplete'
    BY <2>3, <2>4 DEF TicketInv, TicketIsComplete
  <2>6. TicketAsShown'
    BY <2>1, <2>2, <2>3 DEF TicketInv, TicketAsShown, Confirmed
  <2> QED
    BY <2>5, <2>6
<1>3. ASSUME NEW r \in Requests, Query(r) \/ AskAgain(r) \/ CollectAnswer(r)
      PROVE  tickets' = tickets /\ prompts \subseteq prompts'
  BY <1>3 DEF Query, AskAgain, CollectAnswer, Interrupt, stores
<1>4. ASSUME NEW r \in Requests, CancelTicket(r) \/ FinishSubmit(r)
      PROVE  tickets' = tickets /\ prompts' = prompts
  BY <1>4 DEF CancelTicket, FinishSubmit, Finish
<1>5. ASSUME NEW r \in Requests, Record(r) \/ Remember(r) \/ Crash(r) \/ Expire(r)
      PROVE  tickets' = tickets /\ prompts' = prompts
  BY <1>5 DEF Record, Remember, Crash, Expire, stores
<1>6. FlowInv
  BY DEF TicketInv
<1>7. CASE Tick \/ UNCHANGED vars
  BY <1>1, <1>7 DEF Tick, vars, stores
<1> QED
  BY <1>1, <1>2, <1>3, <1>4, <1>5, <1>6, <1>7, ConfirmStep, PrepareStep, PostStep, ResumeStep
     DEF Next, Step

LEMMA Tickets == Spec => []TicketInv
<1>1. TicketInv /\ [Next]_vars => TicketInv'
  BY StepFlow, StepTickets DEF TicketInv
<1> QED
  BY InitFlow, <1>1, PTL DEF Spec

\* No ticket with anything missing or uncertain, whatever the model extracted and the user
\* edited (agent.go:337-376, extractor.go:24-65).
THEOREM OnlyCompleteTickets == Spec => []TicketIsComplete
<1>1. TicketInv => TicketIsComplete
  BY DEF TicketInv
<1> QED
  BY Tickets, <1>1, PTL

\* A ticket is what its user was shown and confirmed, also when several answers to one flow
\* race (agent.go:214-269).
THEOREM OnlyConfirmedTickets == Spec => []TicketAsShown
<1>1. TicketInv => TicketAsShown
  BY DEF TicketInv
<1> QED
  BY Tickets, <1>1, PTL

-----------------------------------------------------------------------------
(* Incident signals *)

SameIncident(d, e) == d.domain = e.domain /\ d.object = e.object

\* The requests that have not asked for a cluster yet.
Undecided == {"new", "again", "resume", "prepare"}
Deciding(q) == q.step \in {"post", "record"} /\ q.decision # None

\* The events that are recorded, or will be.
Known == signals \cup {req[r].decision.event : r \in {q \in Requests : Deciding(req[q])}}

\* What the events say of domain and object agrees within a cluster, and a cluster that a
\* request names after itself is new.
Clusters ==
  /\ \A d, e \in Known : d.cluster = e.cluster => SameIncident(d, e)
  /\ \A e \in Known : e.object = "other" <=> e.domain = "other"
  /\ \A e \in Known, r \in Requests : e.cluster = r => req[r].step \notin Undecided

\* An event is about a draft, and was counted when a ticket was made of it.
ReportOf(e, draft) ==
  e.user = draft.userCode /\ SameIncident(e, NormalizeSignalEvent(draft, 0))
Made(e, ts) == \E t \in ts : t.at = e.at /\ ReportOf(e, t.draft)
Backers(draft, at, ts) ==
  {o.draft.userCode : o \in {u \in ts : u.at + WindowTicks >= at /\ SameObject(u.draft, draft)}}
Promotes(q, ts) ==
  q.decision.level # q.draft.serviceLevel =>
    MinDistinctUsers <=
      Cardinality({q.draft.userCode} \cup Backers(q.draft, q.decision.event.at, ts))
DecisionBacked(q, ts) ==
  /\ q.step = "record" => q.decision # None /\ Made(q.decision.event, ts)
  /\ Deciding(q) => /\ ReportOf(q.decision.event, q.draft) /\ q.decision.event.at \in Nat
                    /\ Promotes(q, ts)
Backed ==
  /\ IsFiniteSet(tickets) /\ clock \in Nat
  /\ \A e \in signals : Made(e, tickets)
  /\ \A r \in Requests : DecisionBacked(req[r], tickets)
  /\ EscalationIsBacked

SignalInv == FlowInv /\ Clusters /\ Backed

\* An object is unknown exactly when its domain is.
LEMMA OtherObject ==
  ASSUME NEW text, NEW domain
  PROVE  DetectSignalObject(text, domain) = "other" <=> domain = "other"
<1>1. ASSUME NEW a, NEW b, NEW c, NEW w
      PROVE  FirstMatch(text, <<a, b, c>>, w) \in {a[2], b[2], c[2], w}
  <2> DEFINE rules == <<a, b, c>>
             hits == {i \in 1..3 : ContainsAny(text, rules[i][1])}
             first == CHOOSE i \in hits : \A j \in hits : i <= j
  <2>1. FirstMatch(text, rules, w) = IF hits = {} THEN w ELSE rules[first][2]
    <3>1. DOMAIN rules = 1..3
      OBVIOUS
    <3> QED
      BY <3>1 DEF FirstMatch
  <2>2. ASSUME hits # {} PROVE first \in 1..3
    <3>1. \E i \in hits : \A j \in hits : i <= j
      <4>1. hits \subseteq {1, 2, 3}
        OBVIOUS
      <4> HIDE DEF hits
      <4>2. CASE 1 \in hits
        BY <4>1, <4>2
      <4>3. CASE 1 \notin hits /\ 2 \in hits
        BY <4>1, <4>3
      <4>4. CASE hits = {3}
        BY <4>4
      <4> QED
        BY <2>2, <4>1, <4>2, <4>3, <4>4
    <3> HIDE DEF hits
    <3>2. first \in hits
      BY <3>1
    <3> QED
      BY <3>2 DEF hits
  <2> QED
    BY <2>1, <2>2
<1>2. ASSUME NEW a, NEW w
      PROVE  FirstMatch(text, <<a>>, w) \in {a[2], w}
  <2> DEFINE rules == <<a>>
             hits == {i \in {1} : ContainsAny(text, rules[i][1])}
  <2>1. FirstMatch(text, rules, w) =
          IF hits = {} THEN w ELSE rules[CHOOSE i \in hits : \A j \in hits : i <= j][2]
    <3>1. DOMAIN rules = {1}
      OBVIOUS
    <3> QED
      BY <3>1 DEF FirstMatch
  <2>2. hits = {} \/ hits = {1}
    OBVIOUS
  <2>3. ASSUME hits = {1} PROVE (CHOOSE i \in hits : \A j \in hits : i <= j) = 1
    <3> HIDE DEF hits
    <3>1. \E i \in hits : \A j \in hits : i <= j
      BY <2>3
    <3>2. (CHOOSE i \in hits : \A j \in hits : i <= j) \in hits
      BY <3>1
    <3> QED
      BY <2>3, <3>2
  <2> QED
    BY <2>1, <2>2, <2>3
<1>3. CASE domain = "network"
  <2>1. DetectSignalObject(text, domain) \in {"wifi", "web", "vpn", "network"}
    BY <1>1, <1>3 DEF DetectSignalObject
  <2> QED
    BY <1>3, <2>1
<1>4. CASE domain = "account"
  BY <1>2, <1>4 DEF DetectSignalObject
<1>5. CASE domain = "meeting"
  BY <1>2, <1>5 DEF DetectSignalObject
<1> QED
  BY <1>3, <1>4, <1>5 DEF DetectSignalObject

LEMMA NewReport ==
  ASSUME NEW draft, NEW now, NEW c, NEW e,
         e = [NormalizeSignalEvent(draft, now) EXCEPT !.cluster = c]
  PROVE  /\ ReportOf(e, draft) /\ e.at = now /\ e.cluster = c
         /\ e.object = "other" <=> e.domain = "other"
         /\ SameIncident(e, NormalizeSignalEvent(draft, now))
<1> DEFINE text   == draft.subject \cup draft.othersDesc
           domain == DetectSignalDomain(text)
<1>1. /\ e.user = draft.userCode /\ e.domain = domain /\ e.at = now /\ e.cluster = c
      /\ e.object = DetectSignalObject(text, domain)
  BY DEF NormalizeSignalEvent
<1>2. \A at : /\ NormalizeSignalEvent(draft, at).domain = domain
              /\ NormalizeSignalEvent(draft, at).object = DetectSignalObject(text, domain)
  BY DEF NormalizeSignalEvent
<1> QED
  BY <1>1, <1>2, OtherObject DEF ReportOf, SameIncident

LEMMA BackersAreFinite ==
  ASSUME NEW draft, NEW at, NEW ts, IsFiniteSet(ts)
  PROVE  IsFiniteSet(Backers(draft, at, ts))
<1> DEFINE S == {u \in ts : u.at + WindowTicks >= at /\ SameObject(u.draft, draft)}
           T == {o.draft.userCode : o \in S}
           f == [o \in S |-> o.draft.userCode]
<1>1. IsFiniteSet(S)
  BY FS_Subset
<1>2. f \in Surjection(S, T)
  BY DEF Surjection
<1>3. IsFiniteSet(T)
  BY <1>1, <1>2, FS_Surjection
<1> QED
  BY <1>3 DEF Backers

\* Tickets are only added, and so is what backs a decision.
LEMMA MoreTickets ==
  ASSUME NEW ts, NEW more, ts \subseteq more, IsFiniteSet(more)
  PROVE  /\ \A e : Made(e, ts) => Made(e, more)
         /\ \A draft, at : MinDistinctUsers <= Cardinality(Backers(draft, at, ts)) =>
                             MinDistinctUsers <= Cardinality(Backers(draft, at, more))
         /\ \A q : DecisionBacked(q, ts) => DecisionBacked(q, more)
<1>1. \A e : Made(e, ts) => Made(e, more)
  BY DEF Made
<1>2. ASSUME NEW A, NEW B, A \subseteq B, IsFiniteSet(B), MinDistinctUsers <= Cardinality(A)
      PROVE  MinDistinctUsers <= Cardinality(B)
  <2>1. Cardinality(A) <= Cardinality(B) /\ IsFiniteSet(A)
    BY <1>2, FS_Subset
  <2>2. Cardinality(A) \in Nat /\ Cardinality(B) \in Nat /\ MinDistinctUsers \in Nat
    BY <1>2, <2>1, FS_CardinalityType, SignalAssumption
  <2> QED
    BY <1>2, <2>1, <2>2
<1>3. ASSUME NEW draft, NEW at
      PROVE  Backers(draft, at, ts) \subseteq Backers(draft, at, more)
  BY DEF Backers
<1>4. ASSUME NEW draft, NEW at
      PROVE  MinDistinctUsers <= Cardinality(Backers(draft, at, ts)) =>
               MinDistinctUsers <= Cardinality(Backers(draft, at, more))
  BY <1>2, <1>3, BackersAreFinite
<1>5. ASSUME NEW q, Promotes(q, ts) PROVE Promotes(q, more)
  <2> DEFINE u == q.draft.userCode
             at == q.decision.event.at
  <2>1. ({u} \cup Backers(q.draft, at, ts)) \subseteq ({u} \cup Backers(q.draft, at, more))
    BY <1>3
  <2>2. IsFiniteSet({u} \cup Backers(q.draft, at, more))
    BY BackersAreFinite, FS_Singleton, FS_Union
  <2> QED
    BY <1>2, <1>5, <2>1, <2>2 DEF Promotes
<1>6. \A q : DecisionBacked(q, ts) => DecisionBacked(q, more)
  BY <1>1, <1>5 DEF DecisionBacked
<1> QED
  BY <1>1, <1>4, <1>6

\* A step of a request that takes no decision, and records nothing.
LEMMA KeptDecision ==
  ASSUME SignalInv, NEW r \in Requests, NEW q, req' = [req EXCEPT ![r] = q],
         Deciding(q) => Deciding(req[r]) /\ q.decision = req[r].decision /\ q.draft = req[r].draft,
         q.step = "record" => q.decision # None /\ Made(q.decision.event, tickets'),
         req[r].step \notin Undecided => q.step \notin Undecided,
         tickets \subseteq tickets', IsFiniteSet(tickets'), EscalationIsBacked',
         UNCHANGED <<signals, clock>>
  PROVE  (Clusters /\ Backed)'
<1>1. \A n \in Requests : req'[n] = IF n = r THEN q ELSE req[n]
  BY DEF SignalInv, FlowInv, Shapes
<1>2. Known' \subseteq Known
  BY <1>1 DEF Known
<1>3. Clusters'
  BY <1>1, <1>2 DEF SignalInv, Clusters
<1>4. \A n \in Requests : DecisionBacked(req[n], tickets')
  BY MoreTickets DEF SignalInv, Backed
<1>5. DecisionBacked(q, tickets')
  BY <1>4 DEF DecisionBacked, Promotes
<1>6. \A n \in Requests : DecisionBacked(req'[n], tickets')
  BY <1>1, <1>4, <1>5
<1>7. clock' \in Nat /\ \A e \in signals' : Made(e, tickets')
  BY MoreTickets DEF SignalInv, Backed
<1> QED
  BY <1>3, <1>6, <1>7 DEF Backed

LEMMA NoDecision ==
  ASSUME SignalInv, NEW r \in Requests, NEW q, req' = [req EXCEPT ![r] = q],
         ~Deciding(q), q.step # "record",
         req[r].step \notin Undecided => q.step \notin Undecided,
         UNCHANGED <<signals, tickets, clock>>
  PROVE  (Clusters /\ Backed)'
<1>1. EscalationIsBacked' /\ tickets \subseteq tickets' /\ IsFiniteSet(tickets')
  BY DEF SignalInv, Backed, EscalationIsBacked
<1> QED
  BY <1>1, KeptDecision

\* A decision is taken, on the events that were read.
LEMMA NewDecision ==
  ASSUME SignalInv, NEW r \in Requests, NEW q, req' = [req EXCEPT ![r] = q],
         q.step = "post", q.decision # None, DecisionBacked(q, tickets),
         NEW e, e = q.decision.event, e.object = "other" <=> e.domain = "other",
         \A d \in Known : d.cluster = e.cluster => SameIncident(d, e),
         \A n \in Requests \ {r} : e.cluster = n => req[n].step \notin Undecided,
         UNCHANGED <<signals, tickets, clock>>
  PROVE  (Clusters /\ Backed)'
<1>1. \A n \in Requests : req'[n] = IF n = r THEN q ELSE req[n]
  BY DEF SignalInv, FlowInv, Shapes
<1>2. Known' \subseteq Known \cup {e}
  BY <1>1 DEF Known
<1>3. Clusters'
  <2>1. \A d, f \in Known \cup {e} : d.cluster = f.cluster => SameIncident(d, f)
    BY DEF SignalInv, Clusters, SameIncident
  <2>2. \A n \in Requests : req'[n].step \in Undecided => n # r /\ req[n].step \in Undecided
    BY <1>1 DEF Undecided
  <2>3. ASSUME NEW d \in Known \cup {e}, NEW n \in Requests, d.cluster = n
        PROVE  req'[n].step \notin Undecided
    BY <2>2, <2>3 DEF SignalInv, Clusters
  <2>4. \A d \in Known \cup {e} : d.object = "other" <=> d.domain = "other"
    BY DEF SignalInv, Clusters
  <2> QED
    BY <1>2, <2>1, <2>3, <2>4 DEF Clusters
<1>4. \A n \in Requests : DecisionBacked(req'[n], tickets)
  BY <1>1 DEF SignalInv, Backed
<1>5. EscalationIsBacked'
  BY DEF SignalInv, Backed, EscalationIsBacked
<1> QED
  BY <1>3, <1>4, <1>5 DEF SignalInv, Backed

\* A promotion counts users of one incident: the events of the cluster are about one, which
\* is that of the draft, and each of them has its ticket.
LEMMA SummaryIsBacked ==
  ASSUME SignalInv, NEW draft, NEW cluster, NEW recent \in LoadRecentEvents(signals, clock),
         NEW current, current = NormalizeSignalEvent(draft, clock),
         \A d \in Known : d.cluster = cluster => SameIncident(d, current),
         ShouldPromoteP1(draft.serviceLevel, SummarizeCluster(cluster, recent, current))
  PROVE  MinDistinctUsers <=
           Cardinality({draft.userCode} \cup Backers(draft, clock, tickets))
<1> DEFINE group == {e \in recent : e.cluster = cluster} \cup {current}
           users == {e.user : e \in {d \in group : d.user # ""}}
           all   == {draft.userCode} \cup Backers(draft, clock, tickets)
<1>1. MinDistinctUsers <= Cardinality(users)
  BY DEF ShouldPromoteP1, SummarizeCluster
<1>2. recent \subseteq signals /\ \A e \in recent : e.at + WindowTicks >= clock
  BY DEF LoadRecentEvents
<1>3. ASSUME NEW e \in recent, e.cluster = cluster
      PROVE  e.user \in Backers(draft, clock, tickets)
  <2>1. PICK t \in tickets : t.at = e.at /\ ReportOf(e, t.draft)
    BY <1>2 DEF SignalInv, Backed, Made
  <2>2. SameIncident(e, current) /\ e.at + WindowTicks >= clock
    BY <1>2, <1>3 DEF Known
  <2>3. SameIncident(current, NormalizeSignalEvent(draft, 0))
    BY DEF NormalizeSignalEvent, SameIncident
  <2>4. SameObject(t.draft, draft)
    BY <2>1, <2>2, <2>3 DEF ReportOf, SameIncident, SameObject
  <2> QED
    BY <2>1, <2>2, <2>4 DEF Backers, ReportOf
<1>4. current.user = draft.userCode
  BY DEF NormalizeSignalEvent
<1>5. users \subseteq all
  BY <1>3, <1>4
<1>6. IsFiniteSet(all)
  BY BackersAreFinite, FS_Singleton, FS_Union DEF SignalInv, Backed
<1>7. IsFiniteSet(users) /\ Cardinality(users) <= Cardinality(all)
  BY <1>5, <1>6, FS_Subset
<1>8. Cardinality(users) \in Nat /\ Cardinality(all) \in Nat /\ MinDistinctUsers \in Nat
  BY <1>6, <1>7, FS_CardinalityType, SignalAssumption
<1>9. MinDistinctUsers <= Cardinality(all)
  <2> HIDE DEF users, all
  <2> QED
    BY <1>1, <1>7, <1>8
<1> QED
  BY <1>9

\* The cluster of a new event is about its incident.
LEMMA ClusterFits ==
  ASSUME SignalInv, NEW r \in Requests, req[r].step \in Undecided,
         NEW recent \in LoadRecentEvents(signals, clock), NEW draft, NEW current,
         current = NormalizeSignalEvent(draft, clock),
         NEW cluster \in Or(MatchCluster(current, recent), {r}, {})
  PROVE  /\ \A d \in Known : d.cluster = cluster => SameIncident(d, current)
         /\ \A n \in Requests \ {r} : cluster = n => req[n].step \notin Undecided
<1>1. recent \subseteq signals
  BY DEF LoadRecentEvents
<1>2. CASE cluster = r
  BY <1>2 DEF SignalInv, Clusters
<1>3. CASE cluster \in MatchCluster(current, recent)
  <2>1. PICK c \in recent : c.cluster = cluster /\ SameCoarseGroup(current, c)
    BY <1>3 DEF MatchCluster
  <2>2. c \in Known
    BY <1>1 DEF Known
  <2>3. current.object = "other" <=> current.domain = "other"
    BY OtherObject DEF NormalizeSignalEvent
  <2>4. SameIncident(c, current)
    BY <2>1, <2>2, <2>3 DEF SameCoarseGroup, AgreeOn, SameIncident, SignalInv, Clusters
  <2> QED
    BY <2>1, <2>2, <2>4 DEF SignalInv, Clusters, SameIncident
<1> QED
  BY <1>2, <1>3 DEF Or

LEMMA PrepareSignals ==
  ASSUME SignalInv, NEW r \in Requests, Prepare(r)
  PROVE  (Clusters /\ Backed)'
<1> DEFINE draft == req[r].draft
           current == NormalizeSignalEvent(draft, clock)
<1>1. /\ req[r].step = "prepare" /\ IsReq(req[r])
      /\ UNCHANGED <<signals, tickets, clock>>
  BY DEF Prepare, stores, SignalInv, FlowInv, Shapes
<1>2. ASSUME NEW d, req' = [req EXCEPT ![r].step = "post", ![r].decision = d]
      PROVE  \E q : /\ req' = [req EXCEPT ![r] = q] /\ q.step = "post" /\ q.decision = d
                    /\ q.draft = draft
  <2>1. PICK q : q = [req[r] EXCEPT !.step = "post", !.decision = d]
    OBVIOUS
  <2>2. q.step = "post" /\ q.decision = d /\ q.draft = draft
    BY <1>1, <2>1 DEF IsReq
  <2>3. req' = [req EXCEPT ![r] = q]
    BY <1>2, <2>1 DEF SignalInv, FlowInv, Shapes
  <2> QED
    BY <2>2, <2>3
<1>3. CASE req' = [req EXCEPT ![r].step = "post", ![r].decision = None]
  <2>1. PICK q : req' = [req EXCEPT ![r] = q] /\ q.step = "post" /\ q.decision = None
    BY <1>2, <1>3
  <2>2. ~Deciding(q) /\ q.step # "record" /\ q.step \notin Undecided
    BY <2>1 DEF Deciding, Undecided
  <2> QED
    BY <1>1, <2>1, <2>2, NoDecision
<1>4. ASSUME NEW recent \in LoadRecentEvents(signals, clock),
             NEW cluster \in Or(MatchCluster(current, recent), {r}, {}),
             NEW e, e = [current EXCEPT !.cluster = cluster],
             NEW level,
             level = IF ShouldPromoteP1(draft.serviceLevel,
                                        SummarizeCluster(cluster, recent, current))
                     THEN "1" ELSE draft.serviceLevel,
             NEW d, d = [event |-> e, level |-> level],
             req' = [req EXCEPT ![r].step = "post", ![r].decision = d]
      PROVE  (Clusters /\ Backed)'
  <2>1. PICK q : /\ req' = [req EXCEPT ![r] = q] /\ q.step = "post" /\ q.decision = d
                 /\ q.draft = draft
    <3>1. req' = [req EXCEPT ![r].step = "post", ![r].decision = d]
      BY <1>4
    <3> QED
      BY <1>2, <3>1, Zenon
  <2>2. CASE d = None
    <3>1. ~Deciding(q) /\ q.step # "record" /\ q.step \notin Undecided
      BY <2>1, <2>2 DEF Deciding, Undecided
    <3> QED
      BY <1>1, <2>1, <3>1, NoDecision
  <2>3. /\ ReportOf(e, draft) /\ e.at = clock /\ e.cluster = cluster
        /\ e.object = "other" <=> e.domain = "other"
        /\ SameIncident(e, current)
    <3>1. e = [NormalizeSignalEvent(draft, clock) EXCEPT !.cluster = cluster]
      BY <1>4
    <3>2. PICK k : k = draft
      OBVIOUS
    <3>3. e = [NormalizeSignalEvent(k, clock) EXCEPT !.cluster = cluster]
      BY <3>1, <3>2
    <3>4. /\ ReportOf(e, k) /\ e.at = clock /\ e.cluster = cluster
          /\ e.object = "other" <=> e.domain = "other"
          /\ SameIncident(e, NormalizeSignalEvent(k, clock))
      <4>1. ReportOf(e, k)
        BY <3>3, NewReport
      <4>2. e.at = clock /\ e.cluster = cluster
        BY <3>3 DEF NormalizeSignalEvent
      <4>3. e.object = "other" <=> e.domain = "other"
        BY <3>3, OtherObject DEF NormalizeSignalEvent
      <4>4. SameIncident(e, NormalizeSignalEvent(k, clock))
        BY <3>3, NewReport
      <4> QED
        BY <4>1, <4>2, <4>3, <4>4
    <3> QED
      BY <3>2, <3>4
  <2>4. /\ \A k \in Known : k.cluster = cluster => SameIncident(k, current)
        /\ \A n \in Requests \ {r} : cluster = n => req[n].step \notin Undecided
    BY <1>1, <1>4, ClusterFits DEF Undecided
  <2>5. q.decision.event = e /\ q.decision.level = level /\ clock \in Nat
    BY <1>4, <2>1 DEF SignalInv, Backed
  <2>6. Promotes(q, tickets)
    <3>1. SUFFICES ASSUME level # draft.serviceLevel
                   PROVE  MinDistinctUsers <=
                            Cardinality({draft.userCode} \cup Backers(draft, clock, tickets))
      BY <2>1, <2>3, <2>5 DEF Promotes
    <3>2. ShouldPromoteP1(draft.serviceLevel, SummarizeCluster(cluster, recent, current))
      BY <1>4, <3>1
    <3> QED
      BY <1>4, <2>4, <3>2, SummaryIsBacked
  <2>7. DecisionBacked(q, tickets)
    BY <2>1, <2>3, <2>5, <2>6 DEF DecisionBacked
  <2>8. \A k \in Known : k.cluster = e.cluster => SameIncident(k, e)
    BY <2>3, <2>4 DEF SameIncident
  <2>9. CASE d # None
    <3>1. q.decision # None
      BY <2>1, <2>9
    <3> QED
      BY <1>1, <2>1, <2>3, <2>4, <2>5, <2>7, <2>8, <3>1, NewDecision
  <2> QED
    BY <2>2, <2>9
<1>5. ASSUME NEW recent \in LoadRecentEvents(signals, clock),
             NEW cluster \in Or(MatchCluster(current, recent), {r}, {}),
             LET summary == SummarizeCluster(cluster, recent, current)
                 level == IF ShouldPromoteP1(draft.serviceLevel, summary)
                          THEN "1" ELSE draft.serviceLevel
             IN  req' = [req EXCEPT
                   ![r].step = "post",
                   ![r].decision = [event |-> [current EXCEPT !.cluster = cluster],
                                    level |-> level]]
      PROVE  (Clusters /\ Backed)'
  <2>1. PICK e : e = [current EXCEPT !.cluster = cluster]
    OBVIOUS
  <2>2. PICK level : level = IF ShouldPromoteP1(draft.serviceLevel,
                                                SummarizeCluster(cluster, recent, current))
                             THEN "1" ELSE draft.serviceLevel
    OBVIOUS
  <2>3. PICK d : d = [event |-> e, level |-> level]
    OBVIOUS
  <2>4. req' = [req EXCEPT ![r].step = "post", ![r].decision = d]
    BY <1>5, <2>1, <2>2, <2>3
  <2> HIDE DEF current, draft
  <2> QED
    BY <1>4, <2>1, <2>2, <2>3, <2>4
<1> QED
  BY <1>3, <1>5 DEF Prepare

\* A ticket is made: of what the request decided.
LEMMA TicketBacked ==
  ASSUME SignalInv, NEW r \in Requests, req[r].step = "post", MakeTicket(r)
  PROVE  /\ IsFiniteSet(tickets') /\ tickets \subseteq tickets' /\ EscalationIsBacked'
         /\ req[r].decision # None => Made(req[r].decision.event, tickets')
<1> DEFINE d == req[r].decision
           draft == req[r].draft
           at == IF d = None THEN clock ELSE d.event.at
<1>1. PICK t : /\ tickets' = tickets \cup {t} /\ t.draft = draft /\ t.at = at
               /\ t.level = IF d = None THEN draft.serviceLevel ELSE d.level
  <2>1. PICK t : /\ tickets' = tickets \cup {t}
                 /\ t = [id |-> <<r, req[r].attempts>>, flow |-> req[r].flow,
                         prompt |-> req[r].answered, draft |-> draft,
                         level |-> IF d = None THEN draft.serviceLevel ELSE d.level, at |-> at]
    BY DEF MakeTicket
  <2>2. t.draft = draft /\ t.at = at /\ t.level = IF d = None THEN draft.serviceLevel ELSE d.level
    BY <2>1
  <2> QED
    BY <2>1, <2>2
<1>2. IsFiniteSet(tickets') /\ tickets \subseteq tickets'
  BY <1>1, FS_AddElement DEF SignalInv, Backed
<1>3. DecisionBacked(req[r], tickets)
  BY DEF SignalInv, Backed
<1>4. at \in Nat
  BY <1>3 DEF DecisionBacked, Deciding, SignalInv, Backed
<1>5. draft.userCode \in Backers(draft, at, tickets')
  <2>1. t.at + WindowTicks >= at
    BY <1>1, <1>4, SignalAssumption
  <2>2. SameObject(t.draft, draft)
    BY <1>1 DEF SameObject
  <2> QED
    BY <1>1, <2>1, <2>2 DEF Backers
<1>6. ASSUME t.level # draft.serviceLevel
      PROVE  MinDistinctUsers <= Cardinality(Backers(draft, at, tickets'))
  <2>1. d # None /\ DecisionBacked(req[r], tickets')
    BY <1>1, <1>2, <1>3, <1>6, MoreTickets
  <2>2. MinDistinctUsers <= Cardinality({draft.userCode} \cup Backers(draft, at, tickets'))
    BY <1>1, <1>6, <2>1 DEF DecisionBacked, Deciding, Promotes
  <2>3. ({draft.userCode} \cup Backers(draft, at, tickets')) = Backers(draft, at, tickets')
    BY <1>5
  <2> QED
    BY <2>2, <2>3
<1>7. ASSUME NEW o \in tickets', o.level # o.draft.serviceLevel
      PROVE  MinDistinctUsers <= Cardinality(Backers(o.draft, o.at, tickets'))
  <2>1. CASE o \in tickets
    <3>1. MinDistinctUsers <= Cardinality(Backers(o.draft, o.at, tickets))
      BY <1>7, <2>1 DEF SignalInv, Backed, EscalationIsBacked, Backers
    <3> QED
      BY <1>2, <3>1, MoreTickets
  <2>2. CASE o = t
    BY <1>1, <1>6, <1>7, <2>2
  <2> QED
    BY <1>1, <2>1, <2>2
<1>8. EscalationIsBacked'
  BY <1>7 DEF EscalationIsBacked, Backers
<1>9. d # None => Made(d.event, tickets')
  BY <1>1, <1>3 DEF DecisionBacked, Deciding, Made
<1> QED
  BY <1>2, <1>8, <1>9

LEMMA GotoStep ==
  ASSUME Shapes, NEW r \in Requests, NEW step, Goto(r, step)
  PROVE  \E q : /\ req' = [req EXCEPT ![r] = q] /\ q.step = step
                /\ q.decision = req[r].decision /\ q.draft = req[r].draft
                /\ q.flow = req[r].flow /\ q.attempts = req[r].attempts
<1>1. PICK q : q = [req[r] EXCEPT !.step = step]
  OBVIOUS
<1>2. req' = [req EXCEPT ![r] = q]
  BY <1>1 DEF Goto, Shapes
<1>3. /\ q.step = step /\ q.decision = req[r].decision /\ q.draft = req[r].draft
      /\ q.flow = req[r].flow /\ q.attempts = req[r].attempts
  BY <1>1 DEF Shapes, IsReq
<1> QED
  BY <1>2, <1>3

LEMMA RetryShape ==
  ASSUME Shapes, NEW r \in Requests, Retry(r)
  PROVE  \E q : /\ req' = [req EXCEPT ![r] = q]
                /\ q.step = IF req[r].attempts + 1 < MaxAttempts THEN "post" ELSE "failed"
                /\ q.decision = req[r].decision /\ q.draft = req[r].draft
                /\ q.flow = req[r].flow /\ q.attempts = req[r].attempts + 1
<1>1. PICK q : q = [req[r] EXCEPT !.attempts = @ + 1,
                                  !.step = IF req[r].attempts + 1 < MaxAttempts
                                           THEN "post" ELSE "failed"]
  OBVIOUS
<1>2. req' = [req EXCEPT ![r] = q]
  BY <1>1 DEF Retry, Shapes
<1>3. /\ q.step = IF req[r].attempts + 1 < MaxAttempts THEN "post" ELSE "failed"
      /\ q.decision = req[r].decision /\ q.draft = req[r].draft
      /\ q.flow = req[r].flow /\ q.attempts = req[r].attempts + 1
  BY <1>1 DEF Shapes, IsReq
<1> QED
  BY <1>2, <1>3

\* An attempt to make the ticket: the request goes on with its decision, or has done with it.
LEMMA PostCases ==
  ASSUME Shapes, NEW r \in Requests, Post(r)
  PROVE  /\ MakeTicket(r) \/ tickets' = tickets
         /\ \E q : /\ req' = [req EXCEPT ![r] = q]
                   /\ q.step \in {"post", "remember", "record", "failed"}
                   /\ q.step = "record" => q.decision # None /\ MakeTicket(r)
                   /\ q.decision = req[r].decision /\ q.draft = req[r].draft
                   /\ q.flow = req[r].flow
<1>1. MakeTicket(r) \/ tickets' = tickets
  BY DEF Post
<1>2. CASE Retry(r)
  BY <1>1, <1>2, RetryShape
<1>3. CASE Goto(r, "failed")
  BY <1>1, <1>3, GotoStep
<1>4. CASE MakeTicket(r) /\ Goto(r, IF req[r].decision = None THEN "remember" ELSE "record")
  BY <1>1, <1>4, GotoStep
<1> QED
  BY <1>2, <1>3, <1>4 DEF Post

LEMMA PostSignals ==
  ASSUME SignalInv, NEW r \in Requests, Post(r)
  PROVE  (Clusters /\ Backed)'
<1>1. req[r].step = "post" /\ UNCHANGED <<signals, clock>> /\ Shapes
  BY DEF Post, SignalInv, FlowInv
<1>2. /\ IsFiniteSet(tickets') /\ tickets \subseteq tickets' /\ EscalationIsBacked'
      /\ MakeTicket(r) /\ req[r].decision # None => Made(req[r].decision.event, tickets')
  <2>1. CASE MakeTicket(r)
    BY <1>1, <2>1, TicketBacked
  <2>2. CASE tickets' = tickets /\ ~MakeTicket(r)
    BY <2>2 DEF SignalInv, Backed, EscalationIsBacked
  <2> QED
    BY <1>1, <2>1, <2>2, PostCases
<1>3. PICK q : /\ req' = [req EXCEPT ![r] = q]
               /\ q.step \in {"post", "remember", "record", "failed"}
               /\ q.step = "record" => q.decision # None /\ MakeTicket(r)
               /\ q.decision = req[r].decision /\ q.draft = req[r].draft
  BY <1>1, PostCases
<1>4. Deciding(q) => Deciding(req[r])
  BY <1>1, <1>3 DEF Deciding
<1>5. q.step \notin Undecided
  BY <1>3 DEF Undecided
<1>6. q.step = "record" => q.decision # None /\ Made(q.decision.event, tickets')
  BY <1>2, <1>3
<1> QED
  BY <1>1, <1>2, <1>3, <1>4, <1>5, <1>6, KeptDecision

LEMMA RecordSignals ==
  ASSUME SignalInv, NEW r \in Requests, Record(r)
  PROVE  (Clusters /\ Backed)'
<1> DEFINE e == req[r].decision.event
<1>1. PICK q : /\ req' = [req EXCEPT ![r] = q] /\ q.step = "remember"
               /\ q.decision = req[r].decision /\ q.draft = req[r].draft
  <2>1. Goto(r, "remember") /\ Shapes
    BY DEF Record, SignalInv, FlowInv
  <2> QED
    BY <2>1, GotoStep
<1>2. \A n \in Requests : req'[n] = IF n = r THEN q ELSE req[n]
  BY <1>1 DEF SignalInv, FlowInv, Shapes
<1>3. /\ req[r].step = "record" /\ UNCHANGED <<tickets, clock>>
      /\ signals' \subseteq signals \cup {e}
  BY DEF Record, MayFail, RecordEvent
<1>4. Deciding(req[r]) /\ Made(e, tickets)
  BY <1>3 DEF SignalInv, Backed, DecisionBacked, Deciding
<1>5. Known' \subseteq Known
  <2>1. e \in Known
    BY <1>4 DEF Known
  <2>2. \A n \in Requests : Deciding(req'[n]) => Deciding(req[n]) /\ req'[n] = req[n]
    BY <1>1, <1>2 DEF Deciding
  <2> QED
    BY <1>3, <2>1, <2>2 DEF Known
<1>6. Clusters'
  <2>1. \A n \in Requests : req'[n].step \in Undecided => req[n].step \in Undecided
    BY <1>1, <1>2 DEF Undecided
  <2> QED
    BY <1>5, <2>1 DEF SignalInv, Clusters
<1>7. DecisionBacked(q, tickets)
  BY <1>1 DEF DecisionBacked, Deciding
<1>8. \A n \in Requests : DecisionBacked(req'[n], tickets)
  BY <1>2, <1>7 DEF SignalInv, Backed
<1>9. \A d \in signals' : Made(d, tickets)
  BY <1>3, <1>4 DEF SignalInv, Backed
<1>10. EscalationIsBacked'
  BY <1>3 DEF SignalInv, Backed, EscalationIsBacked
<1> QED
  BY <1>3, <1>6, <1>8, <1>9, <1>10 DEF SignalInv, Backed

\* The steps that neither decide nor make nor record: where a request may go.
LEMMA OtherSteps ==
  ASSUME Shapes, NEW r \in Requests,
         \/ Query(r) \/ AskAgain(r) \/ CancelTicket(r) \/ CollectAnswer(r) \/ Confirm(r)
         \/ Remember(r) \/ FinishSubmit(r) \/ Crash(r)
         \/ \E flow, prompt \in Requests : Resume(r, flow, prompt)
  PROVE  /\ UNCHANGED <<signals, tickets, clock>>
         /\ \E q : /\ req' = [req EXCEPT ![r] = q] /\ q.step \notin {"post", "record"}
                   /\ req[r].step \notin Undecided => q.step \notin Undecided
<1>1. ASSUME NEW flow, NEW stage, NEW draft, Interrupt(r, flow, stage, draft)
      PROVE  \E q : req' = [req EXCEPT ![r] = q] /\ q.step = "asked"
  <2>1. PICK q : q = [req[r] EXCEPT !.step = "asked", !.flow = flow]
    OBVIOUS
  <2>2. q.step = "asked"
    BY <2>1 DEF Shapes, IsReq
  <2>3. req' = [req EXCEPT ![r] = q]
    BY <1>1, <2>1 DEF Interrupt, Shapes
  <2> QED
    BY <2>2, <2>3
<1>2. CASE Query(r) \/ AskAgain(r) \/ CollectAnswer(r)
  <2>1. UNCHANGED <<signals, tickets, clock>>
    BY <1>2 DEF Query, AskAgain, CollectAnswer, Interrupt, stores
  <2>2. (\E flow, stage, draft : Interrupt(r, flow, stage, draft)) \/ Goto(r, "error")
    BY <1>2 DEF Query, AskAgain, CollectAnswer
  <2>3. \E q : req' = [req EXCEPT ![r] = q] /\ q.step \in {"asked", "error"}
    BY <1>1, <2>2, GotoStep
  <2> QED
    BY <2>1, <2>3 DEF Undecided
<1>3. CASE CancelTicket(r) \/ Remember(r) \/ FinishSubmit(r) \/ Crash(r)
  <2>1. UNCHANGED <<signals, tickets, clock>>
    BY <1>3 DEF CancelTicket, Remember, FinishSubmit, Finish, Crash, stores
  <2>2. \E step \in {"notDone", "done", "finish", "crashed"} : Goto(r, step)
    BY <1>3 DEF CancelTicket, Remember, FinishSubmit, Finish, Crash
  <2>3. \E q : req' = [req EXCEPT ![r] = q] /\ q.step \in {"notDone", "done", "finish", "crashed"}
    BY <2>2, GotoStep
  <2> QED
    BY <2>1, <2>3 DEF Undecided
<1>4. CASE Confirm(r)
  <2>1. req[r].step = "resume" /\ UNCHANGED <<signals, tickets, clock>>
    BY <1>4 DEF Confirm, stores
  <2>2. PICK e, step : /\ step \in {"finish", "prepare"}
                       /\ req' = [req EXCEPT ![r].draft = e, ![r].step = step]
    BY <1>4 DEF Confirm, MayFail
  <2>3. PICK q : q = [req[r] EXCEPT !.draft = e, !.step = step]
    OBVIOUS
  <2>4. q.step = step
    BY <2>3 DEF Shapes, IsReq
  <2>5. req' = [req EXCEPT ![r] = q]
    BY <2>2, <2>3 DEF Shapes
  <2> QED
    BY <2>1, <2>2, <2>4, <2>5 DEF Undecided
<1>5. ASSUME NEW flow \in Requests, NEW prompt \in Requests, Resume(r, flow, prompt)
      PROVE  /\ UNCHANGED <<signals, tickets, clock>> /\ req[r].step = "new"
             /\ \E q : req' = [req EXCEPT ![r] = q] /\ q.step \in {"error", "again", "resume"}
  <2> DEFINE step == IF ckpt[flow].stage = "none" THEN "error"
                     ELSE IF ckpt[flow].prompt # prompt THEN "again" ELSE "resume"
  <2>1. req[r].step = "new" /\ UNCHANGED <<signals, tickets, clock>>
    BY <1>5 DEF Resume, stores
  <2>2. PICK q : q = [req[r] EXCEPT !.flow = flow, !.stage = ckpt[flow].stage,
                                    !.draft = ckpt[flow].draft, !.answered = prompt, !.step = step]
    OBVIOUS
  <2>3. q.step = step
    BY <2>2 DEF Shapes, IsReq
  <2>4. req' = [req EXCEPT ![r] = q]
    BY <1>5, <2>2 DEF Resume, Shapes
  <2> QED
    BY <2>1, <2>3, <2>4
<1> QED
  BY <1>2, <1>3, <1>4, <1>5 DEF Undecided

LEMMA StepSignals == SignalInv /\ [Next]_vars => SignalInv'
<1> SUFFICES ASSUME SignalInv, [Next]_vars PROVE (Clusters /\ Backed)'
  BY StepFlow DEF SignalInv
<1>1. ASSUME NEW r \in Requests,
             \/ Query(r) \/ AskAgain(r) \/ CancelTicket(r) \/ CollectAnswer(r) \/ Confirm(r)
             \/ Remember(r) \/ FinishSubmit(r) \/ Crash(r)
             \/ \E flow, prompt \in Requests : Resume(r, flow, prompt)
      PROVE  (Clusters /\ Backed)'
  <2>1. Shapes
    BY DEF SignalInv, FlowInv
  <2>2. /\ UNCHANGED <<signals, tickets, clock>>
        /\ \E q : /\ req' = [req EXCEPT ![r] = q] /\ q.step \notin {"post", "record"}
                  /\ req[r].step \notin Undecided => q.step \notin Undecided
    BY <1>1, <2>1, OtherSteps
  <2>3. PICK q : /\ req' = [req EXCEPT ![r] = q] /\ q.step \notin {"post", "record"}
                 /\ req[r].step \notin Undecided => q.step \notin Undecided
    BY <2>2
  <2>4. ~Deciding(q) /\ q.step # "record"
    BY <2>3 DEF Deciding
  <2> QED
    BY <2>2, <2>3, <2>4, NoDecision
<1>2. ASSUME UNCHANGED <<req, signals, tickets>>, clock' \in Nat
      PROVE  (Clusters /\ Backed)'
  <2>1. Known' = Known
    BY <1>2 DEF Known
  <2> QED
    BY <1>2, <2>1 DEF SignalInv, Clusters, Backed, EscalationIsBacked
<1>3. ASSUME NEW f \in Requests, Expire(f) PROVE (Clusters /\ Backed)'
  BY <1>2, <1>3 DEF Expire, SignalInv, Backed
<1>4. CASE Tick \/ UNCHANGED vars
  BY <1>2, <1>4 DEF Tick, vars, stores, SignalInv, Backed
<1>5. ASSUME NEW r \in Requests, Prepare(r) \/ Post(r) \/ Record(r) PROVE (Clusters /\ Backed)'
  BY <1>5, PrepareSignals, PostSignals, RecordSignals
<1> QED
  BY <1>1, <1>3, <1>4, <1>5 DEF Next, Step

LEMMA Signals == Spec => []SignalInv
<1>1. Init => SignalInv
  <2> SUFFICES ASSUME Init PROVE Clusters /\ Backed
    BY InitFlow DEF SignalInv, TicketInv
  <2>1. \A r \in Requests : ~Deciding(req[r]) /\ req[r].step # "record"
    BY DEF Init, NoReq, Deciding
  <2>2. Known = {}
    BY <2>1 DEF Init, Known
  <2>3. \A r \in Requests : DecisionBacked(req[r], tickets)
    BY <2>1 DEF DecisionBacked
  <2>4. IsFiniteSet(tickets)
    BY FS_EmptySet DEF Init
  <2> QED
    BY <2>2, <2>3, <2>4 DEF Init, Clusters, Backed, EscalationIsBacked
<1> QED
  BY <1>1, StepSignals, PTL DEF Spec

\* The events of a cluster are about one object of one domain, however the events were
\* compared, expired or recorded in between (signal.go:117-260).
THEOREM ClustersAreCoherent == Spec => []ClusterIsCoherent
<1>1. SignalInv => ClusterIsCoherent
  BY DEF SignalInv, Clusters, Known, SameIncident, ClusterIsCoherent
<1> QED
  BY Signals, <1>1, PTL

\* A promoted ticket is backed by tickets of enough users within the window, also when
\* requests decide at the same time or fail after they decided (signal.go:117-200, 525).
THEOREM PromotionsAreBacked == Spec => []EscalationIsBacked
<1>1. SignalInv => EscalationIsBacked
  BY DEF SignalInv, Backed
<1> QED
  BY Signals, <1>1, PTL

-----------------------------------------------------------------------------
(* One ticket of a flow, once its user was told *)

\* Clients wait for their answers, and one call fails, or one TTL passes, at most.
OneFaultAtMost == SerialClients /\ MaxFaults <= 1

Busy(q) == q.step \notin Answers \cup {"new"}
Key(q) == IdempotencyKey(q.flow, q.draft)
Begun(f) == f \in Requests /\ req[f].step # "new"

\* No request will make a ticket in this flow.
Closed(f) == ckpt[f] = NoCkpt /\ \A n \in Requests : Busy(req[n]) => req[n].flow # f

OnePerFlow ==
  \A r, n \in Requests : Busy(req[r]) /\ Busy(req[n]) /\ req[r].flow = req[n].flow => r = n
FlowsBegun ==
  /\ \A r \in Requests : req[r].step # "new" => Begun(req[r].flow)
  /\ \A p \in prompts : Begun(p.flow)

\* What was made is remembered, unless that failed and nothing else can fail any more.
Once(q) ==
  /\ q.step = "finish" => Key(q) \in idem \/ faults = 1
  /\ q.step = "done" => (Key(q) \in idem /\ faults = 1) \/ Closed(q.flow)
  /\ q.step \in {"prepare", "post"} => Key(q) \notin Told
OnceInv ==
  /\ Shapes /\ faults \in {0, 1}
  /\ OnePerFlow /\ FlowsBegun
  /\ \A r \in Requests : Once(req[r])

LEMMA ToldIs == Told = {Key(req[r]) : r \in {n \in Requests : req[n].step = "done"}}
BY DEF Told, Key

\* A step of one request, which nothing forgets.
LEMMA OnceStep ==
  ASSUME OnceInv, NEW r \in Requests, NEW q, req' = [req EXCEPT ![r] = q], Shapes',
         req[r].step # "done", q.step # "new", Begun(q.flow) \/ q.flow = r,
         Busy(q) => \A n \in Requests \ {r} : Busy(req[n]) => req[n].flow # q.flow,
         \A f : Begun(f) /\ Closed(f) => ckpt'[f] = NoCkpt /\ (Busy(q) => q.flow # f),
         idem \subseteq idem', faults' \in {0, 1}, faults = 1 => faults' = 1,
         \A p \in prompts' \ prompts : p.flow = q.flow,
         q.step = "finish" => Key(q) \in idem' \/ faults' = 1,
         q.step = "done" => /\ Busy(req[r]) /\ q.flow = req[r].flow
                            /\ (Key(q) \in idem' /\ faults' = 1) \/ ckpt'[q.flow] = NoCkpt,
         q.step \in {"prepare", "post"} => Key(q) \notin Told
  PROVE  OnceInv'
<1>1. \A n \in Requests : req'[n] = IF n = r THEN q ELSE req[n]
  BY DEF OnceInv, Shapes
<1>2. OnePerFlow'
  BY <1>1 DEF OnceInv, OnePerFlow
<1>3. FlowsBegun'
  <2>1. \A f : Begun(f) => Begun(f)'
    BY <1>1 DEF Begun
  <2>2. Begun(r)' /\ Begun(q.flow)'
    BY <1>1, <2>1 DEF Begun
  <2> QED
    BY <1>1, <2>1, <2>2 DEF OnceInv, FlowsBegun
<1>4. \A f : Begun(f) /\ Closed(f) => Closed(f)'
  BY <1>1 DEF Closed
<1>5. \A n \in Requests : req[n].step = "done" => Begun(req[n].flow)
  BY DEF OnceInv, FlowsBegun
<1>6. ASSUME NEW n \in Requests \ {r}, req[n].step = "done"
      PROVE  (Key(req[n]) \in idem' /\ faults' = 1) \/ Closed(req[n].flow)'
  BY <1>4, <1>5, <1>6 DEF OnceInv, Once
<1>7. q.step = "done" => (Key(q) \in idem' /\ faults' = 1) \/ Closed(q.flow)'
  <2>1. SUFFICES ASSUME q.step = "done", ckpt'[q.flow] = NoCkpt PROVE Closed(q.flow)'
    OBVIOUS
  <2>2. Busy(req[r]) /\ q.flow = req[r].flow /\ ~Busy(q)
    BY <2>1 DEF Busy, Answers
  <2>3. \A n \in Requests : Busy(req'[n]) => req'[n].flow # q.flow
    BY <1>1, <2>2 DEF OnceInv, OnePerFlow
  <2> QED
    BY <2>1, <2>3 DEF Closed
<1>8. Told' \subseteq Told \cup (IF q.step = "done" THEN {Key(q)} ELSE {})
  BY <1>1, ToldIs DEF Told, Key
<1>9. ASSUME NEW n \in Requests \ {r}, req[n].step \in {"prepare", "post"}
      PROVE  Key(req[n]) \notin Told'
  <2>1. Key(req[n]) \notin Told
    BY <1>9 DEF OnceInv, Once
  <2>2. q.step = "done" => req[n].flow # q.flow
    BY <1>9 DEF OnceInv, OnePerFlow, Busy, Answers
  <2>3. q.step = "done" => Key(req[n]) # Key(q)
    BY <2>2 DEF Key, IdempotencyKey
  <2> QED
    BY <1>8, <2>1, <2>3
<1>10. q.step \in {"prepare", "post"} => Key(q) \notin Told'
  BY <1>8
<1>11. \A n \in Requests \ {r} : req[n].step = "finish" => Key(req[n]) \in idem' \/ faults' = 1
  BY DEF OnceInv, Once
<1>12. ASSUME NEW n \in Requests PROVE Once(req[n])'
  <2>1. CASE n = r
    BY <1>1, <1>7, <1>10, <2>1 DEF Once, Key
  <2>2. CASE n # r
    BY <1>1, <1>6, <1>9, <1>11, <2>2 DEF Once, Key
  <2> QED
    BY <2>1, <2>2
<1> QED
  BY <1>2, <1>3, <1>12 DEF OnceInv

LEMMA LastFault ==
  ASSUME OneFaultAtMost, OnceInv, NEW kind, Fails(kind)
  PROVE  faults = 0 /\ faults' = 1
<1>1. faults < MaxFaults /\ faults' = faults + 1
  BY DEF Fails
<1>2. faults \in {0, 1}
  BY DEF OnceInv
<1>3. MaxFaults <= 1 /\ MaxFaults \in Nat
  BY TicketAssumption DEF OneFaultAtMost
<1> QED
  BY <1>1, <1>2, <1>3

LEMMA InterruptOnce ==
  ASSUME OnceInv, Shapes', NEW r \in Requests, NEW flow, NEW stage, NEW draft,
         Interrupt(r, flow, stage, draft), UNCHANGED faults,
         \/ Busy(req[r]) /\ flow = req[r].flow
         \/ req[r].step = "new" /\ flow = r
  PROVE  OnceInv'
<1>1. PICK q : /\ req' = [req EXCEPT ![r] = q] /\ q.step = "asked" /\ q.flow = flow
  <2>1. PICK q : q = [req[r] EXCEPT !.step = "asked", !.flow = flow]
    OBVIOUS
  <2>2. q.step = "asked" /\ q.flow = flow
    BY <2>1 DEF OnceInv, Shapes, IsReq
  <2>3. req' = [req EXCEPT ![r] = q]
    BY <2>1 DEF Interrupt, OnceInv, Shapes
  <2> QED
    BY <2>2, <2>3
<1>2. ~Busy(q) /\ req[r].step # "done" /\ (Begun(flow) \/ flow = r)
  BY <1>1 DEF Busy, Answers, OnceInv, FlowsBegun
<1>3. ASSUME NEW f, Begun(f), Closed(f) PROVE ckpt'[f] = NoCkpt
  <2>1. f # flow
    BY <1>3 DEF Closed, Begun
  <2> QED
    BY <1>3, <2>1 DEF Interrupt, Begun, Closed, OnceInv, Shapes
<1>4. idem' = idem /\ \A p \in prompts' \ prompts : p.flow = flow
  BY DEF Interrupt
<1> QED
  BY <1>1, <1>2, <1>3, <1>4, OnceStep DEF OnceInv

\* The end of a flow: its checkpoint goes, or that was the last thing to fail.
LEMMA FinishOnce ==
  ASSUME OneFaultAtMost, OnceInv, Shapes', NEW r \in Requests, Busy(req[r]),
         NEW answer \in {"done", "notDone"}, Finish(r, answer),
         answer = "done" => req[r].step = "finish"
  PROVE  OnceInv'
<1> DEFINE f == req[r].flow
<1>1. PICK q : /\ req' = [req EXCEPT ![r] = q] /\ q.step = answer
               /\ q.draft = req[r].draft /\ q.flow = req[r].flow
  <2>1. Goto(r, answer) /\ Shapes
    BY DEF Finish, OnceInv
  <2> QED
    BY <2>1, GotoStep
<1>2. ~Busy(q) /\ req[r].step \notin {"done", "new"} /\ Begun(f)
  BY <1>1 DEF Busy, Answers, OnceInv, FlowsBegun
<1>3. UNCHANGED <<idem, prompts>>
  BY DEF Finish
<1>4. \/ ckpt' = [ckpt EXCEPT ![f] = NoCkpt] /\ UNCHANGED faults
      \/ UNCHANGED ckpt /\ faults = 0 /\ faults' = 1
  BY LastFault DEF Finish, MayFail
<1>5. \A g : Begun(g) /\ Closed(g) => ckpt'[g] = NoCkpt
  BY <1>4 DEF Closed, Begun, OnceInv, Shapes
<1>6. q.step = "done" => (Key(q) \in idem' /\ faults' = 1) \/ ckpt'[q.flow] = NoCkpt
  <2>1. CASE ckpt' = [ckpt EXCEPT ![f] = NoCkpt]
    BY <1>1, <1>2, <2>1 DEF Begun, OnceInv, Shapes
  <2>2. CASE faults = 0 /\ faults' = 1
    BY <1>1, <1>3, <2>2 DEF OnceInv, Once, Key
  <2> QED
    BY <1>4, <2>1, <2>2
<1>7. faults' \in {0, 1} /\ (faults = 1 => faults' = 1)
  BY <1>4 DEF OnceInv
<1> QED
  BY <1>1, <1>2, <1>3, <1>5, <1>6, <1>7, OnceStep

\* A step of a busy request that leaves the checkpoints and prompts alone.
LEMMA BusyOnce ==
  ASSUME OnceInv, Shapes', NEW r \in Requests, NEW q, req' = [req EXCEPT ![r] = q],
         Busy(req[r]), q.flow = req[r].flow, q.step \notin {"new", "done"},
         UNCHANGED <<ckpt, prompts>>, idem \subseteq idem',
         faults' \in {0, 1}, faults = 1 => faults' = 1,
         q.step = "finish" => Key(q) \in idem' \/ faults' = 1,
         q.step \in {"prepare", "post"} => Key(q) \notin Told
  PROVE  OnceInv'
<1>1. req[r].step \notin {"done", "new"} /\ Begun(q.flow)
  BY DEF Busy, Answers, OnceInv, FlowsBegun
<1>2. Busy(q) => \A n \in Requests \ {r} : Busy(req[n]) => req[n].flow # q.flow
  BY DEF OnceInv, OnePerFlow
<1>3. \A f : Begun(f) /\ Closed(f) => ckpt'[f] = NoCkpt /\ (Busy(q) => q.flow # f)
  BY DEF Closed
<1> QED
  BY <1>1, <1>2, <1>3, OnceStep

LEMMA ResumeOnce ==
  ASSUME OneFaultAtMost, OnceInv, Shapes', NEW r \in Requests,
         NEW flow \in Requests, NEW prompt \in Requests, Resume(r, flow, prompt)
  PROVE  OnceInv'
<1> DEFINE step == IF ckpt[flow].stage = "none" THEN "error"
                   ELSE IF ckpt[flow].prompt # prompt THEN "again" ELSE "resume"
<1>1. PICK q : q = [req[r] EXCEPT !.flow = flow, !.stage = ckpt[flow].stage,
                                  !.draft = ckpt[flow].draft, !.answered = prompt, !.step = step]
  OBVIOUS
<1>2. req' = [req EXCEPT ![r] = q] /\ UNCHANGED <<ckpt, idem, prompts, faults>>
  BY <1>1 DEF Resume, OnceInv, Shapes, stores
<1>3. q.step = step /\ q.flow = flow
  BY <1>1 DEF OnceInv, Shapes, IsReq
<1>4. req[r].step = "new" /\ Begun(flow)
  BY DEF Resume, OnceInv, FlowsBegun
<1>5. \A n \in Requests \ {r} : Busy(req[n]) => req[n].flow # flow
  BY DEF Resume, MayCall, OneFaultAtMost, InFlight, Busy
<1>6. ASSUME NEW f, Begun(f), Closed(f) PROVE ckpt'[f] = NoCkpt /\ (Busy(q) => q.flow # f)
  <2>1. ckpt'[f] = NoCkpt
    BY <1>2, <1>6 DEF Closed
  <2>2. ASSUME f = flow PROVE ~Busy(q)
    <3>1. ckpt[flow] = NoCkpt
      BY <1>6, <2>2 DEF Closed
    <3>2. NoCkpt.stage = "none"
      BY DEF NoCkpt
    <3> QED
      BY <1>3, <3>1, <3>2 DEF Busy, Answers
  <2> QED
    BY <1>3, <2>1, <2>2
<1> QED
  BY <1>2, <1>3, <1>4, <1>5, <1>6, OnceStep DEF OnceInv

LEMMA ConfirmOnce ==
  ASSUME OneFaultAtMost, OnceInv, Shapes', NEW r \in Requests, Confirm(r)
  PROVE  OnceInv'
<1>1. PICK subject, desc :
        LET draft == [req[r].draft EXCEPT !.subject = Or(subject, @, {}),
                                          !.othersDesc = Or(desc, @, {})]
            known == IdempotencyKey(req[r].flow, draft) \in idem
            Then(step) == req' = [req EXCEPT ![r].draft = draft, ![r].step = step]
        IN  \/ Then(IF known THEN "finish" ELSE "prepare") /\ UNCHANGED faults
            \/ Then("prepare") /\ Fails("idemGet")
  BY DEF Confirm, MayFail
<1>2. PICK draft : draft = [req[r].draft EXCEPT !.subject = Or(subject, @, {}),
                                                !.othersDesc = Or(desc, @, {})]
  OBVIOUS
<1> DEFINE known == IdempotencyKey(req[r].flow, draft) \in idem
<1>3. PICK step : /\ req' = [req EXCEPT ![r].draft = draft, ![r].step = step]
                  /\ \/ step = "finish" /\ known /\ UNCHANGED faults
                     \/ step = "prepare" /\ ~known /\ UNCHANGED faults
                     \/ step = "prepare" /\ Fails("idemGet")
  BY <1>1, <1>2
<1>4. PICK q : q = [req[r] EXCEPT !.draft = draft, !.step = step]
  OBVIOUS
<1>5. q.step = step /\ q.draft = draft /\ q.flow = req[r].flow
  BY <1>4 DEF OnceInv, Shapes, IsReq
<1>6. req' = [req EXCEPT ![r] = q] /\ UNCHANGED <<ckpt, idem, prompts>>
  BY <1>3, <1>4 DEF Confirm, stores, OnceInv, Shapes
<1>7. Busy(req[r])
  BY DEF Confirm, Busy, Answers
<1>8. Key(q) \in idem <=> known
  BY <1>5 DEF Key
<1>9. ASSUME NEW n \in Requests, req[n].step = "done", Key(req[n]) = Key(q)
      PROVE  Key(q) \in idem /\ faults = 1
  <2>1. req[n].flow = req[r].flow
    BY <1>5, <1>9 DEF Key, IdempotencyKey
  <2>2. ~Closed(req[n].flow)
    BY <1>7, <2>1 DEF Closed
  <2> QED
    BY <1>9, <2>2 DEF OnceInv, Once
<1>10. step = "prepare" => Key(q) \notin Told
  <2>1. step = "prepare" => Key(q) \notin idem \/ faults = 0
    BY <1>3, <1>8, LastFault
  <2> QED
    BY <1>9, <2>1, ToldIs
<1>11. faults' \in {0, 1} /\ (faults = 1 => faults' = 1)
  BY <1>3, LastFault DEF OnceInv
<1>12. step = "finish" => Key(q) \in idem'
  BY <1>3, <1>6, <1>8
<1> QED
  BY <1>3, <1>5, <1>6, <1>7, <1>10, <1>11, <1>12, BusyOnce

LEMMA SubmitOnce ==
  ASSUME OneFaultAtMost, OnceInv, Shapes', NEW r \in Requests,
         Prepare(r) \/ Post(r) \/ Record(r) \/ Remember(r) \/ Crash(r)
  PROVE  OnceInv'
<1>1. Shapes /\ Busy(req[r])
  BY DEF OnceInv, Prepare, Post, Record, Remember, Crash, Busy, Answers, InFlight
<1>2. UNCHANGED <<ckpt, prompts>> /\ idem \subseteq idem'
  BY DEF Prepare, Post, Record, Remember, Crash, MayFail, stores
<1>3. UNCHANGED faults \/ \E kind : Fails(kind)
  BY DEF Prepare, Post, Record, Remember, Crash, MayFail
<1>4. faults' \in {0, 1} /\ (faults = 1 => faults' = 1)
  BY <1>3, LastFault DEF OnceInv
<1>5. req[r].step \in {"prepare", "post"} => Key(req[r]) \notin Told
  BY DEF OnceInv, Once
<1>6. CASE Prepare(r)
  <2>1. PICK d : req' = [req EXCEPT ![r].step = "post", ![r].decision = d]
    BY <1>6 DEF Prepare
  <2>2. PICK q : q = [req[r] EXCEPT !.step = "post", !.decision = d]
    OBVIOUS
  <2>3. q.step = "post" /\ q.flow = req[r].flow /\ q.draft = req[r].draft
    BY <1>1, <2>2 DEF Shapes, IsReq
  <2>4. req' = [req EXCEPT ![r] = q]
    BY <1>1, <2>1, <2>2 DEF Shapes
  <2>5. Key(q) \notin Told
    BY <1>5, <1>6, <2>3 DEF Key, Prepare
  <2> QED
    BY <1>1, <1>2, <1>4, <2>3, <2>4, <2>5, BusyOnce
<1>7. CASE Post(r)
  <2>1. PICK q : /\ req' = [req EXCEPT ![r] = q]
                 /\ q.step \in {"post", "remember", "record", "failed"}
                 /\ q.draft = req[r].draft /\ q.flow = req[r].flow
    BY <1>1, <1>7, PostCases
  <2>2. Key(q) \notin Told
    BY <1>5, <1>7, <2>1 DEF Key, Post
  <2> QED
    BY <1>1, <1>2, <1>4, <2>1, <2>2, BusyOnce
<1>8. CASE Remember(r)
  <2>1. PICK q : /\ req' = [req EXCEPT ![r] = q] /\ q.step = "finish"
                 /\ q.draft = req[r].draft /\ q.flow = req[r].flow
    BY <1>1, <1>8, GotoStep DEF Remember
  <2>2. Key(q) \in idem' \/ faults' = 1
    BY <1>8, <2>1, LastFault DEF Remember, MayFail, Key
  <2> QED
    BY <1>1, <1>2, <1>4, <2>1, <2>2, BusyOnce
<1>9. CASE Record(r) \/ Crash(r)
  <2>1. PICK q : /\ req' = [req EXCEPT ![r] = q] /\ q.step \in {"remember", "crashed"}
                 /\ q.flow = req[r].flow
    BY <1>1, <1>9, GotoStep DEF Record, Crash
  <2> QED
    BY <1>1, <1>2, <1>4, <2>1, BusyOnce
<1> QED
  BY <1>6, <1>7, <1>8, <1>9

LEMMA ExpireOnce ==
  ASSUME OneFaultAtMost, OnceInv, Shapes', NEW f \in Requests, Expire(f)
  PROVE  OnceInv'
<1>1. UNCHANGED <<prompts, req>> /\ (ckpt' = [ckpt EXCEPT ![f] = NoCkpt] \/ UNCHANGED ckpt)
  BY DEF Expire
<1>2. faults = 0 /\ faults' = 1
  BY LastFault DEF Expire
<1>3. \A g : Begun(g) /\ Closed(g) => Closed(g)'
  BY <1>1 DEF Closed, Begun, OnceInv, Shapes
<1>4. Told' = Told
  BY <1>1 DEF Told
<1>5. OnePerFlow' /\ FlowsBegun'
  BY <1>1 DEF OnceInv, OnePerFlow, FlowsBegun, Begun
<1>6. ASSUME NEW n \in Requests PROVE Once(req[n])'
  <2>1. req[n].step = "done" => Closed(req[n].flow)'
    <3>1. PICK g : g = req[n].flow /\ req'[n].flow = g
      BY <1>1
    <3>2. req[n].step = "done" => Begun(g) /\ Closed(g)
      BY <1>2, <3>1 DEF OnceInv, Once, FlowsBegun
    <3>3. req[n].step = "done" => Closed(g)'
      BY <1>3, <3>2
    <3> QED
      BY <3>1, <3>3 DEF Closed
  <2>2. req[n].step \in {"prepare", "post"} => Key(req[n]) \notin Told'
    BY <1>4 DEF OnceInv, Once
  <2> QED
    BY <1>1, <1>2, <2>1, <2>2 DEF Once, Key
<1> QED
  BY <1>2, <1>5, <1>6 DEF OnceInv

LEMMA StepOnce ==
  ASSUME OneFaultAtMost, OnceInv, Shapes', [Next]_vars
  PROVE  OnceInv'
<1>1. ASSUME NEW r \in Requests, Query(r) PROVE OnceInv'
  <2>1. req[r].step = "new" /\ UNCHANGED faults
    BY <1>1 DEF Query
  <2>2. PICK stage, draft : Interrupt(r, r, stage, draft)
    BY <1>1 DEF Query
  <2> QED
    BY <2>1, <2>2, InterruptOnce
<1>2. ASSUME NEW r \in Requests, AskAgain(r) PROVE OnceInv'
  BY <1>2, InterruptOnce DEF AskAgain, Busy, Answers
<1>3. ASSUME NEW r \in Requests, CollectAnswer(r) PROVE OnceInv'
  <2>1. Busy(req[r]) /\ req[r].step = "resume" /\ UNCHANGED faults /\ Shapes
    BY <1>3 DEF CollectAnswer, Busy, Answers, OnceInv
  <2>2. CASE Goto(r, "error") /\ UNCHANGED <<stores, prompts>>
    <3>1. PICK q : /\ req' = [req EXCEPT ![r] = q] /\ q.step = "error"
                   /\ q.flow = req[r].flow
      BY <2>1, <2>2, GotoStep
    <3> QED
      BY <2>1, <2>2, <3>1, BusyOnce DEF stores, OnceInv
  <2>3. CASE \E stage, draft : Interrupt(r, req[r].flow, stage, draft)
    BY <2>1, <2>3, InterruptOnce
  <2> QED
    BY <1>3, <2>2, <2>3 DEF CollectAnswer
<1>4. ASSUME NEW r \in Requests, CancelTicket(r) \/ FinishSubmit(r) PROVE OnceInv'
  BY <1>4, FinishOnce DEF CancelTicket, FinishSubmit, Busy, Answers
<1>5. CASE Tick \/ UNCHANGED vars
  <2>1. UNCHANGED <<ckpt, idem, prompts, req, faults>>
    BY <1>5 DEF Tick, vars, stores
  <2> QED
    BY <2>1 DEF OnceInv, OnePerFlow, FlowsBegun, Begun, Once, Closed, Told
<1> QED
  BY <1>1, <1>2, <1>3, <1>4, <1>5, ConfirmOnce, SubmitOnce, ResumeOnce, ExpireOnce
     DEF Next, Step

\* The user who was told of a ticket gets no second one in that flow, when clients wait for
\* their answers and one call fails at most: the lookup, the record, the deletion of the
\* checkpoint, an attempt, or a TTL that passes (agent.go:214-300, service.go:339-346).
THEOREM NoSecondTicket == OneFaultAtMost /\ Spec => NoTicketAfterSuccess
<1>1. SUFFICES ASSUME OneFaultAtMost PROVE Spec => NoTicketAfterSuccess
  OBVIOUS
<1>2. Init => OnceInv
  <2> SUFFICES ASSUME Init PROVE OnceInv
    OBVIOUS
  <2>1. Shapes
    BY InitFlow DEF TicketInv, FlowInv
  <2>2. \A r \in Requests : req[r].step = "new"
    BY DEF Init, NoReq
  <2> QED
    BY <2>1, <2>2 DEF Init, OnceInv, OnePerFlow, FlowsBegun, Once, Busy
<1>3. FlowInv /\ OnceInv /\ [Next]_vars => (FlowInv /\ OnceInv)'
  BY <1>1, StepFlow, StepOnce DEF FlowInv
<1>4. FlowInv /\ OnceInv /\ [Next]_vars =>
        [\A t \in tickets' \ tickets : KeyOf(t) \notin Told]_vars
  <2> SUFFICES ASSUME FlowInv, OnceInv, [Next]_vars, NEW t \in tickets' \ tickets
               PROVE  KeyOf(t) \notin Told
    OBVIOUS
  <2>1. ASSUME NEW r \in Requests,
               \/ Query(r) \/ AskAgain(r) \/ CancelTicket(r) \/ CollectAnswer(r) \/ Confirm(r)
               \/ Remember(r) \/ FinishSubmit(r) \/ Crash(r)
               \/ \E flow, prompt \in Requests : Resume(r, flow, prompt)
        PROVE  tickets' = tickets
    BY <2>1, OtherSteps DEF OnceInv
  <2>2. ASSUME NEW r \in Requests, Prepare(r) \/ Record(r) \/ Expire(r) PROVE tickets' = tickets
    BY <2>2 DEF Prepare, Record, Expire, stores
  <2>3. Tick \/ UNCHANGED vars => tickets' = tickets
    BY DEF Tick, vars, stores
  <2>4. PICK r \in Requests : Post(r)
    <3>1. ASSUME NEW r \in Requests, Query(r) \/ Step(r) \/ Crash(r) \/ Expire(r)
          PROVE  Post(r) \/ tickets' = tickets
      BY <2>1, <2>2, <3>1 DEF Step
    <3>2. ASSUME NEW r \in Requests, NEW flow \in Requests, NEW prompt \in Requests,
                 Resume(r, flow, prompt)
          PROVE  tickets' = tickets
      BY <2>1, <3>2
    <3>3. tickets' # tickets
      OBVIOUS
    <3> QED
      BY <2>3, <3>1, <3>2, <3>3 DEF Next
  <2>5. MakeTicket(r)
    BY <2>4, PostCases DEF OnceInv
  <2>6. t.flow = req[r].flow /\ t.draft = req[r].draft
    <3>1. t = [id |-> <<r, req[r].attempts>>, flow |-> req[r].flow,
               prompt |-> req[r].answered, draft |-> req[r].draft,
               level |-> IF req[r].decision = None THEN req[r].draft.serviceLevel
                         ELSE req[r].decision.level,
               at |-> IF req[r].decision = None THEN clock ELSE req[r].decision.event.at]
      BY <2>5 DEF MakeTicket
    <3> QED
      BY <3>1
  <2> QED
    BY <2>4, <2>6 DEF KeyOf, Key, Post, OnceInv, Once
<1>5. Init => FlowInv
  BY InitFlow DEF TicketInv
<1> QED
  BY <1>2, <1>3, <1>4, <1>5, PTL DEF Spec, NoTicketAfterSuccess

-----------------------------------------------------------------------------
(* Types *)

TypedCkpt(c) ==
  c.stage \in {"none", "collect", "confirm"} /\ c.draft \in Draft /\ c.prompt \in Requests \cup {None}
TypedPrompt(p) == p.id \in Requests /\ p.flow \in Requests /\ p.draft \in Draft
TypedTicket(t) == t.id \in Requests \X (0..MaxAttempts - 1) /\ t.draft \in Draft

\* A request that has not begun to submit has not tried.
TypedReq(q) ==
  /\ q.draft \in Draft
  /\ q.step # "new" => q.flow \in Requests
  /\ q.attempts \in 0..MaxAttempts
  /\ q.step = "post" => q.attempts < MaxAttempts
  /\ q.step \in {"again", "resume"} => q.stage \in {"collect", "confirm"}
  /\ q.step \in Undecided => q.attempts = 0
TypeInv == Shapes /\ TypeOK /\ \A r \in Requests : TypedReq(req[r])

LEMMA Bounds ==
  /\ MaxAttempts \in Nat \ {0} /\ MaxFaults \in Nat /\ MaxClock \in Nat
  /\ Extractions \subseteq ExtractResult
  /\ Messages \subseteq SUBSET STRING /\ Edits \subseteq SUBSET STRING
BY TicketAssumption

LEMMA OrTyped == ASSUME NEW S, NEW a \in S, NEW b \in S, NEW e PROVE Or(a, b, e) \in S
BY DEF Or

LEMMA DraftTyped ==
  ASSUME NEW d, IsDraft(d), d.userCode \in Users \cup {""},
         d.subject \in SUBSET STRING, d.othersDesc \in SUBSET STRING,
         d.serviceLevel \in RawLevels, d.levelConf \in 0..100,
         d.priority \in RawPriorities, d.prioConf \in 0..100
  PROVE  d \in Draft
<1>1. PICK u \in Users \cup {""}, s \in SUBSET STRING, t \in SUBSET STRING, l \in RawLevels,
           c \in 0..100, p \in RawPriorities, e \in 0..100 :
        d = [userCode |-> u, subject |-> s, othersDesc |-> t, serviceLevel |-> l,
             levelConf |-> c, priority |-> p, prioConf |-> e]
  BY DEF IsDraft
<1> QED
  BY <1>1 DEF Draft

LEMMA FillTyped ==
  ASSUME NEW d \in Draft, NEW x \in ExtractResult, NEW message \in SUBSET STRING
  PROVE  FillDraft(d, x, message) \in Draft
<1> DEFINE level == Normalize(x.serviceLevel, LevelWords)
           prio  == Normalize(x.priority, PriorityWords)
<1>1. level \in RawLevels
  <2>1. DOMAIN LevelWords = {"highest", "high", "medium", "low"}
    BY DEF LevelWords
  <2>2. /\ LevelWords["highest"] = "1" /\ LevelWords["high"] = "2"
        /\ LevelWords["medium"] = "3" /\ LevelWords["low"] = "4"
    BY DEF LevelWords
  <2> QED
    BY <2>1, <2>2 DEF Normalize, RawLevels
<1>2. prio \in RawPriorities
  <2>1. DOMAIN PriorityWords = {"consult", "service", "fault", "feedback"}
    BY DEF PriorityWords
  <2>2. /\ PriorityWords["consult"] = "1" /\ PriorityWords["service"] = "2"
        /\ PriorityWords["fault"] = "3" /\ PriorityWords["feedback"] = "4"
    BY DEF PriorityWords
  <2> QED
    BY <2>1, <2>2 DEF Normalize, RawPriorities
<1>3. /\ d.userCode \in Users \cup {""} /\ d.subject \in SUBSET STRING
      /\ d.othersDesc \in SUBSET STRING /\ d.serviceLevel \in RawLevels /\ d.levelConf \in 0..100
      /\ d.priority \in RawPriorities /\ d.prioConf \in 0..100
  BY DEF Draft
<1>4. /\ x.subject \in SUBSET STRING /\ x.othersDesc \in SUBSET STRING
      /\ x.levelConf \in 0..100 /\ x.prioConf \in 0..100
  BY DEF ExtractResult
<1> DEFINE subject == Or(x.subject, d.subject, {})
           desc    == Or(Or(x.othersDesc, d.othersDesc, {}), message, {})
           slevel  == Or(level, d.serviceLevel, "")
           lconf   == IF level = "" THEN d.levelConf ELSE Or(x.levelConf, 100, 0)
           sprio   == Or(prio, d.priority, "")
           pconf   == IF prio = "" THEN d.prioConf ELSE Or(x.prioConf, 100, 0)
<1>5. /\ subject \in SUBSET STRING /\ desc \in SUBSET STRING /\ slevel \in RawLevels
      /\ lconf \in 0..100 /\ sprio \in RawPriorities /\ pconf \in 0..100
  <2>1. subject \in SUBSET STRING
    BY <1>3, <1>4, OrTyped
  <2>2. desc \in SUBSET STRING
    <3>1. Or(x.othersDesc, d.othersDesc, {}) \in SUBSET STRING
      BY <1>3, <1>4, OrTyped
    <3> QED
      BY <3>1, OrTyped
  <2>3. slevel \in RawLevels /\ sprio \in RawPriorities
    BY <1>1, <1>2, <1>3, OrTyped
  <2>4. lconf \in 0..100 /\ pconf \in 0..100
    <3>1. ASSUME NEW a \in 0..100 PROVE Or(a, 100, 0) \in 0..100
      BY DEF Or
    <3> HIDE DEF level, prio
    <3> QED
      BY <1>3, <1>4, <3>1
  <2> QED
    BY <2>1, <2>2, <2>3, <2>4
<1>6. PICK k : k = FillDraft(d, x, message)
  OBVIOUS
<1>7. IsDraft(d)
  BY DEF Draft, IsDraft
<1>8. IsDraft(k)
  BY <1>6, <1>7, FillShape
<1>9. /\ k.userCode = d.userCode /\ k.subject = subject /\ k.othersDesc = desc
      /\ k.serviceLevel = slevel /\ k.levelConf = lconf /\ k.priority = sprio /\ k.prioConf = pconf
  BY <1>6, <1>7 DEF FillDraft, IsDraft
<1> HIDE DEF subject, desc, slevel, lconf, sprio, pconf
<1>10. k \in Draft
  BY <1>3, <1>5, <1>8, <1>9, DraftTyped
<1> QED
  BY <1>6, <1>10

LEMMA EditTyped ==
  ASSUME NEW d \in Draft, NEW s \in Edits \cup {{}}, NEW t \in Edits \cup {{}}
  PROVE  [d EXCEPT !.subject = Or(s, @, {}), !.othersDesc = Or(t, @, {})] \in Draft
<1>1. Or(s, d.subject, {}) \in SUBSET STRING /\ Or(t, d.othersDesc, {}) \in SUBSET STRING
  BY Bounds DEF Or, Draft
<1> QED
  BY <1>1 DEF Draft

LEMMA NewTyped == \A u \in Users \cup {""} : NewDraft(u) \in Draft
<1>1. 0 \in 0..100
  OBVIOUS
<1>2. ASSUME NEW u \in Users \cup {""} PROVE NewDraft(u) \in Draft
  <2>1. PICK d : d = NewDraft(u)
    OBVIOUS
  <2>2. /\ IsDraft(d) /\ d.userCode = u /\ d.subject = {} /\ d.othersDesc = {}
        /\ d.serviceLevel = "" /\ d.levelConf = 0 /\ d.priority = "" /\ d.prioConf = 0
    BY <2>1, NewShape DEF NewDraft
  <2>3. {} \in SUBSET STRING /\ "" \in RawLevels /\ "" \in RawPriorities
    BY DEF RawLevels, RawPriorities
  <2> QED
    BY <1>1, <2>1, <2>2, <2>3, DraftTyped
<1> QED
  BY <1>2

\* One request changes, and what the step leaves in the stores is of its type.
LEMMA TypedStep ==
  ASSUME TypeInv, Shapes', NEW r \in Requests, NEW q, req' = [req EXCEPT ![r] = q], TypedReq(q),
         \A f \in Requests : TypedCkpt(ckpt'[f]),
         \A k \in idem' \ idem : k[1] \in Requests,
         \A p \in prompts' \ prompts : TypedPrompt(p),
         \A t \in tickets' \ tickets : TypedTicket(t),
         clock' = clock, faults' \in 0..MaxFaults
  PROVE  TypeInv'
<1>1. \A n \in Requests : req'[n] = IF n = r THEN q ELSE req[n]
  BY DEF TypeInv, Shapes
<1>2. \A n \in Requests : TypedReq(req'[n])
  BY <1>1 DEF TypeInv
<1>3. /\ \A k \in idem' : k[1] \in Requests
      /\ \A p \in prompts' : TypedPrompt(p)
      /\ \A t \in tickets' : TypedTicket(t)
  BY DEF TypeInv, TypeOK, TypedPrompt, TypedTicket
<1>4. clock' \in 0..MaxClock
  BY DEF TypeInv, TypeOK
<1> QED
  BY <1>2, <1>3, <1>4 DEF TypeInv, TypeOK, TypedCkpt, TypedReq, TypedPrompt, TypedTicket

LEMMA TypedFault ==
  ASSUME TypeInv, UNCHANGED faults \/ \E kind : Fails(kind)
  PROVE  faults' \in 0..MaxFaults
<1>1. faults \in 0..MaxFaults /\ MaxFaults \in Nat
  BY Bounds DEF TypeInv, TypeOK
<1>2. CASE \E kind : Fails(kind)
  BY <1>1, <1>2 DEF Fails
<1> QED
  BY <1>1, <1>2

LEMMA InterruptTyped ==
  ASSUME TypeInv, Shapes', NEW r \in Requests, NEW flow \in Requests,
         NEW draft \in Draft, NEW stage \in {"collect", "confirm"},
         Interrupt(r, flow, stage, draft), UNCHANGED <<clock, faults>>
  PROVE  TypeInv'
<1>1. PICK q : q = [req[r] EXCEPT !.step = "asked", !.flow = flow]
  OBVIOUS
<1>2. /\ q.step = "asked" /\ q.flow = flow /\ q.draft = req[r].draft /\ q.stage = req[r].stage
      /\ q.attempts = req[r].attempts
  BY <1>1 DEF TypeInv, Shapes, IsReq
<1>3. req' = [req EXCEPT ![r] = q]
  BY <1>1 DEF Interrupt, TypeInv, Shapes
<1>4. TypedReq(q)
  BY <1>2 DEF TypeInv, TypedReq, Undecided
<1>5. PICK c : c = [stage |-> stage, draft |-> draft, prompt |-> r]
  OBVIOUS
<1>6. TypedCkpt(c) /\ ckpt' = [ckpt EXCEPT ![flow] = c]
  BY <1>5 DEF TypedCkpt, Interrupt
<1>7. \A f \in Requests : TypedCkpt(ckpt'[f])
  BY <1>6 DEF TypeInv, TypeOK, TypedCkpt, Shapes
<1>8. \A p \in prompts' \ prompts : TypedPrompt(p)
  BY DEF Interrupt, TypedPrompt
<1>9. UNCHANGED <<idem, tickets>> /\ faults \in 0..MaxFaults
  BY DEF Interrupt, TypeInv, TypeOK
<1> QED
  BY <1>3, <1>4, <1>7, <1>8, <1>9, TypedStep

\* A step of one request that leaves checkpoints and prompts alone.
LEMMA ReqTyped ==
  ASSUME TypeInv, Shapes', NEW r \in Requests, NEW q, req' = [req EXCEPT ![r] = q], TypedReq(q),
         UNCHANGED <<ckpt, prompts, clock>>, UNCHANGED faults \/ \E kind : Fails(kind),
         \A k \in idem' \ idem : k[1] \in Requests,
         \A t \in tickets' \ tickets : TypedTicket(t)
  PROVE  TypeInv'
<1>1. \A f \in Requests : TypedCkpt(ckpt'[f])
  BY DEF TypeInv, TypeOK, TypedCkpt
<1>2. faults' \in 0..MaxFaults
  BY TypedFault
<1> QED
  BY <1>1, <1>2, TypedStep

LEMMA GotoTyped ==
  ASSUME TypeInv, Shapes', NEW r \in Requests, Busy(req[r]), NEW step,
         step \notin Undecided \cup {"post"}, Goto(r, step)
  PROVE  \E q : req' = [req EXCEPT ![r] = q] /\ TypedReq(q)
<1>1. PICK q : q = [req[r] EXCEPT !.step = step]
  OBVIOUS
<1>2. req' = [req EXCEPT ![r] = q]
  BY <1>1 DEF Goto, TypeInv, Shapes
<1>3. /\ q.step = step /\ q.flow = req[r].flow /\ q.draft = req[r].draft /\ q.stage = req[r].stage
      /\ q.attempts = req[r].attempts
  BY <1>1 DEF TypeInv, Shapes, IsReq
<1>4. TypedReq(q)
  BY <1>3 DEF TypeInv, TypedReq, Undecided, Busy
<1> QED
  BY <1>2, <1>4

LEMMA FinishTyped ==
  ASSUME TypeInv, Shapes', NEW r \in Requests, Busy(req[r]),
         NEW answer \in {"done", "notDone"}, Finish(r, answer)
  PROVE  TypeInv'
<1>1. PICK q : req' = [req EXCEPT ![r] = q] /\ TypedReq(q)
  BY GotoTyped DEF Finish, Undecided
<1>2. ckpt' = [ckpt EXCEPT ![req[r].flow] = NoCkpt] \/ ckpt' = ckpt
  BY DEF Finish, MayFail
<1>3. TypedCkpt(NoCkpt)
  BY NewTyped DEF TypedCkpt, NoCkpt
<1>4. \A f \in Requests : TypedCkpt(ckpt'[f])
  BY <1>2, <1>3 DEF TypeInv, TypeOK, TypedCkpt, Shapes
<1>5. UNCHANGED <<idem, tickets, prompts, clock>>
  BY DEF Finish
<1>6. UNCHANGED faults \/ \E kind : Fails(kind)
  BY DEF Finish, MayFail
<1> QED
  BY <1>1, <1>4, <1>5, <1>6, TypedFault, TypedStep

LEMMA ResumeTyped ==
  ASSUME TypeInv, Shapes', NEW r \in Requests, NEW flow \in Requests, NEW prompt \in Requests,
         Resume(r, flow, prompt)
  PROVE  TypeInv'
<1> DEFINE step == IF ckpt[flow].stage = "none" THEN "error"
                   ELSE IF ckpt[flow].prompt # prompt THEN "again" ELSE "resume"
<1>1. PICK q : q = [req[r] EXCEPT !.flow = flow, !.stage = ckpt[flow].stage,
                                  !.draft = ckpt[flow].draft, !.answered = prompt, !.step = step]
  OBVIOUS
<1>2. /\ req' = [req EXCEPT ![r] = q] /\ req[r].step = "new"
      /\ UNCHANGED <<ckpt, idem, tickets, prompts, clock, faults>>
  BY <1>1 DEF Resume, TypeInv, Shapes, stores
<1>3. /\ q.step = step /\ q.flow = flow /\ q.stage = ckpt[flow].stage
      /\ q.draft = ckpt[flow].draft /\ q.attempts = req[r].attempts
  BY <1>1 DEF TypeInv, Shapes, IsReq
<1>4. ckpt[flow].draft \in Draft /\ ckpt[flow].stage \in {"none", "collect", "confirm"}
  BY DEF TypeInv, TypeOK
<1>5. req[r].attempts = 0 /\ req[r].attempts \in 0..MaxAttempts
  BY <1>2 DEF TypeInv, TypedReq, Undecided
<1>6. TypedReq(q)
  BY <1>3, <1>4, <1>5 DEF TypedReq
<1> QED
  BY <1>2, <1>6, ReqTyped

LEMMA ConfirmTyped ==
  ASSUME TypeInv, Shapes', NEW r \in Requests, Confirm(r)
  PROVE  TypeInv'
<1>1. /\ req[r].step = "resume" /\ req[r].draft \in Draft
      /\ UNCHANGED <<ckpt, idem, tickets, prompts, clock>>
      /\ UNCHANGED faults \/ \E kind : Fails(kind)
  BY DEF Confirm, stores, TypeInv, TypeOK, MayFail
<1>2. PICK s \in Edits \cup {{}}, t \in Edits \cup {{}}, step \in {"finish", "prepare"} :
        LET draft == [req[r].draft EXCEPT !.subject = Or(s, @, {}), !.othersDesc = Or(t, @, {})]
        IN  req' = [req EXCEPT ![r].draft = draft, ![r].step = step]
  BY DEF Confirm, MayFail
<1>3. PICK draft : draft = [req[r].draft EXCEPT !.subject = Or(s, @, {}),
                                                !.othersDesc = Or(t, @, {})]
  OBVIOUS
<1>4. draft \in Draft
  BY <1>1, <1>3, EditTyped
<1>5. PICK q : q = [req[r] EXCEPT !.draft = draft, !.step = step]
  OBVIOUS
<1>6. req' = [req EXCEPT ![r] = q]
  BY <1>2, <1>3, <1>5 DEF TypeInv, Shapes
<1>7. /\ q.step = step /\ q.draft = draft /\ q.flow = req[r].flow /\ q.attempts = req[r].attempts
  BY <1>5 DEF TypeInv, Shapes, IsReq
<1>8. TypedReq(q)
  BY <1>1, <1>4, <1>7 DEF TypeInv, TypedReq, Undecided
<1> QED
  BY <1>1, <1>6, <1>8, ReqTyped

LEMMA PrepareTyped ==
  ASSUME TypeInv, Shapes', NEW r \in Requests, Prepare(r)
  PROVE  TypeInv'
<1>1. req[r].step = "prepare" /\ UNCHANGED <<ckpt, idem, tickets, prompts, clock>>
  BY DEF Prepare, stores
<1>2. UNCHANGED faults \/ \E kind : Fails(kind)
  BY DEF Prepare
<1>3. PICK d : req' = [req EXCEPT ![r].step = "post", ![r].decision = d]
  BY DEF Prepare
<1>4. PICK q : q = [req[r] EXCEPT !.step = "post", !.decision = d]
  OBVIOUS
<1>5. req' = [req EXCEPT ![r] = q]
  BY <1>3, <1>4 DEF TypeInv, Shapes
<1>6. /\ q.step = "post" /\ q.flow = req[r].flow /\ q.draft = req[r].draft
      /\ q.attempts = req[r].attempts
  BY <1>4 DEF TypeInv, Shapes, IsReq
<1>7. req[r].attempts = 0 /\ 0 < MaxAttempts
  BY <1>1, Bounds DEF TypeInv, TypedReq, Undecided
<1>8. TypedReq(q)
  BY <1>1, <1>6, <1>7 DEF TypeInv, TypedReq, Undecided
<1> QED
  BY <1>1, <1>2, <1>5, <1>8, ReqTyped

LEMMA PostTyped ==
  ASSUME TypeInv, Shapes', NEW r \in Requests, Post(r)
  PROVE  TypeInv'
<1>1. req[r].step = "post" /\ UNCHANGED <<ckpt, idem, prompts, clock>> /\ Shapes
  BY DEF Post, TypeInv
<1>2. UNCHANGED faults \/ \E kind : Fails(kind)
  BY DEF Post
<1>3. req[r].attempts \in 0..MaxAttempts - 1 /\ req[r].draft \in Draft
  BY <1>1, Bounds DEF TypeInv, TypeOK
<1>4. \A t \in tickets' \ tickets : TypedTicket(t)
  <2>1. SUFFICES ASSUME MakeTicket(r), NEW t \in tickets' \ tickets PROVE TypedTicket(t)
    BY <1>1, PostCases
  <2>2. t = [id |-> <<r, req[r].attempts>>, flow |-> req[r].flow,
             prompt |-> req[r].answered, draft |-> req[r].draft,
             level |-> IF req[r].decision = None THEN req[r].draft.serviceLevel
                       ELSE req[r].decision.level,
             at |-> IF req[r].decision = None THEN clock ELSE req[r].decision.event.at]
    BY <2>1 DEF MakeTicket
  <2>3. t.id = <<r, req[r].attempts>> /\ t.draft = req[r].draft
    BY <2>2
  <2> QED
    BY <1>3, <2>3 DEF TypedTicket
<1>5. CASE Retry(r)
  <2>1. PICK q : q = [req[r] EXCEPT !.attempts = @ + 1,
                                    !.step = IF req[r].attempts + 1 < MaxAttempts
                                             THEN "post" ELSE "failed"]
    OBVIOUS
  <2>2. req' = [req EXCEPT ![r] = q]
    BY <1>1, <1>5, <2>1 DEF Retry, Shapes
  <2>3. /\ q.step = IF req[r].attempts + 1 < MaxAttempts THEN "post" ELSE "failed"
        /\ q.flow = req[r].flow /\ q.draft = req[r].draft
        /\ q.attempts = req[r].attempts + 1
    BY <1>1, <2>1 DEF Shapes, IsReq
  <2>4. q.attempts \in 0..MaxAttempts /\ (q.step = "post" => q.attempts < MaxAttempts)
    BY <1>3, <2>3, Bounds
  <2>5. TypedReq(q)
    BY <1>1, <2>3, <2>4 DEF TypeInv, TypedReq, Undecided
  <2> QED
    BY <1>1, <1>2, <1>4, <2>2, <2>5, ReqTyped
<1>6. ASSUME NEW step \in {"remember", "record", "failed"}, Goto(r, step) PROVE TypeInv'
  <2>1. PICK q : req' = [req EXCEPT ![r] = q] /\ TypedReq(q)
    BY <1>1, <1>6, GotoTyped DEF Undecided, Busy, Answers
  <2> QED
    BY <1>1, <1>2, <1>4, <2>1, ReqTyped
<1> QED
  BY <1>5, <1>6 DEF Post

LEMMA StepTyped == TypeInv /\ Shapes' /\ [Next]_vars => TypeInv'
<1> SUFFICES ASSUME TypeInv, Shapes', [Next]_vars PROVE TypeInv'
  OBVIOUS
<1>1. \A d : StageOf(d) \in {"collect", "confirm"}
  BY DEF StageOf
<1>2. ASSUME NEW r \in Requests, Query(r) PROVE TypeInv'
  <2>1. UNCHANGED <<clock, faults>>
    BY <1>2 DEF Query
  <2>2. PICK user \in Users, message \in Messages, x \in Extractions :
          Interrupt(r, r, StageOf(FillDraft(NewDraft(user), x, message)),
                    FillDraft(NewDraft(user), x, message))
    BY <1>2 DEF Query
  <2>3. NewDraft(user) \in Draft
    BY NewTyped
  <2>4. FillDraft(NewDraft(user), x, message) \in Draft
    BY <2>3, FillTyped, Bounds
  <2> QED
    BY <1>1, <2>1, <2>2, <2>4, InterruptTyped
<1>3. ASSUME NEW r \in Requests, AskAgain(r) PROVE TypeInv'
  <2>1. /\ req[r].stage \in {"collect", "confirm"} /\ req[r].flow \in Requests
        /\ req[r].draft \in Draft
    BY <1>3 DEF AskAgain, TypeInv, TypeOK
  <2> QED
    BY <1>3, <2>1, InterruptTyped DEF AskAgain
<1>4. ASSUME NEW r \in Requests, CollectAnswer(r) PROVE TypeInv'
  <2>1. /\ req[r].step = "resume" /\ req[r].flow \in Requests /\ req[r].draft \in Draft
        /\ UNCHANGED <<clock, faults>>
    BY <1>4 DEF CollectAnswer, TypeInv, TypeOK
  <2>2. CASE Goto(r, "error") /\ UNCHANGED <<stores, prompts>>
    <3>1. PICK q : req' = [req EXCEPT ![r] = q] /\ TypedReq(q)
      BY <2>1, <2>2, GotoTyped DEF Undecided, Busy, Answers
    <3> QED
      BY <2>1, <2>2, <3>1, ReqTyped DEF stores
  <2>3. ASSUME NEW message \in Messages, NEW x \in Extractions,
               Interrupt(r, req[r].flow, StageOf(FillDraft(req[r].draft, x, message)),
                         FillDraft(req[r].draft, x, message))
        PROVE  TypeInv'
    <3>1. FillDraft(req[r].draft, x, message) \in Draft
      BY <2>1, FillTyped, Bounds
    <3> QED
      BY <1>1, <2>1, <2>3, <3>1, InterruptTyped
  <2> QED
    BY <1>4, <2>2, <2>3 DEF CollectAnswer
<1>5. ASSUME NEW r \in Requests, CancelTicket(r) \/ FinishSubmit(r) PROVE TypeInv'
  BY <1>5, FinishTyped DEF CancelTicket, FinishSubmit, Busy, Answers
<1>6. ASSUME NEW r \in Requests, Record(r) \/ Remember(r) \/ Crash(r) PROVE TypeInv'
  <2>1. Busy(req[r]) /\ \E step \in {"remember", "finish", "crashed"} : Goto(r, step)
    BY <1>6 DEF Record, Remember, Crash, InFlight, Busy, Answers
  <2>2. PICK q : req' = [req EXCEPT ![r] = q] /\ TypedReq(q)
    BY <2>1, GotoTyped DEF Undecided
  <2>3. UNCHANGED <<ckpt, prompts, tickets, clock>>
    BY <1>6 DEF Record, Remember, Crash, stores
  <2>4. UNCHANGED faults \/ \E kind : Fails(kind)
    BY <1>6 DEF Record, Remember, Crash, MayFail
  <2>5. \A k \in idem' \ idem : k[1] \in Requests
    <3>1. req[r].flow \in Requests
      BY <2>1 DEF TypeInv, TypeOK, Busy
    <3>2. \A k \in idem' \ idem : k = IdempotencyKey(req[r].flow, req[r].draft)
      BY <1>6 DEF Record, Remember, Crash, MayFail, stores
    <3> QED
      BY <3>1, <3>2 DEF IdempotencyKey
  <2> QED
    BY <2>2, <2>3, <2>4, <2>5, ReqTyped
<1>7. ASSUME NEW f \in Requests, Expire(f) PROVE TypeInv'
  <2>1. /\ UNCHANGED <<tickets, prompts, req, clock>> /\ idem' \subseteq idem
        /\ \E kind : Fails(kind)
        /\ ckpt' = [ckpt EXCEPT ![f] = NoCkpt] \/ ckpt' = ckpt
    BY <1>7 DEF Expire
  <2>2. TypedCkpt(NoCkpt)
    BY NewTyped DEF TypedCkpt, NoCkpt
  <2>3. \A g \in Requests : TypedCkpt(ckpt'[g])
    BY <2>1, <2>2 DEF TypeInv, TypeOK, TypedCkpt, Shapes
  <2>4. faults' \in 0..MaxFaults
    BY <2>1, TypedFault
  <2> QED
    BY <2>1, <2>3, <2>4 DEF TypeInv, TypeOK, TypedCkpt
<1>8. CASE Tick
  <2>1. clock' \in 0..MaxClock
    BY <1>8, Bounds DEF Tick, TypeInv, TypeOK
  <2> QED
    BY <1>8, <2>1 DEF Tick, stores, TypeInv, TypeOK
<1>9. CASE UNCHANGED vars
  BY <1>9 DEF vars, stores, TypeInv, TypeOK
<1> QED
  BY <1>2, <1>3, <1>4, <1>5, <1>6, <1>7, <1>8, <1>9,
     ResumeTyped, ConfirmTyped, PrepareTyped, PostTyped DEF Next, Step

\* Checkpoints, prompts, tickets and requests are of their types, for any extractions of the
\* model (extractor.go:24-65), and a request tries at most MaxAttempts times
\* (client.go:74-197).
THEOREM TypeCorrect == Spec => []TypeOK
<1>1. Init => TypeInv
  <2> SUFFICES ASSUME Init PROVE TypeInv
    OBVIOUS
  <2>1. Shapes
    BY InitFlow DEF TicketInv, FlowInv
  <2>2. NewDraft("") \in Draft
    BY NewTyped
  <2>3. /\ NoReq.step = "new" /\ NoReq.attempts = 0 /\ NoReq.draft \in Draft
        /\ NoCkpt.stage = "none" /\ NoCkpt.draft \in Draft /\ NoCkpt.prompt = None
    BY <2>2 DEF NoReq, NoCkpt
  <2>4. 0 \in 0..MaxAttempts /\ 0 \in 0..MaxClock /\ 0 \in 0..MaxFaults
    BY Bounds
  <2>5. \A r \in Requests : TypedReq(req[r])
    BY <2>3, <2>4 DEF Init, TypedReq
  <2>6. TypeOK
    BY <2>3, <2>4, <2>5 DEF Init, TypeOK, TypedReq
  <2> QED
    BY <2>1, <2>5, <2>6 DEF TypeInv
<1>2. Init => FlowInv
  BY InitFlow DEF TicketInv
<1>3. FlowInv /\ TypeInv /\ [Next]_vars => (FlowInv /\ TypeInv)'
  BY StepFlow, StepTyped DEF FlowInv
<1>4. TypeInv => TypeOK
  BY DEF TypeInv
<1> QED
  BY <1>1, <1>2, <1>3, <1>4, PTL DEF Spec

=============================================================================
