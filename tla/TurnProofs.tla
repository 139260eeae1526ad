----------------------------- MODULE TurnProofs -----------------------------
(***************************************************************************)
(* What every turn keeps, for any tree of agents, any messages, answers,   *)
(* assessments, plans and knowledge, and any number of answers: nothing is *)
(* written before all is read, leaves work on what the user asked, modules *)
(* follow their plans, answers cite their sources, tickets are reported,   *)
(* steps are shown where they ran, and bases share what is cited.  The     *)
(* lemmas on what the functions of the model compute use induction over    *)
(* the natural numbers as a statement on sets of numbers (Induction).      *)
(***************************************************************************)
EXTENDS Turn, TLAPS, SequenceTheorems, FiniteSetTheorems, WellFoundedInduction

-----------------------------------------------------------------------------
(* The invariants                                                          *)

(* Every module has a position, a stored plan and a question.              *)
IsState(s) == s = [at |-> s.at, steps |-> s.steps, next |-> s.next, original |-> s.original]
Shapes ==
    /\ mod = [m \in Modules |-> mod[m]] /\ \A m \in Modules : IsState(mod[m])
    /\ \E S : executed \in Seq(S)

(* Before the root has a plan nothing has begun, and only what the plan    *)
(* names begins.                                                           *)
NothingBegun ==
    root \in {"idle", "routing", "asking"} =>
        plan = None /\ executed = << >> /\ \A m \in Modules : mod[m].at = "todo"
OnlyPlanned == \A m \in Modules : mod[m].at # "todo" => m \in Reads \cup Writes

(* The stage that writes begins when all that reads is done.               *)
StageInv ==
    /\ Shapes /\ NothingBegun /\ OnlyPlanned
    /\ root = "writing" => Reads \subseteq At({"done"})
    /\ ReadBeforeWrite

(* The message of the session, or what a question has kept of it, has all  *)
(* that the user asked for, unless a ticket agent ran.                     *)
TicketRan == \E j \in DOMAIN executed : IsTicket(executed[j])
MessageKept ==
    /\ root = "routing" => request \subseteq message
    /\ root = "asking" => request \subseteq original
    /\ root \in {"reading", "writing"} => request \subseteq message \/ TicketRan
    /\ \A m \in Modules :
          /\ mod[m].at = "asking" => request \subseteq mod[m].original \/ TicketRan
          /\ mod[m].at \in {"waiting", "resumed"} => TicketRan

TurnInv == StageInv /\ MessageKept /\ LeavesSeeTheRequest

-----------------------------------------------------------------------------
(* Steps of a module                                                       *)

(* A module goes on, with a new position.                                  *)
LEMMA GotoShape ==
  ASSUME Shapes, NEW m \in Modules, NEW at, Goto(m, at)
  PROVE  /\ mod' = [n \in Modules |-> mod'[n]] /\ \A n \in Modules : IsState(mod'[n])
         /\ mod'[m].at = at /\ mod'[m].original = mod[m].original
         /\ \A n \in Modules \ {m} : mod'[n] = mod[n]
BY DEF Shapes, Goto, IsState

(* A module that may work is neither done nor outside the plan, so that    *)
(* whatever becomes of it the stages stay in order.                        *)
LEMMA StageStays ==
  ASSUME StageInv, Shapes', NEW m \in Modules, m \in Reads \cup Writes,
         mod[m].at \notin {"todo", "done"} \/ m \in Active, mod[m].at # "done",
         \A n \in Modules \ {m} : mod'[n] = mod[n],
         root \notin {"idle", "routing", "asking"},
         \/ root' \in {root, "failed"}
         \/ root' = StageOf(m),
         UNCHANGED plan
  PROVE  StageInv'
<1>1. Reads' = Reads /\ Writes' = Writes
  BY DEF Reads, Writes
<1>2. NothingBegun' /\ OnlyPlanned'
  BY <1>1 DEF StageInv, NothingBegun, OnlyPlanned, StageOf
<1>3. CASE m \in Reads
  <2>1. root # "writing" /\ \A w \in Modules \cap (Writes \ Reads) : mod[w].at = "todo"
    BY <1>3 DEF StageInv, ReadBeforeWrite, At
  <2>2. root' # "writing"
    BY <1>3, <2>1 DEF StageOf
  <2> QED
    BY <1>1, <1>2, <1>3, <2>1, <2>2 DEF StageInv, ReadBeforeWrite
<1>4. CASE m \notin Reads
  <2>1. m \in Writes /\ Reads \subseteq At({"done"})
    BY <1>4 DEF StageInv, ReadBeforeWrite, Active
  <2>2. (Reads \subseteq At({"done"}))'
    BY <1>1, <1>4, <2>1 DEF At
  <2> QED
    BY <1>1, <1>2, <2>2 DEF StageInv, ReadBeforeWrite
<1> QED
  BY <1>3, <1>4

(* Nothing has begun at the start.                                         *)
LEMMA InitStage == Init => StageInv
<1> SUFFICES ASSUME Init PROVE StageInv
  OBVIOUS
<1>1. \E S : executed \in Seq(S)
  BY EmptySeq DEF Init
<1>2. Shapes
  BY <1>1 DEF Init, Shapes, IsState, Untouched
<1> QED
  BY <1>2 DEF Init, StageInv, NothingBegun, OnlyPlanned, ReadBeforeWrite, Untouched, Reads, Writes, At

(* The history of leaves grows at its end.                                 *)
LEMMA AppendShape ==
  ASSUME \E S : executed \in Seq(S), NEW e, executed' = Append(executed, e)
  PROVE  /\ \E S : executed' \in Seq(S)
         /\ Len(executed) \in Nat
         /\ DOMAIN executed' = 1 .. Len(executed) + 1 /\ DOMAIN executed = 1 .. Len(executed)
         /\ executed'[Len(executed) + 1] = e
         /\ \A i \in DOMAIN executed : executed'[i] = executed[i]
<1>1. PICK S : executed \in Seq(S)
  OBVIOUS
<1> DEFINE T == S \cup {e}
<1>2. executed \in Seq(T) /\ e \in T
  BY <1>1
<1>3. /\ executed' \in Seq(T)
      /\ Len(executed') = Len(executed) + 1
      /\ \A i \in 1 .. Len(executed) : executed'[i] = executed[i]
      /\ executed'[Len(executed) + 1] = e
  BY <1>2, AppendProperties
<1>4. /\ DOMAIN executed' = 1 .. Len(executed) + 1 /\ DOMAIN executed = 1 .. Len(executed)
      /\ Len(executed) \in Nat
  BY <1>2, <1>3, LenProperties
<1> QED
  BY <1>3, <1>4

(* Every step keeps the stages in order.                                   *)
LEMMA StepStage == StageInv /\ [Next]_vars => StageInv'
<1> SUFFICES ASSUME StageInv, [Next]_vars PROVE StageInv'
  OBVIOUS
<1> USE DEF Elsewhere
<1>1. CASE Query
  BY <1>1 DEF Query, RunRoot, InterruptForClarify, StageInv, Shapes, IsState, NothingBegun, OnlyPlanned,
              ReadBeforeWrite, Reads, Writes, At
<1>2. CASE Route
  BY <1>2 DEF Route, RunRootPlan, RunFallback, InterruptForClarify, StageInv, Shapes, IsState,
              NothingBegun, OnlyPlanned, ReadBeforeWrite, Reads, Writes, At, Elements
<1>0. Active \subseteq Reads \cup Writes /\ (root \in {"idle", "routing", "asking"} => Active = {})
  BY DEF Active, Reads, Writes, Elements
<1>3. ASSUME NEW m \in Modules, ModuleNext(m) PROVE StageInv'
  <2>1. m \in Active /\ mod[m].at # "done" /\ root' \in {root, "failed"} /\ UNCHANGED plan
    BY <1>3 DEF ModuleNext, RunModule, RunWithPlan, RunClarifyOrError, RunLeaf, ResumeLeaf, PlanDone, Fail
  <2>2. /\ mod' = [n \in Modules |-> mod'[n]] /\ \A n \in Modules : IsState(mod'[n])
        /\ \A n \in Modules \ {m} : mod'[n] = mod[n]
    <3>1. CASE RunModule(m)
      <4>1. CASE UNCHANGED mod
        BY <4>1 DEF StageInv, Shapes
      <4>2. CASE \E p : mod' = [mod EXCEPT ![m] = [@ EXCEPT !.at = "running", !.steps = p.steps]]
        BY <4>2 DEF StageInv, Shapes, IsState
      <4>3. CASE mod' = [mod EXCEPT ![m] = [@ EXCEPT !.at = "asking", !.original = message]]
        BY <4>3 DEF StageInv, Shapes, IsState
      <4> QED
        BY <3>1, <4>1, <4>2, <4>3 DEF RunModule, RunWithPlan, RunClarifyOrError, Fail
    <3>2. CASE RunLeaf(m) \/ ResumeLeaf(m) \/ PlanDone(m)
      <4>1. CASE UNCHANGED mod
        BY <4>1 DEF StageInv, Shapes
      <4>2. CASE \E at : Goto(m, at)
        BY <4>2, GotoShape DEF StageInv, Shapes
      <4>3. CASE mod' = [mod EXCEPT ![m].next = @ + 1]
        BY <4>3 DEF StageInv, Shapes, IsState
      <4>4. CASE mod' = [mod EXCEPT ![m].at = "running", ![m].next = @ + 1]
        BY <4>4 DEF StageInv, Shapes, IsState
      <4> QED
        BY <3>2, <4>1, <4>2, <4>3, <4>4 DEF RunLeaf, ResumeLeaf, PlanDone, Fail
    <3> QED
      BY <1>3, <3>1, <3>2 DEF ModuleNext
  <2>3. \E S : executed' \in Seq(S)
    <3>1. CASE UNCHANGED executed
      BY <3>1 DEF StageInv, Shapes
    <3>2. CASE \E e : executed' = Append(executed, e)
      BY <3>2, AppendShape DEF StageInv, Shapes
    <3> QED
      BY <1>3, <3>1, <3>2 DEF ModuleNext, RunModule, RunWithPlan, RunClarifyOrError, RunLeaf,
                              ResumeLeaf, PlanDone, Fail
  <2>4. root \notin {"idle", "routing", "asking"} /\ m \in Reads \cup Writes
    BY <1>0, <2>1
  <2> QED
    BY <2>1, <2>2, <2>3, <2>4, StageStays DEF Shapes
<1>4. CASE EndStage
  BY <1>4 DEF EndStage, StageInv, Shapes, IsState, NothingBegun, OnlyPlanned, ReadBeforeWrite, Reads,
              Writes, At, Active, Stage, Interrupted
<1>5. ASSUME NEW a, AnswerRoot(a) PROVE StageInv'
  BY <1>5 DEF AnswerRoot, RunRoot, InterruptForClarify, StageInv, Shapes, IsState, NothingBegun,
              OnlyPlanned, ReadBeforeWrite, Reads, Writes, At
<1>6. ASSUME NEW m \in Modules, NEW a, AnswerModule(m, a) \/ AnswerLeaf(m, a) PROVE StageInv'
  <2>1. CASE UNCHANGED <<root, mod, plan, executed>>
    BY <2>1 DEF StageInv, Shapes, NothingBegun, OnlyPlanned, ReadBeforeWrite, Reads, Writes, At
  <2>2. CASE (\E at \in {"todo", "resumed"} : Goto(m, at)) /\ root' = StageOf(m)
    <3>1. root = "waiting" /\ mod[m].at \in {"asking", "waiting"} /\ UNCHANGED <<plan, executed>>
      BY <1>6 DEF AnswerModule, AnswerLeaf
    <3>2. m \in Reads \cup Writes
      BY <3>1 DEF StageInv, OnlyPlanned
    <3>3. Shapes' /\ \A n \in Modules \ {m} : mod'[n] = mod[n]
      BY <2>2, <3>1, GotoShape DEF StageInv, Shapes
    <3> QED
      BY <2>2, <3>1, <3>2, <3>3, StageStays
  <2> QED
    BY <1>6, <2>1, <2>2 DEF AnswerModule, AnswerLeaf
<1>7. CASE UNCHANGED vars
  BY <1>7 DEF vars, StageInv, Shapes, NothingBegun, OnlyPlanned, ReadBeforeWrite, Reads, Writes, At
<1> QED
  BY <1>1, <1>2, <1>3, <1>4, <1>5, <1>6, <1>7 DEF Next, Resume

(* Nothing is written before everything that reads is done                 *)
(* (supervisor.go:215-238).                                                *)
THEOREM StagesInOrder == Spec => []ReadBeforeWrite
<1>1. StageInv => ReadBeforeWrite
  BY DEF StageInv
<1> QED
  BY InitStage, StepStage, <1>1, PTL DEF Spec

-----------------------------------------------------------------------------
(* Messages                                                                *)

(* What Combine makes of a question's message and its answer has both.     *)
LEMMA CombineKeeps ==
  ASSUME NEW o, NEW a PROVE o \subseteq Combine(o, a) /\ a \subseteq Combine(o, a)
BY DEF Combine

(* While nothing is started, the leaves are as before.                     *)
LEMMA SameLeaves ==
  ASSUME LeavesSeeTheRequest, UNCHANGED <<request, executed>>
  PROVE  LeavesSeeTheRequest' /\ TicketRan' = TicketRan
BY DEF LeavesSeeTheRequest, TicketRan, IsTicket

(* Before anything began, the root may change what is asked for.           *)
LEMMA NothingKept ==
  ASSUME StageInv', root' \in {"idle", "routing", "asking"}
  PROVE  LeavesSeeTheRequest' /\ ~TicketRan' /\ \A m \in Modules : mod'[m].at = "todo"
<1>1. executed' = << >> /\ \A m \in Modules : mod'[m].at = "todo"
  BY DEF StageInv, NothingBegun
<1>2. DOMAIN executed' = {}
  BY <1>1
<1> QED
  BY <1>1, <1>2 DEF LeavesSeeTheRequest, TicketRan

(* The message at the start.                                               *)
LEMMA InitMessage == Init => TurnInv
<1> SUFFICES ASSUME Init PROVE TurnInv
  OBVIOUS
<1>1. StageInv /\ executed = << >> /\ DOMAIN executed = {}
  BY InitStage DEF Init
<1> QED
  BY <1>1 DEF Init, TurnInv, MessageKept, LeavesSeeTheRequest, Untouched

(* A leaf starts on the message of the session.                            *)
LEMMA StepLeaf ==
  ASSUME TurnInv, NEW m \in Modules, RunLeaf(m)
  PROVE  LeavesSeeTheRequest' /\ (TicketRan => TicketRan')
         /\ (mod'[m].at = "waiting" => TicketRan' \/ mod[m].at = "waiting")
<1>0. root \in {"reading", "writing"} /\ request' = request
  BY DEF RunLeaf, Active, Elsewhere
<1>1. CASE UNCHANGED <<mod, executed>>
  BY <1>0, <1>1, SameLeaves DEF TurnInv
<1>2. CASE executed' = Append(executed, [module |-> m, leaf |-> StepOf(m), saw |-> message])
  <2> DEFINE e == [module |-> m, leaf |-> StepOf(m), saw |-> message]
             n == Len(executed)
  <2>1. /\ n \in Nat /\ DOMAIN executed' = 1 .. n + 1 /\ DOMAIN executed = 1 .. n
        /\ executed'[n + 1] = e
        /\ \A i \in 1 .. n : executed'[i] = executed[i]
    BY <1>2, AppendShape DEF TurnInv, StageInv, Shapes
  <2>2. TicketRan => TicketRan'
    BY <2>1 DEF TicketRan, IsTicket
  <2>3. ASSUME NEW i \in 1 .. n
        PROVE request' \subseteq executed'[i].saw \/ \E j \in 1 .. i - 1 : IsTicket(executed'[j])
    BY <1>0, <2>1 DEF TurnInv, LeavesSeeTheRequest
  <2>4. request' \subseteq executed'[n + 1].saw \/ \E j \in 1 .. n : IsTicket(executed'[j])
    BY <1>0, <2>1 DEF TurnInv, MessageKept, TicketRan
  <2>5. LeavesSeeTheRequest'
    BY <2>1, <2>3, <2>4 DEF LeavesSeeTheRequest
  <2>6. mod'[m].at = "waiting" => TicketRan' \/ mod[m].at = "waiting"
    <3>1. CASE StepOf(m).kind = "itsm"
      BY <2>1, <3>1 DEF TicketRan, IsTicket
    <3>2. CASE mod' = [mod EXCEPT ![m].next = @ + 1]
      BY <3>2 DEF TurnInv, StageInv, Shapes, IsState
    <3>3. CASE UNCHANGED mod
      BY <3>3
    <3> QED
      BY <3>1, <3>2, <3>3 DEF RunLeaf, Fail
  <2> QED
    BY <2>2, <2>5, <2>6
<1> QED
  BY <1>1, <1>2 DEF RunLeaf, Fail

(* Every step keeps the message.                                           *)
LEMMA StepMessage == TurnInv /\ [Next]_vars => TurnInv'
<1> SUFFICES ASSUME TurnInv, [Next]_vars PROVE TurnInv'
  OBVIOUS
<1>0. StageInv'
  BY StepStage DEF TurnInv
<1>1. CASE Query
  <2>1. root' \in {"routing", "asking"} /\ request' = message' /\ (root' = "asking" => request' = {})
    BY <1>1 DEF Query, RunRoot, InterruptForClarify
  <2> QED
    BY <1>0, <2>1, NothingKept DEF TurnInv, MessageKept
<1>2. CASE Route
  <2>1. /\ root = "routing" /\ UNCHANGED <<request, message, mod, executed>>
        /\ root' \in {"reading", "writing", "answered"} \/ (root' = "asking" /\ original' = message)
    BY <1>2 DEF Route, RunRootPlan, RunFallback, InterruptForClarify
  <2>2. request \subseteq message /\ \A m \in Modules : mod[m].at = "todo"
    BY <2>1 DEF TurnInv, MessageKept, StageInv, NothingBegun
  <2> QED
    BY <1>0, <2>1, <2>2, SameLeaves DEF TurnInv, MessageKept
<1>3. ASSUME NEW m \in Modules, ModuleNext(m) PROVE TurnInv'
  <2>1. root \in {"reading", "writing"} /\ root' \in {root, "failed"} /\ UNCHANGED <<message, request>>
    BY <1>3 DEF ModuleNext, RunModule, RunWithPlan, RunClarifyOrError, RunLeaf, ResumeLeaf, PlanDone,
                Fail, Active, Elsewhere
  <2>2. LeavesSeeTheRequest' /\ (TicketRan => TicketRan')
    <3>1. CASE RunLeaf(m)
      BY <3>1, StepLeaf
    <3>2. CASE UNCHANGED executed
      BY <2>1, <3>2, SameLeaves DEF TurnInv
    <3> QED
      BY <1>3, <3>1, <3>2 DEF ModuleNext, RunModule, RunWithPlan, RunClarifyOrError, ResumeLeaf,
                              PlanDone, Fail
  <2>3. \A n \in Modules \ {m} : mod'[n] = mod[n]
    BY <1>3 DEF ModuleNext, RunModule, RunWithPlan, RunClarifyOrError, RunLeaf, ResumeLeaf, PlanDone,
                Fail, Goto, TurnInv, StageInv, Shapes, IsState
  <2>4. /\ mod'[m].at = "asking" =>
              mod'[m].original = message \/ (mod[m].at = "asking" /\ mod'[m].original = mod[m].original)
        /\ mod'[m].at \in {"waiting", "resumed"} => TicketRan'
    <3>1. CASE RunLeaf(m)
      <4>1. mod'[m].at # "asking" /\ mod[m].at = "running" /\ mod'[m].at # "resumed"
        BY <3>1 DEF RunLeaf, Fail, Goto, TurnInv, StageInv, Shapes, IsState
      <4> QED
        BY <3>1, <4>1, StepLeaf
    <3>2. CASE RunModule(m)
      BY <3>2 DEF RunModule, RunWithPlan, RunClarifyOrError, Fail, TurnInv, StageInv, Shapes, IsState
    <3>3. CASE ResumeLeaf(m) \/ PlanDone(m)
      <4>1. TicketRan' \/ mod'[m].at \notin {"asking", "waiting", "resumed"}
        BY <2>2, <3>3 DEF ResumeLeaf, PlanDone, Fail, Goto, TurnInv, MessageKept, StageInv, Shapes, IsState
      <4>2. mod'[m].at # "asking"
        BY <3>3 DEF ResumeLeaf, PlanDone, Fail, Goto, TurnInv, StageInv, Shapes, IsState
      <4> QED
        BY <4>1, <4>2
    <3> QED
      BY <1>3, <3>1, <3>2, <3>3 DEF ModuleNext
  <2> QED
    BY <1>0, <2>1, <2>2, <2>3, <2>4 DEF TurnInv, MessageKept
<1>4. CASE EndStage
  <2>1. /\ root \in {"reading", "writing"} /\ root' \in {"waiting", "answered", "writing"}
        /\ UNCHANGED <<message, request, mod, executed>>
    BY <1>4 DEF EndStage, Elsewhere
  <2> QED
    BY <1>0, <2>1, SameLeaves DEF TurnInv, MessageKept
<1>5. ASSUME NEW a \in Answers \cup Approvals, AnswerRoot(a) PROVE TurnInv'
  <2>1. CASE UNCHANGED <<root, original, mod, request, executed>>
    BY <1>0, <1>5, <2>1, SameLeaves DEF AnswerRoot, TurnInv, MessageKept
  <2>2. CASE RunRoot(Combine(original, a)) /\ request' = request \cup a
    <3>1. Combine(original, a) # {}
      BY TurnAssumption DEF Combine, Approvals
    <3>2. root' = "routing" /\ message' = Combine(original, a)
      BY <2>2, <3>1 DEF RunRoot
    <3>3. request' \subseteq message'
      BY <1>5, <2>2, <3>2, CombineKeeps DEF AnswerRoot, TurnInv, MessageKept
    <3> QED
      BY <1>0, <3>2, <3>3, NothingKept DEF TurnInv, MessageKept
  <2> QED
    BY <1>5, <2>1, <2>2 DEF AnswerRoot
<1>6. ASSUME NEW m \in Modules, NEW a \in Answers \cup Approvals, AnswerModule(m, a) PROVE TurnInv'
  <2>1. root = "waiting" /\ mod[m].at = "asking" /\ UNCHANGED <<request, executed>>
    BY <1>6 DEF AnswerModule
  <2>2. CASE UNCHANGED <<root, mod>>
    BY <1>0, <2>1, <2>2, SameLeaves DEF TurnInv, MessageKept
  <2>3. CASE message' = Combine(mod[m].original, a) /\ Goto(m, "todo") /\ root' = StageOf(m)
    <3>1. request \subseteq message' \/ TicketRan
      BY <2>1, <2>3, CombineKeeps DEF TurnInv, MessageKept
    <3>2. mod'[m].at = "todo" /\ \A n \in Modules \ {m} : mod'[n] = mod[n]
      BY <2>3, GotoShape DEF TurnInv, StageInv
    <3> QED
      BY <1>0, <2>1, <2>3, <3>1, <3>2, SameLeaves DEF TurnInv, MessageKept, StageOf
  <2> QED
    BY <1>6, <2>2, <2>3 DEF AnswerModule
<1>7. ASSUME NEW m \in Modules, NEW a, AnswerLeaf(m, a) PROVE TurnInv'
  <2>1. mod[m].at = "waiting" /\ root' = StageOf(m) /\ UNCHANGED <<request, executed>>
    BY <1>7 DEF AnswerLeaf
  <2>2. mod'[m].at = "resumed" /\ \A n \in Modules \ {m} : mod'[n] = mod[n]
    BY <1>7, GotoShape DEF AnswerLeaf, TurnInv, StageInv
  <2>3. TicketRan
    BY <2>1 DEF TurnInv, MessageKept
  <2> QED
    BY <1>0, <2>1, <2>2, <2>3, SameLeaves DEF TurnInv, MessageKept, StageOf
<1>8. CASE UNCHANGED vars
  BY <1>0, <1>8, SameLeaves DEF vars, TurnInv, MessageKept
<1> QED
  BY <1>1, <1>2, <1>3, <1>4, <1>5, <1>6, <1>7, <1>8 DEF Next, Resume

(* A leaf works on all the user asked for, unless a ticket agent ran       *)
(* before it (run_runtime.go:101-111, planned.go:189-196).                 *)
THEOREM LeavesKeepTheRequest == Spec => []LeavesSeeTheRequest
<1>1. TurnInv => LeavesSeeTheRequest
  BY DEF TurnInv
<1> QED
  BY InitMessage, StepMessage, <1>1, PTL DEF Spec

-----------------------------------------------------------------------------
(* Places and the order of what is at them                                 *)

(* Numbers are well-founded, and a property of all of them can be proved as *)
(* that of a set of them.                                                  *)
LEMMA Below == ASSUME NEW m \in Nat, NEW n \in Nat, m < n PROVE <<m, n>> \in OpToRel(<, Nat)
BY DEF OpToRel

(* A set of numbers has a least one.                                       *)
LEMMA LeastNumber ==
  ASSUME NEW S, S \subseteq Nat, S # {}
  PROVE  \E n \in S : \A m \in S : ~(m < n)
<1>1. \E n \in S : \A m \in S : <<m, n>> \notin OpToRel(<, Nat)
  BY NatLessThanWellFounded, WFMin
<1> QED
  BY <1>1, Below

(* A set of numbers with 0 and with what comes after each of its own has all. *)
LEMMA Induction ==
  ASSUME NEW S, 0 \in S, \A n \in Nat : n \in S => n + 1 \in S
  PROVE  \A n \in Nat : n \in S
<1> SUFFICES ASSUME Nat \ S # {} PROVE FALSE
  OBVIOUS
<1>1. PICK n \in Nat \ S : \A m \in Nat \ S : ~(m < n)
  BY LeastNumber
<1>2. n # 0 /\ n - 1 \in Nat /\ n - 1 < n /\ (n - 1) + 1 = n
  BY <1>1
<1> QED
  BY <1>1, <1>2

-----------------------------------------------------------------------------
Rank(P, i) == Cardinality({j \in P : j <= i})
Nth(P, k) == CHOOSE i \in P : Rank(P, i) = k
HasNth(P) == \A k \in 1 .. Cardinality(P) : \E i \in P : Rank(P, i) = k

(* Places are finitely many.                                               *)
LEMMA FinitePlaces ==
  ASSUME NEW n \in Nat, NEW P, P \subseteq 1 .. n
  PROVE  IsFiniteSet(P) /\ Cardinality(P) \in Nat
<1>1. IsFiniteSet(1 .. n)
  BY FS_Interval
<1> QED
  BY <1>1, FS_Subset, FS_CardinalityType

(* One more place is one more in rank.                                     *)
LEMMA RankRises ==
  ASSUME NEW n \in Nat, NEW P, P \subseteq 1 .. n, NEW h \in P, NEW i \in P, h < i
  PROVE  Rank(P, h) < Rank(P, i)
<1> DEFINE A == {j \in P : j <= h}
           B == {j \in P : j <= i}
<1>1. IsFiniteSet(A) /\ IsFiniteSet(B) /\ Cardinality(A) \in Nat /\ Cardinality(B) \in Nat
  BY FinitePlaces
<1>2. A \cup {i} \subseteq B /\ i \notin A
  <2>1. h \in Nat /\ i \in Nat /\ ~(i <= h) /\ i <= i
    OBVIOUS
  <2>2. \A j \in P : j <= h => j <= i
    OBVIOUS
  <2> QED
    BY <2>1, <2>2
<1>3. Cardinality(A \cup {i}) = Cardinality(A) + 1
  BY <1>1, <1>2, FS_AddElement
<1>4. Cardinality(A \cup {i}) <= Cardinality(B)
  BY <1>1, <1>2, FS_Subset
<1> QED
  BY <1>1, <1>3, <1>4 DEF Rank

(* There is a place of every rank.                                         *)
LEMMA NthExists ==
  ASSUME NEW n \in Nat, NEW P, P \subseteq 1 .. n
  PROVE  HasNth(P)
<1> DEFINE S == {m \in Nat : \A Q \in SUBSET (1 .. m) : HasNth(Q)}
<1>1. 0 \in S
  <2> SUFFICES ASSUME NEW Q \in SUBSET (1 .. 0) PROVE HasNth(Q)
    OBVIOUS
  <2>1. Q = {} /\ Cardinality({}) = 0
    BY FS_EmptySet
  <2> QED
    BY <2>1 DEF HasNth
<1>2. ASSUME NEW m \in Nat, m \in S PROVE m + 1 \in S
  <2> SUFFICES ASSUME NEW Q \in SUBSET (1 .. m + 1) PROVE HasNth(Q)
    OBVIOUS
  <2>1. CASE m + 1 \notin Q
    <3>1. Q \in SUBSET (1 .. m)
      BY <2>1
    <3> QED
      BY <1>2, <3>1
  <2>2. CASE m + 1 \in Q
    <3> DEFINE R == Q \ {m + 1}
    <3>1. R \in SUBSET (1 .. m) /\ IsFiniteSet(Q)
      <4>1. IsFiniteSet(Q)
        <5>1. m + 1 \in Nat /\ Q \subseteq 1 .. m + 1
          OBVIOUS
        <5> QED
          BY <5>1, FinitePlaces
      <4> QED
        BY <4>1
    <3>2. HasNth(R)
      BY <1>2, <3>1
    <3>3. Cardinality(R) = Cardinality(Q) - 1 /\ Cardinality(Q) \in Nat
      BY <2>2, <3>1, FS_RemoveElement, FS_CardinalityType
    <3>4. ASSUME NEW k \in 1 .. Cardinality(Q), k < Cardinality(Q) PROVE \E i \in Q : Rank(Q, i) = k
      <4>0. k \in 1 .. Cardinality(R)
        BY <3>3, <3>4
      <4>1. PICK i \in R : Rank(R, i) = k
        BY <3>2, <4>0 DEF HasNth
      <4>2. {j \in Q : j <= i} = {j \in R : j <= i}
        BY <3>1
      <4> QED
        BY <4>1, <4>2 DEF Rank
    <3>5. {j \in Q : j <= m + 1} = Q
      <4>1. \A j \in Q : j <= m + 1
        OBVIOUS
      <4> QED
        BY <4>1
    <3>6. Rank(Q, m + 1) = Cardinality(Q)
      BY <3>5 DEF Rank
    <3> QED
      BY <2>2, <3>3, <3>4, <3>6 DEF HasNth
  <2> QED
    BY <2>1, <2>2
<1>3. n \in S
  <2> HIDE DEF S
  <2> QED
    BY <1>1, <1>2, Induction
<1> QED
  BY <1>3

(* The place of a rank has that rank.                                      *)
LEMMA NthPlace ==
  ASSUME NEW n \in Nat, NEW P, P \subseteq 1 .. n, NEW k \in 1 .. Cardinality(P)
  PROVE  Nth(P, k) \in P /\ Rank(P, Nth(P, k)) = k
BY NthExists DEF HasNth, Nth

(* A place is the one of its rank.                                         *)
LEMMA NthOfRank ==
  ASSUME NEW n \in Nat, NEW P, P \subseteq 1 .. n, NEW i \in P
  PROVE  Rank(P, i) \in 1 .. Cardinality(P) /\ Nth(P, Rank(P, i)) = i
<1> DEFINE A == {j \in P : j <= i}
<1>1. IsFiniteSet(A) /\ A \subseteq P /\ IsFiniteSet(P) /\ A # {}
  <2>1. i <= i
    OBVIOUS
  <2>2. A \subseteq 1 .. n
    OBVIOUS
  <2> QED
    BY <2>1, <2>2, FinitePlaces
<1>2. Cardinality(A) \in Nat /\ Cardinality(A) <= Cardinality(P) /\ Cardinality(A) # 0
  BY <1>1, FS_Subset, FS_CardinalityType, FS_EmptySet
<1>3. Rank(P, i) \in 1 .. Cardinality(P)
  BY <1>1, <1>2, FS_CardinalityType DEF Rank
<1>4. Nth(P, Rank(P, i)) \in P /\ Rank(P, Nth(P, Rank(P, i))) = Rank(P, i)
  BY <1>3, NthPlace
<1>5. PICK h \in P : h = Nth(P, Rank(P, i))
  BY <1>4
<1>6. ~(h < i) /\ ~(i < h)
  <2>1. Rank(P, h) = Rank(P, i) /\ Rank(P, i) \in Nat
    BY <1>3, <1>4, <1>5
  <2>2. h < i => Rank(P, h) < Rank(P, i)
    BY RankRises
  <2>3. i < h => Rank(P, i) < Rank(P, h)
    BY RankRises
  <2> QED
    BY <2>1, <2>2, <2>3
<1>7. h = i
  <2>1. h \in Nat /\ i \in Nat
    OBVIOUS
  <2> QED
    BY <1>6, <2>1
<1> QED
  BY <1>3, <1>5, <1>7

(* What AtPlaces is, by rank.                                              *)
LEMMA AtPlacesIs ==
  ASSUME NEW s, NEW P
  PROVE  AtPlaces(s, P) = [k \in 1 .. Cardinality(P) |-> s[Nth(P, k)]]
BY DEF AtPlaces, Nth, Rank

(* A sequence is what it has at each of its places.                        *)
LEMMA IsSeq ==
  ASSUME NEW S, NEW n \in Nat, NEW s, s = [i \in 1 .. n |-> s[i]], \A i \in 1 .. n : s[i] \in S
  PROVE  s \in Seq(S) /\ Len(s) = n
<1>1. s \in [1 .. n -> S]
  OBVIOUS
<1>2. s \in Seq(S)
  BY <1>1, SeqDef
<1>3. DOMAIN s = 1 .. n /\ DOMAIN s = 1 .. Len(s) /\ Len(s) \in Nat
  BY <1>1, <1>2, LenProperties
<1> QED
  BY <1>2, <1>3

(* What is at places of a sequence is a sequence.                          *)
LEMMA AtPlacesSeq ==
  ASSUME NEW S, NEW n \in Nat, NEW P, P \subseteq 1 .. n, NEW s, \A i \in P : s[i] \in S
  PROVE  /\ AtPlaces(s, P) \in Seq(S) /\ Len(AtPlaces(s, P)) = Cardinality(P)
         /\ Cardinality(P) \in Nat
         /\ \A k \in 1 .. Cardinality(P) : AtPlaces(s, P)[k] = s[Nth(P, k)] /\ Nth(P, k) \in P
<1> DEFINE t == AtPlaces(s, P)
<1>1. Cardinality(P) \in Nat
  BY FinitePlaces
<1>2. \A k \in 1 .. Cardinality(P) : Nth(P, k) \in P
  BY NthPlace
<1>3. t = [k \in 1 .. Cardinality(P) |-> s[Nth(P, k)]]
  BY AtPlacesIs
<1>4. t = [k \in 1 .. Cardinality(P) |-> t[k]] /\ \A k \in 1 .. Cardinality(P) : t[k] = s[Nth(P, k)]
  BY <1>3
<1>5. \A k \in 1 .. Cardinality(P) : t[k] \in S
  BY <1>2, <1>4
<1>6. t \in Seq(S) /\ Len(t) = Cardinality(P)
  <2> HIDE DEF t
  <2> QED
    BY <1>1, <1>4, <1>5, IsSeq
<1> QED
  BY <1>1, <1>2, <1>4, <1>6

(* Different places come at different places.                              *)
LEMMA NthDiffers ==
  ASSUME NEW n \in Nat, NEW P, P \subseteq 1 .. n,
         NEW h \in 1 .. Cardinality(P), NEW k \in 1 .. Cardinality(P), h # k
  PROVE  Nth(P, h) # Nth(P, k)
BY NthPlace

(* What is at more places: the new last one comes last.                    *)
LEMMA NthOfMore ==
  ASSUME NEW n \in Nat, NEW P, P \subseteq 1 .. n
  PROVE  /\ Cardinality(P \cup {n + 1}) = Cardinality(P) + 1
         /\ Nth(P \cup {n + 1}, Cardinality(P) + 1) = n + 1
         /\ \A k \in 1 .. Cardinality(P) : Nth(P \cup {n + 1}, k) = Nth(P, k)
<1> DEFINE Q == P \cup {n + 1}
<1>1. Q \subseteq 1 .. n + 1 /\ n + 1 \notin P /\ n + 1 \in Nat
  OBVIOUS
<1>2. IsFiniteSet(P) /\ Cardinality(P) \in Nat
  BY FinitePlaces
<1>3. Cardinality(Q) = Cardinality(P) + 1
  BY <1>1, <1>2, FS_AddElement
<1>4. Rank(Q, n + 1) = Cardinality(Q)
  <2>1. {j \in Q : j <= n + 1} = Q
    <3>1. \A j \in Q : j <= n + 1
      BY <1>1
    <3> QED
      BY <3>1
  <2> QED
    BY <2>1 DEF Rank
<1>5. Nth(Q, Cardinality(Q)) = n + 1
  <2>1. n + 1 \in Q
    OBVIOUS
  <2> HIDE DEF Q
  <2> QED
    BY <2>1, <1>1, <1>4, NthOfRank
<1>6. ASSUME NEW k \in 1 .. Cardinality(P) PROVE Nth(Q, k) = Nth(P, k)
  <2>1. PICK i \in P : i = Nth(P, k) /\ Rank(P, i) = k
    BY NthPlace
  <2>2. {j \in Q : j <= i} = {j \in P : j <= i}
    BY <1>1
  <2>3. Rank(Q, i) = k
    BY <2>1, <2>2 DEF Rank
  <2>4. i \in Q
    OBVIOUS
  <2>5. Nth(Q, Rank(Q, i)) = i
    <3> HIDE DEF Q
    <3> QED
      BY <2>4, <1>1, NthOfRank
  <2> QED
    BY <2>1, <2>3, <2>5
<1> QED
  BY <1>3, <1>5, <1>6

-----------------------------------------------------------------------------
(* The tree of agents and the keys of its leaves                           *)

(* What the check at the start and the registry make sure of.              *)
LEMMA Configured ==
  /\ Tree \in AgentsConfig /\ Buildable
  /\ Assistant \in Elements(Keys(Tree.roots))
  /\ \A n \in Elements(Tree.domains) : Elements(n.children) \subseteq Elements(Keys(Tree.leaves))
BY TreeAssumption DEF ValidAgentTree

(* The parts of the configuration have their types.                        *)
LEMMA ConfigTypes ==
  /\ \A i \in DOMAIN Tree.roots :
        Tree.roots[i].key \in STRING /\ Tree.roots[i].children \in Seq(STRING)
  /\ \A i \in DOMAIN Tree.domains :
        Tree.domains[i].key \in STRING /\ Tree.domains[i].children \in Seq(STRING)
  /\ \A i \in DOMAIN Tree.leaves :
        /\ Tree.leaves[i] \in [key : STRING, type : STRING, kbIDs : Seq(STRING), topK : Int,
                               rewriteQueries : Int, maxContextDocs : Int, sourceLimit : Int, internal : BOOLEAN]
  /\ Tree.defaultTopK \in Int
<1> DEFINE Supervisor == [key : STRING, children : Seq(STRING)]
           Leaf == [key : STRING, type : STRING, kbIDs : Seq(STRING), topK : Int,
                    rewriteQueries : Int, maxContextDocs : Int, sourceLimit : Int, internal : BOOLEAN]
<1>1. /\ Tree.roots \in Seq(Supervisor) /\ Tree.domains \in Seq(Supervisor)
      /\ Tree.leaves \in Seq(Leaf) /\ Tree.defaultTopK \in Int
  BY Configured DEF AgentsConfig
<1>2. \A i \in DOMAIN Tree.roots : Tree.roots[i] \in Supervisor
  BY <1>1, LenProperties, ElementOfSeq
<1>3. \A i \in DOMAIN Tree.domains : Tree.domains[i] \in Supervisor
  BY <1>1, LenProperties, ElementOfSeq
<1>4. \A i \in DOMAIN Tree.leaves : Tree.leaves[i] \in Leaf
  BY <1>1, LenProperties, ElementOfSeq
<1> QED
  BY <1>1, <1>2, <1>3, <1>4

(* A node is found by its key.                                             *)
LEMMA NodeIs ==
  ASSUME NEW nodes, NEW key \in Elements(Keys(nodes))
  PROVE  \E i \in DOMAIN nodes : Node(nodes, key) = nodes[i] /\ nodes[i].key = key
BY DEF Elements, Keys, Node

(* Every module has a sequence of leaves of the tree.                      *)
LEMMA ModuleLeaves ==
  ASSUME NEW m \in Modules
  PROVE  \E n \in Nat : /\ DOMAIN Leaves[m] = 1 .. n
                        /\ \A i \in 1 .. n : \E key \in Elements(Keys(Tree.leaves)) : Leaves[m][i] = LeafBinding(key)
<1>1. PICK r \in DOMAIN Tree.roots : ModuleOrder = Tree.roots[r].children
  BY Configured, NodeIs DEF ModuleOrder
<1>2. m \in Elements(Keys(Tree.domains))
  BY <1>1, Configured DEF Modules, Buildable, Elements
<1>3. PICK d \in DOMAIN Tree.domains : Node(Tree.domains, m) = Tree.domains[d]
  BY <1>2, NodeIs
<1> DEFINE keys == Node(Tree.domains, m).children
<1>4. keys \in Seq(STRING) /\ Elements(keys) \subseteq Elements(Keys(Tree.leaves))
  <2>1. Node(Tree.domains, m) \in Elements(Tree.domains)
    BY <1>3 DEF Elements
  <2> QED
    BY <1>3, <2>1, Configured, ConfigTypes
<1>5. Len(keys) \in Nat /\ DOMAIN keys = 1 .. Len(keys)
  BY <1>4, LenProperties
<1>6. Leaves[m] = [i \in DOMAIN keys |-> LeafBinding(keys[i])]
  BY DEF Leaves
<1>7. \A i \in DOMAIN keys : keys[i] \in Elements(Keys(Tree.leaves))
  BY <1>4 DEF Elements
<1> QED
  <2> HIDE DEF keys
  <2> QED
    BY <1>5, <1>6, <1>7

(* The leaf a key is bound to.                                             *)
LEMMA BindingOf ==
  ASSUME NEW key \in Elements(Keys(Tree.leaves))
  PROVE  /\ key \in STRING /\ LeafBinding(key).key = key
         /\ LeafBinding(key).kind = Node(Tree.leaves, key).type
<1>1. PICK i \in DOMAIN Tree.leaves : Node(Tree.leaves, key) = Tree.leaves[i] /\ Tree.leaves[i].key = key
  BY NodeIs
<1>2. Tree.leaves[i] \in [key : STRING, type : STRING, kbIDs : Seq(STRING), topK : Int,
                          rewriteQueries : Int, maxContextDocs : Int, sourceLimit : Int, internal : BOOLEAN]
  BY ConfigTypes
<1> QED
  BY <1>1, <1>2 DEF LeafBinding

(* The keys of the leaves of a module, and the leaf of each.               *)
LeafKeys(m) == Elements(Keys(Leaves[m]))

(* A key of a leaf of m is bound to that leaf.                             *)
LEMMA LeafKeysAre ==
  ASSUME NEW m \in Modules
  PROVE  /\ \A i \in DOMAIN Leaves[m] : Leaves[m][i].key \in LeafKeys(m)
         /\ \A key \in LeafKeys(m) : /\ key \in STRING /\ key \in Elements(Keys(Tree.leaves))
                                     /\ LeafOf(m, key) = LeafBinding(key) /\ LeafBinding(key).key = key
<1>1. \A i \in DOMAIN Leaves[m] : Leaves[m][i].key \in LeafKeys(m)
  BY DEF LeafKeys, Elements, Keys
<1>2. ASSUME NEW key \in LeafKeys(m)
      PROVE  /\ key \in STRING /\ key \in Elements(Keys(Tree.leaves))
             /\ LeafOf(m, key) = LeafBinding(key) /\ LeafBinding(key).key = key
  <2>1. PICK i \in DOMAIN Leaves[m] : LeafOf(m, key) = Leaves[m][i] /\ Leaves[m][i].key = key
    BY <1>2 DEF LeafKeys, Elements, Keys, LeafOf, Node
  <2>2. PICK k \in Elements(Keys(Tree.leaves)) : Leaves[m][i] = LeafBinding(k)
    BY <2>1, ModuleLeaves
  <2>3. k = key
    BY <2>1, <2>2, BindingOf
  <2> QED
    BY <2>1, <2>2, <2>3, BindingOf
<1> QED
  BY <1>1, <1>2

-----------------------------------------------------------------------------
(* Plans                                                                   *)

(* A plan of m: leaves of m, each once.                                    *)
IsPlan(m, steps) ==
  /\ steps \in Seq(STRING)
  /\ \A k \in 1 .. Len(steps) : steps[k] \in LeafKeys(m)
  /\ \A h, k \in 1 .. Len(steps) : h # k => steps[h] # steps[k]

(* No step is a plan.                                                      *)
LEMMA NoStepsIsPlan == ASSUME NEW m PROVE IsPlan(m, << >>)
<1>1. << >> \in Seq(STRING) /\ Len(<< >>) = 0
  BY EmptySeq
<1> QED
  BY <1>1 DEF IsPlan

(* One leaf is a plan.                                                     *)
LEMMA OneStepIsPlan ==
  ASSUME NEW m, NEW key \in LeafKeys(m), key \in STRING PROVE IsPlan(m, <<key>>)
<1>1. PICK s : s = <<key>>
  OBVIOUS
<1>2. s = [i \in 1 .. 1 |-> s[i]] /\ s[1] = key
  BY <1>1
<1>3. s \in Seq(STRING) /\ Len(s) = 1
  BY <1>2, IsSeq
<1>4. IsPlan(m, s)
  BY <1>2, <1>3 DEF IsPlan
<1> QED
  BY <1>1, <1>4

(* A normalised plan has leaves of the module, each once.                  *)
LEMMA NormalPlan ==
  ASSUME NEW m \in Modules, NEW steps \in Seq(STRING)
  PROVE  IsPlan(m, NormalizePlan(m, steps))
<1> DEFINE P == {i \in DOMAIN steps :
                   steps[i] \in Elements(Keys(Leaves[m])) /\ \A j \in 1 .. i - 1 : steps[j] # steps[i]}
           plan0 == AtPlaces(steps, P)
<1>1. Len(steps) \in Nat /\ DOMAIN steps = 1 .. Len(steps) /\ \A i \in P : steps[i] \in STRING
  BY LenProperties, ElementOfSeq
<1>2. P \subseteq 1 .. Len(steps)
  BY <1>1
<1>3. /\ plan0 \in Seq(STRING) /\ Len(plan0) = Cardinality(P) /\ Cardinality(P) \in Nat
      /\ \A k \in 1 .. Cardinality(P) : plan0[k] = steps[Nth(P, k)] /\ Nth(P, k) \in P
  <2> HIDE DEF P
  <2> QED
    BY <1>1, <1>2, AtPlacesSeq
<1>4. \A i, j \in P : i # j => steps[i] # steps[j]
  <2> SUFFICES ASSUME NEW i \in P, NEW j \in P, i < j PROVE steps[i] # steps[j]
    BY <1>2
  <2>1. i \in 1 .. j - 1
    BY <1>2
  <2> QED
    BY <2>1
<1>5. \A h, k \in 1 .. Cardinality(P) : h # k => Nth(P, h) # Nth(P, k)
  <2> HIDE DEF P
  <2> QED
    BY <1>1, <1>2, NthDiffers
<1>6. \A i \in P : steps[i] \in LeafKeys(m)
  BY DEF LeafKeys
<1>7. IsPlan(m, plan0)
  <2> HIDE DEF P, plan0
  <2> QED
    BY <1>3, <1>4, <1>5, <1>6 DEF IsPlan
<1> QED
  BY <1>7 DEF NormalizePlan

(* The first of some numbers.                                              *)
LEMMA FirstPlace ==
  ASSUME NEW S, S \subseteq Nat, S # {}
  PROVE  First(S) \in S /\ \A i \in S : First(S) <= i
<1>1. PICK n \in S : \A m \in S : ~(m < n)
  BY LeastNumber
<1>2. \A m \in S : n <= m
  BY <1>1
<1> QED
  BY <1>1, <1>2 DEF First

(* The agents that rules name are leaves of the module.                    *)
LEMMA FirstKeyStep ==
  ASSUME NEW m \in Modules, NEW P, P \subseteq DOMAIN Leaves[m]
  PROVE  OneStep(FirstKey(m, P)) = << >> \/ \E key \in LeafKeys(m) : OneStep(FirstKey(m, P)) = <<key>>
<1>1. P = {} => OneStep(FirstKey(m, P)) = << >>
  BY Zenon DEF OneStep, FirstKey
<1>2. ASSUME P # {} PROVE Leaves[m][First(P)].key \in LeafKeys(m)
  <2>1. P \subseteq Nat
    BY ModuleLeaves
  <2>2. First(P) \in DOMAIN Leaves[m]
    BY <1>2, <2>1, FirstPlace
  <2> QED
    BY <2>2, LeafKeysAre
<1>3. P # {} => OneStep(FirstKey(m, P)) \in {<< >>, <<Leaves[m][First(P)].key>>}
  BY Zenon DEF OneStep, FirstKey
<1> QED
  BY <1>1, <1>2, <1>3

IsStepOf(m, steps) == steps = << >> \/ \E key \in LeafKeys(m) : steps = <<key>>

(* A rule names one leaf or none.                                          *)
LEMMA RulesName ==
  ASSUME NEW m \in Modules, NEW msg
  PROVE  IsStepOf(m, OneStep(InterruptibleAgent(m))) /\ IsStepOf(m, OneStep(KnowledgeAgent(m, msg)))
<1> DEFINE tickets == {i \in DOMAIN Leaves[m] : Leaves[m][i].kind = "itsm"}
           asking == {i \in DOMAIN Leaves[m] : Leaves[m][i].interruptible}
           all == {i \in DOMAIN Leaves[m] : Leaves[m][i].kind = "knowledge" \/ ~Leaves[m][i].interruptible}
           fitting == {i \in all : Leaves[m][i].internal = ("internal" \in msg)}
<1>1. InterruptibleAgent(m) = FirstKey(m, IF tickets # {} THEN tickets ELSE asking)
  BY DEF InterruptibleAgent, Preferred
<1>2. KnowledgeAgent(m, msg) = FirstKey(m, IF fitting # {} THEN fitting ELSE all)
  BY DEF KnowledgeAgent, Preferred
<1>3. \A P : P \subseteq DOMAIN Leaves[m] => IsStepOf(m, OneStep(FirstKey(m, P)))
  BY FirstKeyStep DEF IsStepOf
<1>4. /\ (IF tickets # {} THEN tickets ELSE asking) \subseteq DOMAIN Leaves[m]
      /\ (IF fitting # {} THEN fitting ELSE all) \subseteq DOMAIN Leaves[m]
  OBVIOUS
<1> QED
  <2> HIDE DEF tickets, asking, all, fitting
  <2> QED
    BY <1>1, <1>2, <1>3, <1>4

(* One leaf or none is a plan.                                             *)
LEMMA StepOfIsPlan ==
  ASSUME NEW m \in Modules, NEW steps, IsStepOf(m, steps)
  PROVE  IsPlan(m, steps)
BY NoStepsIsPlan, OneStepIsPlan, LeafKeysAre DEF IsStepOf

-----------------------------------------------------------------------------
(* Every plan of a module                                                  *)

(* What a module does without a plan is a plan.                            *)
LEMMA FallbackIsPlan ==
  ASSUME NEW m \in Modules, NEW msg PROVE IsPlan(m, FallbackPlan(m, msg))
<1>1. FallbackPlan(m, msg) \in {OneStep(""), OneStep(InterruptibleAgent(m)), OneStep(KnowledgeAgent(m, msg))}
  BY Zenon DEF FallbackPlan
<1>2. OneStep("") = << >>
  BY Zenon DEF OneStep
<1>3. FallbackPlan(m, msg) \in {<< >>, OneStep(InterruptibleAgent(m)), OneStep(KnowledgeAgent(m, msg))}
  BY <1>1, <1>2, Zenon
<1>4. FallbackPlan(m, msg) = << >> \/ IsStepOf(m, FallbackPlan(m, msg))
  <2> HIDE <1>1, <1>2
  <2> QED
    BY <1>3, RulesName
<1> QED
  BY <1>4, StepOfIsPlan DEF IsStepOf

(* The rules give a plan.                                                  *)
LEMMA RulesGiveSteps ==
  ASSUME NEW m \in Modules, NEW msg PROVE PlanByHeuristic(m, msg) \in Seq(STRING)
<1> DEFINE Says(word) == word \in msg
           If(cond, steps) == IF cond THEN steps ELSE << >>
           kb == OneStep(KnowledgeAgent(m, msg))
           asks == OneStep(InterruptibleAgent(m))
           a == If(Says("howTo") /\ ~Says("submit"), kb)
           b == If(/\ Says("process") /\ ~Says("guide")
                   /\ Says("submit") \/ Says("tried"), asks)
           c == If(Says("submit") /\ Says("guide"), kb) \o If(Says("submit"), asks)
           d == If((Says("guide") \/ Says("lookup")) /\ ~Says("process"), kb)
           rules == <<a, b, c, d>>
           fitting == {i \in 1 .. 4 : rules[i] # << >>}
<1>1. PlanByHeuristic(m, msg) = IF fitting = {} THEN << >> ELSE rules[First(fitting)]
  <2>1. DOMAIN rules = 1 .. 4
    OBVIOUS
  <2>2. PlanByHeuristic(m, msg) = FirstSteps(rules)
    BY DEF PlanByHeuristic
  <2> HIDE DEF rules
  <2> QED
    BY <2>1, <2>2 DEF FirstSteps
<1>2. kb \in Seq(STRING) /\ asks \in Seq(STRING) /\ << >> \in Seq(STRING)
  BY RulesName, StepOfIsPlan, EmptySeq DEF IsPlan
<1>3. \A s, t \in Seq(STRING) : s \o t \in Seq(STRING)
  BY ConcatProperties
<1>4. a \in Seq(STRING) /\ b \in Seq(STRING) /\ d \in Seq(STRING) /\ c \in Seq(STRING)
  <2> HIDE DEF kb, asks, Says
  <2> QED
    BY <1>2, <1>3
<1>5. \A i \in 1 .. 4 : rules[i] \in Seq(STRING)
  <2> HIDE DEF a, b, c, d
  <2> QED
    BY <1>4
<1>6. fitting # {} => First(fitting) \in 1 .. 4
  <2> fitting \subseteq Nat /\ fitting \subseteq 1 .. 4
    OBVIOUS
  <2> HIDE DEF fitting
  <2> QED
    BY FirstPlace
<1> QED
  <2> HIDE DEF fitting, rules
  <2> QED
    BY <1>1, <1>2, <1>5, <1>6

(* Whatever the rules and the model say, a module gets a plan.             *)
LEMMA EveryPlan ==
  ASSUME NEW m \in Modules, NEW msg, NEW p \in Plan(m, msg)
  PROVE  IsPlan(m, p.steps)
<1>1. \A q \in ModelPlans : IsPlan(m, NormalizePlan(m, q.steps))
  BY TurnAssumption, NormalPlan
<1>2. IsPlan(m, NormalizePlan(m, PlanByHeuristic(m, msg)))
  BY RulesGiveSteps, NormalPlan
<1>3. \A cause : PlanFallbackOrError(m, msg, cause).steps = FallbackPlan(m, msg)
  BY DEF PlanFallbackOrError
<1> QED
  BY <1>1, <1>2, <1>3, FallbackIsPlan DEF Plan

-----------------------------------------------------------------------------
(* Modules follow their plans                                              *)

(* What m has started: the leaves of its plan before the next step, or     *)
(* with it while that waits.                                               *)
Begun(m) == mod[m].next - (IF mod[m].at \in {"waiting", "resumed"} THEN 0 ELSE 1)
IsFollowed(m) ==
    /\ IsPlan(m, mod[m].steps)
    /\ mod[m].next \in 1 .. Len(mod[m].steps) + 1
    /\ mod[m].at \in {"todo", "asking"} => mod[m].next = 1
    /\ mod[m].at \in {"waiting", "resumed"} => mod[m].next <= Len(mod[m].steps)
    /\ Len(StartedBy(m)) = Begun(m)
    /\ \A i \in 1 .. Begun(m) : StartedBy(m)[i].leaf = LeafBinding(mod[m].steps[i])
PlanInv == \A m \in Modules : IsFollowed(m)

(* The leaves m has started are among those of the turn.                   *)
LEMMA StartedAre ==
  ASSUME \E S : executed \in Seq(S), NEW m
  PROVE  /\ Len(StartedBy(m)) \in Nat
         /\ Len(StartedBy(m)) = Cardinality({i \in DOMAIN executed : executed[i].module = m})
         /\ StartedBy(m) = AtPlaces(executed, {i \in DOMAIN executed : executed[i].module = m})
<1>1. PICK S : executed \in Seq(S)
  OBVIOUS
<1> DEFINE P == {i \in DOMAIN executed : executed[i].module = m}
<1>2. Len(executed) \in Nat /\ P \subseteq 1 .. Len(executed) /\ \A i \in P : executed[i] \in S
  BY <1>1, LenProperties, ElementOfSeq
<1>3. Len(AtPlaces(executed, P)) = Cardinality(P) /\ Cardinality(P) \in Nat
  <2> HIDE DEF P
  <2> QED
    BY <1>2, AtPlacesSeq
<1> QED
  BY <1>3 DEF StartedBy

(* A leaf that starts is the last one of its module.                       *)
LEMMA LeafStarts ==
  ASSUME \E S : executed \in Seq(S), NEW m, NEW e, e.module = m, executed' = Append(executed, e)
  PROVE  /\ Len(StartedBy(m)') = Len(StartedBy(m)) + 1
         /\ StartedBy(m)'[Len(StartedBy(m)) + 1] = e
         /\ \A i \in 1 .. Len(StartedBy(m)) : StartedBy(m)'[i] = StartedBy(m)[i]
         /\ \A n : n # m => StartedBy(n)' = StartedBy(n)
<1> DEFINE P(n) == {i \in DOMAIN executed : executed[i].module = n}
           Q(n) == {i \in DOMAIN executed' : executed'[i].module = n}
           l == Len(executed)
<1>1. /\ \E S : executed' \in Seq(S)
      /\ l \in Nat /\ DOMAIN executed' = 1 .. l + 1 /\ DOMAIN executed = 1 .. l
      /\ executed'[l + 1] = e
      /\ \A i \in 1 .. l : executed'[i] = executed[i]
  BY AppendShape
<1>2. Q(m) = P(m) \cup {l + 1} /\ P(m) \subseteq 1 .. l
  <2> HIDE DEF l
  <2> QED
    BY <1>1
<1>3. \A n : n # m => Q(n) = P(n) /\ P(n) \subseteq 1 .. l
  <2> HIDE DEF l
  <2> QED
    BY <1>1
<1>4. \A n : StartedBy(n) = AtPlaces(executed, P(n)) /\ StartedBy(n)' = AtPlaces(executed', Q(n))
  BY DEF StartedBy
<1>5. Len(StartedBy(m)) = Cardinality(P(m)) /\ Cardinality(P(m)) \in Nat
  BY StartedAre
<1>6. Len(StartedBy(m)') = Cardinality(Q(m))
  <2>1. PICK S : executed' \in Seq(S)
    BY <1>1
  <2>2. Len(executed') \in Nat /\ Q(m) \subseteq 1 .. Len(executed') /\ \A i \in Q(m) : executed'[i] \in S
    BY <2>1, LenProperties, ElementOfSeq
  <2>3. Len(AtPlaces(executed', Q(m))) = Cardinality(Q(m))
    <3> HIDE DEF Q
    <3> QED
      BY <2>2, AtPlacesSeq
  <2> QED
    BY <2>3, <1>4
<1>7. \A n : StartedBy(n) = [k \in 1 .. Cardinality(P(n)) |-> executed[Nth(P(n), k)]]
  BY <1>4, AtPlacesIs
<1>8. \A n : StartedBy(n)' = [k \in 1 .. Cardinality(Q(n)) |-> executed'[Nth(Q(n), k)]]
  BY <1>4, AtPlacesIs
<1> HIDE DEF P, Q
<1>9. /\ Cardinality(Q(m)) = Cardinality(P(m)) + 1
      /\ Nth(Q(m), Cardinality(P(m)) + 1) = l + 1
      /\ \A k \in 1 .. Cardinality(P(m)) : Nth(Q(m), k) = Nth(P(m), k) /\ Nth(P(m), k) \in P(m)
  <2> HIDE DEF l
  <2>1. l \in Nat /\ P(m) \subseteq 1 .. l
    BY <1>1, <1>2
  <2>2. \A k \in 1 .. Cardinality(P(m)) : Nth(P(m), k) \in P(m)
    BY <2>1, NthPlace
  <2>3. /\ Cardinality(P(m) \cup {l + 1}) = Cardinality(P(m)) + 1
        /\ Nth(P(m) \cup {l + 1}, Cardinality(P(m)) + 1) = l + 1
        /\ \A k \in 1 .. Cardinality(P(m)) : Nth(P(m) \cup {l + 1}, k) = Nth(P(m), k)
    BY <2>1, NthOfMore
  <2> QED
    BY <2>2, <2>3, <1>2
<1>10. ASSUME NEW n, n # m PROVE StartedBy(n)' = StartedBy(n)
  <2>1. Q(n) = P(n) /\ P(n) \subseteq 1 .. l
    BY <1>3, <1>10
  <2>2. \A k \in 1 .. Cardinality(P(n)) : Nth(P(n), k) \in P(n)
    <3> HIDE DEF l
    <3> QED
      BY <2>1, <1>1, NthPlace
  <2>3. \A k \in 1 .. Cardinality(P(n)) : executed'[Nth(P(n), k)] = executed[Nth(P(n), k)]
    BY <2>1, <2>2, <1>1
  <2> QED
    BY <2>1, <2>3, <1>7, <1>8
<1>11. StartedBy(m)'[Cardinality(P(m)) + 1] = e
  BY <1>1, <1>5, <1>8, <1>9
<1>12. \A i \in 1 .. Cardinality(P(m)) : StartedBy(m)'[i] = StartedBy(m)[i]
  <2>1. TAKE i \in 1 .. Cardinality(P(m))
  <2>2. i \in 1 .. Cardinality(Q(m)) /\ Nth(Q(m), i) = Nth(P(m), i) /\ Nth(P(m), i) \in 1 .. l
    <3> HIDE DEF l
    <3>1. i \in 1 .. Cardinality(P(m)) + 1
      BY <1>5
    <3> QED
      BY <3>1, <1>2, <1>9
  <2> QED
    BY <2>2, <1>1, <1>7, <1>8
<1> QED
  BY <1>5, <1>6, <1>9, <1>10, <1>11, <1>12

FollowInv == StageInv /\ PlanInv

(* What leaves modules and leaves alone keeps the plans followed.          *)
LEMMA SameFollowed ==
  ASSUME PlanInv, UNCHANGED <<mod, executed>> PROVE PlanInv'
BY DEF PlanInv, IsFollowed, Begun, StartedBy

(* No module has begun.                                                    *)
LEMMA InitFollowed == Init => FollowInv
<1> SUFFICES ASSUME Init PROVE FollowInv
  OBVIOUS
<1>1. StageInv
  BY InitStage
<1>2. ASSUME NEW m \in Modules PROVE IsFollowed(m)
  <2>1. mod[m] = Untouched /\ DOMAIN executed = {} /\ \E S : executed \in Seq(S)
    BY <1>1 DEF Init, StageInv, Shapes
  <2>2. mod[m].at = "todo" /\ mod[m].next = 1 /\ mod[m].steps = << >>
    BY <2>1 DEF Untouched
  <2>3. IsPlan(m, mod[m].steps) /\ Len(mod[m].steps) = 0
    BY <2>2, NoStepsIsPlan, EmptySeq
  <2>4. Len(StartedBy(m)) = 0
    <3>1. {i \in DOMAIN executed : executed[i].module = m} = {}
      BY <2>1
    <3> QED
      BY <2>1, <3>1, StartedAre, FS_EmptySet
  <2> QED
    BY <2>2, <2>3, <2>4 DEF IsFollowed, Begun
<1> QED
  BY <1>1, <1>2 DEF FollowInv, PlanInv

(* Only what happens to m matters for m.                                   *)
LEMMA OthersFollow ==
  ASSUME PlanInv, NEW m \in Modules, IsFollowed(m)',
         \A n \in Modules \ {m} : mod'[n] = mod[n] /\ StartedBy(n)' = StartedBy(n)
  PROVE  PlanInv'
<1>1. ASSUME NEW n \in Modules \ {m} PROVE IsFollowed(n)'
  BY DEF PlanInv, IsFollowed, Begun
<1> QED
  BY <1>1 DEF PlanInv

(* The leaf of the next step.                                              *)
LEMMA StepIs ==
  ASSUME NEW m \in Modules, IsFollowed(m), mod[m].next <= Len(mod[m].steps)
  PROVE  /\ mod[m].steps[mod[m].next] \in LeafKeys(m)
         /\ StepOf(m) = LeafBinding(mod[m].steps[mod[m].next])
         /\ StepOf(m).key = mod[m].steps[mod[m].next]
<1>1. mod[m].next \in 1 .. Len(mod[m].steps)
  BY LenProperties DEF IsFollowed, IsPlan
<1>2. mod[m].steps[mod[m].next] \in LeafKeys(m)
  BY <1>1 DEF IsFollowed, IsPlan
<1> QED
  BY <1>2, LeafKeysAre DEF StepOf

(* Every step keeps the plans followed.                                    *)
LEMMA StepFollowed == FollowInv /\ [Next]_vars => FollowInv'
<1> SUFFICES ASSUME FollowInv, [Next]_vars PROVE FollowInv'
  OBVIOUS
<1>0. StageInv' /\ StageInv /\ PlanInv /\ \E S : executed \in Seq(S)
  BY StepStage DEF FollowInv, StageInv, Shapes
<1> SUFFICES PlanInv'
  BY <1>0 DEF FollowInv
<1>1. CASE UNCHANGED <<mod, executed>>
  BY <1>0, <1>1, SameFollowed
<1>2. ASSUME NEW m \in Modules, RunModule(m) PROVE PlanInv'
  <2>1. mod[m].at = "todo" /\ UNCHANGED executed /\ IsFollowed(m) /\ IsState(mod[m])
    BY <1>0, <1>2 DEF RunModule, RunWithPlan, RunClarifyOrError, Fail, PlanInv, StageInv, Shapes
  <2>2. \A n : StartedBy(n)' = StartedBy(n)
    BY <2>1 DEF StartedBy
  <2>3. CASE UNCHANGED mod
    BY <1>0, <2>1, <2>3, SameFollowed
  <2>4. ASSUME NEW p \in Plan(m, message),
               mod' = [mod EXCEPT ![m] = [@ EXCEPT !.at = "running", !.steps = p.steps]]
        PROVE  PlanInv'
    <3>1. /\ mod'[m].at = "running" /\ mod'[m].steps = p.steps /\ mod'[m].next = mod[m].next
          /\ \A n \in Modules \ {m} : mod'[n] = mod[n]
      BY <2>1, <2>4, <1>0 DEF StageInv, Shapes, IsState
    <3>2. IsPlan(m, p.steps)
      BY EveryPlan
    <3>3. mod[m].next = 1 /\ Begun(m) = 0 /\ Begun(m)' = 0
      BY <2>1, <3>1 DEF IsFollowed, Begun
    <3>4. Len(p.steps) \in Nat
      BY <3>2, LenProperties DEF IsPlan
    <3>5. IsFollowed(m)'
      BY <2>1, <2>2, <3>1, <3>2, <3>3, <3>4 DEF IsFollowed
    <3> QED
      BY <1>0, <2>2, <3>1, <3>5, OthersFollow
  <2>5. CASE mod' = [mod EXCEPT ![m] = [@ EXCEPT !.at = "asking", !.original = message]]
    <3>1. /\ mod'[m].at = "asking" /\ mod'[m].steps = mod[m].steps /\ mod'[m].next = mod[m].next
          /\ \A n \in Modules \ {m} : mod'[n] = mod[n]
      BY <2>1, <2>5, <1>0 DEF StageInv, Shapes, IsState
    <3>2. IsFollowed(m)'
      BY <2>1, <2>2, <3>1 DEF IsFollowed, Begun
    <3> QED
      BY <1>0, <2>2, <3>1, <3>2, OthersFollow
  <2> QED
    BY <1>2, <2>3, <2>4, <2>5 DEF RunModule, RunWithPlan, RunClarifyOrError, Fail
<1>3. ASSUME NEW m \in Modules, RunLeaf(m) PROVE PlanInv'
  <2>1. CASE UNCHANGED <<mod, executed>>
    BY <1>1, <2>1
  <2>2. CASE executed' = Append(executed, [module |-> m, leaf |-> StepOf(m), saw |-> message])
    <3> DEFINE e == [module |-> m, leaf |-> StepOf(m), saw |-> message]
    <3>1. mod[m].at = "running" /\ mod[m].next <= Len(mod[m].steps) /\ IsFollowed(m) /\ IsState(mod[m])
      BY <1>0, <1>3 DEF RunLeaf, PlanInv, StageInv, Shapes
    <3>2. StepOf(m) = LeafBinding(mod[m].steps[mod[m].next])
      BY <3>1, StepIs
    <3>3. /\ Len(StartedBy(m)') = Len(StartedBy(m)) + 1
          /\ StartedBy(m)'[Len(StartedBy(m)) + 1] = e
          /\ \A i \in 1 .. Len(StartedBy(m)) : StartedBy(m)'[i] = StartedBy(m)[i]
          /\ \A n : n # m => StartedBy(n)' = StartedBy(n)
      BY <1>0, <2>2, LeafStarts
    <3>4. /\ \/ mod'[m].at = "waiting" /\ mod'[m].next = mod[m].next
             \/ mod'[m].at = "running" /\ mod'[m].next = mod[m].next + 1
          /\ mod'[m].steps = mod[m].steps
          /\ \A n \in Modules \ {m} : mod'[n] = mod[n]
      <4>1. CASE mod' = [mod EXCEPT ![m].next = @ + 1]
        BY <3>1, <4>1, <1>0 DEF StageInv, Shapes, IsState
      <4>2. CASE Goto(m, "waiting")
        BY <3>1, <4>2, <1>0 DEF Goto, StageInv, Shapes, IsState
      <4>3. CASE UNCHANGED executed
        <5>1. executed' # executed
          BY <1>0, <2>2, AppendShape
        <5> QED
          BY <4>3, <5>1
      <4> QED
        BY <1>3, <4>1, <4>2, <4>3 DEF RunLeaf, Fail
    <3>5. /\ mod[m].next \in Nat /\ Len(mod[m].steps) \in Nat
          /\ Begun(m) = mod[m].next - 1 /\ Begun(m)' = mod[m].next
      BY <3>1, <3>4, LenProperties DEF Begun, IsFollowed, IsPlan
    <3>6. Len(StartedBy(m)) = mod[m].next - 1 /\ Len(StartedBy(m)') = mod[m].next
      BY <3>1, <3>3, <3>5 DEF IsFollowed
    <3>7. ASSUME NEW i \in 1 .. mod[m].next
          PROVE  StartedBy(m)'[i].leaf = LeafBinding(mod[m].steps[i])
      <4>1. CASE i = mod[m].next
        BY <3>2, <3>3, <3>6, <4>1, <3>5
      <4>2. CASE i # mod[m].next
        <5>1. i \in 1 .. Begun(m)
          BY <3>5, <4>2
        <5>2. StartedBy(m)'[i] = StartedBy(m)[i]
          BY <3>3, <3>5, <3>6, <5>1
        <5> QED
          BY <3>1, <5>1, <5>2 DEF IsFollowed
      <4> QED
        BY <4>1, <4>2
    <3>8. /\ mod'[m].next \in 1 .. Len(mod'[m].steps) + 1
          /\ mod'[m].at \in {"waiting", "resumed"} => mod'[m].next <= Len(mod'[m].steps)
          /\ mod'[m].at \notin {"todo", "asking"}
      <4>1. mod'[m].next \in 1 .. Len(mod[m].steps) + 1
        <5>1. mod[m].next \in 1 .. Len(mod[m].steps) + 1 /\ mod[m].next <= Len(mod[m].steps)
          BY <3>1 DEF IsFollowed
        <5>2. mod'[m].next \in {mod[m].next, mod[m].next + 1}
          BY <3>4
        <5> QED
          BY <5>1, <5>2, <3>5
      <4>2. /\ mod'[m].at \in {"waiting", "resumed"} => mod'[m].next <= Len(mod[m].steps)
            /\ mod'[m].at \notin {"todo", "asking"}
        BY <3>1, <3>4
      <4> QED
        BY <4>1, <4>2, <3>4
    <3>9. IsFollowed(m)'
      BY <3>1, <3>4, <3>5, <3>6, <3>7, <3>8 DEF IsFollowed
    <3> QED
      BY <1>0, <3>3, <3>4, <3>9, OthersFollow
  <2> QED
    BY <1>3, <2>1, <2>2 DEF RunLeaf, Fail
<1>4. ASSUME NEW m \in Modules, mod[m].at \in {"waiting", "resumed", "running", "asking"},
             UNCHANGED executed,
             \/ \E at \in {"waiting", "resumed"} :
                   Goto(m, at) /\ mod[m].at \in {"waiting", "resumed"}
             \/ Goto(m, "todo") /\ mod[m].at = "asking"
             \/ Goto(m, "done") /\ mod[m].at = "running"
             \/ /\ mod' = [mod EXCEPT ![m].at = "running", ![m].next = @ + 1]
                /\ mod[m].at = "resumed"
      PROVE  PlanInv'
  <2>1. \A n : StartedBy(n)' = StartedBy(n)
    BY <1>4 DEF StartedBy
  <2>2. IsFollowed(m) /\ IsState(mod[m]) /\ mod = [n \in Modules |-> mod[n]]
    BY <1>0 DEF PlanInv, StageInv, Shapes
  <2>3. /\ mod'[m].steps = mod[m].steps
        /\ \A n \in Modules \ {m} : mod'[n] = mod[n]
        /\ \/ /\ mod'[m].next = mod[m].next
              /\ \/ mod[m].at \in {"waiting", "resumed"} /\ mod'[m].at \in {"waiting", "resumed"}
                 \/ mod[m].at = "asking" /\ mod'[m].at = "todo"
                 \/ mod[m].at = "running" /\ mod'[m].at = "done"
           \/ mod'[m].next = mod[m].next + 1 /\ mod[m].at = "resumed" /\ mod'[m].at = "running"
    <3>1. ASSUME NEW at, Goto(m, at)
          PROVE  /\ mod'[m].steps = mod[m].steps /\ mod'[m].next = mod[m].next /\ mod'[m].at = at
                 /\ \A n \in Modules \ {m} : mod'[n] = mod[n]
      BY <2>2, <3>1 DEF Goto, IsState
    <3>2. CASE /\ mod' = [mod EXCEPT ![m].at = "running", ![m].next = @ + 1]
               /\ mod[m].at = "resumed"
      BY <2>2, <3>2 DEF IsState
    <3> QED
      BY <1>4, <3>1, <3>2
  <2>4. mod[m].next \in Nat /\ Len(mod[m].steps) \in Nat
    BY <2>2, LenProperties DEF IsFollowed, IsPlan
  <2>5. Begun(m)' = Begun(m)
    BY <2>3, <2>4 DEF Begun
  <2>6. IsFollowed(m)'
    BY <2>1, <2>2, <2>3, <2>4, <2>5 DEF IsFollowed
  <2> QED
    BY <1>0, <2>1, <2>3, <2>6, OthersFollow
<1>5. ASSUME NEW m \in Modules, ResumeLeaf(m) \/ PlanDone(m) PROVE PlanInv'
  BY <1>1, <1>4, <1>5 DEF ResumeLeaf, PlanDone, Fail
<1>6. ASSUME NEW m \in Modules, NEW a, AnswerModule(m, a) \/ AnswerLeaf(m, a) PROVE PlanInv'
  BY <1>1, <1>4, <1>6 DEF AnswerModule, AnswerLeaf
<1>7. CASE Query \/ Route \/ EndStage \/ UNCHANGED vars
  BY <1>1, <1>7 DEF Query, RunRoot, Route, EndStage, vars, Elsewhere
<1>8. ASSUME NEW a, AnswerRoot(a) PROVE PlanInv'
  BY <1>1, <1>8 DEF AnswerRoot, RunRoot
<1> QED
  BY <1>2, <1>3, <1>5, <1>6, <1>7, <1>8 DEF Next, ModuleNext, Resume

(* A module calls the leaves of its plan in order, each once               *)
(* (planned.go:87-112, 220-241, planner.go:473-499).                       *)
THEOREM PlansAreFollowed == Spec => []PlanIsFollowed
<1>1. FollowInv => PlanIsFollowed
  <2> SUFFICES ASSUME FollowInv, NEW m \in Modules
               PROVE  /\ Len(StartedBy(m)) = Begun(m)
                      /\ \A i \in 1 .. Begun(m) : StartedBy(m)[i].leaf.key = mod[m].steps[i]
                      /\ \A i, j \in 1 .. Begun(m) : i # j => StartedBy(m)[i].leaf # StartedBy(m)[j].leaf
    BY DEF PlanIsFollowed, Begun
  <2>1. IsFollowed(m)
    BY DEF FollowInv, PlanInv
  <2>2. mod[m].next \in Nat /\ Len(mod[m].steps) \in Nat
    BY <2>1, LenProperties DEF IsFollowed, IsPlan
  <2>3. Begun(m) \in Nat /\ Begun(m) <= Len(mod[m].steps)
    BY <2>1, <2>2 DEF IsFollowed, Begun
  <2>4. \A i \in 1 .. Begun(m) : /\ StartedBy(m)[i].leaf.key = mod[m].steps[i]
                                 /\ i \in 1 .. Len(mod[m].steps)
    <3>1. TAKE i \in 1 .. Begun(m)
    <3>2. i \in 1 .. Len(mod[m].steps)
      BY <2>2, <2>3
    <3>3. mod[m].steps[i] \in LeafKeys(m)
      BY <2>1, <3>2 DEF IsFollowed, IsPlan
    <3> QED
      BY <2>1, <3>2, <3>3, LeafKeysAre DEF IsFollowed
  <2>5. \A i, j \in 1 .. Begun(m) : i # j => StartedBy(m)[i].leaf # StartedBy(m)[j].leaf
    BY <2>1, <2>4 DEF IsFollowed, IsPlan
  <2> QED
    BY <2>1, <2>4, <2>5 DEF IsFollowed
<1> QED
  BY InitFollowed, StepFollowed, <1>1, PTL DEF Spec

-----------------------------------------------------------------------------
(* Sequences without repetition                                            *)

IsSequence(s) == Len(s) \in Nat /\ DOMAIN s = 1 .. Len(s) /\ s = [i \in 1 .. Len(s) |-> s[i]]
EachOnce(s) == IsSequence(s) /\ \A h, k \in 1 .. Len(s) : h # k => s[h] # s[k]

(* The sequences of a set are sequences.                                   *)
LEMMA SequenceIn == ASSUME NEW S, NEW s \in Seq(S) PROVE IsSequence(s)
BY LenProperties DEF IsSequence

(* A sequence is one over any set with its elements.                       *)
LEMMA InSeq ==
  ASSUME NEW s, IsSequence(s), NEW S, Elements(s) \subseteq S PROVE s \in Seq(S)
<1>1. \A i \in 1 .. Len(s) : s[i] \in S
  BY DEF IsSequence, Elements
<1> QED
  BY <1>1, IsSeq DEF IsSequence

(* The empty sequence.                                                     *)
LEMMA NoElements == IsSequence(<< >>) /\ EachOnce(<< >>) /\ Elements(<< >>) = {}
<1>1. IsSequence(<< >>) /\ Len(<< >>) = 0
  BY SequenceIn, EmptySeq
<1> QED
  BY <1>1 DEF EachOnce, Elements

(* A sequence without repetition is as long as it has elements.            *)
LEMMA LengthIsCount ==
  ASSUME NEW s, EachOnce(s) PROVE Len(s) = Cardinality(Elements(s))
<1> DEFINE n == Len(s)
<1>1. n \in Nat /\ DOMAIN s = 1 .. n /\ s = [i \in 1 .. n |-> s[i]]
  BY DEF EachOnce, IsSequence
<1>2. s \in [1 .. n -> Elements(s)]
  BY <1>1 DEF Elements
<1>3. s \in Injection(1 .. n, Elements(s)) /\ s \in Surjection(1 .. n, Elements(s))
  BY <1>1, <1>2 DEF Injection, Surjection, IsInjective, EachOnce, Elements
<1>4. IsFiniteSet(1 .. n) /\ Cardinality(1 .. n) = n
  <2>1. \A k \in Nat : IsFiniteSet(1 .. k) /\ Cardinality(1 .. k) = k
    <3>1. TAKE k \in Nat
    <3>2. IsFiniteSet(1 .. k) /\ Cardinality(1 .. k) = IF 1 > k THEN 0 ELSE k - 1 + 1
      BY FS_Interval
    <3> QED
      BY <3>2
  <2> QED
    BY <1>1, <2>1
<1> QED
  BY <1>3, <1>4, FS_Surjection

(* The places of the first occurrences.                                    *)
LEMMA DistinctOnce ==
  ASSUME NEW s, IsSequence(s)
  PROVE  EachOnce(Distinct(s)) /\ Elements(Distinct(s)) = Elements(s)
<1> DEFINE P == {i \in DOMAIN s : \A j \in 1 .. i - 1 : s[j] # s[i]}
           d == AtPlaces(s, P)
           n == Len(s)
<1>1. n \in Nat /\ DOMAIN s = 1 .. n /\ P \subseteq 1 .. n /\ \A i \in P : s[i] \in Elements(s)
  BY DEF IsSequence, Elements
<1>2. /\ d \in Seq(Elements(s)) /\ Len(d) = Cardinality(P) /\ Cardinality(P) \in Nat
      /\ \A k \in 1 .. Cardinality(P) : d[k] = s[Nth(P, k)] /\ Nth(P, k) \in P
  <2> HIDE DEF P
  <2> QED
    BY <1>1, AtPlacesSeq
<1>3. IsSequence(d)
  BY <1>2, SequenceIn
<1>4. \A i, j \in P : i # j => s[i] # s[j]
  <2> SUFFICES ASSUME NEW i \in P, NEW j \in P, i < j PROVE s[i] # s[j]
    BY <1>1
  <2>1. i \in 1 .. j - 1
    BY <1>1
  <2> QED
    BY <2>1
<1>5. \A h, k \in 1 .. Cardinality(P) : h # k => Nth(P, h) # Nth(P, k)
  <2> HIDE DEF P
  <2> QED
    BY <1>1, NthDiffers
<1>6. EachOnce(d)
  <2> HIDE DEF P, d
  <2> QED
    BY <1>2, <1>3, <1>4, <1>5 DEF EachOnce
<1>7. Elements(d) \subseteq Elements(s)
  <2> HIDE DEF P, d
  <2> QED
    BY <1>1, <1>2, <1>3 DEF Elements, IsSequence
<1>8. ASSUME NEW i \in 1 .. n PROVE s[i] \in Elements(d)
  <2> DEFINE F == {j \in 1 .. n : s[j] = s[i]}
  <2>1. F \subseteq Nat /\ F # {}
    OBVIOUS
  <2>2. PICK f \in F : \A j \in F : ~(j < f)
    <3> HIDE DEF F
    <3> QED
      BY <2>1, LeastNumber
  <2>3. \A j \in 1 .. f - 1 : s[j] # s[f]
    BY <1>1, <2>2
  <2>4. f \in P
    BY <1>1, <2>3
  <2>5. Rank(P, f) \in 1 .. Cardinality(P) /\ Nth(P, Rank(P, f)) = f
    <3> HIDE DEF P
    <3> QED
      BY <1>1, <2>4, NthOfRank
  <2> QED
    <3> HIDE DEF P, d
    <3>1. d[Rank(P, f)] = s[i]
      BY <1>2, <2>2, <2>5
    <3> QED
      BY <1>2, <1>3, <2>5, <3>1 DEF Elements, IsSequence
<1>9. Elements(d) = Elements(s)
  <2> HIDE DEF P, d
  <2> QED
    BY <1>1, <1>7, <1>8 DEF Elements
<1> QED
  BY <1>6, <1>9 DEF Distinct

(* A sequence after another.                                               *)
LEMMA Joined ==
  ASSUME NEW s, NEW t, IsSequence(s), IsSequence(t)
  PROVE  IsSequence(s \o t) /\ Elements(s \o t) = Elements(s) \cup Elements(t)
<1> DEFINE S == Elements(s) \cup Elements(t)
<1>1. s \in Seq(S) /\ t \in Seq(S)
  BY InSeq
<1>2. /\ s \o t \in Seq(S) /\ Len(s \o t) = Len(s) + Len(t)
      /\ \A i \in 1 .. Len(s) + Len(t) : (s \o t)[i] = IF i <= Len(s) THEN s[i] ELSE t[i - Len(s)]
  BY <1>1, ConcatProperties
<1>3. IsSequence(s \o t)
  BY <1>2, SequenceIn
<1>4. PICK u : u = s \o t
  OBVIOUS
<1>5. Elements(u) \subseteq S
  BY <1>2, <1>3, <1>4 DEF Elements, IsSequence
<1>6. ASSUME NEW i \in 1 .. Len(s) PROVE s[i] \in Elements(u)
  <2>1. i \in 1 .. Len(s) + Len(t) /\ u[i] = s[i]
    BY <1>2, <1>4 DEF IsSequence
  <2> QED
    BY <2>1, <1>2, <1>3, <1>4 DEF Elements, IsSequence
<1>7. ASSUME NEW i \in 1 .. Len(t) PROVE t[i] \in Elements(u)
  <2>1. Len(s) + i \in 1 .. Len(s) + Len(t) /\ ~(Len(s) + i <= Len(s)) /\ (Len(s) + i) - Len(s) = i
    BY DEF IsSequence
  <2>2. u[Len(s) + i] = t[i]
    BY <1>2, <1>4, <2>1
  <2> QED
    BY <2>1, <2>2, <1>2, <1>3, <1>4 DEF Elements, IsSequence
<1>8. S \subseteq Elements(u)
  BY <1>6, <1>7 DEF Elements, IsSequence
<1> QED
  BY <1>3, <1>4, <1>5, <1>8

(* mergeSources keeps every source once.                                   *)
LEMMA Merged ==
  ASSUME NEW base, NEW incoming, EachOnce(base), IsSequence(incoming)
  PROVE  /\ EachOnce(MergeSources(base, incoming))
         /\ Elements(MergeSources(base, incoming)) = Elements(base) \cup Elements(incoming)
<1>1. IsSequence(base)
  BY DEF EachOnce
<1>2. CASE incoming = << >>
  BY <1>2, NoElements DEF MergeSources
<1>3. CASE incoming # << >>
  BY <1>1, <1>3, Joined, DistinctOnce DEF MergeSources
<1> QED
  BY <1>2, <1>3

(* The first of a sequence, as many as a limit says.                       *)
LEMMA UptoIs ==
  ASSUME NEW s, IsSequence(s), NEW limit \in Nat
  PROVE  /\ IsSequence(Upto(s, limit))
         /\ Len(Upto(s, limit)) = IF Len(s) <= limit THEN Len(s) ELSE limit
         /\ \A i \in 1 .. Len(Upto(s, limit)) : i \in 1 .. Len(s) /\ Upto(s, limit)[i] = s[i]
<1> DEFINE n == IF Len(s) <= limit THEN Len(s) ELSE limit
<1>1. s \in Seq(Elements(s)) /\ Len(s) \in Nat
  BY InSeq DEF IsSequence
<1>2. n \in 0 .. Len(s)
  BY <1>1
<1>3. /\ SubSeq(s, 1, n) \in Seq(Elements(s)) /\ Len(SubSeq(s, 1, n)) = n
      /\ \A i \in 1 .. n : SubSeq(s, 1, n)[i] = s[i]
  <2> HIDE DEF n
  <2>1. 1 \in Int /\ n \in Int /\ n - 1 + 1 = n /\ \A i \in 1 .. n : s[i] \in Elements(s) /\ 1 + i - 1 = i
    BY <1>1, <1>2 DEF Elements, IsSequence
  <2> QED
    BY <1>1, <1>2, <2>1, SubSeqProperties
<1> QED
  <2>1. IsSequence(SubSeq(s, 1, n))
    BY <1>3, SequenceIn
  <2>2. \A i \in 1 .. n : i \in 1 .. Len(s)
    BY <1>1
  <2> HIDE DEF n
  <2>3. Upto(s, limit) = SubSeq(s, 1, n)
    BY DEF Upto, n
  <2>4. n = IF Len(s) <= limit THEN Len(s) ELSE limit
    BY DEF n
  <2> QED
    BY <1>3, <2>1, <2>2, <2>3, <2>4

-----------------------------------------------------------------------------
(* Limits, and what an agent cites                                         *)

(* A leaf of the tree passed the check at the start.                       *)
LEMMA LeafChecked ==
  ASSUME NEW key \in Elements(Keys(Tree.leaves))
  PROVE  LET l == Node(Tree.leaves, key)
         IN  /\ l \in [key : STRING, type : STRING, kbIDs : Seq(STRING), topK : Int,
                       rewriteQueries : Int, maxContextDocs : Int, sourceLimit : Int, internal : BOOLEAN]
             /\ l.key = key /\ ValidateLeafNode(l)
<1>1. PICK i \in DOMAIN Tree.leaves : Node(Tree.leaves, key) = Tree.leaves[i] /\ Tree.leaves[i].key = key
  BY NodeIs
<1>2. Tree.leaves[i] \in Elements(Tree.leaves)
  BY DEF Elements
<1>3. ValidateLeafNode(Tree.leaves[i])
  BY <1>2, TreeAssumption DEF ValidAgentTree
<1> QED
  BY <1>1, <1>3, ConfigTypes

(* The limits of a leaf.                                                   *)
LEMMA Limits ==
  ASSUME NEW key \in Elements(Keys(Tree.leaves))
  PROVE  LET l == Node(Tree.leaves, key)
             b == KnowledgeTool(key)
         IN  /\ b.topK \in Nat \ {0} /\ b.maxContextDocs \in Nat \ {0} /\ b.sourceLimit \in Nat \ {0}
             /\ b.rewriteQueries \in Int /\ b.kbIDs = l.kbIDs
             /\ l.type = "knowledge" /\ (l.sourceLimit > 0 <=> l.maxContextDocs > 0)
                   => b.sourceLimit <= b.maxContextDocs
<1> DEFINE l == Node(Tree.leaves, key)
           Or(value, default) == IF value > 0 THEN value ELSE default
           topK == Or(l.topK, Or(Tree.defaultTopK, 5))
           few == IF topK < 4 THEN topK ELSE 4
           c == LoadConfig(l)
<1>1. /\ l \in [key : STRING, type : STRING, kbIDs : Seq(STRING), topK : Int,
                rewriteQueries : Int, maxContextDocs : Int, sourceLimit : Int, internal : BOOLEAN]
      /\ l.key = key /\ ValidateLeafNode(l)
  BY LeafChecked
<1>2. Tree.defaultTopK \in Int
  BY ConfigTypes
<1>3. topK \in Nat \ {0} /\ few \in Nat \ {0}
  BY <1>1, <1>2
<1>4. PICK r : r = [l EXCEPT !.topK = topK, !.rewriteQueries = Or(@, 3),
                             !.maxContextDocs = Or(@, few), !.sourceLimit = Or(@, few)]
  OBVIOUS
<1>5. r = c
  BY <1>4 DEF LoadConfig
<1>6. /\ r.topK = topK /\ r.maxContextDocs = Or(l.maxContextDocs, few) /\ r.sourceLimit = Or(l.sourceLimit, few)
      /\ r.rewriteQueries = Or(l.rewriteQueries, 3) /\ r.kbIDs = l.kbIDs
  <2> HIDE DEF topK, few, Or, l
  <2> QED
    BY <1>1, <1>4
<1>7. KnowledgeTool(key) = r
  BY <1>5 DEF KnowledgeTool
<1>8. l.type = "knowledge" => (l.sourceLimit > 0 /\ l.maxContextDocs > 0 => l.sourceLimit <= l.maxContextDocs)
  BY <1>1 DEF ValidateLeafNode
<1>9. /\ Or(l.maxContextDocs, few) \in Nat \ {0} /\ Or(l.sourceLimit, few) \in Nat \ {0}
      /\ Or(l.rewriteQueries, 3) \in Int
      /\ l.type = "knowledge" /\ (l.sourceLimit > 0 <=> l.maxContextDocs > 0)
                   => Or(l.sourceLimit, few) <= Or(l.maxContextDocs, few)
  <2> HIDE DEF topK, few, l
  <2>1. l.maxContextDocs \in Int /\ l.sourceLimit \in Int /\ l.rewriteQueries \in Int
    BY <1>1
  <2> QED
    BY <1>3, <1>8, <2>1
<1> QED
  <2> HIDE DEF topK, few, Or
  <2> QED
    BY <1>1, <1>3, <1>6, <1>7, <1>9

(* What is merged is a sequence, whatever the bases return.                *)
LEMMA MergedDocuments ==
  ASSUME NEW visits, NEW n \in Int, DOMAIN visits = 1 .. n, NEW hits, NEW limit \in Nat
  PROVE  IsSequence(MergeDocuments(visits, hits, limit)) /\ Len(MergeDocuments(visits, hits, limit)) <= limit
<1> DEFINE Turn1(v) == Cardinality({u \in 1 .. v : visits[u] = visits[v]})
           found == {v \in DOMAIN visits : Turn1(v) <= Len(hits[visits[v]])}
           d == [v \in found |-> hits[visits[v]][Turn1(v)]]
           k == IF n < 0 THEN 0 ELSE n
<1>1. k \in Nat /\ found \subseteq 1 .. k
  BY SMT
<1>2. \E S : AtPlaces(d, found) \in Seq(S)
  <2>1. \A i \in found : d[i] \in {d[j] : j \in found}
    OBVIOUS
  <2> HIDE DEF found, d, k
  <2> QED
    BY <1>1, <2>1, AtPlacesSeq
<1>3. IsSequence(AtPlaces(d, found))
  BY <1>2, SequenceIn
<1>4. MergeDocuments(visits, hits, limit) = Upto(AtPlaces(d, found), limit)
  BY DEF MergeDocuments
<1> QED
  <2> HIDE DEF found, d
  <2>1. PICK s : s = AtPlaces(d, found)
    OBVIOUS
  <2>2. Len(s) \in Nat /\ IsSequence(Upto(s, limit)) /\ Len(Upto(s, limit)) = IF Len(s) <= limit THEN Len(s) ELSE limit
    BY <1>3, <2>1, UptoIs DEF IsSequence
  <2> QED
    BY <1>4, <2>1, <2>2

(* What an agent finds with one query.                                     *)
LEMMA RetrievedOnce ==
  ASSUME NEW key \in Elements(Keys(Tree.leaves)), NEW hits
  PROVE  LET agent == KnowledgeTool(key)
             docs == RetrieveOnce(agent, hits)
         IN  docs = None \/ (IsSequence(docs) /\ Len(docs) <= agent.topK)
<1> DEFINE b == KnowledgeTool(key)
           n == b.topK * Len(b.kbIDs)
           visits == [v \in 1 .. n |-> b.kbIDs[((v - 1) % Len(b.kbIDs)) + 1]]
<1>1. b.topK \in Nat /\ b.kbIDs \in Seq(STRING)
  BY Limits, LeafChecked
<1>2. n \in Int
  BY <1>1, LenProperties
<1>3. MergeDocumentsRoundRobin(b.kbIDs, hits, b.topK) = MergeDocuments(visits, hits, b.topK)
  BY DEF MergeDocumentsRoundRobin
<1>4. IsSequence(MergeDocuments(visits, hits, b.topK)) /\ Len(MergeDocuments(visits, hits, b.topK)) <= b.topK
  <2>1. DOMAIN visits = 1 .. n
    OBVIOUS
  <2> HIDE DEF n, visits, b
  <2> QED
    BY <1>1, <1>2, <2>1, MergedDocuments
<1> QED
  <2> HIDE DEF n, visits, b
  <2>1. RetrieveOnce(b, hits) \in {None, MergeDocumentsRoundRobin(b.kbIDs, hits, b.topK)}
    BY DEF RetrieveOnce
  <2> QED
    BY <1>3, <1>4, <2>1 DEF b

(* What several queries find is a sequence, and nothing without a query.   *)
LEMMA FusedIs ==
  ASSUME NEW lists, Len(lists) \in Nat, NEW room \in Nat \ {0}
  PROVE  IsSequence(Fuse(lists, room)) /\ (Len(lists) = 0 => Len(Fuse(lists, room)) = 0)
<1> DEFINE ListOf(p) == ((p - 1) \div room) + 1
           Rank1(p) == ((p - 1) % room) + 1
           n == room * Len(lists)
           all == {p \in 1 .. n : Rank1(p) <= Len(lists[ListOf(p)])}
           at == [p \in all |-> lists[ListOf(p)][Rank1(p)]]
           kept == {p \in all : \A o \in all : o < p => at[o].node # at[p].node}
<1>1. n \in Nat /\ (Len(lists) = 0 => n = 0)
  OBVIOUS
<1>2. kept \subseteq 1 .. n
  OBVIOUS
<1>3. Fuse(lists, room) = AtPlaces(at, kept)
  BY DEF Fuse
<1>4. \A i \in kept : at[i] \in {at[j] : j \in kept}
  OBVIOUS
<1> HIDE DEF n, kept, at
<1>5. /\ AtPlaces(at, kept) \in Seq({at[j] : j \in kept})
      /\ Len(AtPlaces(at, kept)) = Cardinality(kept)
  BY <1>1, <1>2, <1>4, AtPlacesSeq
<1>6. IsSequence(AtPlaces(at, kept))
  BY <1>5, SequenceIn
<1>7. ASSUME Len(lists) = 0 PROVE Cardinality(kept) = 0
  <2>1. kept = {}
    BY <1>1, <1>2, <1>7
  <2> QED
    BY <2>1, FS_EmptySet
<1> QED
  BY <1>3, <1>5, <1>6, <1>7

(* What the bases return is for a number of queries, for one without       *)
(* rewriting.                                                              *)
LEMMA FoundIs ==
  ASSUME NEW key \in Elements(Keys(Tree.leaves)), NEW found \in Found(key), found # None
  PROVE  \E n \in Nat : /\ found \in [1 .. n -> Hits]
                        /\ ~RewritesQueries(KnowledgeTool(key)) => n = 1
<1>1. CASE ~RewritesQueries(KnowledgeTool(key))
  <2>1. PICK hits \in Hits : found = <<hits>>
    BY <1>1 DEF Found
  <2>2. found \in [1 .. 1 -> Hits]
    BY <2>1
  <2> QED
    BY <2>2
<1>2. CASE RewritesQueries(KnowledgeTool(key))
  <2>1. KnowledgeTool(key).rewriteQueries \in Int
    BY Limits
  <2>2. PICK n \in 0 .. KnowledgeTool(key).rewriteQueries : found \in [1 .. n -> Hits]
    BY <1>2 DEF Found
  <2> QED
    BY <1>2, <2>1, <2>2
<1> QED
  BY <1>1, <1>2

(* What an agent finds with its queries.                                   *)
LEMMA RetrievedIs ==
  ASSUME NEW key \in Elements(Keys(Tree.leaves)), NEW found \in Found(key),
         Retrieve(KnowledgeTool(key), found) # None
  PROVE  LET agent == KnowledgeTool(key)
             docs == Retrieve(agent, found)
         IN  /\ IsSequence(docs)
             /\ Len(docs) # 0 =>
                   \E n \in Nat \ {0} :
                      /\ found \in [1 .. n -> Hits]
                      /\ RetrieveOnce(agent, found[1]) # None
                      /\ IF RewritesQueries(agent)
                         THEN docs = Fuse([q \in 1 .. n |-> RetrieveOnce(agent, found[q])], agent.topK)
                         ELSE docs = RetrieveOnce(agent, found[1])
<1> DEFINE agent == KnowledgeTool(key)
           docs == Retrieve(agent, found)
           lists == [q \in DOMAIN found |-> RetrieveOnce(agent, found[q])]
<1>1. found # None /\ \A q \in DOMAIN lists : lists[q] # None
  BY DEF Retrieve
<1>2. PICK n \in Nat : found \in [1 .. n -> Hits] /\ (~RewritesQueries(agent) => n = 1)
  BY <1>1, FoundIs
<1>3. lists = [q \in 1 .. n |-> RetrieveOnce(agent, found[q])] /\ agent.topK \in Nat \ {0}
  BY <1>2, Limits
<1>4. lists = [q \in 1 .. n |-> lists[q]] /\ \A q \in 1 .. n : lists[q] = RetrieveOnce(agent, found[q])
  BY <1>3
<1>5. docs = IF RewritesQueries(agent) THEN Fuse(lists, agent.topK) ELSE lists[1]
  BY <1>1 DEF Retrieve
<1> HIDE DEF lists, docs, agent
<1>6. Len(lists) = n
  <2>1. \A q \in 1 .. n : lists[q] \in {lists[p] : p \in 1 .. n}
    OBVIOUS
  <2> QED
    BY <1>4, <2>1, IsSeq
<1>7. CASE ~RewritesQueries(agent)
  <2>1. 1 \in 1 .. n /\ 1 \in DOMAIN lists /\ docs = lists[1] /\ lists[1] = RetrieveOnce(agent, found[1])
    BY <1>2, <1>3, <1>4, <1>5, <1>7
  <2>2. docs # None
    BY <1>1, <2>1
  <2>3. IsSequence(docs)
    BY <2>1, <2>2, RetrievedOnce DEF agent
  <2> QED
    BY <1>2, <1>7, <2>1, <2>2, <2>3 DEF docs, agent
<1>8. CASE RewritesQueries(agent)
  <2>1. docs = Fuse(lists, agent.topK)
    BY <1>5, <1>8
  <2>2. IsSequence(docs) /\ (n = 0 => Len(docs) = 0)
    BY <1>3, <1>6, <2>1, FusedIs
  <2>3. n # 0 => 1 \in 1 .. n /\ 1 \in DOMAIN lists
    BY <1>3
  <2>4. n # 0 => RetrieveOnce(agent, found[1]) # None
    BY <1>1, <1>4, <2>3
  <2> QED
    BY <1>2, <1>3, <1>8, <2>1, <2>2, <2>4 DEF docs, agent
<1> QED
  BY <1>7, <1>8

(* An agent's answer cites a part of what it was made from.                *)
CitesRead(s) ==
    LET l == Node(Tree.leaves, s.agent.key)
    IN  s.agent.kind = "knowledge" /\ (l.sourceLimit > 0 <=> l.maxContextDocs > 0)
           => Elements(s.sources) \subseteq Elements(s.context)

(* An answer of a knowledge agent has sources, and cites what it read.     *)
LEMMA AnswerCites ==
  ASSUME NEW key \in Elements(Keys(Tree.leaves)), NEW found \in Found(key), NEW answered
  PROVE  LET a == Answer(KnowledgeTool(key), found, answered)
             l == Node(Tree.leaves, key)
         IN  /\ IsSequence(a.sources)
             /\ l.type = "knowledge" /\ (l.sourceLimit > 0 <=> l.maxContextDocs > 0)
                   => Elements(a.sources) \subseteq Elements(a.context)
<1> DEFINE b == KnowledgeTool(key)
           l == Node(Tree.leaves, key)
           docs == Retrieve(b, found)
           used == IF docs = None \/ ~answered THEN << >> ELSE docs
<1>1. /\ b.topK \in Nat \ {0} /\ b.maxContextDocs \in Nat \ {0} /\ b.sourceLimit \in Nat \ {0}
      /\ b.kbIDs = l.kbIDs /\ l.kbIDs \in Seq(STRING)
      /\ l.type = "knowledge" /\ (l.sourceLimit > 0 <=> l.maxContextDocs > 0)
            => b.sourceLimit <= b.maxContextDocs
  BY Limits, LeafChecked
<1>2. docs = None \/ IsSequence(docs)
  BY RetrievedIs
<1>3. IsSequence(used)
  BY <1>2, NoElements
<1>4. /\ Answer(b, found, answered).sources = Upto(used, b.sourceLimit)
      /\ Answer(b, found, answered).context = Upto(used, b.maxContextDocs)
  BY DEF Answer, ContextDocs, SourcesFromDocuments
<1> HIDE DEF used
<1>5. /\ IsSequence(Upto(used, b.sourceLimit)) /\ IsSequence(Upto(used, b.maxContextDocs))
      /\ \A i \in 1 .. Len(Upto(used, b.sourceLimit)) : Upto(used, b.sourceLimit)[i] = used[i]
      /\ \A i \in 1 .. Len(Upto(used, b.maxContextDocs)) : Upto(used, b.maxContextDocs)[i] = used[i]
      /\ Len(Upto(used, b.sourceLimit)) = IF Len(used) <= b.sourceLimit THEN Len(used) ELSE b.sourceLimit
      /\ Len(Upto(used, b.maxContextDocs)) = IF Len(used) <= b.maxContextDocs THEN Len(used) ELSE b.maxContextDocs
  BY <1>1, <1>3, UptoIs
<1>6. ASSUME b.sourceLimit <= b.maxContextDocs
      PROVE  Elements(Upto(used, b.sourceLimit)) \subseteq Elements(Upto(used, b.maxContextDocs))
  <2>1. Len(used) \in Nat
    BY <1>3 DEF IsSequence
  <2>2. \A i \in 1 .. Len(Upto(used, b.sourceLimit)) : i \in 1 .. Len(Upto(used, b.maxContextDocs))
    <3> HIDE DEF b
    <3> QED
      BY <1>1, <1>5, <1>6, <2>1
  <2> HIDE DEF b
  <2> QED
    BY <1>5, <2>2 DEF Elements, IsSequence
<1> QED
  BY <1>1, <1>4, <1>5, <1>6

-----------------------------------------------------------------------------
(* The sources of a response                                               *)

(* The sources of a response are those of its steps, each once; the result *)
(* has some of them, and of an answer, all.                                *)
AllCited(r) ==
    /\ r = [steps |-> r.steps, sources |-> r.sources, result |-> r.result]
    /\ IsSequence(r.steps)
    /\ \A s \in Elements(r.steps) : IsSequence(s.sources) /\ CitesRead(s)
    /\ EachOnce(r.sources)
    /\ Elements(r.sources) = UNION {Elements(s.sources) : s \in Elements(r.steps)}
    /\ r.result # None =>
          /\ r.result = [ticket |-> r.result.ticket, sources |-> r.result.sources]
          /\ EachOnce(r.result.sources) /\ Elements(r.result.sources) \subseteq Elements(r.sources)
AnswerCited(r) == EachOnce(r.result.sources) /\ Elements(r.result.sources) = Elements(r.sources)
CitedInv == FollowInv /\ AllCited(response) /\ (root = "answered" => AnswerCited(response))

(* Nothing is said, nothing is cited.                                      *)
LEMMA NothingCited == AllCited(NoResponse)
<1> DEFINE r == NoResponse
<1>1. /\ r = [steps |-> r.steps, sources |-> r.sources, result |-> r.result]
      /\ r.steps = << >> /\ r.sources = << >> /\ r.result = None
  BY DEF NoResponse
<1> HIDE DEF r
<1>2. IsSequence(r.steps) /\ Elements(r.steps) = {} /\ EachOnce(r.sources) /\ Elements(r.sources) = {}
  BY <1>1, NoElements
<1>3. AllCited(r)
  BY <1>1, <1>2 DEF AllCited
<1> QED
  BY <1>3 DEF r

(* A step comes last.                                                      *)
LEMMA StepAdded ==
  ASSUME NEW t, IsSequence(t), NEW s
  PROVE  IsSequence(Append(t, s)) /\ Elements(Append(t, s)) = Elements(t) \cup {s}
<1> DEFINE S == Elements(t) \cup {s}
<1>1. t \in Seq(S) /\ s \in S
  BY InSeq
<1>2. PICK u : u = Append(t, s)
  OBVIOUS
<1>3. /\ u \in Seq(S) /\ Len(u) = Len(t) + 1
      /\ \A i \in 1 .. Len(t) : u[i] = t[i]
      /\ u[Len(t) + 1] = s
  BY <1>1, <1>2, AppendProperties
<1>4. IsSequence(u)
  BY <1>3, SequenceIn
<1>5. Len(t) + 1 \in 1 .. Len(u) /\ 1 .. Len(u) = 1 .. Len(t) \cup {Len(t) + 1}
  BY <1>3 DEF IsSequence
<1>6. Elements(u) = S
  BY <1>3, <1>4, <1>5 DEF Elements, IsSequence
<1> QED
  BY <1>2, <1>4, <1>6

(* The step of a knowledge agent.                                          *)
LEMMA KnowledgeCited ==
  ASSUME NEW r, AllCited(r), NEW s, IsSequence(s.sources), CitesRead(s)
  PROVE  AllCited([r EXCEPT !.steps = Append(@, s), !.sources = MergeSources(@, s.sources)])
<1>1. PICK q : q = [r EXCEPT !.steps = Append(@, s), !.sources = MergeSources(@, s.sources)]
  OBVIOUS
<1>2. /\ q = [steps |-> q.steps, sources |-> q.sources, result |-> q.result]
      /\ q.steps = Append(r.steps, s) /\ q.sources = MergeSources(r.sources, s.sources)
      /\ q.result = r.result
  BY <1>1 DEF AllCited
<1>3. /\ IsSequence(q.steps) /\ Elements(q.steps) = Elements(r.steps) \cup {s}
      /\ EachOnce(q.sources) /\ Elements(q.sources) = Elements(r.sources) \cup Elements(s.sources)
  BY <1>2, StepAdded, Merged DEF AllCited
<1>4. Elements(q.sources) = UNION {Elements(x.sources) : x \in Elements(q.steps)}
  BY <1>3 DEF AllCited
<1>5. AllCited(q)
  BY <1>2, <1>3, <1>4 DEF AllCited
<1> QED
  BY <1>1, <1>5

(* The step of a ticket agent.                                             *)
LEMMA TicketCited ==
  ASSUME NEW r, AllCited(r), NEW s, s.sources = << >>, NEW ticket
  PROVE  AllCited([r EXCEPT !.steps = Append(@, s), !.result = [ticket |-> ticket, sources |-> r.sources]])
<1>1. PICK q : q = [r EXCEPT !.steps = Append(@, s), !.result = [ticket |-> ticket, sources |-> r.sources]]
  OBVIOUS
<1>2. /\ q = [steps |-> q.steps, sources |-> q.sources, result |-> q.result]
      /\ q.steps = Append(r.steps, s) /\ q.sources = r.sources
      /\ q.result = [ticket |-> ticket, sources |-> r.sources]
  BY <1>1 DEF AllCited
<1>3. /\ IsSequence(q.steps) /\ Elements(q.steps) = Elements(r.steps) \cup {s}
      /\ Elements(s.sources) = {} /\ IsSequence(s.sources)
  BY <1>2, StepAdded, NoElements DEF AllCited
<1>4. Elements(q.sources) = UNION {Elements(x.sources) : x \in Elements(q.steps)}
  BY <1>2, <1>3 DEF AllCited
<1>5. CitesRead(s)
  BY <1>3 DEF CitesRead
<1>6. /\ q.result = [ticket |-> q.result.ticket, sources |-> q.result.sources]
      /\ q.result.sources = r.sources
  BY <1>2
<1>7. AllCited(q)
  BY <1>2, <1>3, <1>4, <1>5, <1>6 DEF AllCited
<1> QED
  BY <1>1, <1>7

(* The result of what was said so far.                                     *)
LEMMA ResultCited ==
  ASSUME NEW r, AllCited(r), NEW q, q = [r EXCEPT !.result = [ticket |-> None, sources |-> r.sources]]
  PROVE  AllCited(q) /\ AnswerCited(q)
<1>1. /\ q = [steps |-> q.steps, sources |-> q.sources, result |-> q.result]
      /\ q.steps = r.steps /\ q.sources = r.sources /\ q.result = [ticket |-> None, sources |-> r.sources]
  BY DEF AllCited
<1>2. /\ q.result = [ticket |-> q.result.ticket, sources |-> q.result.sources]
      /\ q.result.sources = r.sources
  BY <1>1
<1> QED
  BY <1>1, <1>2 DEF AllCited, AnswerCited

(* A response that waits.                                                  *)
LEMMA PausedCited == ASSUME NEW r, AllCited(r) PROVE AllCited(Paused(r))
BY ResultCited DEF Paused

(* A response that is complete.                                            *)
LEMMA CompletedCited ==
  ASSUME NEW r, AllCited(r) PROVE AllCited(Completed(r)) /\ AnswerCited(Completed(r))
<1>1. CASE r.result = None
  <2>1. Completed(r) = [r EXCEPT !.result = [ticket |-> None, sources |-> r.sources]]
    BY <1>1 DEF Completed, AllCited
  <2> QED
    BY <2>1, ResultCited
<1>2. CASE r.result # None
  <2>1. PICK x : x = [r.result EXCEPT !.sources = MergeSources(@, r.sources)]
    OBVIOUS
  <2>2. x = [ticket |-> x.ticket, sources |-> x.sources] /\ x.sources = MergeSources(r.result.sources, r.sources)
    BY <1>2, <2>1 DEF AllCited
  <2>3. IsSequence(r.sources) /\ EachOnce(r.result.sources)
    BY <1>2 DEF AllCited, EachOnce
  <2>4. EachOnce(x.sources) /\ Elements(x.sources) = Elements(r.sources)
    BY <1>2, <2>2, <2>3, Merged DEF AllCited
  <2>5. PICK q : q = [r EXCEPT !.result = x]
    OBVIOUS
  <2>6. Completed(r) = q
    BY <1>2, <2>1, <2>5 DEF Completed, AllCited
  <2>7. /\ q = [steps |-> q.steps, sources |-> q.sources, result |-> q.result]
        /\ q.steps = r.steps /\ q.sources = r.sources /\ q.result = x
    BY <2>5 DEF AllCited
  <2>8. AllCited(q) /\ AnswerCited(q)
    BY <2>2, <2>4, <2>7 DEF AllCited, AnswerCited
  <2> QED
    BY <2>6, <2>8
<1> QED
  BY <1>1, <1>2

(* No source at the start.                                                 *)
LEMMA InitCited == Init => CitedInv
BY InitFollowed, NothingCited DEF Init, CitedInv

(* Every step keeps the sources cited.                                     *)
LEMMA StepCited == CitedInv /\ [Next]_vars => CitedInv'
<1> SUFFICES ASSUME CitedInv, [Next]_vars PROVE CitedInv'
  OBVIOUS
<1>0. FollowInv /\ FollowInv' /\ AllCited(response)
  BY StepFollowed DEF CitedInv
<1> SUFFICES AllCited(response)' /\ (root' = "answered" => AnswerCited(response)')
  BY <1>0 DEF CitedInv
<1>1. CASE UNCHANGED response /\ (root' = "answered" => root = "answered")
  BY <1>1 DEF CitedInv
<1>2. CASE Query \/ UNCHANGED vars
  BY <1>1, <1>2 DEF Query, RunRoot, InterruptForClarify, vars
<1>3. CASE Route
  <2>1. CASE UNCHANGED response /\ root' # "answered"
    BY <1>1, <2>1
  <2>2. CASE response' = Completed(response)
    <3>1. AllCited(response') /\ AnswerCited(response')
      BY <1>0, <2>2, CompletedCited
    <3> QED
      BY <3>1
  <2> QED
    BY <1>3, <2>1, <2>2 DEF Route, RunRootPlan, RunFallback, InterruptForClarify
<1>4. ASSUME NEW m \in Modules, ModuleNext(m)
      PROVE AllCited(response)' /\ (root' = "answered" => AnswerCited(response)')
  <2>1. root \in {"reading", "writing"} /\ root' \in {root, "failed"} /\ m \in Active
    BY <1>4 DEF ModuleNext, RunModule, RunWithPlan, RunClarifyOrError, RunLeaf, ResumeLeaf, PlanDone, Fail, Active
  <2>2. CASE UNCHANGED response
    BY <1>1, <2>1, <2>2
  <2>3. CASE response' = NoResponse
    <3>1. AllCited(response')
      BY <2>3, NothingCited
    <3> QED
      BY <2>1, <3>1
  <2>4. CASE RunLeaf(m)
    <3>1. IsFollowed(m)
      BY <1>0 DEF FollowInv, PlanInv
    <3>2. ASSUME mod[m].next <= Len(mod[m].steps), NEW found \in Found(StepOf(m).key), NEW answered,
                 AddKnowledge(m, FirstHits(found), Answer(KnowledgeTool(StepOf(m).key), found, answered))
          PROVE  AllCited(response')
      <4> DEFINE a == Answer(KnowledgeTool(StepOf(m).key), found, answered)
                 s == Step(m, <<StepOf(m).key, StepOf(m).key>>, FirstHits(found), a)
      <4>1. mod[m].steps[mod[m].next] \in Elements(Keys(Tree.leaves)) /\ StepOf(m) = LeafBinding(mod[m].steps[mod[m].next])
             /\ StepOf(m).key = mod[m].steps[mod[m].next]
        BY <3>1, <3>2, StepIs, LeafKeysAre
      <4>2. s.agent = StepOf(m) /\ s.sources = a.sources /\ s.context = a.context
        BY DEF Step
      <4>3. IsSequence(s.sources)
        BY <3>2, <4>1, <4>2, AnswerCites
      <4>4. CitesRead(s)
        <5>1. StepOf(m).kind = Node(Tree.leaves, StepOf(m).key).type
          BY <4>1, BindingOf
        <5> HIDE DEF s
        <5> QED
          BY <3>2, <4>1, <4>2, <5>1, AnswerCites DEF CitesRead
      <4>5. response' = [response EXCEPT !.steps = Append(@, s), !.sources = MergeSources(@, s.sources)]
        BY <3>2, <4>2 DEF AddKnowledge
      <4> HIDE DEF s
      <4> QED
        BY <1>0, <4>3, <4>4, <4>5, KnowledgeCited
    <3>3. ASSUME mod[m].next <= Len(mod[m].steps), NEW found \in Found(StepOf(m).key),
                 NEW answer \in KnowledgeAnswers[StepOf(m).key][found], AddKnowledge(m, FirstHits(found), answer)
          PROVE  AllCited(response')
      <4>1. StepOf(m).key \in Elements(Keys(Tree.leaves))
        BY <3>1, <3>3, StepIs, LeafKeysAre
      <4>2. PICK answered : answer = Answer(KnowledgeTool(StepOf(m).key), found, answered)
        BY <3>3, <4>1 DEF KnowledgeAnswers
      <4> QED
        BY <3>2, <3>3, <4>2
    <3> QED
      BY <2>1, <2>2, <2>3, <2>4, <3>3 DEF RunLeaf, Fail
  <2>5. ASSUME NEW success, AddTicket(m, success) PROVE AllCited(response')
    <3> DEFINE said == [context |-> << >>, sources |-> << >>]
               s == Step(m, <<"itsm", StepOf(m).key>>, None, said)
               ticket == IF success THEN m ELSE None
    <3>1. s.sources = << >>
      BY DEF Step
    <3>2. \/ UNCHANGED response
          \/ response' = [response EXCEPT !.steps = Append(@, s), !.result = [ticket |-> ticket, sources |-> response.sources]]
      BY <2>5 DEF AddTicket
    <3> HIDE DEF s, ticket
    <3>3. CASE response' = [response EXCEPT !.steps = Append(@, s), !.result = [ticket |-> ticket, sources |-> response.sources]]
      BY <1>0, <3>1, <3>3, TicketCited
    <3> QED
      BY <1>0, <3>2, <3>3
  <2> QED
    BY <1>4, <2>1, <2>2, <2>3, <2>4, <2>5
       DEF ModuleNext, RunModule, RunWithPlan, RunClarifyOrError, ResumeLeaf, PlanDone, Fail
<1>5. CASE EndStage
  <2>1. root' \in {"waiting", "writing", "answered"} /\ response' = Ended(root')
    BY <1>5 DEF EndStage
  <2>2. AllCited(response') /\ (root' = "answered" => AnswerCited(response'))
    BY <1>0, <2>1, PausedCited, CompletedCited DEF Ended
  <2> QED
    BY <2>2
<1>6. CASE Resume
  <2>1. response' = NoResponse /\ root' # "answered"
    BY <1>6 DEF Resume, AnswerRoot, RunRoot, InterruptForClarify, AnswerModule, AnswerLeaf, StageOf
  <2>2. AllCited(response')
    BY <2>1, NothingCited
  <2> QED
    BY <2>1, <2>2
<1> QED
  BY <1>2, <1>3, <1>4, <1>5, <1>6 DEF Next

(* An answer cites every source of every agent that contributed to it      *)
(* (response.go:58-66, 150-161, 208-231).                                  *)
THEOREM EverySourceIsCited == Spec => []CitesEverySource
<1>1. CitedInv => CitesEverySource
  <2> SUFFICES ASSUME CitedInv, root = "answered"
               PROVE  LET cited == response.result.sources
                      IN  /\ Elements(cited) = UNION {Elements(s.sources) : s \in Elements(response.steps)}
                          /\ Len(cited) = Cardinality(Elements(cited))
    BY DEF CitesEverySource
  <2>1. AllCited(response) /\ AnswerCited(response)
    BY DEF CitedInv
  <2> QED
    BY <2>1, LengthIsCount DEF AllCited, AnswerCited
<1> QED
  BY InitCited, StepCited, <1>1, PTL DEF Spec

(* An agent cites only what its answer was made from                       *)
(* (retriever.go, config_validate.go:436, config.go:71-76).                *)
THEOREM SourcesWereRead == Spec => []CitesWhatWasRead
<1>1. CitedInv => CitesWhatWasRead
  BY DEF CitedInv, AllCited, CitesWhatWasRead, CitesRead
<1> QED
  BY InitCited, StepCited, <1>1, PTL DEF Spec

-----------------------------------------------------------------------------
(* The order of the modules                                                *)

(* The modules are finitely many, each at a place of its own.              *)
LEMMA ModulePlaces ==
  /\ IsFiniteSet(Modules) /\ ModuleOrder \in Seq(STRING)
  /\ \A m \in Modules : Place(m) \in Nat /\ Place(m) \in DOMAIN ModuleOrder /\ ModuleOrder[Place(m)] = m
  /\ Modules \subseteq Elements(Keys(Tree.domains))
<1>1. PICK r \in DOMAIN Tree.roots : ModuleOrder = Tree.roots[r].children /\ Node(Tree.roots, Assistant) = Tree.roots[r]
  BY Configured, NodeIs DEF ModuleOrder
<1>2. ModuleOrder \in Seq(STRING)
  BY <1>1, ConfigTypes
<1>3. Len(ModuleOrder) \in Nat /\ DOMAIN ModuleOrder = 1 .. Len(ModuleOrder)
  BY <1>2, LenProperties
<1>4. \A m \in Modules : Place(m) \in DOMAIN ModuleOrder /\ ModuleOrder[Place(m)] = m
  BY DEF Place, Modules, Elements
<1>5. IsFiniteSet(Modules)
  <2>1. ModuleOrder \in [1 .. Len(ModuleOrder) -> Modules]
    BY <1>2, <1>3, LenProperties DEF Modules, Elements
  <2>2. ModuleOrder \in Surjection(1 .. Len(ModuleOrder), Modules)
    BY <1>3, <2>1 DEF Surjection, Modules, Elements
  <2>3. IsFiniteSet(1 .. Len(ModuleOrder))
    BY <1>3, FS_Interval
  <2> QED
    BY <2>2, <2>3, FS_Surjection
<1>6. Modules \subseteq Elements(Keys(Tree.domains))
  <2>1. Node(Tree.roots, Assistant) \in Elements(Tree.roots)
    BY <1>1 DEF Elements
  <2> QED
    BY <2>1, Configured DEF Buildable, Modules, ModuleOrder
<1> QED
  BY <1>2, <1>3, <1>4, <1>5, <1>6

(* A better score comes before, and an earlier place before a later one.   *)
Before(a, m, n) == a[m].score > a[n].score \/ (a[m].score = a[n].score /\ Place(m) < Place(n))
BeforeIn(a, ms, m) == {n \in ms : Before(a, n, m)}

(* ByScore has the modules with a score, the better one first.             *)
LEMMA ByScoreIs ==
  ASSUME NEW ms, ms \subseteq Modules, NEW a, \A m \in ms : a[m].score \in Int
  PROVE  IsSequence(ByScore(a, ms)) /\ Elements(ByScore(a, ms)) \subseteq ms
<1> DEFINE c == Cardinality(ms)
           f == [m \in ms |-> Cardinality(BeforeIn(a, ms, m))]
<1>1. IsFiniteSet(ms) /\ c \in Nat
  BY ModulePlaces, FS_Subset, FS_CardinalityType
<1>2. \A m \in ms : Place(m) \in Nat /\ ModuleOrder[Place(m)] = m
  BY ModulePlaces
<1>3. \A m \in ms : /\ BeforeIn(a, ms, m) \subseteq ms \ {m} /\ IsFiniteSet(BeforeIn(a, ms, m))
                    /\ Cardinality(BeforeIn(a, ms, m)) \in Nat
  <2>1. TAKE m \in ms
  <2>2. ~Before(a, m, m)
    BY <1>2 DEF Before
  <2>3. BeforeIn(a, ms, m) \subseteq ms \ {m}
    BY <2>2 DEF BeforeIn
  <2> QED
    BY <1>1, <2>3, FS_Subset, FS_CardinalityType
<1>4. ASSUME NEW m \in ms, NEW n \in ms, Before(a, m, n)
      PROVE  Cardinality(BeforeIn(a, ms, m)) < Cardinality(BeforeIn(a, ms, n))
  <2>1. \A k \in ms : Before(a, k, m) => Before(a, k, n)
    <3>1. TAKE k \in ms
    <3>2. a[k].score \in Int /\ a[m].score \in Int /\ a[n].score \in Int /\ Place(k) \in Nat /\ Place(m) \in Nat /\ Place(n) \in Nat
      BY <1>2
    <3> QED
      BY <1>4, <3>2 DEF Before
  <2>2. BeforeIn(a, ms, m) \cup {m} \subseteq BeforeIn(a, ms, n)
    BY <1>4, <2>1 DEF BeforeIn
  <2>3. Cardinality(BeforeIn(a, ms, m) \cup {m}) = Cardinality(BeforeIn(a, ms, m)) + 1
    BY <1>3, FS_AddElement
  <2>4. Cardinality(BeforeIn(a, ms, m) \cup {m}) <= Cardinality(BeforeIn(a, ms, n))
    BY <1>3, <2>2, FS_Subset
  <2> QED
    BY <1>3, <2>3, <2>4
<1>5. \A m, n \in ms : m # n => f[m] # f[n]
  <2> SUFFICES ASSUME NEW m \in ms, NEW n \in ms, m # n PROVE f[m] # f[n]
    OBVIOUS
  <2>1. Place(m) # Place(n)
    BY <1>2
  <2>2. Before(a, m, n) \/ Before(a, n, m)
    BY <1>2, <2>1 DEF Before
  <2>3. f[m] = Cardinality(BeforeIn(a, ms, m)) /\ f[n] = Cardinality(BeforeIn(a, ms, n))
    OBVIOUS
  <2>4. f[m] < f[n] \/ f[n] < f[m]
    BY <1>4, <2>2, <2>3
  <2>5. f[m] \in Nat /\ f[n] \in Nat
    BY <1>3, <2>3
  <2> HIDE DEF f
  <2> QED
    BY <2>4, <2>5
<1>6. \A m \in ms : f[m] \in 0 .. c - 1
  <2>1. TAKE m \in ms
  <2>2. Cardinality(ms \ {m}) = c - 1 /\ IsFiniteSet(ms \ {m})
    BY <1>1, FS_RemoveElement
  <2>3. Cardinality(BeforeIn(a, ms, m)) <= c - 1
    BY <1>3, <2>2, FS_Subset
  <2>4. f[m] = Cardinality(BeforeIn(a, ms, m))
    OBVIOUS
  <2> HIDE DEF f, c
  <2> QED
    BY <1>1, <1>3, <2>3, <2>4
<1>7. f \in Injection(ms, 0 .. c - 1)
  <2>1. f \in [ms -> 0 .. c - 1]
    BY <1>6
  <2> QED
    BY <1>5, <2>1 DEF Injection, IsInjective
<1>8. IsFiniteSet(0 .. c - 1) /\ Cardinality(0 .. c - 1) = c
  <2> HIDE DEF c
  <2>1. \A k \in Nat : IsFiniteSet(0 .. k - 1) /\ Cardinality(0 .. k - 1) = k
    <3>1. TAKE k \in Nat
    <3>2. 0 \in Int /\ k - 1 \in Int
      OBVIOUS
    <3>3. IsFiniteSet(0 .. k - 1) /\ Cardinality(0 .. k - 1) = IF 0 > k - 1 THEN 0 ELSE (k - 1) - 0 + 1
      BY <3>2, FS_Interval
    <3> QED
      BY <3>3
  <2> QED
    BY <1>1, <2>1
<1>9. f \in Surjection(ms, 0 .. c - 1)
  <2> HIDE DEF f
  <2> QED
    BY <1>7, <1>8, FS_Injection
<1>10. \A k \in 1 .. c : \E m \in ms : Cardinality(BeforeIn(a, ms, m)) = k - 1
  <2>1. TAKE k \in 1 .. c
  <2>2. k - 1 \in 0 .. c - 1
    BY <1>1
  <2>3. PICK m \in ms : f[m] = k - 1
    <3> HIDE DEF f
    <3> QED
      BY <1>9, <2>2 DEF Surjection
  <2> QED
    BY <2>3
<1>11. PICK s : s = ByScore(a, ms)
  OBVIOUS
<1>12. s = [k \in 1 .. c |-> CHOOSE m \in ms : Cardinality(BeforeIn(a, ms, m)) = k - 1]
  BY <1>11 DEF ByScore, BeforeIn, Before
<1>13. \A k \in 1 .. c : s[k] \in ms
  BY <1>10, <1>12
<1>14. s \in Seq(ms) /\ Len(s) = c
  <2>1. s = [k \in 1 .. c |-> s[k]]
    BY <1>12
  <2> HIDE DEF c
  <2> QED
    BY <1>1, <1>13, <2>1, IsSeq
<1>15. IsSequence(s) /\ DOMAIN s = 1 .. c
  BY <1>12, <1>14, SequenceIn
<1>16. Elements(s) \subseteq ms
  BY <1>13, <1>15 DEF Elements
<1> QED
  BY <1>11, <1>15, <1>16

(* What a module makes of a message has a score.                           *)
LEMMA HeuristicScores ==
  ASSUME NEW m, NEW msg
  PROVE  \/ AssessByHeuristic(m, msg) = None
         \/ \E status, phase : \E score \in {55, 62, 90, 84, 5} : AssessByHeuristic(m, msg) = Assessed(status, phase, score)
<1>1. AssessByHeuristic(m, msg) \in {Assessed("need_clarify", "read", 55), Assessed("need_clarify", "read", 62),
        Assessed("ready", "write", 90), Assessed("ready", "read", 84), Assessed("reject", "read", 5), None}
  BY Zenon DEF AssessByHeuristic
<1> QED
  BY <1>1

(* A score is normalised to a number.                                      *)
LEMMA NormalScore ==
  ASSUME NEW a, a.score \in Int PROVE NormalizeAssessment(a).score \in Int
<1> DEFINE status == IF a.status \in Statuses THEN a.status ELSE "reject"
           score  == IF a.score > 100 THEN 100 ELSE IF a.score < 0 THEN 0 ELSE a.score
           usual  == [ready |-> 80, need_clarify |-> 55, reject |-> 5]
<1>1. score \in Int
  OBVIOUS
<1>2. usual[status] \in Int
  <2>1. status \in {"ready", "need_clarify", "reject"}
    BY DEF Statuses
  <2> HIDE DEF status
  <2> QED
    BY <2>1
<1>3. NormalizeAssessment(a).score = IF score = 0 THEN usual[status] ELSE score
  BY DEF NormalizeAssessment, Assessed
<1> QED
  <2> HIDE DEF status, score, usual
  <2> QED
    BY <1>1, <1>2, <1>3

(* Every assessment has scores.                                            *)
LEMMA EveryScore ==
  ASSUME NEW msg, NEW a \in AssessModules(msg), NEW m \in Modules PROVE a[m].score \in Int
<1> DEFINE rejected == [Assessed("reject", "read", 5) EXCEPT !.score = 0]
<1>1. a[m] \in {IF x = None THEN rejected ELSE x : x \in Assess(m, msg)}
  BY DEF AssessModules
<1>2. rejected.score = 0
  BY DEF Assessed
<1>3. ASSUME NEW x \in Assess(m, msg), x # None PROVE x.score \in Int
  <2>1. \A y \in ModelAssessments : NormalizeAssessment(y).score \in Int
    BY TurnAssumption, NormalScore
  <2>2. ASSUME AssessByHeuristic(m, msg) # None
        PROVE  NormalizeAssessment(AssessByHeuristic(m, msg)).score \in Int
    <3>1. AssessByHeuristic(m, msg).score \in Int
      BY <2>2, HeuristicScores DEF Assessed
    <3> QED
      BY <3>1, NormalScore
  <2> QED
    BY <1>3, <2>1, <2>2 DEF Assess
<1> HIDE DEF rejected
<1> QED
  BY <1>1, <1>2, <1>3

(* A route has different modules.                                          *)
LEMMA RouteIs ==
  ASSUME NEW msg, NEW a \in AssessModules(msg)
  PROVE  /\ IsSequence(ReadModules(a)) /\ Elements(ReadModules(a)) \subseteq Modules
         /\ IsSequence(WriteModules(a)) /\ Elements(WriteModules(a)) \subseteq Modules
<1>1. \A ms : ms \subseteq Modules => IsSequence(ByScore(a, ms)) /\ Elements(ByScore(a, ms)) \subseteq Modules
  BY EveryScore, ByScoreIs
<1> QED
  BY <1>1 DEF ReadModules, WriteModules

-----------------------------------------------------------------------------
(* Types                                                                   *)

(* The types, with those of what a question keeps and of the stages.       *)
IsStages(p) == /\ IsSequence(p.reads) /\ IsSequence(p.writes)
               /\ Elements(p.reads) \subseteq Modules /\ Elements(p.writes) \subseteq Modules
TypeInv ==
    /\ root \in {"idle", "routing", "asking", "reading", "writing", "waiting", "answered", "failed"}
    /\ message \subseteq Words /\ original \subseteq Words /\ request \subseteq Words
    /\ plan # None => IsStages(plan)
    /\ root \in {"reading", "writing", "waiting"} => IsStages(plan)
    /\ \A m \in Modules :
          /\ mod[m].at \in {"todo", "asking", "running", "waiting", "resumed", "done"}
          /\ mod[m].original \subseteq Words
    /\ response.result # None => response.result.ticket \in Modules \cup {None}
    /\ created \subseteq Modules
    /\ answers \in 0 .. MaxAnswers
TypedInv == CitedInv /\ TypeInv

(* The types at the start.                                                 *)
LEMMA InitTyped == Init => TypedInv
<1> SUFFICES ASSUME Init PROVE TypedInv
  OBVIOUS
<1>1. \A m \in Modules : mod[m] = Untouched
  BY DEF Init
<1>2. response.result = None
  BY DEF Init, NoResponse
<1> QED
  BY <1>1, <1>2, InitCited, TurnAssumption DEF Init, TypedInv, TypeInv, Untouched

(* What the user answers is what an answer may be.                         *)
LEMMA AnswersAreWords ==
  ASSUME NEW a \in Answers \cup Approvals, NEW o, o \subseteq Words
  PROVE  a \subseteq Words /\ Combine(o, a) \subseteq Words
<1>1. a \subseteq Words
  BY TurnAssumption DEF Approvals, Words
<1>2. "long" \in Words
  BY DEF Words
<1> QED
  BY <1>1, <1>2 DEF Combine

(* What does not touch the modules.                                        *)
ModTyped == \A m \in Modules : /\ mod[m].at \in {"todo", "asking", "running", "waiting", "resumed", "done"}
                               /\ mod[m].original \subseteq Words
ResultTyped(r) == r.result # None => r.result.ticket \in Modules \cup {None}

(* The ticket of a result is that of a module.                             *)
LEMMA ResultsTyped ==
  ASSUME NEW r, AllCited(r), ResultTyped(r)
  PROVE  ResultTyped(Paused(r)) /\ ResultTyped(Completed(r)) /\ ResultTyped(NoResponse)
<1>1. ResultTyped(NoResponse)
  BY DEF ResultTyped, NoResponse
<1>2. ResultTyped([r EXCEPT !.result = [ticket |-> None, sources |-> r.sources]])
  <2>1. PICK q : q = [r EXCEPT !.result = [ticket |-> None, sources |-> r.sources]]
    OBVIOUS
  <2>2. q.result = [ticket |-> None, sources |-> r.sources]
    BY <2>1 DEF AllCited
  <2>3. q.result.ticket = None
    BY <2>2
  <2> QED
    BY <2>1, <2>3 DEF ResultTyped
<1>3. ASSUME r.result # None
      PROVE  ResultTyped([r EXCEPT !.result = [r.result EXCEPT !.sources = MergeSources(@, r.sources)]])
  <2>1. PICK x : x = [r.result EXCEPT !.sources = MergeSources(@, r.sources)]
    OBVIOUS
  <2>2. x.ticket = r.result.ticket
    BY <1>3, <2>1 DEF AllCited
  <2>3. PICK q : q = [r EXCEPT !.result = x]
    OBVIOUS
  <2>4. q.result = x
    BY <2>3 DEF AllCited
  <2> QED
    BY <1>3, <2>1, <2>2, <2>3, <2>4 DEF ResultTyped
<1>4. ResultTyped(Paused(r))
  BY <1>2 DEF Paused, ResultTyped
<1>5. ResultTyped(Completed(r))
  <2>1. CASE r.result = None
    BY <1>2, <2>1 DEF Completed
  <2>2. CASE r.result # None
    BY <1>3, <2>2 DEF Completed
  <2> QED
    BY <2>1, <2>2
<1> QED
  BY <1>1, <1>4, <1>5

(* A module's step keeps the types of the modules.                         *)
LEMMA ModuleTyped ==
  ASSUME Shapes, ModTyped, message \subseteq Words, NEW m \in Modules, ModuleNext(m)
  PROVE  ModTyped'
<1>0. IsState(mod[m]) /\ mod = [n \in Modules |-> mod[n]]
  BY DEF Shapes
<1>1. CASE UNCHANGED mod
  BY <1>1 DEF ModTyped
<1>2. ASSUME NEW at \in {"todo", "asking", "running", "waiting", "resumed", "done"}, Goto(m, at)
      PROVE  ModTyped'
  BY <1>0, <1>2, GotoShape DEF ModTyped
<1>3. CASE \E p : mod' = [mod EXCEPT ![m] = [@ EXCEPT !.at = "running", !.steps = p.steps]]
  <2>1. /\ mod'[m].at = "running" /\ mod'[m].original = mod[m].original
        /\ \A n \in Modules \ {m} : mod'[n] = mod[n]
    BY <1>0, <1>3 DEF IsState
  <2> QED
    BY <2>1 DEF ModTyped
<1>4. CASE mod' = [mod EXCEPT ![m] = [@ EXCEPT !.at = "asking", !.original = message]]
  <2>1. /\ mod'[m].at = "asking" /\ mod'[m].original = message
        /\ \A n \in Modules \ {m} : mod'[n] = mod[n]
    BY <1>0, <1>4 DEF IsState
  <2> QED
    BY <2>1 DEF ModTyped
<1>5. CASE mod' = [mod EXCEPT ![m].next = @ + 1]
  <2>1. /\ mod'[m].at = mod[m].at /\ mod'[m].original = mod[m].original
        /\ \A n \in Modules \ {m} : mod'[n] = mod[n]
    BY <1>0, <1>5 DEF IsState
  <2> QED
    BY <2>1 DEF ModTyped
<1>6. CASE mod' = [mod EXCEPT ![m].at = "running", ![m].next = @ + 1]
  <2>1. /\ mod'[m].at = "running" /\ mod'[m].original = mod[m].original
        /\ \A n \in Modules \ {m} : mod'[n] = mod[n]
    BY <1>0, <1>6 DEF IsState
  <2> QED
    BY <2>1 DEF ModTyped
<1>7. CASE RunModule(m)
  BY <1>1, <1>3, <1>4, <1>7 DEF RunModule, RunWithPlan, RunClarifyOrError, Fail
<1>8. CASE RunLeaf(m)
  BY <1>1, <1>2, <1>5, <1>8 DEF RunLeaf, Fail
<1>9. CASE ResumeLeaf(m) \/ PlanDone(m)
  BY <1>1, <1>2, <1>6, <1>9 DEF ResumeLeaf, PlanDone, Fail
<1> QED
  BY <1>7, <1>8, <1>9 DEF ModuleNext

(* Every step keeps the types.                                             *)
LEMMA StepTyped == TypedInv /\ [Next]_vars => TypedInv'
<1> SUFFICES ASSUME TypedInv, [Next]_vars PROVE TypedInv'
  OBVIOUS
<1>0. /\ CitedInv /\ CitedInv' /\ TypeInv /\ AllCited(response) /\ ResultTyped(response) /\ Shapes /\ ModTyped
      /\ message \subseteq Words
  BY StepCited DEF TypedInv, CitedInv, FollowInv, StageInv, TypeInv, ResultTyped, ModTyped
<1> SUFFICES TypeInv'
  BY <1>0 DEF TypedInv
<1>1. ResultTyped(Paused(response)) /\ ResultTyped(Completed(response)) /\ ResultTyped(NoResponse)
  BY <1>0, ResultsTyped
<1>2. CASE Query
  <2>1. message' \subseteq Words /\ request' \subseteq Words /\ original' \subseteq Words
    BY <1>0, <1>2, TurnAssumption DEF Query, RunRoot, InterruptForClarify, TypeInv
  <2>2. root' \in {"routing", "asking"} /\ UNCHANGED <<plan, mod, response, created, answers>>
    BY <1>2 DEF Query, RunRoot, InterruptForClarify
  <2> QED
    BY <1>0, <2>1, <2>2 DEF TypeInv
<1>3. CASE Route
  <2>1. /\ UNCHANGED <<message, mod, answers, request, executed, created>>
        /\ root' \in {"reading", "writing", "asking", "answered"}
        /\ original' \subseteq Words
    BY <1>0, <1>3 DEF Route, RunRootPlan, RunFallback, InterruptForClarify, TypeInv
  <2>2. (UNCHANGED plan /\ root' \in {"asking", "answered"}) \/ IsStages(plan')
    <3>1. ASSUME NEW a \in AssessModules(message), RunRootPlan(ReadModules(a), WriteModules(a))
          PROVE  IsStages(plan')
      <4>1. plan'.reads = ReadModules(a) /\ plan'.writes = WriteModules(a)
        BY <3>1 DEF RunRootPlan
      <4> QED
        BY <4>1, RouteIs DEF IsStages
    <3> QED
      BY <1>3, <3>1 DEF Route, RunFallback, InterruptForClarify
  <2>3. ResultTyped(response')
    BY <1>0, <1>1, <1>3 DEF Route, RunRootPlan, RunFallback, InterruptForClarify
  <2> QED
    BY <1>0, <2>1, <2>2, <2>3 DEF TypeInv, ResultTyped
<1>4. ASSUME NEW m \in Modules, ModuleNext(m) PROVE TypeInv'
  <2>1. /\ root \in {"reading", "writing"} /\ root' \in {root, "failed"} /\ UNCHANGED <<message, original, plan, answers, request>>
    BY <1>4 DEF ModuleNext, RunModule, RunWithPlan, RunClarifyOrError, RunLeaf, ResumeLeaf, PlanDone, Fail,
                Active, Elsewhere
  <2>2. ModTyped'
    BY <1>0, <1>4, ModuleTyped
  <2>3. ResultTyped(response') /\ created' \subseteq Modules
    <3>1. CASE UNCHANGED <<response, created>> \/ (response' = NoResponse /\ UNCHANGED created)
      BY <1>0, <1>1, <3>1 DEF TypeInv
    <3>2. ASSUME NEW hits, NEW answer, AddKnowledge(m, hits, answer), UNCHANGED created
          PROVE  ResultTyped(response') /\ created' \subseteq Modules
      <4>1. response'.result = response.result
        BY <1>0, <3>2 DEF AddKnowledge, AllCited
      <4> QED
        BY <1>0, <3>2, <4>1 DEF ResultTyped, TypeInv
    <3>3. ASSUME NEW success, AddTicket(m, success)
          PROVE  ResultTyped(response') /\ created' \subseteq Modules
      <4> DEFINE ticket == IF success THEN m ELSE None
      <4>1. created' \subseteq Modules
        BY <1>0, <3>3 DEF AddTicket, TypeInv
      <4>2. UNCHANGED response \/ response'.result = [ticket |-> ticket, sources |-> response.sources]
        BY <1>0, <3>3 DEF AddTicket, AllCited
      <4>3. UNCHANGED response \/ response'.result.ticket \in Modules \cup {None}
        BY <4>2
      <4> QED
        BY <1>0, <4>1, <4>3 DEF ResultTyped
    <3> QED
      BY <1>4, <3>1, <3>2, <3>3
         DEF ModuleNext, RunModule, RunWithPlan, RunClarifyOrError, RunLeaf, ResumeLeaf, PlanDone, Fail
  <2> QED
    BY <1>0, <2>1, <2>2, <2>3 DEF TypeInv, ModTyped, ResultTyped
<1>5. CASE EndStage
  <2>1. /\ root \in {"reading", "writing"} /\ root' \in {"waiting", "writing", "answered"} /\ response' = Ended(root')
        /\ UNCHANGED <<mod, executed, created, message, original, plan, answers, request>>
    BY <1>5 DEF EndStage, Elsewhere
  <2>2. ResultTyped(response')
    BY <1>0, <1>1, <2>1 DEF Ended
  <2> QED
    BY <1>0, <2>1, <2>2 DEF TypeInv, ResultTyped
<1>6. CASE Resume
  <2>1. PICK a \in Answers \cup Approvals : AnswerRoot(a) \/ \E m \in Modules : AnswerModule(m, a) \/ AnswerLeaf(m, a)
    BY <1>6 DEF Resume
  <2>2. /\ response' = NoResponse /\ created' = {} /\ answers' = answers + 1 /\ answers < MaxAnswers
        /\ UNCHANGED plan
    BY <1>6 DEF Resume, AnswerRoot, RunRoot, AnswerModule, AnswerLeaf
  <2>3. answers' \in 0 .. MaxAnswers
    BY <1>0, <2>2, TurnAssumption DEF TypeInv
  <2>4. ASSUME AnswerRoot(a)
        PROVE  /\ message' \subseteq Words /\ original' \subseteq Words /\ request' \subseteq Words
               /\ root' \in {"routing", "asking"} /\ UNCHANGED mod
    <3>1. a \subseteq Words /\ Combine(original, a) \subseteq Words
      BY <1>0, AnswersAreWords DEF TypeInv
    <3> QED
      BY <1>0, <2>4, <3>1 DEF AnswerRoot, RunRoot, InterruptForClarify, TypeInv
  <2>5. ASSUME NEW m \in Modules, AnswerModule(m, a) \/ AnswerLeaf(m, a)
        PROVE  /\ message' \subseteq Words /\ UNCHANGED <<original, request>>
               /\ root = "waiting" /\ root' \in {"waiting", "reading", "writing"} /\ ModTyped'
    <3>1. a \subseteq Words /\ Combine(mod[m].original, a) \subseteq Words
      BY <1>0, AnswersAreWords DEF TypeInv
    <3>2. UNCHANGED mod \/ \E at \in {"todo", "resumed"} : Goto(m, at)
      BY <2>5 DEF AnswerModule, AnswerLeaf
    <3>3. ModTyped'
      BY <1>0, <3>2, GotoShape DEF ModTyped
    <3> QED
      BY <2>5, <3>1, <3>3 DEF AnswerModule, AnswerLeaf, StageOf
  <2> QED
    BY <1>0, <1>1, <2>1, <2>2, <2>3, <2>4, <2>5 DEF TypeInv, ModTyped, ResultTyped
<1>7. CASE UNCHANGED vars
  BY <1>0, <1>7 DEF vars, TypeInv
<1> QED
  BY <1>2, <1>3, <1>4, <1>5, <1>6, <1>7 DEF Next

(* The types of the state, whatever the rules, the model and the user say. *)
THEOREM TurnTypes == Spec => []TypeOK
<1>1. TypedInv => TypeOK
  <2> SUFFICES ASSUME TypedInv PROVE TypeOK
    OBVIOUS
  <2>1. TypeInv /\ PlanInv
    BY DEF TypedInv, CitedInv, FollowInv
  <2>2. ASSUME NEW m \in Modules
        PROVE  /\ Elements(mod[m].steps) \subseteq Elements(Keys(Leaves[m]))
               /\ mod[m].next \in 1 .. Len(mod[m].steps) + 1
               /\ mod[m].at = "todo" => mod[m].next = 1
    <3>1. IsFollowed(m)
      BY <2>1 DEF PlanInv
    <3>2. DOMAIN mod[m].steps = 1 .. Len(mod[m].steps)
      BY <3>1, LenProperties DEF IsFollowed, IsPlan
    <3> QED
      BY <3>1, <3>2 DEF IsFollowed, IsPlan, Elements, LeafKeys
  <2> QED
    BY <2>1, <2>2 DEF TypeInv, TypeOK, IsStages
<1> QED
  BY InitTyped, StepTyped, <1>1, PTL DEF Spec

-----------------------------------------------------------------------------
(* Paths in the tree                                                       *)

(* A sequence with as many elements as places has each once.               *)
LEMMA CountedOnce ==
  ASSUME NEW s, IsSequence(s), Cardinality(Elements(s)) = Len(s) PROVE EachOnce(s)
<1> DEFINE n == Len(s)
<1>1. n \in Nat /\ DOMAIN s = 1 .. n /\ s = [i \in 1 .. n |-> s[i]]
  BY DEF IsSequence
<1>2. s \in Surjection(1 .. n, Elements(s))
  <2>1. s \in [1 .. n -> Elements(s)]
    BY <1>1 DEF Elements
  <2> QED
    BY <1>1, <2>1 DEF Surjection, Elements
<1>3. IsFiniteSet(1 .. n) /\ Cardinality(1 .. n) = n
  <2>1. \A k \in Nat : IsFiniteSet(1 .. k) /\ Cardinality(1 .. k) = k
    <3>1. TAKE k \in Nat
    <3>2. IsFiniteSet(1 .. k) /\ Cardinality(1 .. k) = IF 1 > k THEN 0 ELSE k - 1 + 1
      BY FS_Interval
    <3> QED
      BY <3>2
  <2> QED
    BY <1>1, <2>1
<1>4. s \in Injection(1 .. n, Elements(s))
  BY <1>2, <1>3, FS_Surjection
<1> QED
  BY <1>4 DEF Injection, IsInjective, EachOnce

(* Joined without a common element, sequences repeat nothing.              *)
LEMMA JoinedApart ==
  ASSUME NEW s, NEW t, IsSequence(s), IsSequence(t), EachOnce(s \o t)
  PROVE  EachOnce(s) /\ Elements(s) \cap Elements(t) = {}
<1> DEFINE S == Elements(s) \cup Elements(t)
<1>1. s \in Seq(S) /\ t \in Seq(S)
  BY InSeq
<1>2. PICK u : u = s \o t
  OBVIOUS
<1>3. /\ Len(u) = Len(s) + Len(t)
      /\ \A i \in 1 .. Len(s) + Len(t) : u[i] = IF i <= Len(s) THEN s[i] ELSE t[i - Len(s)]
  BY <1>1, <1>2, ConcatProperties
<1>4. Len(s) \in Nat /\ Len(t) \in Nat /\ DOMAIN s = 1 .. Len(s) /\ DOMAIN t = 1 .. Len(t)
  BY DEF IsSequence
<1>5. \A i \in 1 .. Len(s) : i \in 1 .. Len(u) /\ u[i] = s[i]
  BY <1>3, <1>4
<1>6. \A i \in 1 .. Len(t) : Len(s) + i \in 1 .. Len(u) /\ u[Len(s) + i] = t[i]
  <2>1. TAKE i \in 1 .. Len(t)
  <2>2. Len(s) + i \in 1 .. Len(s) + Len(t) /\ ~(Len(s) + i <= Len(s)) /\ (Len(s) + i) - Len(s) = i
    BY <1>4
  <2> QED
    BY <1>3, <2>2
<1>7. \A h, k \in 1 .. Len(u) : h # k => u[h] # u[k]
  BY <1>2 DEF EachOnce
<1>8. EachOnce(s)
  BY <1>5, <1>7 DEF EachOnce
<1>9. ASSUME NEW i \in 1 .. Len(s), NEW j \in 1 .. Len(t) PROVE s[i] # t[j]
  <2>1. i # Len(s) + j
    BY <1>4
  <2> QED
    BY <1>5, <1>6, <1>7, <2>1
<1> QED
  BY <1>4, <1>8, <1>9 DEF Elements

(* The keys of nodes are a sequence.                                       *)
LEMMA KeysSequence == ASSUME NEW S, NEW nodes \in Seq(S) PROVE IsSequence(Keys(nodes))
<1>1. Len(nodes) \in Nat /\ DOMAIN nodes = 1 .. Len(nodes)
  BY LenProperties
<1>2. PICK k : k = Keys(nodes)
  OBVIOUS
<1>3. k = [i \in 1 .. Len(nodes) |-> nodes[i].key] /\ k = [i \in 1 .. Len(nodes) |-> k[i]]
  BY <1>1, <1>2 DEF Keys
<1>4. \A i \in 1 .. Len(nodes) : k[i] \in Elements(k)
  BY <1>3 DEF Elements
<1>5. k \in Seq(Elements(k))
  BY <1>1, <1>3, <1>4, IsSeq
<1> QED
  BY <1>2, <1>5, SequenceIn

(* No key is that of two nodes.                                            *)
LEMMA KeysApart ==
  /\ Assistant \in STRING /\ Modules \subseteq STRING
  /\ Assistant \notin Modules /\ Assistant \notin Elements(Keys(Tree.leaves))
  /\ Modules \cap Elements(Keys(Tree.leaves)) = {}
<1> DEFINE r == Keys(Tree.roots)
           d == Keys(Tree.domains)
           l == Keys(Tree.leaves)
<1>1. IsSequence(r) /\ IsSequence(d) /\ IsSequence(l)
  BY Configured, KeysSequence DEF AgentsConfig
<1>2. IsSequence(r \o d) /\ Elements(r \o d) = Elements(r) \cup Elements(d)
  BY <1>1, Joined
<1>3. IsSequence((r \o d) \o l)
  BY <1>1, <1>2, Joined
<1>4. Cardinality(Elements((r \o d) \o l)) = Len((r \o d) \o l)
  BY TreeAssumption DEF ValidAgentTree, KeysAreDistinct
<1> HIDE DEF r, d, l
<1>5. EachOnce((r \o d) \o l)
  BY <1>3, <1>4, CountedOnce
<1>6. EachOnce(r \o d) /\ Elements(r \o d) \cap Elements(l) = {}
  BY <1>1, <1>2, <1>5, JoinedApart
<1>7. Elements(r) \cap Elements(d) = {}
  BY <1>1, <1>6, JoinedApart
<1>8. Assistant \in Elements(r) /\ Modules \subseteq Elements(d)
  BY Configured, ModulePlaces DEF r, d
<1>9. Elements(r) \subseteq STRING /\ Elements(d) \subseteq STRING
  BY ConfigTypes DEF r, d, Elements, Keys
<1> QED
  BY <1>2, <1>6, <1>7, <1>8, <1>9 DEF l

-----------------------------------------------------------------------------
(* Coming to a node, one is there, and began where one began.              *)
Visited(out, node, o) ==
    /\ o \in Seq(STRING) /\ Len(o) >= 1 /\ o[Len(o)] = node
    /\ Elements(o) \subseteq Elements(out) \cup {node}
    /\ Len(out) >= 1 => o[1] = out[1]
    /\ node \notin Elements(out) => /\ Len(o) = Len(out) + 1
                                    /\ \A i \in 1 .. Len(out) : o[i] = out[i]

(* What one more visit makes of the way that is shown.                     *)
LEMMA VisitIs ==
  ASSUME NEW out \in Seq(STRING), NEW node \in STRING
  PROVE  Visited(out, node, Visit(node)[out])
<1>0. IsSequence(out) /\ Len(out) \in Nat /\ DOMAIN out = 1 .. Len(out) /\ \A i \in 1 .. Len(out) : out[i] \in STRING
  BY SequenceIn, LenProperties, ElementOfSeq
<1>1. CASE node \in Elements(out)
  <2> DEFINE c == CHOOSE i \in DOMAIN out : out[i] = node
  <2>1. c \in 1 .. Len(out) /\ out[c] = node
    BY <1>0, <1>1 DEF Elements
  <2>2. PICK o : o = SubSeq(out, 1, c)
    OBVIOUS
  <2>3. Visit(node)[out] = o
    BY <1>1, <2>2 DEF Visit
  <2> HIDE DEF c
  <2>4. o \in Seq(STRING) /\ Len(o) = c /\ \A i \in 1 .. c : o[i] = out[i]
    <3>1. 1 \in Int /\ c \in Int /\ 1 <= c /\ c - 1 + 1 = c /\ \A i \in 1 .. c : out[i] \in STRING /\ 1 + i - 1 = i
      BY <1>0, <2>1
    <3> QED
      BY <2>2, <3>1, SubSeqProperties
  <2>5. IsSequence(o) /\ \A i \in 1 .. c : i \in 1 .. Len(out)
    BY <1>0, <2>1, <2>4, SequenceIn
  <2>6. Elements(o) \subseteq Elements(out)
    BY <1>0, <2>4, <2>5 DEF Elements, IsSequence
  <2> QED
    <3>1. Len(o) >= 1 /\ o[Len(o)] = node /\ o[1] = out[1]
      <4>1. c \in Nat /\ c >= 1 /\ 1 \in 1 .. c /\ c \in 1 .. c
        BY <1>0, <2>1
      <4> QED
        BY <2>1, <2>4, <4>1
    <3> QED
      BY <1>1, <2>3, <2>4, <2>6, <3>1 DEF Visited
<1>2. CASE node \notin Elements(out)
  <2>1. PICK o : o = Append(out, node)
    OBVIOUS
  <2>2. Visit(node)[out] = o
    BY <1>2, <2>1 DEF Visit
  <2>3. o \in Seq(STRING) /\ Len(o) = Len(out) + 1 /\ o[Len(out) + 1] = node /\ \A i \in 1 .. Len(out) : o[i] = out[i]
    BY <2>1, AppendProperties
  <2>4. Elements(o) = Elements(out) \cup {node}
    BY <1>0, <2>1, StepAdded
  <2>5. Len(o) >= 1 /\ o[Len(o)] = node /\ (Len(out) >= 1 => o[1] = out[1])
    BY <1>0, <2>3
  <2> QED
    BY <2>2, <2>3, <2>4, <2>5 DEF Visited
<1> QED
  BY <1>1, <1>2

IsVisible(v, path, n) ==
    v = [k \in 0 .. n |-> IF k = 0 THEN << >> ELSE Visit(path[k])[v[k - 1]]]

(* The way that is shown is defined, by induction.                         *)
LEMMA VisibleExists ==
  ASSUME NEW path PROVE \A n \in Nat : \E v : IsVisible(v, path, n)
<1> DEFINE S == {n \in Nat : \E v : IsVisible(v, path, n)}
<1>1. 0 \in S
  <2>1. IsVisible([k \in 0 .. 0 |-> << >>], path, 0)
    BY DEF IsVisible
  <2> QED
    BY <2>1
<1>2. ASSUME NEW n \in Nat, n \in S PROVE n + 1 \in S
  <2>1. PICK v : IsVisible(v, path, n)
    BY <1>2
  <2>2. PICK w : w = [k \in 0 .. n + 1 |-> IF k = n + 1 THEN Visit(path[n + 1])[v[n]] ELSE v[k]]
    OBVIOUS
  <2>3. \A k \in 0 .. n : w[k] = v[k]
    BY <2>2
  <2>4. ASSUME NEW k \in 0 .. n + 1 PROVE w[k] = IF k = 0 THEN << >> ELSE Visit(path[k])[w[k - 1]]
    <3>1. CASE k = n + 1
      <4>1. k # 0 /\ k - 1 = n /\ n \in 0 .. n
        BY <3>1
      <4> QED
        BY <2>2, <2>3, <3>1, <4>1
    <3>2. CASE k # n + 1
      <4>1. k \in 0 .. n /\ (k # 0 => k - 1 \in 0 .. n)
        BY <3>2
      <4>2. v[k] = IF k = 0 THEN << >> ELSE Visit(path[k])[v[k - 1]]
        BY <2>1, <4>1 DEF IsVisible
      <4> QED
        BY <2>3, <4>1, <4>2
    <3> QED
      BY <3>1, <3>2
  <2>5. IsVisible(w, path, n + 1)
    BY <2>2, <2>4 DEF IsVisible
  <2> QED
    BY <2>5
<1> HIDE DEF S
<1>3. \A n \in Nat : n \in S
  BY <1>1, <1>2, Induction
<1> QED
  BY <1>3 DEF S

(* The way that is shown is that of the last visit.                        *)
LEMMA VisiblePath ==
  ASSUME NEW path \in Seq(STRING)
  PROVE  \E v : /\ NormalizeVisiblePath[path] = v[Len(path)] /\ v[0] = << >>
                /\ \A k \in 1 .. Len(path) : v[k] = Visit(path[k])[v[k - 1]]
<1> DEFINE v == CHOOSE v : IsVisible(v, path, Len(path))
<1>1. IsVisible(v, path, Len(path))
  BY VisibleExists, LenProperties
<1>2. NormalizeVisiblePath[path] = v[Len(path)]
  BY DEF NormalizeVisiblePath, IsVisible
<1> HIDE DEF v
<1>3. v[0] = << >> /\ \A k \in 1 .. Len(path) : v[k] = Visit(path[k])[v[k - 1]]
  BY <1>1 DEF IsVisible
<1> QED
  BY <1>2, <1>3

-----------------------------------------------------------------------------
(* The path to a step                                                      *)

(* The way that is shown ends where the run is, and begins where it began. *)
LEMMA VisibleWay ==
  ASSUME NEW path \in Seq(STRING), NEW v, v[0] = << >>,
         \A k \in 1 .. Len(path) : v[k] = Visit(path[k])[v[k - 1]]
  PROVE  \A n \in 1 .. Len(path) :
            /\ v[n] \in Seq(STRING) /\ Len(v[n]) >= 1 /\ v[n][Len(v[n])] = path[n] /\ v[n][1] = path[1]
            /\ Elements(v[n]) \subseteq {path[i] : i \in 1 .. n}
<1> DEFINE G(n) == /\ v[n] \in Seq(STRING) /\ Len(v[n]) >= 1 /\ v[n][Len(v[n])] = path[n] /\ v[n][1] = path[1]
                   /\ Elements(v[n]) \subseteq {path[i] : i \in 1 .. n}
           S == {n \in Nat : n \in 1 .. Len(path) => G(n)}
<1>0. Len(path) \in Nat /\ \A i \in 1 .. Len(path) : path[i] \in STRING
  BY LenProperties, ElementOfSeq
<1>1. 0 \in S
  OBVIOUS
<1>2. ASSUME NEW n \in Nat, n \in S, n + 1 \in 1 .. Len(path) PROVE G(n + 1)
  <2>1. v[n + 1] = Visit(path[n + 1])[v[n]] /\ path[n + 1] \in STRING
    BY <1>0, <1>2
  <2>2. CASE n = 0
    <3>1. << >> \in Seq(STRING) /\ Elements(<< >>) = {} /\ Len(<< >>) = 0 /\ path[1] \notin Elements(<< >>)
      BY NoElements, EmptySeq
    <3>2. v[1] = Visit(path[1])[<< >>] /\ path[1] \in STRING
      BY <2>1, <2>2
    <3>3. Visited(<< >>, path[1], v[1])
      BY <3>1, <3>2, VisitIs
    <3>5. /\ v[1] \in Seq(STRING) /\ Len(v[1]) >= 1 /\ v[1][Len(v[1])] = path[1]
          /\ Elements(v[1]) \subseteq {path[1]} /\ Len(v[1]) = 1
      BY <3>1, <3>3 DEF Visited
    <3>4. G(1)
      BY <3>5
    <3> QED
      BY <2>2, <3>4
  <2>3. CASE n # 0
    <3>1. n \in 1 .. Len(path)
      BY <1>0, <1>2, <2>3
    <3>2. G(n)
      BY <1>2, <3>1
    <3>3. /\ v[n + 1] \in Seq(STRING) /\ Len(v[n + 1]) >= 1 /\ v[n + 1][Len(v[n + 1])] = path[n + 1]
          /\ Elements(v[n + 1]) \subseteq Elements(v[n]) \cup {path[n + 1]} /\ v[n + 1][1] = v[n][1]
      <4>1. v[n] \in Seq(STRING)
        BY <3>2
      <4>2. Visited(v[n], path[n + 1], v[n + 1])
        BY <2>1, <4>1, VisitIs
      <4> QED
        BY <3>2, <4>2 DEF Visited
    <3>4. Elements(v[n + 1]) \subseteq {path[i] : i \in 1 .. n + 1}
      BY <3>2, <3>3
    <3> QED
      BY <3>2, <3>3, <3>4
  <2> QED
    BY <2>2, <2>3
<1>3. \A n \in Nat : n \in S
  <2>1. \A n \in Nat : n \in S => n + 1 \in S
    <3> SUFFICES ASSUME NEW n \in Nat, n \in S PROVE n + 1 \in S
      OBVIOUS
    <3>1. n + 1 \in 1 .. Len(path) => G(n + 1)
      BY <1>2
    <3> HIDE DEF G
    <3> QED
      BY <3>1
  <2> HIDE DEF S
  <2> QED
    BY <1>1, <2>1, Induction
<1>4. ASSUME NEW n \in 1 .. Len(path) PROVE G(n)
  <2> HIDE DEF G
  <2> QED
    BY <1>0, <1>3
<1> QED
  BY <1>4

(* A sequence of one.                                                      *)
LEMMA Singleton == ASSUME NEW x PROVE IsSequence(<<x>>) /\ Elements(<<x>>) = {x} /\ Len(<<x>>) = 1 /\ <<x>>[1] = x
<1>1. PICK s : s = <<x>>
  OBVIOUS
<1>2. s = [i \in 1 .. 1 |-> s[i]] /\ s[1] = x
  BY <1>1
<1>3. s \in Seq({x}) /\ Len(s) = 1
  BY <1>2, IsSeq
<1>4. IsSequence(s)
  BY <1>3, SequenceIn
<1>5. Elements(s) = {x}
  BY <1>2 DEF Elements
<1> QED
  BY <1>1, <1>2, <1>3, <1>4, <1>5

(* Where the elements of a joined sequence are.                            *)
LEMMA JoinedAt ==
  ASSUME NEW s, NEW t, IsSequence(s), IsSequence(t)
  PROVE  /\ Len(s \o t) = Len(s) + Len(t)
         /\ \A i \in 1 .. Len(s) : (s \o t)[i] = s[i]
         /\ \A j \in 1 .. Len(t) : (s \o t)[Len(s) + j] = t[j]
<1> DEFINE S == Elements(s) \cup Elements(t)
<1>1. s \in Seq(S) /\ t \in Seq(S)
  BY InSeq
<1>2. PICK u : u = s \o t
  OBVIOUS
<1>3. /\ Len(u) = Len(s) + Len(t)
      /\ \A i \in 1 .. Len(s) + Len(t) : u[i] = IF i <= Len(s) THEN s[i] ELSE t[i - Len(s)]
  BY <1>1, <1>2, ConcatProperties
<1>4. Len(s) \in Nat /\ Len(t) \in Nat
  BY DEF IsSequence
<1>5. \A i \in 1 .. Len(s) : u[i] = s[i]
  BY <1>3, <1>4
<1>6. ASSUME NEW j \in 1 .. Len(t) PROVE u[Len(s) + j] = t[j]
  <2>1. Len(s) + j \in 1 .. Len(s) + Len(t) /\ ~(Len(s) + j <= Len(s)) /\ (Len(s) + j) - Len(s) = j
    BY <1>4
  <2> QED
    BY <1>3, <2>1
<1> QED
  BY <1>2, <1>3, <1>5, <1>6

(* The way of the run to the next step of m: over modules to m, and over   *)
(* its steps.                                                              *)
LEMMA RunPathIs ==
  ASSUME NEW m \in Modules, IsFollowed(m), mod[m].next <= Len(mod[m].steps),
         root \in {"reading", "writing"}, IsStages(plan)
  PROVE  \E p \in Nat :
            /\ RunPath(m) \in Seq(STRING) /\ Len(RunPath(m)) = p + mod[m].next /\ p >= 2
            /\ RunPath(m)[1] = Assistant /\ RunPath(m)[p] = m
            /\ \A i \in 1 .. p : RunPath(m)[i] \in {Assistant} \cup Modules
            /\ \A j \in 1 .. mod[m].next : RunPath(m)[p + j] = mod[m].steps[j]
<1> DEFINE P == {i \in DOMAIN plan.writes : plan.writes[i] # m /\ mod[plan.writes[i]].at = "done"}
           one == IF Len(plan.reads) = 1 THEN plan.reads ELSE << >>
           done == AtPlaces(plan.writes, P)
           before == IF root = "reading" THEN << >> ELSE one \o done
           a == <<Assistant>> \o before
           b == a \o <<m>>
           n == mod[m].next
           steps == SubSeq(mod[m].steps, 1, n)
<1>1. RunPath(m) = b \o steps
  BY DEF RunPath
<1>2. IsSequence(one) /\ Elements(one) \subseteq Modules
  BY NoElements DEF IsStages
<1>3. IsSequence(done) /\ Elements(done) \subseteq Modules
  <2>1. Len(plan.writes) \in Nat /\ P \subseteq 1 .. Len(plan.writes) /\ \A i \in P : plan.writes[i] \in Modules
    BY DEF IsStages, IsSequence, Elements
  <2>2. done \in Seq(Modules)
    <3> HIDE DEF P
    <3> QED
      BY <2>1, AtPlacesSeq
  <2> HIDE DEF done
  <2>3. IsSequence(done)
    BY <2>2, SequenceIn
  <2>4. \A i \in 1 .. Len(done) : done[i] \in Modules
    BY <2>2, ElementOfSeq
  <2> QED
    BY <2>3, <2>4 DEF Elements, IsSequence
<1> HIDE DEF one, done
<1>4. IsSequence(before) /\ Elements(before) \subseteq Modules
  BY <1>2, <1>3, Joined, NoElements
<1> HIDE DEF before
<1>5. /\ IsSequence(a) /\ Elements(a) \subseteq {Assistant} \cup Modules
      /\ Len(a) = 1 + Len(before) /\ a[1] = Assistant
  <2>1. IsSequence(<<Assistant>>) /\ Elements(<<Assistant>>) = {Assistant} /\ Len(<<Assistant>>) = 1 /\ <<Assistant>>[1] = Assistant
    BY Singleton
  <2>2. PICK s : s = <<Assistant>>
    OBVIOUS
  <2> QED
    BY <1>4, <2>1, <2>2, Joined, JoinedAt
<1>6. /\ IsSequence(b) /\ Elements(b) \subseteq {Assistant} \cup Modules
      /\ Len(b) = Len(a) + 1 /\ b[1] = Assistant /\ b[Len(b)] = m
  <2>1. IsSequence(<<m>>) /\ Elements(<<m>>) = {m} /\ Len(<<m>>) = 1 /\ <<m>>[1] = m
    BY Singleton
  <2>2. PICK s : s = <<m>>
    OBVIOUS
  <2>3. 1 \in 1 .. Len(a) /\ 1 \in 1 .. Len(s)
    BY <1>4, <1>5, <2>1, <2>2 DEF IsSequence
  <2> HIDE DEF a
  <2>4. IsSequence(a \o s) /\ Elements(a \o s) = Elements(a) \cup Elements(s) /\ Len(a \o s) = Len(a) + Len(s)
        /\ (a \o s)[1] = a[1] /\ (a \o s)[Len(a) + 1] = s[1]
    BY <1>5, <2>1, <2>2, <2>3, Joined, JoinedAt
  <2> QED
    BY <1>5, <2>1, <2>2, <2>4
<1> HIDE DEF a, b
<1>7. /\ mod[m].steps \in Seq(STRING) /\ IsSequence(mod[m].steps) /\ n \in Nat /\ n <= Len(mod[m].steps) /\ n >= 1
  BY SequenceIn, LenProperties DEF IsFollowed, IsPlan
<1>8. /\ IsSequence(steps) /\ Len(steps) = n /\ \A i \in 1 .. n : steps[i] = mod[m].steps[i]
      /\ Elements(steps) \subseteq STRING
  <2>1. /\ 1 \in Int /\ n \in Int /\ 1 <= n /\ n - 1 + 1 = n
        /\ \A i \in 1 .. n : mod[m].steps[i] \in STRING /\ 1 + i - 1 = i
    BY <1>7, ElementOfSeq
  <2> HIDE DEF n
  <2>2. PICK t : t = SubSeq(mod[m].steps, 1, n)
    OBVIOUS
  <2>3. t \in Seq(STRING) /\ Len(t) = n /\ \A i \in 1 .. n : t[i] = mod[m].steps[i]
    BY <2>1, <2>2, SubSeqProperties
  <2>4. IsSequence(t) /\ Elements(t) \subseteq STRING
    BY <2>1, <2>3, SequenceIn DEF Elements, IsSequence
  <2> QED
    BY <2>2, <2>3, <2>4
<1> HIDE DEF steps, n
<1>9. PICK r : r = RunPath(m)
  OBVIOUS
<1>10. IsSequence(r) /\ Elements(r) = Elements(b) \cup Elements(steps) /\ Len(r) = Len(b) + n
       /\ (\A i \in 1 .. Len(b) : r[i] = b[i]) /\ \A j \in 1 .. n : r[Len(b) + j] = steps[j]
  <2>1. IsSequence(b \o steps) /\ Elements(b \o steps) = Elements(b) \cup Elements(steps)
    BY <1>6, <1>8, Joined
  <2>2. /\ Len(b \o steps) = Len(b) + Len(steps)
        /\ \A i \in 1 .. Len(b) : (b \o steps)[i] = b[i]
        /\ \A j \in 1 .. Len(steps) : (b \o steps)[Len(b) + j] = steps[j]
    <3> PICK t : t = steps
      OBVIOUS
    <3> USE <1>8
    <3>1. IsSequence(b) /\ IsSequence(t)
      BY <1>6
    <3>2. /\ Len(b \o t) = Len(b) + Len(t)
          /\ \A i \in 1 .. Len(b) : (b \o t)[i] = b[i]
          /\ \A j \in 1 .. Len(t) : (b \o t)[Len(b) + j] = t[j]
      BY <3>1, JoinedAt
    <3> QED
      BY <3>2
  <2> QED
    BY <1>1, <1>8, <1>9, <2>1, <2>2
<1>11. r \in Seq(STRING)
  BY <1>6, <1>8, <1>10, InSeq, KeysApart
<1>12. Len(b) \in Nat /\ Len(b) >= 2
  BY <1>4, <1>5, <1>6 DEF IsSequence
<1>13. 1 \in 1 .. Len(b) /\ Len(b) \in 1 .. Len(b)
  BY <1>12
<1>14. \A i \in 1 .. Len(b) : b[i] \in {Assistant} \cup Modules
  BY <1>6 DEF IsSequence, Elements
<1> QED
  BY <1>6, <1>8, <1>9, <1>10, <1>11, <1>12, <1>13, <1>14 DEF n

(* The way that is shown for a step of m.                                  *)
LEMMA ShownWay ==
  ASSUME NEW m \in Modules, IsFollowed(m), mod[m].next <= Len(mod[m].steps),
         root \in {"reading", "writing"}, IsStages(plan)
  PROVE  LET w == RunPathStrings(m)
         IN  /\ w \in Seq(STRING) /\ Len(w) >= 3 /\ w[Len(w)] = mod[m].steps[mod[m].next]
             /\ w[1] = Assistant /\ (Len(w) = 3 => w[2] = m)
<1> DEFINE r == RunPath(m)
           n == mod[m].next
<1>1. PICK p \in Nat :
            /\ r \in Seq(STRING) /\ Len(r) = p + n /\ p >= 2
            /\ r[1] = Assistant /\ r[p] = m
            /\ \A i \in 1 .. p : r[i] \in {Assistant} \cup Modules
            /\ \A j \in 1 .. n : r[p + j] = mod[m].steps[j]
  BY RunPathIs
<1>2. /\ n \in Nat /\ n >= 1
      /\ \A j \in 1 .. n : mod[m].steps[j] \in LeafKeys(m)
      /\ \A h, k \in 1 .. n : h # k => mod[m].steps[h] # mod[m].steps[k]
  <2>1. mod[m].next \in Nat /\ mod[m].next >= 1 /\ Len(mod[m].steps) \in Nat
    BY LenProperties DEF IsFollowed, IsPlan
  <2>2. \A j \in 1 .. n : j \in 1 .. Len(mod[m].steps)
    BY <2>1
  <2> QED
    BY <2>1, <2>2 DEF IsFollowed, IsPlan
<1>3. PICK v : /\ RunPathStrings(m) = v[Len(r)] /\ v[0] = << >>
               /\ \A k \in 1 .. Len(r) : v[k] = Visit(r[k])[v[k - 1]]
  <2>1. RunPathStrings(m) = NormalizeVisiblePath[r]
    BY DEF RunPathStrings
  <2> HIDE DEF r
  <2> QED
    BY <1>1, <2>1, VisiblePath
<1> HIDE DEF r, n
<1>4. \A k \in 1 .. Len(r) :
            /\ v[k] \in Seq(STRING) /\ Len(v[k]) >= 1 /\ v[k][Len(v[k])] = r[k] /\ v[k][1] = r[1]
            /\ Elements(v[k]) \subseteq {r[i] : i \in 1 .. k}
  BY <1>1, <1>3, VisibleWay
<1>5. ASSUME NEW j \in 0 .. n - 1
      PROVE  /\ r[p + (j + 1)] \notin Elements(v[p + j]) /\ r[p + (j + 1)] \in STRING
             /\ p + j \in 1 .. Len(r) /\ p + (j + 1) \in 1 .. Len(r)
  <2>1. p + j \in 1 .. Len(r) /\ p + (j + 1) \in 1 .. Len(r) /\ j + 1 \in 1 .. n
    BY <1>1, <1>2
  <2>2. r[p + (j + 1)] = mod[m].steps[j + 1] /\ mod[m].steps[j + 1] \in LeafKeys(m)
    BY <1>1, <1>2, <2>1
  <2>3. mod[m].steps[j + 1] \in Elements(Keys(Tree.leaves)) /\ mod[m].steps[j + 1] \in STRING
    BY <2>2, LeafKeysAre
  <2>4. ASSUME NEW i \in 1 .. p + j PROVE r[i] # mod[m].steps[j + 1]
    <3>1. CASE i \in 1 .. p
      BY <1>1, <2>3, <3>1, KeysApart
    <3>2. CASE i \notin 1 .. p
      <4>1. i - p \in 1 .. n /\ i - p # j + 1 /\ p + (i - p) = i
        BY <1>2, <2>1, <3>2
      <4>2. r[i] = mod[m].steps[i - p]
        BY <1>1, <4>1
      <4> QED
        BY <1>2, <2>1, <4>1, <4>2
    <3> QED
      BY <3>1, <3>2
  <2> QED
    <3>1. Elements(v[p + j]) \subseteq {r[i] : i \in 1 .. p + j}
      BY <1>4, <2>1
    <3>2. r[p + (j + 1)] \notin {r[i] : i \in 1 .. p + j}
      BY <2>2, <2>4
    <3> QED
      BY <2>1, <2>2, <2>3, <3>1, <3>2
<1> DEFINE G(j) == Len(v[p + j]) >= 2 + j /\ (Len(v[p + j]) \in {2, 3} /\ Len(v[p + j]) = 2 + j => v[p + j][2] = m)
           S == {j \in Nat : j <= n => G(j)}
<1>6. G(0)
  <2>1. p \in 1 .. Len(r) /\ p + 0 = p
    BY <1>1, <1>2
  <2>2. v[p][Len(v[p])] = m /\ v[p][1] = Assistant /\ Len(v[p]) >= 1 /\ Len(v[p]) \in Nat
    BY <1>1, <1>4, <2>1, LenProperties
  <2>3. Len(v[p]) # 1
    BY <2>2, KeysApart
  <2>4. Len(v[p]) >= 2 /\ (Len(v[p]) = 2 => v[p][2] = m)
    <3>1. PICK l \in Nat : l = Len(v[p])
      BY <2>2
    <3>2. l >= 1 /\ l # 1 /\ v[p][l] = m
      BY <2>2, <2>3, <3>1
    <3>3. l >= 2
      BY <3>2
    <3> QED
      BY <3>1, <3>2, <3>3
  <2>5. v[p + 0] = v[p]
    BY <2>1
  <2> QED
    BY <2>4, <2>5
<1>7. ASSUME NEW j \in Nat, j \in S, j + 1 <= n PROVE G(j + 1)
  <2>1. j \in 0 .. n - 1
    BY <1>2, <1>7
  <2>2. G(j)
    BY <1>2, <1>7
  <2>3. /\ v[p + (j + 1)] = Visit(r[p + (j + 1)])[v[p + j]]
        /\ v[p + j] \in Seq(STRING) /\ Len(v[p + j]) \in Nat
    <3>1. p + (j + 1) \in 1 .. Len(r) /\ (p + (j + 1)) - 1 = p + j
      BY <1>5, <2>1
    <3> QED
      BY <1>3, <1>4, <1>5, <2>1, <3>1, LenProperties
  <2>4. /\ Len(v[p + (j + 1)]) = Len(v[p + j]) + 1
        /\ \A i \in 1 .. Len(v[p + j]) : v[p + (j + 1)][i] = v[p + j][i]
    <3>1. Visited(v[p + j], r[p + (j + 1)], v[p + (j + 1)])
      BY <1>5, <2>1, <2>3, VisitIs
    <3>2. r[p + (j + 1)] \notin Elements(v[p + j])
      BY <1>5, <2>1
    <3> QED
      BY <3>1, <3>2 DEF Visited
  <2>5. 2 \in 1 .. Len(v[p + j])
    BY <2>2, <2>3
  <2>6. v[p + (j + 1)][2] = v[p + j][2]
    BY <2>4, <2>5
  <2>7. Len(v[p + j]) >= 2 + j /\ (Len(v[p + j]) \in {2, 3} /\ Len(v[p + j]) = 2 + j => v[p + j][2] = m)
    BY <2>2
  <2>8. Len(v[p + (j + 1)]) >= 2 + (j + 1)
    BY <2>3, <2>4, <2>7
  <2>9. ASSUME Len(v[p + (j + 1)]) \in {2, 3}, Len(v[p + (j + 1)]) = 2 + (j + 1)
        PROVE  v[p + (j + 1)][2] = m
    <3>1. Len(v[p + j]) = 2 /\ j = 0
      <4>1. PICK k \in Nat : k = Len(v[p + j])
        BY <2>3
      <4>2. PICK l : l = Len(v[p + (j + 1)])
        OBVIOUS
      <4>3. l = k + 1 /\ l \in {2, 3} /\ l = 2 + (j + 1)
        BY <2>4, <2>9, <4>1, <4>2
      <4>4. k = 2 /\ j = 0
        BY <4>3
      <4> QED
        BY <4>1, <4>4
    <3> QED
      BY <2>6, <2>7, <3>1
  <2> QED
    BY <2>8, <2>9
<1>8. \A j \in Nat : j \in S
  <2>1. 0 \in S /\ \A j \in Nat : j \in S => j + 1 \in S
    <3>1. \A j \in Nat : j \in S /\ j + 1 <= n => G(j + 1)
      BY <1>7
    <3>2. G(0)
      BY <1>6
    <3> HIDE DEF G
    <3> QED
      BY <3>1, <3>2
  <2> HIDE DEF S
  <2> QED
    BY <2>1, Induction
<1>9. G(n)
  BY <1>2, <1>8
<1>10. Len(r) \in 1 .. Len(r) /\ Len(r) = p + n
  BY <1>1, <1>2
<1>11. PICK w : w = RunPathStrings(m)
  OBVIOUS
<1>12. w \in Seq(STRING) /\ w[Len(w)] = r[p + n] /\ w[1] = Assistant /\ w = v[p + n] /\ Len(w) \in Nat
  BY <1>1, <1>3, <1>4, <1>10, <1>11, LenProperties
<1>13. r[p + n] = mod[m].steps[n]
  BY <1>1, <1>2
<1>14. Len(w) >= 2 + n /\ (Len(w) = 3 => w[2] = m)
  BY <1>2, <1>9, <1>12
<1> QED
  BY <1>2, <1>11, <1>12, <1>13, <1>14 DEF n

-----------------------------------------------------------------------------
(* The path that is resolved                                               *)

(* Who alone holds a leaf.                                                 *)
LEMMA TheOnlyHolder ==
  ASSUME NEW m \in Modules, NEW key \in LeafKeys(m), Cardinality(HoldersOf(key)) = 1
  PROVE  PathForNode(key) = <<Assistant, m, key>>
<1>1. Place(m) \in DOMAIN ModuleOrder /\ ModuleOrder[Place(m)] = m /\ ModuleOrder \in Seq(STRING)
  BY ModulePlaces
<1>2. Place(m) \in HoldersOf(key)
  BY <1>1 DEF HoldersOf, LeafKeys
<1>3. IsFiniteSet(HoldersOf(key))
  <2>1. Len(ModuleOrder) \in Nat /\ HoldersOf(key) \subseteq 1 .. Len(ModuleOrder)
    BY <1>1, LenProperties DEF HoldersOf
  <2> QED
    BY <2>1, FinitePlaces
<1>4. HoldersOf(key) = {Place(m)}
  BY <1>2, <1>3, FS_Singleton
<1>5. key \notin Modules \cup {Assistant}
  BY LeafKeysAre, KeysApart
<1>6. Place(m) <= Place(m)
  BY ModulePlaces
<1>7. (CHOOSE i \in HoldersOf(key) : \A j \in HoldersOf(key) : i >= j) = Place(m)
  BY <1>4, <1>6
<1> QED
  BY <1>1, <1>4, <1>5, <1>7 DEF PathForNode

IsClosest(c, current, keys) ==
  c = [n \in 0 .. Len(keys) |->
         IF n = 0 THEN IF current = << >> THEN <<Assistant>> ELSE current
                  ELSE Closer(PathForNode(keys[n]), keys)[c[n - 1]]]

(* The closest of two paths.                                               *)
LEMMA ClosestOfTwo ==
  ASSUME NEW keys, Len(keys) = 2, NEW current
  PROVE  \E c : /\ IsClosest(c, current, keys)
                /\ (CHOOSE x : IsClosest(x, current, keys)) = c
<1> DEFINE c0 == IF current = << >> THEN <<Assistant>> ELSE current
           c1 == Closer(PathForNode(keys[1]), keys)[c0]
           c2 == Closer(PathForNode(keys[2]), keys)[c1]
<1>1. PICK c : c = [n \in 0 .. 2 |-> IF n = 0 THEN c0 ELSE IF n = 1 THEN c1 ELSE c2]
  OBVIOUS
<1>2. ASSUME NEW n \in 0 .. 2
      PROVE  c[n] = IF n = 0 THEN c0 ELSE Closer(PathForNode(keys[n]), keys)[c[n - 1]]
  <2> HIDE DEF c0
  <2>1. c[0] = c0 /\ c[1] = c1 /\ c[2] = c2
    BY <1>1
  <2>2. n = 0 \/ (n = 1 /\ n - 1 = 0) \/ (n = 2 /\ n - 1 = 1)
    OBVIOUS
  <2> QED
    BY <2>1, <2>2
<1>3. IsClosest(c, current, keys)
  <2> HIDE DEF c1, c2
  <2> QED
    BY <1>1, <1>2 DEF IsClosest
<1> QED
  BY <1>3

(* Closer chooses the closest.                                             *)
LEMMA CloserIs ==
  ASSUME NEW best \in Seq(STRING), NEW candidate, NEW keys
  PROVE  /\ Closer(candidate, keys)[best] \in {candidate, best}
         /\ ShouldPreferCandidatePath(best, candidate) => Closer(candidate, keys)[best] = candidate
BY DEF Closer

(* The path to a leaf that only m has.                                     *)
LEMMA ResolvedUnder ==
  ASSUME NEW m \in Modules, NEW key \in LeafKeys(m), Cardinality(HoldersOf(key)) = 1,
         NEW w \in Seq(STRING), Len(w) >= 3, w[Len(w)] = key, w[1] = Assistant, Len(w) = 3 => w[2] = m
  PROVE  ResolveNodePath(w, <<key, key>>) = <<Assistant, m, key>>
<1>1. PICK p : p = <<Assistant, m, key>>
  OBVIOUS
<1>2. PICK keys : keys = <<key, key>>
  OBVIOUS
<1>3. p \in Seq(STRING) /\ Len(p) = 3 /\ p[1] = Assistant /\ p[2] = m /\ p[3] = key /\ p # << >>
  <2>1. /\ p = [i \in 1 .. 3 |-> p[i]] /\ p[1] = Assistant /\ p[2] = m /\ p[3] = key
    BY <1>1
  <2>2. \A i \in 1 .. 3 : p[i] \in STRING
    BY <2>1, KeysApart, LeafKeysAre
  <2>3. p \in Seq(STRING) /\ Len(p) = 3
    BY <2>1, <2>2, IsSeq
  <2> QED
    BY <2>1, <2>3, EmptySeq
<1>4. Len(keys) = 2 /\ keys[1] = key /\ keys[2] = key
  BY <1>2
<1>5. PathForNode(keys[1]) = p /\ PathForNode(keys[2]) = p
  BY <1>1, <1>4, TheOnlyHolder
<1>6. PICK c : IsClosest(c, w, keys) /\ (CHOOSE x : IsClosest(x, w, keys)) = c
  BY <1>4, ClosestOfTwo
<1>7. w # << >> /\ Len(w) \in Nat
  BY EmptySeq, LenProperties
<1>8. c[0] = w /\ c[1] = Closer(p, keys)[c[0]] /\ c[2] = Closer(p, keys)[c[1]]
  <2>1. \A n \in 0 .. 2 : c[n] = IF n = 0 THEN w ELSE Closer(PathForNode(keys[n]), keys)[c[n - 1]]
    BY <1>4, <1>6, <1>7 DEF IsClosest
  <2>2. 0 \in 0 .. 2 /\ 1 \in 0 .. 2 /\ 2 \in 0 .. 2 /\ 1 - 1 = 0 /\ 2 - 1 = 1
    OBVIOUS
  <2> QED
    BY <1>5, <2>1, <2>2
<1>9. c[1] = p
  <2>1. CASE Len(w) = 3
    <3>1. w = [i \in 1 .. 3 |-> w[i]] /\ w[1] = Assistant /\ w[2] = m /\ w[3] = key
      BY <2>1, SequenceIn DEF IsSequence
    <3>2. w = p
      BY <1>1, <3>1
    <3> QED
      BY <1>8, <3>2, CloserIs
  <2>2. CASE Len(w) # 3
    <3>1. ShouldPreferCandidatePath(w, p)
      BY <1>3, <1>7, <2>2 DEF ShouldPreferCandidatePath, Last
    <3> QED
      BY <1>8, <3>1, CloserIs
  <2> QED
    BY <2>1, <2>2
<1>10. c[2] = p
  BY <1>3, <1>8, <1>9, CloserIs
<1>11. ResolveNodePath(w, keys) = IF "itsm" \in Elements(keys) \ Elements(c[2]) /\ Len(c[2]) = 1
                                  THEN Append(c[2], "itsm") ELSE c[2]
  <2>1. ResolveNodePath(w, keys) = InferITSMPath(keys)[c[2]]
    BY <1>4, <1>6 DEF ResolveNodePath, IsClosest
  <2> QED
    BY <1>3, <1>10, <2>1 DEF InferITSMPath
<1> QED
  BY <1>1, <1>2, <1>3, <1>10, <1>11

-----------------------------------------------------------------------------
(* One ticket agent goes on at a time                                      *)

(* One ticket agent at a time goes on, where its stage can go on: one that *)
(* waits is a ticket agent, a module that writes is next when it has begun *)
(* and none has while modules read.                                        *)
Resumed == At({"resumed"})
OneResumed ==
    /\ \A m \in At({"waiting", "resumed"}) : StepOf(m).kind = "itsm"
    /\ \A m \in Modules \ Reads : mod[m].at \notin {"todo", "done"} => IsNext(m)
    /\ root = "reading" => \A m \in Modules \ Reads : mod[m].at = "todo"
    /\ root # "failed" => Resumed \subseteq Active
    /\ \A m, n \in Resumed : m = n
    /\ created # {} => Resumed = {}
OrderInv == TypedInv /\ OneResumed

(* What the next stage is depends on the modules only.                     *)
LEMMA NextStays ==
  ASSUME NEW n, UNCHANGED plan, IsStages(plan), mod'[n].at # "done", IsNext(n),
         \A k \in Modules : mod[k].at = "done" => mod'[k].at = "done"
  PROVE  IsNext(n)'
<1>1. PICK i \in DOMAIN plan.writes :
            plan.writes[i] = n /\ \A j \in 1 .. i - 1 : mod[plan.writes[j]].at = "done"
  BY DEF IsNext
<1>2. \A j \in 1 .. i - 1 : plan.writes[j] \in Modules
  <2>1. Len(plan.writes) \in Nat /\ DOMAIN plan.writes = 1 .. Len(plan.writes)
    BY DEF IsStages, IsSequence
  <2>2. \A j \in 1 .. i - 1 : j \in DOMAIN plan.writes
    BY <1>1, <2>1
  <2> QED
    BY <2>2 DEF IsStages, Elements
<1> QED
  BY <1>1, <1>2 DEF IsNext

(* Nobody goes on at the start.                                            *)
LEMMA InitOrder == Init => OrderInv
<1> SUFFICES ASSUME Init PROVE OrderInv
  OBVIOUS
<1>1. TypedInv /\ \A m \in Modules : mod[m].at = "todo"
  BY InitTyped DEF Init, Untouched
<1> QED
  BY <1>1 DEF Init, OrderInv, OneResumed, Resumed, At

(* While nothing happens to the modules.                                   *)
LEMMA SameOrder ==
  ASSUME OneResumed, UNCHANGED <<mod, plan>>, created' \in {created, {}},
         root' # "reading" \/ root = "reading",
         root' \in {root, "failed"} \/ Resumed = {}
  PROVE  OneResumed'
<1>1. /\ \A S : At(S)' = At(S)
      /\ Resumed' = Resumed /\ Reads' = Reads /\ \A m : IsNext(m)' = IsNext(m)
      /\ \A m : StepOf(m)' = StepOf(m)
  BY DEF Resumed, At, Reads, IsNext, StepOf
<1>2. root' = root => Active' = Active
  BY <1>1 DEF Active, Writes, Reads
<1> QED
  BY <1>1, <1>2 DEF OneResumed

(* What happens to m and to no other.                                      *)
LEMMA OthersInOrder ==
  ASSUME OneResumed, NEW m \in Modules, UNCHANGED plan, root' = root, root \in {"reading", "writing"}, m \in Active,
         IsStages(plan),
         \A n \in Modules \ {m} : mod'[n] = mod[n],
         mod[m].at # "done", mod'[m].at # "resumed",
         mod'[m].at = "waiting" => StepOf(m)'.kind = "itsm",
         created' = created \/ mod[m].at = "resumed"
  PROVE  OneResumed'
<1>0. \A k \in Modules : mod[k].at = "done" => mod'[k].at = "done"
  OBVIOUS
<1>1. Reads' = Reads /\ Writes' = Writes
  BY DEF Reads, Writes
<1>2. Resumed' \subseteq Resumed \ {m}
  BY DEF Resumed, At
<1>3. ASSUME NEW n \in At({"waiting", "resumed"})' PROVE StepOf(n)'.kind = "itsm"
  <2>1. CASE n = m
    BY <1>3, <2>1 DEF At
  <2>2. CASE n # m
    <3>1. n \in At({"waiting", "resumed"}) /\ mod'[n] = mod[n]
      BY <1>3, <2>2 DEF At
    <3> QED
      BY <3>1 DEF OneResumed, StepOf
  <2> QED
    BY <2>1, <2>2
<1>4. ASSUME NEW n \in Modules \ Reads, mod'[n].at \notin {"todo", "done"} PROVE IsNext(n)'
  <2>1. IsNext(n)
    <3>1. CASE n = m
      <4>1. root = "writing" /\ m \in {k \in Writes : IsNext(k)}
        BY <3>1 DEF Active
      <4> QED
        BY <3>1, <4>1
    <3>2. CASE n # m
      BY <1>4, <3>2 DEF OneResumed
    <3> QED
      BY <3>1, <3>2
  <2> QED
    BY <1>0, <1>4, <2>1, NextStays
<1>5. root = "reading" => m \in Reads
  BY DEF Active
<1>6. root' = "reading" => \A n \in Modules \ Reads' : mod'[n].at = "todo"
  BY <1>1, <1>5 DEF OneResumed
<1>7. ASSUME NEW n \in Resumed' PROVE n \in Active'
  <2>1. n \in Resumed /\ n # m /\ n \in Modules /\ mod'[n].at = "resumed" /\ n \in Active
    BY <1>2, <1>7 DEF OneResumed, Resumed, At
  <2>2. CASE root = "reading"
    BY <1>1, <2>1, <2>2 DEF Active
  <2>3. CASE root = "writing"
    <3>1. n \in Writes /\ IsNext(n)
      BY <2>1, <2>3 DEF Active
    <3>2. IsNext(n)'
      BY <1>0, <2>1, <3>1, NextStays
    <3> QED
      BY <1>1, <2>3, <3>1, <3>2 DEF Active
  <2> QED
    BY <2>2, <2>3
<1>8. \A n, k \in Resumed' : n = k
  BY <1>2 DEF OneResumed
<1>9. created' # {} => Resumed' = {}
  <2>1. CASE created' = created
    BY <1>2, <2>1 DEF OneResumed
  <2>2. CASE mod[m].at = "resumed"
    <3>1. m \in Resumed
      BY <2>2 DEF Resumed, At
    <3> QED
      BY <1>2, <3>1 DEF OneResumed
  <2> QED
    BY <2>1, <2>2
<1> QED
  BY <1>1, <1>3, <1>4, <1>6, <1>7, <1>8, <1>9 DEF OneResumed

(* While the flow waits, nobody goes on.                                   *)
LEMMA NobodyResumed ==
  ASSUME OneResumed, root \notin {"reading", "writing", "failed"} PROVE Resumed = {}
BY DEF OneResumed, Active

(* Every step keeps the order.                                             *)
LEMMA StepOrder == OrderInv /\ [Next]_vars => OrderInv'
<1> SUFFICES ASSUME OrderInv, [Next]_vars PROVE OrderInv'
  OBVIOUS
<1>0. /\ TypedInv /\ TypedInv' /\ OneResumed /\ TypeInv /\ StageInv /\ Shapes /\ StageInv' /\ PlanInv
  BY StepTyped DEF OrderInv, TypedInv, CitedInv, FollowInv, StageInv
<1> SUFFICES OneResumed'
  BY <1>0 DEF OrderInv
<1>1. CASE Query
  <2>1. root = "idle" /\ UNCHANGED <<mod, plan, created>> /\ root' \in {"routing", "asking"}
    BY <1>1 DEF Query, RunRoot, InterruptForClarify
  <2> QED
    BY <1>0, <2>1, SameOrder, NobodyResumed
<1>2. CASE Route
  <2>1. UNCHANGED <<mod, created>> /\ root = "routing" /\ root' # "failed"
    BY <1>2 DEF Route, RunRootPlan, RunFallback, InterruptForClarify
  <2>2. \A n \in Modules : mod'[n].at = "todo"
    BY <1>0, <2>1 DEF StageInv, NothingBegun
  <2> QED
    BY <2>2 DEF OneResumed, Resumed, At
<1>3. ASSUME NEW m \in Modules, ModuleNext(m) PROVE OneResumed'
  <2>0. IsState(mod[m]) /\ mod = [n \in Modules |-> mod[n]] /\ IsFollowed(m)
    BY <1>0 DEF Shapes, PlanInv
  <2>1. /\ root \in {"reading", "writing"} /\ root' \in {root, "failed"} /\ UNCHANGED plan /\ m \in Active
        /\ mod[m].at # "done"
    BY <1>3 DEF ModuleNext, RunModule, RunWithPlan, RunClarifyOrError, RunLeaf, ResumeLeaf, PlanDone, Fail,
                Active, Elsewhere
  <2>2. CASE Fail(m)
    <3>1. UNCHANGED <<mod, plan, created>> /\ root' = "failed"
      BY <2>1, <2>2 DEF Fail
    <3> QED
      BY <1>0, <3>1, SameOrder
  <2>3. ASSUME UNCHANGED root, created' = created \/ mod[m].at = "resumed",
               \A n \in Modules \ {m} : mod'[n] = mod[n], mod'[m].at # "resumed",
               mod'[m].at = "waiting" => StepOf(m)'.kind = "itsm"
        PROVE  OneResumed'
    <3>1. IsStages(plan)
      BY <1>0, <2>1 DEF TypeInv
    <3> QED
      BY <1>0, <2>1, <2>3, <3>1, OthersInOrder
  <2>4. CASE RunModule(m)
    <3>1. mod[m].at = "todo" /\ UNCHANGED created
      BY <2>4 DEF RunModule, RunWithPlan, RunClarifyOrError, Fail
    <3>2. ASSUME NEW p, mod' = [mod EXCEPT ![m] = [@ EXCEPT !.at = "running", !.steps = p.steps]], UNCHANGED root
          PROVE  OneResumed'
      <4>1. mod'[m].at = "running" /\ \A n \in Modules \ {m} : mod'[n] = mod[n]
        BY <2>0, <3>2 DEF IsState
      <4> QED
        BY <2>3, <3>1, <3>2, <4>1
    <3>3. ASSUME mod' = [mod EXCEPT ![m] = [@ EXCEPT !.at = "asking", !.original = message]], UNCHANGED root
          PROVE  OneResumed'
      <4>1. mod'[m].at = "asking" /\ \A n \in Modules \ {m} : mod'[n] = mod[n]
        BY <2>0, <3>3 DEF IsState
      <4> QED
        BY <2>3, <3>1, <3>3, <4>1
    <3> QED
      BY <2>2, <2>4, <3>2, <3>3 DEF RunModule, RunWithPlan, RunClarifyOrError
  <2>5. CASE RunLeaf(m)
    <3>1. mod[m].at = "running"
      BY <2>5 DEF RunLeaf
    <3>2. ASSUME StepOf(m).kind = "itsm", Goto(m, "waiting"), UNCHANGED <<root, created>> PROVE OneResumed'
      <4>1. mod'[m].at = "waiting" /\ mod'[m].steps = mod[m].steps /\ mod'[m].next = mod[m].next
            /\ \A n \in Modules \ {m} : mod'[n] = mod[n]
        BY <2>0, <3>2 DEF Goto, IsState
      <4>2. StepOf(m)' = StepOf(m)
        BY <4>1 DEF StepOf
      <4> QED
        BY <2>3, <3>2, <4>1, <4>2
    <3>3. ASSUME mod' = [mod EXCEPT ![m].next = @ + 1], UNCHANGED <<root, created>> PROVE OneResumed'
      <4>1. mod'[m].at = "running" /\ \A n \in Modules \ {m} : mod'[n] = mod[n]
        BY <2>0, <3>1, <3>3 DEF IsState
      <4> QED
        BY <2>3, <3>3, <4>1
    <3> QED
      BY <2>2, <2>5, <3>2, <3>3 DEF RunLeaf
  <2>6. CASE ResumeLeaf(m)
    <3>1. mod[m].at = "resumed"
      BY <2>6 DEF ResumeLeaf
    <3>2. ASSUME Goto(m, "waiting"), UNCHANGED root PROVE OneResumed'
      <4>1. mod'[m].at = "waiting" /\ mod'[m].steps = mod[m].steps /\ mod'[m].next = mod[m].next
            /\ \A n \in Modules \ {m} : mod'[n] = mod[n]
        BY <2>0, <3>2 DEF Goto, IsState
      <4>2. StepOf(m)' = StepOf(m)
        BY <4>1 DEF StepOf
      <4>3. StepOf(m).kind = "itsm"
        BY <1>0, <3>1 DEF OneResumed, At
      <4> QED
        BY <2>3, <3>1, <3>2, <4>1, <4>2, <4>3
    <3>3. ASSUME mod' = [mod EXCEPT ![m].at = "running", ![m].next = @ + 1], UNCHANGED root PROVE OneResumed'
      <4>1. mod'[m].at = "running" /\ \A n \in Modules \ {m} : mod'[n] = mod[n]
        BY <2>0, <3>3 DEF IsState
      <4> QED
        BY <2>3, <3>1, <3>3, <4>1
    <3> QED
      BY <2>2, <2>6, <3>2, <3>3 DEF ResumeLeaf
  <2>7. CASE PlanDone(m)
    <3>1. Goto(m, "done") /\ UNCHANGED <<root, created>>
      BY <2>7 DEF PlanDone
    <3>2. mod'[m].at = "done" /\ \A n \in Modules \ {m} : mod'[n] = mod[n]
      BY <2>0, <3>1 DEF Goto, IsState
    <3> QED
      BY <2>3, <3>1, <3>2
  <2> QED
    BY <1>3, <2>4, <2>5, <2>6, <2>7 DEF ModuleNext
<1>4. CASE EndStage
  <2>1. /\ UNCHANGED <<mod, plan, created>> /\ root' \in {"waiting", "writing", "answered"}
        /\ Active \subseteq At({"asking", "waiting", "done"}) /\ root \in {"reading", "writing"}
    BY <1>4 DEF EndStage, Elsewhere
  <2>2. Resumed = {}
    <3>1. Resumed \subseteq Active
      BY <1>0, <2>1 DEF OneResumed
    <3> QED
      BY <2>1, <3>1 DEF Resumed, At
  <2> QED
    BY <1>0, <2>1, <2>2, SameOrder
<1>5. CASE Resume
  <2>1. created' = {} /\ UNCHANGED plan
    BY <1>5 DEF Resume, AnswerRoot, RunRoot, AnswerModule, AnswerLeaf
  <2>2. ASSUME NEW a, AnswerRoot(a) PROVE OneResumed'
    <3>1. UNCHANGED mod /\ root = "asking" /\ root' \in {"asking", "routing"}
      BY <2>2 DEF AnswerRoot, RunRoot, InterruptForClarify
    <3> QED
      BY <1>0, <2>1, <3>1, SameOrder, NobodyResumed
  <2>3. ASSUME NEW m \in Modules, NEW a, AnswerModule(m, a) \/ AnswerLeaf(m, a) PROVE OneResumed'
    <3>0. IsState(mod[m]) /\ mod = [n \in Modules |-> mod[n]] /\ IsStages(plan) /\ Resumed = {}
          /\ root = "waiting" /\ mod[m].at \in {"asking", "waiting"}
      BY <1>0, <2>3, NobodyResumed DEF Shapes, TypeInv, AnswerModule, AnswerLeaf
    <3>1. CASE UNCHANGED <<mod, root>>
      BY <1>0, <2>1, <3>1, SameOrder
    <3>2. ASSUME NEW at, Goto(m, at), root' = StageOf(m),
                 at = "todo" \/ (at = "resumed" /\ mod[m].at = "waiting")
          PROVE  OneResumed'
      <4>1. /\ mod'[m].at = at /\ mod'[m].steps = mod[m].steps /\ mod'[m].next = mod[m].next
            /\ \A n \in Modules \ {m} : mod'[n] = mod[n]
        BY <3>0, <3>2 DEF Goto, IsState
      <4>2. Reads' = Reads /\ Writes' = Writes /\ StepOf(m)' = StepOf(m)
        BY <2>1, <4>1 DEF Reads, Writes, StepOf
      <4>3. \A k \in Modules : mod[k].at = "done" => mod'[k].at = "done"
        BY <3>0, <4>1
      <4>4. ASSUME NEW n \in At({"waiting", "resumed"})' PROVE StepOf(n)'.kind = "itsm"
        <5>1. CASE n = m
          <6>1. m \in At({"waiting", "resumed"})
            BY <3>2, <4>1, <4>4, <5>1 DEF At
          <6> QED
            BY <1>0, <4>2, <5>1, <6>1 DEF OneResumed
        <5>2. CASE n # m
          <6>1. n \in At({"waiting", "resumed"}) /\ mod'[n] = mod[n]
            BY <4>1, <4>4, <5>2 DEF At
          <6> QED
            BY <1>0, <6>1 DEF OneResumed, StepOf
        <5> QED
          BY <5>1, <5>2
      <4>5. ASSUME NEW n \in Modules \ Reads, mod'[n].at \notin {"todo", "done"} PROVE IsNext(n)'
        <5>1. IsNext(n)
          BY <1>0, <3>0, <4>1, <4>5 DEF OneResumed
        <5> QED
          BY <2>1, <3>0, <4>3, <4>5, <5>1, NextStays
      <4>6. ASSUME root' = "reading" PROVE \A n \in Modules \ Reads' : mod'[n].at = "todo"
        <5>1. m \in Reads
          BY <3>2, <4>6 DEF StageOf
        <5>2. ~(Reads \subseteq At({"done"}))
          BY <3>0, <5>1 DEF At
        <5>3. \A n \in Modules \ Reads : mod[n].at = "todo"
          BY <1>0, <5>2 DEF StageInv, ReadBeforeWrite, OnlyPlanned
        <5> QED
          BY <4>1, <4>2, <5>1, <5>3
      <4>7. Resumed' \subseteq {m} /\ (m \in Resumed' => at = "resumed")
        BY <3>0, <4>1 DEF Resumed, At
      <4>8. m \in Resumed' => m \in Active'
        <5>1. CASE m \in Reads
          BY <3>2, <4>2, <5>1 DEF StageOf, Active
        <5>2. CASE m \notin Reads
          <6>1. IsNext(m)
            BY <1>0, <3>0, <5>2 DEF OneResumed
          <6>2. m \in Resumed' => IsNext(m)'
            BY <2>1, <3>0, <4>1, <4>3, <4>7, <6>1, NextStays
          <6>3. m \in Writes
            BY <1>0, <3>0, <5>2 DEF StageInv, OnlyPlanned
          <6>4. root' = "writing"
            BY <3>2, <5>2 DEF StageOf
          <6> QED
            BY <4>2, <6>2, <6>3, <6>4 DEF Active
        <5> QED
          BY <5>1, <5>2
      <4> QED
        BY <2>1, <4>2, <4>4, <4>5, <4>6, <4>7, <4>8 DEF OneResumed
    <3> QED
      BY <2>3, <3>1, <3>2 DEF AnswerModule, AnswerLeaf
  <2> QED
    BY <1>5, <2>2, <2>3 DEF Resume
<1>6. CASE UNCHANGED vars
  <2>1. UNCHANGED <<mod, plan, created, root>>
    BY <1>6 DEF vars
  <2> QED
    BY <1>0, <2>1, SameOrder
<1> QED
  BY <1>1, <1>2, <1>3, <1>4, <1>5, <1>6 DEF Next

-----------------------------------------------------------------------------
(* What a response shows                                                   *)

(* What is no result is not one.                                           *)
NoneIsNoResult == \A ticket, sources : None # [ticket |-> ticket, sources |-> sources]

(* The ticket of a module is made by the agent with the key "itsm".        *)
LEMMA TicketKey ==
  ASSUME TicketAgentsAreItsm, NEW key \in Elements(Keys(Tree.leaves)), LeafBinding(key).kind = "itsm"
  PROVE  key = "itsm"
<1>1. PICK i \in DOMAIN Tree.leaves : Node(Tree.leaves, key) = Tree.leaves[i] /\ Tree.leaves[i].key = key
  BY NodeIs
<1>2. Tree.leaves[i] \in Elements(Tree.leaves)
  BY DEF Elements
<1>3. Tree.leaves[i].type = "itsm"
  BY <1>1, BindingOf
<1> QED
  BY <1>1, <1>2, <1>3 DEF TicketAgentsAreItsm

(* The result names the ticket that was made.                              *)
Reports(r) == \A m \in created : r.result # None /\ r.result.ticket = m
Shown(s) == Cardinality(HoldersOf(s.agent.key)) = 1 => s.path = <<Assistant, s.module, s.agent.key>>
SaidInv == /\ OrderInv
           /\ root # "failed" => Reports(response)
           /\ \A s \in Elements(response.steps) : Shown(s)

(* A result that is there stays.                                           *)
LEMMA ResultStays ==
  ASSUME NoneIsNoResult, NEW r, AllCited(r), r.result # None
  PROVE  \A q \in {Paused(r), Completed(r)} : q.result # None /\ q.result.ticket = r.result.ticket
<1>1. Paused(r) = r
  BY DEF Paused
<1>2. PICK x : x = [r.result EXCEPT !.sources = MergeSources(@, r.sources)]
  OBVIOUS
<1>3. x = [ticket |-> x.ticket, sources |-> x.sources] /\ x.ticket = r.result.ticket
  BY <1>2 DEF AllCited
<1>4. x # None
  BY <1>3 DEF NoneIsNoResult
<1>5. Completed(r) = [r EXCEPT !.result = x]
  BY <1>2 DEF Completed
<1>6. Completed(r).result = x
  BY <1>5 DEF AllCited
<1> QED
  BY <1>1, <1>3, <1>4, <1>6

(* What leaves the steps of the response alone.                            *)
LEMMA SameSteps ==
  ASSUME NEW r PROVE /\ Paused(r).steps = r.steps \/ ~AllCited(r)
                     /\ Completed(r).steps = r.steps \/ ~AllCited(r)
                     /\ NoResponse.steps = << >>
<1>1. NoResponse.steps = << >>
  BY DEF NoResponse
<1>2. AllCited(r) => \A x : [r EXCEPT !.result = x].steps = r.steps
  BY DEF AllCited
<1> QED
  BY <1>1, <1>2 DEF Paused, Completed

(* Nothing is said at the start.                                           *)
LEMMA InitSaid == Init => SaidInv
<1> SUFFICES ASSUME Init PROVE SaidInv
  OBVIOUS
<1>1. OrderInv /\ created = {} /\ response.steps = << >>
  BY InitOrder, SameSteps DEF Init
<1> QED
  BY <1>1, NoElements DEF SaidInv, Reports

(* A step of the leaf of m.                                                *)
LEMMA StepShown ==
  ASSUME NEW m \in Modules, IsFollowed(m), mod[m].next <= Len(mod[m].steps),
         root \in {"reading", "writing"}, IsStages(plan), NEW hits, NEW answer
  PROVE  /\ Shown(Step(m, <<StepOf(m).key, StepOf(m).key>>, hits, answer))
         /\ StepOf(m).key \in Elements(RunPathStrings(m))
<1> DEFINE key == StepOf(m).key
           w == RunPathStrings(m)
<1>1. key = mod[m].steps[mod[m].next] /\ key \in LeafKeys(m)
  BY StepIs
<1>2. /\ w \in Seq(STRING) /\ Len(w) >= 3 /\ w[Len(w)] = key
      /\ w[1] = Assistant /\ (Len(w) = 3 => w[2] = m)
  BY <1>1, ShownWay
<1> HIDE DEF key, w
<1>3. ASSUME Cardinality(HoldersOf(key)) = 1 PROVE ResolveNodePath(w, <<key, key>>) = <<Assistant, m, key>>
  BY <1>1, <1>2, <1>3, ResolvedUnder
<1>4. PICK s : s = Step(m, <<key, key>>, hits, answer)
  OBVIOUS
<1>5. s.module = m /\ s.agent.key = key /\ s.path = ResolveNodePath(w, <<key, key>>)
  BY <1>4 DEF Step, w, key
<1>6. Shown(s)
  BY <1>3, <1>5 DEF Shown
<1>7. Len(w) \in 1 .. Len(w) /\ DOMAIN w = 1 .. Len(w)
  BY <1>2, LenProperties
<1>8. key \in Elements(w)
  BY <1>2, <1>7 DEF Elements
<1> QED
  BY <1>4, <1>6, <1>8 DEF key, w

(* Every step keeps what was said.                                         *)
LEMMA StepSaid ==
  ASSUME TicketAgentsAreItsm, NoneIsNoResult
  PROVE  SaidInv /\ [Next]_vars => SaidInv'
<1> SUFFICES ASSUME SaidInv, [Next]_vars PROVE SaidInv'
  OBVIOUS
<1>0. /\ OrderInv /\ OrderInv' /\ OneResumed /\ TypedInv /\ TypeInv /\ PlanInv /\ AllCited(response)
      /\ \A s \in Elements(response.steps) : Shown(s)
      /\ root # "failed" => Reports(response)
  BY StepOrder DEF SaidInv, OrderInv, TypedInv, CitedInv, FollowInv
<1> SUFFICES /\ root' # "failed" => Reports(response)'
             /\ \A s \in Elements(response'.steps) : Shown(s)
  BY <1>0 DEF SaidInv
<1>1. Elements(<< >>) = {}
  BY NoElements
<1>2. CASE UNCHANGED <<response, created>> /\ (root' = "failed" \/ root # "failed")
  BY <1>0, <1>2 DEF Reports
<1>3. CASE response' \in {Paused(response), Completed(response)} /\ UNCHANGED created /\ root # "failed"
  <2>1. \A s \in Elements(response'.steps) : Shown(s)
    BY <1>0, <1>3, SameSteps
  <2>2. ASSUME NEW m \in created PROVE response'.result # None /\ response'.result.ticket = m
    <3>1. response.result # None /\ response.result.ticket = m
      BY <1>0, <1>3 DEF Reports
    <3> QED
      BY <1>0, <1>3, <3>1, ResultStays
  <2> QED
    BY <1>3, <2>1, <2>2 DEF Reports
<1>4. CASE response' = NoResponse /\ (created' = {} \/ root' = "failed")
  BY <1>1, <1>4, SameSteps DEF Reports
<1>5. CASE Query \/ UNCHANGED vars
  BY <1>2, <1>5 DEF Query, RunRoot, InterruptForClarify, vars
<1>6. CASE Route
  BY <1>2, <1>3, <1>6 DEF Route, RunRootPlan, RunFallback, InterruptForClarify
<1>7. CASE EndStage
  BY <1>2, <1>3, <1>7 DEF EndStage, Ended
<1>8. CASE Resume
  BY <1>4, <1>8 DEF Resume
<1>9. ASSUME NEW m \in Modules, ModuleNext(m)
      PROVE  /\ root' # "failed" => Reports(response)'
             /\ \A s \in Elements(response'.steps) : Shown(s)
  <2>1. /\ root \in {"reading", "writing"} /\ IsStages(plan) /\ IsFollowed(m)
    BY <1>0, <1>9 DEF ModuleNext, RunModule, RunLeaf, ResumeLeaf, PlanDone, Active, TypeInv, PlanInv
  <2>2. CASE Fail(m)
    BY <1>4, <2>2 DEF Fail
  <2>3. CASE RunModule(m) \/ PlanDone(m)
    BY <1>2, <2>1, <2>2, <2>3 DEF RunModule, RunWithPlan, RunClarifyOrError, PlanDone
  <2>4. CASE RunLeaf(m)
    <3>1. mod[m].next <= Len(mod[m].steps)
      BY <2>4 DEF RunLeaf
    <3>2. ASSUME NEW hits, NEW answer, AddKnowledge(m, hits, answer), UNCHANGED <<root, created>>
          PROVE  /\ root' # "failed" => Reports(response)'
                 /\ \A s \in Elements(response'.steps) : Shown(s)
      <4> DEFINE s == Step(m, <<StepOf(m).key, StepOf(m).key>>, hits, answer)
      <4>1. Shown(s)
        BY <2>1, <3>1, StepShown
      <4>2. response'.steps = Append(response.steps, s) /\ response'.result = response.result
        BY <1>0, <3>2 DEF AddKnowledge, AllCited
      <4> HIDE DEF s
      <4>3. Elements(response'.steps) = Elements(response.steps) \cup {s}
        BY <1>0, <4>2, StepAdded DEF AllCited
      <4> QED
        BY <1>0, <2>1, <3>2, <4>1, <4>2, <4>3 DEF Reports
    <3>3. \/ \E hits, answer : AddKnowledge(m, hits, answer) /\ UNCHANGED <<root, created>>
          \/ UNCHANGED <<response, root, created>>
          \/ Fail(m)
      BY <2>4 DEF RunLeaf
    <3>4. CASE \E hits, answer : AddKnowledge(m, hits, answer) /\ UNCHANGED <<root, created>>
      BY <3>2, <3>4
    <3> QED
      BY <1>2, <2>1, <2>2, <3>3, <3>4
  <2>5. CASE ResumeLeaf(m)
    <3>1. mod[m].at = "resumed" /\ mod[m].next <= Len(mod[m].steps)
      BY <2>1, <2>5 DEF ResumeLeaf, IsFollowed
    <3>2. StepOf(m).kind = "itsm" /\ created = {}
      BY <1>0, <3>1 DEF OneResumed, Resumed, At
    <3>3. StepOf(m).key = "itsm"
      <4>1. /\ mod[m].steps[mod[m].next] \in Elements(Keys(Tree.leaves))
            /\ StepOf(m) = LeafBinding(mod[m].steps[mod[m].next]) /\ StepOf(m).key = mod[m].steps[mod[m].next]
        BY <2>1, <3>1, StepIs, LeafKeysAre
      <4> QED
        BY <3>2, <4>1, TicketKey
    <3>4. ASSUME NEW success, AddTicket(m, success)
          PROVE  /\ root' # "failed" => Reports(response)'
                 /\ \A s \in Elements(response'.steps) : Shown(s)
      <4> DEFINE said == [context |-> << >>, sources |-> << >>]
                 s == Step(m, <<"itsm", StepOf(m).key>>, None, said)
                 ticket == IF success THEN m ELSE None
      <4>1. Shown(s) /\ "itsm" \in Elements(RunPathStrings(m))
        BY <2>1, <3>1, <3>3, StepShown
      <4>2. /\ response' = [response EXCEPT !.steps = Append(@, s),
                                            !.result = [ticket |-> ticket, sources |-> response.sources]]
            /\ created' = {ticket} \ {None}
        BY <3>2, <3>4, <4>1 DEF AddTicket
      <4> HIDE DEF s, ticket
      <4>3. response'.steps = Append(response.steps, s) /\ response'.result = [ticket |-> ticket, sources |-> response.sources]
        BY <1>0, <4>2 DEF AllCited
      <4>4. Elements(response'.steps) = Elements(response.steps) \cup {s}
        BY <1>0, <4>3, StepAdded DEF AllCited
      <4>5. response'.result # None /\ response'.result.ticket = ticket
        BY <4>3 DEF NoneIsNoResult
      <4> QED
        BY <1>0, <4>1, <4>2, <4>4, <4>5 DEF Reports
    <3> QED
      BY <1>2, <2>1, <2>2, <2>5, <3>4 DEF ResumeLeaf
  <2> QED
    BY <1>9, <2>3, <2>4, <2>5 DEF ModuleNext
<1> QED
  BY <1>5, <1>6, <1>7, <1>8, <1>9 DEF Next

(* A ticket is in the response of the execution that made it               *)
(* (response.go:45-48, 77-83, 134-140), where the key of every ticket      *)
(* agent is the one it is known by.                                        *)
THEOREM TicketsAreReported ==
  ASSUME TicketAgentsAreItsm, NoneIsNoResult PROVE Spec => []TicketReported
<1>1. SaidInv => TicketReported
  BY DEF SaidInv, Reports, TicketReported
<1>2. SaidInv /\ [Next]_vars => SaidInv'
  BY StepSaid
<1> QED
  BY InitSaid, <1>1, <1>2, PTL DEF Spec

(* A step is shown under the module that ran it (response.go:303-382,      *)
(* registry.go:172-210), with the same proviso.                            *)
THEOREM StepsAreShown ==
  ASSUME TicketAgentsAreItsm, NoneIsNoResult PROVE Spec => []ShownUnderItsModule
<1>1. SaidInv => ShownUnderItsModule
  BY DEF SaidInv, Shown, ShownUnderItsModule
<1>2. SaidInv /\ [Next]_vars => SaidInv'
  BY StepSaid
<1> QED
  BY InitSaid, <1>1, <1>2, PTL DEF Spec

-----------------------------------------------------------------------------
(* Rounds of visits                                                        *)

(* Division by n, as much of it as the rounds need.                        *)
LEMMA NextMultiple ==
  ASSUME NEW n \in Nat \ {0}, NEW a \in Nat, NEW b \in Nat, a < b
  PROVE  a * n \in Nat /\ b * n \in Nat /\ a * n + n <= b * n
<1>1. PICK c \in Nat : b = a + 1 + c
  <2>1. b - (a + 1) \in Nat /\ b = a + 1 + (b - (a + 1))
    OBVIOUS
  <2> QED
    BY <2>1
<1>2. a * n \in Nat /\ c * n \in Nat
  OBVIOUS
<1>3. b * n = a * n + n + c * n
  BY <1>1
<1> QED
  BY <1>2, <1>3

(* Quotient and remainder,                                                 *)
LEMMA Divided ==
  ASSUME NEW n \in Nat \ {0}, NEW a \in Nat
  PROVE  a \div n \in Nat /\ a % n \in 0 .. n - 1 /\ a = (a \div n) * n + (a % n)
OBVIOUS

(* of which there is one of each.                                          *)
LEMMA DividedOnce ==
  ASSUME NEW n \in Nat \ {0}, NEW q \in Nat, NEW r \in 0 .. n - 1
  PROVE  (q * n + r) \div n = q /\ (q * n + r) % n = r
<1>1. q * n \in Nat /\ q * n + r \in Nat
  OBVIOUS
<1>2. PICK a \in Nat : a = q * n + r
  BY <1>1
<1>3. PICK p \in Nat, s \in 0 .. n - 1 : p = a \div n /\ s = a % n /\ a = p * n + s
  BY Divided
<1>4. ~(p < q)
  <2>1. p < q => p * n + n <= q * n /\ p * n \in Nat
    BY NextMultiple
  <2> QED
    BY <1>1, <1>2, <1>3, <2>1
<1>5. ~(q < p)
  <2>1. q < p => q * n + n <= p * n /\ p * n \in Nat
    BY NextMultiple
  <2> QED
    BY <1>1, <1>2, <1>3, <2>1
<1>6. p = q
  BY <1>4, <1>5
<1>7. r = s
  BY <1>1, <1>2, <1>3, <1>6
<1> QED
  BY <1>2, <1>3, <1>6, <1>7

(* The turn of a base at a visit: how often it was visited up to then.     *)
TurnAt(visits, v) == Cardinality({u \in 1 .. v : visits[u] = visits[v]})
Visits(bases, limit) == [v \in 1 .. limit * Len(bases) |-> bases[((v - 1) % Len(bases)) + 1]]

(* The visits of one base are a round apart.                               *)
LEMMA TurnIsRound ==
  ASSUME NEW bases, EachOnce(bases), NEW limit \in Nat,
         NEW q \in Nat, NEW r \in 0 .. Len(bases) - 1, q < limit
  PROVE  LET v == q * Len(bases) + r + 1
         IN  /\ v \in 1 .. limit * Len(bases)
             /\ Visits(bases, limit)[v] = bases[r + 1]
             /\ TurnAt(Visits(bases, limit), v) = q + 1
<1> DEFINE n == Len(bases)
           visits == Visits(bases, limit)
           v == q * n + r + 1
<1>1. n \in Nat \ {0} /\ \A h, k \in 1 .. n : h # k => bases[h] # bases[k]
  BY DEF EachOnce, IsSequence
<1>2. PICK m \in Nat \ {0} : m = n /\ r \in 0 .. m - 1
  BY <1>1
<1>3. q * m \in Nat /\ q * m + m <= limit * m /\ limit * m \in Nat
  BY <1>2, NextMultiple
<1>4. v \in 1 .. limit * n /\ v - 1 = q * m + r /\ v = q * m + r + 1
  <2> HIDE DEF n
  <2> QED
    BY <1>2, <1>3
<1>5. ASSUME NEW u \in 1 .. limit * n
      PROVE  visits[u] = bases[((u - 1) % m) + 1]
  BY <1>2, <1>5 DEF Visits
<1>6. visits[v] = bases[r + 1]
  <2>1. (v - 1) % m = r
    <3>1. (q * m + r) % m = r
      BY <1>2, DividedOnce
    <3> HIDE DEF v
    <3> QED
      BY <1>4, <3>1
  <2> HIDE DEF v, visits
  <2> QED
    BY <1>4, <1>5, <2>1
<1> DEFINE s == [k \in 1 .. q + 1 |-> (k - 1) * m + r + 1]
<1>7. \A k \in 1 .. q + 1 : /\ k - 1 \in Nat /\ (k - 1) * m \in Nat
                            /\ (k - 1) * m + r + 1 \in 1 .. v
                            /\ s[k] = (k - 1) * m + r + 1
  <2>1. TAKE k \in 1 .. q + 1
  <2>2. k - 1 \in Nat /\ k - 1 <= q
    OBVIOUS
  <2>3. (k - 1) * m \in Nat /\ (k - 1) * m <= q * m
    <3>1. CASE k - 1 = q
      BY <1>3, <3>1
    <3>2. CASE k - 1 < q
      BY <2>2, <3>2, <1>3, NextMultiple
    <3> QED
      BY <2>2, <3>1, <3>2
  <2> HIDE DEF v
  <2> QED
    BY <1>3, <1>4, <2>2, <2>3
<1>8. EachOnce(s) /\ Len(s) = q + 1
  <2>1. \A h, k \in 1 .. q + 1 : h # k => s[h] # s[k]
    <3>1. ASSUME NEW h \in 1 .. q + 1, NEW k \in 1 .. q + 1, h < k PROVE s[h] # s[k]
      <4>1. (h - 1) * m + m <= (k - 1) * m
        BY <1>7, <3>1, NextMultiple
      <4> HIDE DEF s
      <4> QED
        BY <1>2, <1>7, <4>1
    <3>2. \A h, k \in 1 .. q + 1 : h # k => h < k \/ k < h
      OBVIOUS
    <3> HIDE DEF s
    <3> QED
      BY <3>1, <3>2
  <2>2. \A k \in 1 .. q + 1 : s[k] \in Nat
    BY <1>7
  <2>3. s = [k \in 1 .. q + 1 |-> s[k]] /\ q + 1 \in Nat
    OBVIOUS
  <2> HIDE DEF s
  <2>4. s \in Seq(Nat) /\ Len(s) = q + 1
    BY <2>2, <2>3, IsSeq
  <2> QED
    BY <2>1, <2>4, SequenceIn DEF EachOnce
<1>9. Elements(s) = {u \in 1 .. v : visits[u] = visits[v]}
  <2>0. DOMAIN s = 1 .. q + 1
    OBVIOUS
  <2>1. ASSUME NEW k \in 1 .. q + 1 PROVE s[k] \in {u \in 1 .. v : visits[u] = visits[v]}
    <3>1. PICK u \in 1 .. v : u = s[k] /\ u - 1 = (k - 1) * m + r
      BY <1>2, <1>7
    <3>2. (u - 1) % m = r
      <4>1. ((k - 1) * m + r) % m = r
        BY <1>2, <1>7, DividedOnce
      <4> HIDE DEF s, v
      <4> QED
        BY <3>1, <4>1
    <3>3. u \in 1 .. limit * n
      BY <1>4, <3>1
    <3> HIDE DEF s, visits, v
    <3> QED
      BY <1>5, <1>6, <3>1, <3>2, <3>3
  <2>2. ASSUME NEW u \in 1 .. v, visits[u] = visits[v] PROVE u \in Elements(s)
    <3>1. u \in 1 .. limit * n /\ u - 1 \in Nat
      BY <1>4
    <3>2. PICK p \in Nat, x \in 0 .. m - 1 : p = (u - 1) \div m /\ x = (u - 1) % m /\ u - 1 = p * m + x
      BY <3>1, Divided
    <3>3. x = r
      <4>1. bases[x + 1] = bases[r + 1]
        <5> HIDE DEF visits, v
        <5> QED
          BY <1>5, <1>6, <2>2, <3>1, <3>2
      <4>2. x + 1 \in 1 .. n /\ r + 1 \in 1 .. n
        <5> HIDE DEF n
        <5> QED
          BY <1>2
      <4> QED
        BY <1>1, <4>1, <4>2
    <3>4. ~(q < p)
      <4>1. q < p => q * m + m <= p * m /\ p * m \in Nat
        BY NextMultiple
      <4> HIDE DEF v
      <4> QED
        BY <1>2, <1>3, <1>4, <3>1, <3>2, <3>3, <4>1
    <3>5. p + 1 \in 1 .. q + 1 /\ s[p + 1] = u
      <4>1. p + 1 \in 1 .. q + 1 /\ (p + 1) - 1 = p
        BY <3>4
      <4>2. s[p + 1] = p * m + r + 1
        BY <4>1
      <4>3. p * m \in Nat
        BY <1>2
      <4> HIDE DEF s
      <4> QED
        BY <3>1, <3>2, <3>3, <4>1, <4>2, <4>3
    <3> HIDE DEF s
    <3> QED
      BY <2>0, <3>5 DEF Elements
  <2> HIDE DEF s, visits, v
  <2>3. ASSUME NEW x \in Elements(s) PROVE x \in {u \in 1 .. v : visits[u] = visits[v]}
    BY <2>0, <2>1, <2>3 DEF Elements
  <2> QED
    BY <2>2, <2>3
<1>10. TurnAt(visits, v) = q + 1
  BY <1>8, <1>9, LengthIsCount DEF TurnAt
<1> QED
  BY <1>4, <1>6, <1>10

(* The numbers up to k are k.                                              *)
LEMMA CountTo == ASSUME NEW k \in Nat PROVE IsFiniteSet(1 .. k) /\ Cardinality(1 .. k) = k
<1>1. IsFiniteSet(1 .. k) /\ Cardinality(1 .. k) = IF 1 > k THEN 0 ELSE k - 1 + 1
  BY FS_Interval
<1> QED
  BY <1>1

(* Those that have different numbers up to k are at most k,                *)
LEMMA AtMost ==
  ASSUME NEW K, NEW f, NEW k \in Nat, \A i \in K : f[i] \in 1 .. k,
         \A h, i \in K : h # i => f[h] # f[i]
  PROVE  IsFiniteSet(K) /\ Cardinality(K) \in Nat /\ Cardinality(K) <= k
<1>1. PICK g : g = [i \in K |-> f[i]]
  OBVIOUS
<1>2. g \in Injection(K, 1 .. k)
  BY <1>1 DEF Injection, IsInjective
<1> QED
  BY <1>2, CountTo, FS_Injection, FS_CardinalityType

(* and those that have every number up to k between them are at least k.   *)
LEMMA AtLeast ==
  ASSUME NEW K, IsFiniteSet(K), NEW f, NEW k \in Nat, \A n \in 1 .. k : \E i \in K : f[i] = n
  PROVE  Cardinality(K) \in Nat /\ k <= Cardinality(K)
<1>1. PICK g : g = [n \in 1 .. k |-> CHOOSE i \in K : f[i] = n]
  OBVIOUS
<1>2. \A n \in 1 .. k : g[n] \in K /\ f[g[n]] = n
  BY <1>1
<1>3. g \in Injection(1 .. k, K)
  BY <1>1, <1>2 DEF Injection, IsInjective
<1> QED
  BY <1>3, CountTo, FS_Injection, FS_CardinalityType

(* Every visit is in some round, to some base.                             *)
LEMMA RoundOf ==
  ASSUME NEW bases, EachOnce(bases), NEW limit \in Nat, NEW v \in 1 .. limit * Len(bases)
  PROVE  \E q \in Nat, r \in 0 .. Len(bases) - 1 : q < limit /\ v = q * Len(bases) + r + 1
<1> DEFINE n == Len(bases)
<1>1. n \in Nat
  BY DEF EachOnce, IsSequence
<1>2. n # 0
  <2>1. n = 0 => limit * n = 0
    OBVIOUS
  <2> QED
    BY <2>1
<1>3. PICK m \in Nat \ {0} : m = n
  BY <1>1, <1>2
<1>4. v - 1 \in Nat /\ v - 1 < limit * m /\ v = (v - 1) + 1
  BY <1>3
<1>5. PICK q \in Nat, r \in 0 .. m - 1 : v - 1 = q * m + r
  BY <1>3, <1>4, Divided
<1>6. q * m \in Nat /\ limit * m \in Nat
  BY NextMultiple
<1>7. ~(limit <= q)
  <2>1. limit = q => limit * m = q * m
    OBVIOUS
  <2>2. limit < q => limit * m + m <= q * m
    BY NextMultiple
  <2>3. limit <= q => limit = q \/ limit < q
    OBVIOUS
  <2> QED
    BY <1>4, <1>5, <1>6, <2>1, <2>2, <2>3
<1>8. q < limit /\ v = q * m + r + 1
  BY <1>4, <1>5, <1>6, <1>7
<1> QED
  BY <1>3, <1>8

(* A visit is the only one of its base in its turn, and every base had     *)
(* each earlier turn before it.                                            *)
LEMMA OneTurnAVisit ==
  ASSUME NEW bases, EachOnce(bases), NEW limit \in Nat, NEW v \in 1 .. limit * Len(bases)
  PROVE  LET visits == Visits(bases, limit)
         IN  /\ visits[v] \in Elements(bases) /\ TurnAt(visits, v) \in Nat \ {0}
             /\ \A u \in 1 .. limit * Len(bases) :
                   visits[u] = visits[v] /\ TurnAt(visits, u) = TurnAt(visits, v) => u = v
             /\ \A c \in Elements(bases) : \A t \in 1 .. TurnAt(visits, v) - 1 :
                   \E u \in 1 .. limit * Len(bases) : u < v /\ visits[u] = c /\ TurnAt(visits, u) = t
<1> DEFINE visits == Visits(bases, limit)
           n == Len(bases)
<1>1. n \in Nat /\ DOMAIN bases = 1 .. n /\ \A h, k \in 1 .. n : h # k => bases[h] # bases[k]
  BY DEF EachOnce, IsSequence
<1>2. PICK q \in Nat, r \in 0 .. n - 1 : q < limit /\ v = q * n + r + 1
  BY RoundOf
<1>3. visits[v] = bases[r + 1] /\ TurnAt(visits, v) = q + 1
  BY <1>2, TurnIsRound
<1> HIDE DEF visits
<1>4. visits[v] \in Elements(bases) /\ TurnAt(visits, v) \in Nat \ {0}
  <2>1. r + 1 \in 1 .. n
    BY <1>1, <1>2
  <2> HIDE DEF n
  <2> QED
    BY <1>1, <1>2, <1>3, <2>1 DEF Elements
<1>5. ASSUME NEW u \in 1 .. limit * n, visits[u] = visits[v], TurnAt(visits, u) = TurnAt(visits, v)
      PROVE  u = v
  <2>1. PICK p \in Nat, s \in 0 .. n - 1 : p < limit /\ u = p * n + s + 1
    BY RoundOf
  <2>2. visits[u] = bases[s + 1] /\ TurnAt(visits, u) = p + 1
    BY <2>1, TurnIsRound DEF visits
  <2>3. p = q
    BY <1>2, <1>3, <1>5, <2>1, <2>2
  <2>4. s + 1 = r + 1
    <3>1. s + 1 \in 1 .. n /\ r + 1 \in 1 .. n
      BY <1>1, <1>2, <2>1
    <3> HIDE DEF n
    <3> QED
      BY <1>1, <1>3, <1>5, <2>2, <3>1
  <2>5. s = r
    BY <2>1, <1>2, <2>4
  <2> QED
    BY <1>2, <2>1, <2>3, <2>5
<1>6. ASSUME NEW c \in Elements(bases), NEW t \in 1 .. TurnAt(visits, v) - 1
      PROVE  \E u \in 1 .. limit * n : u < v /\ visits[u] = c /\ TurnAt(visits, u) = t
  <2>1. PICK i \in 1 .. n : c = bases[i]
    BY <1>1 DEF Elements
  <2>2. PICK p \in Nat : p = t - 1 /\ p < q /\ p + 1 = t
    BY <1>2, <1>3
  <2>3. PICK s \in 0 .. n - 1 : s = i - 1 /\ s + 1 = i
    BY <1>1, <2>1
  <2>4. PICK u : u = p * n + s + 1
    OBVIOUS
  <2>5. p < limit
    BY <1>2, <2>2
  <2>6. u \in 1 .. limit * n /\ visits[u] = bases[s + 1] /\ TurnAt(visits, u) = p + 1
    BY <2>4, <2>5, TurnIsRound DEF visits
  <2>7. u < v
    <3>1. PICK m \in Nat \ {0} : m = n
      <4>1. n \in Nat /\ i \in 1 .. n
        BY <1>1, <2>1
      <4> HIDE DEF n
      <4> QED
        BY <4>1
    <3>2. p * m \in Nat /\ q * m \in Nat /\ p * m + m <= q * m
      BY <2>2, NextMultiple
    <3> HIDE DEF n
    <3>3. s \in 0 .. m - 1 /\ r \in 0 .. m - 1 /\ u = p * m + s + 1 /\ v = q * m + r + 1
      BY <1>2, <2>4, <3>1
    <3> QED
      BY <3>2, <3>3
  <2> QED
    BY <2>1, <2>2, <2>3, <2>6, <2>7
<1> QED
  BY <1>4, <1>5, <1>6 DEF visits

-----------------------------------------------------------------------------
(* Passages merged in turns                                                *)

(* How many of some passages are of a base.                                *)
OfBase(s, b) == Cardinality({i \in DOMAIN s : s[i].base = b})
(* The passages of a base are named after it.                              *)
AreNamed(hits, b) == IsSequence(hits[b]) /\ \A i \in DOMAIN hits[b] : hits[b][i].base = b
(* The first k of what is found at visits to bases.                        *)
IsFirstOf(s, visits, hits, found) ==
    /\ IsSequence(s) /\ Len(s) <= Cardinality(found)
    /\ \A i \in 1 .. Len(s) :
          LET v == Nth(found, i) IN s[i] = hits[visits[v]][TurnAt(visits, v)]

(* What is cited of merged passages is the first of what is found.         *)
LEMMA MergedIsFirst ==
  ASSUME NEW bases, EachOnce(bases), NEW limit \in Nat, NEW cited \in Nat, NEW hits
  PROVE  LET visits == Visits(bases, limit)
             found == {v \in 1 .. limit * Len(bases) : TurnAt(visits, v) <= Len(hits[visits[v]])}
         IN  IsFirstOf(Upto(MergeDocumentsRoundRobin(bases, hits, limit), cited), visits, hits, found)
<1> DEFINE visits == Visits(bases, limit)
           n == limit * Len(bases)
           found == {v \in 1 .. n : TurnAt(visits, v) <= Len(hits[visits[v]])}
           d == [v \in found |-> hits[visits[v]][TurnAt(visits, v)]]
           docs == AtPlaces(d, found)
           some == Upto(docs, limit)
           s == Upto(some, cited)
<1>1. n \in Nat /\ found \subseteq 1 .. n
  <2>1. Len(bases) \in Nat
    BY DEF EachOnce, IsSequence
  <2> QED
    BY <2>1
<1>2. /\ \E S : docs \in Seq(S)
      /\ Len(docs) = Cardinality(found) /\ Cardinality(found) \in Nat
      /\ \A k \in 1 .. Cardinality(found) : docs[k] = d[Nth(found, k)] /\ Nth(found, k) \in found
  <2>1. \A i \in found : d[i] \in {d[j] : j \in found}
    OBVIOUS
  <2> HIDE DEF found, d, n
  <2> QED
    BY <1>1, <2>1, AtPlacesSeq
<1>3. IsSequence(docs)
  BY <1>2, SequenceIn
<1>4. \A v \in found : d[v] = hits[visits[v]][TurnAt(visits, v)]
  OBVIOUS
<1>5. MergeDocumentsRoundRobin(bases, hits, limit) = some
  BY DEF MergeDocumentsRoundRobin, MergeDocuments, Visits, TurnAt
<1> HIDE DEF docs, d, found, visits
<1>6. /\ IsSequence(some) /\ Len(some) <= Len(docs)
      /\ \A i \in 1 .. Len(some) : i \in 1 .. Len(docs) /\ some[i] = docs[i]
  <2>1. Len(docs) \in Nat
    BY <1>3 DEF IsSequence
  <2>2. Len(some) = IF Len(docs) <= limit THEN Len(docs) ELSE limit
    BY <1>3, UptoIs
  <2>3. Len(some) <= Len(docs)
    <3> HIDE DEF some
    <3> QED
      BY <2>1, <2>2
  <2> QED
    BY <1>3, <2>3, UptoIs
<1> HIDE DEF some
<1>7. /\ IsSequence(s) /\ Len(s) <= Len(some)
      /\ \A i \in 1 .. Len(s) : i \in 1 .. Len(some) /\ s[i] = some[i]
  <2>1. Len(some) \in Nat
    BY <1>6 DEF IsSequence
  <2>2. Len(s) = IF Len(some) <= cited THEN Len(some) ELSE cited
    BY <1>6, UptoIs
  <2>3. Len(s) <= Len(some)
    <3> HIDE DEF s
    <3> QED
      BY <2>1, <2>2
  <2> QED
    BY <1>6, <2>3, UptoIs
<1> HIDE DEF s
<1>8. Len(s) <= Cardinality(found)
  <2>1. Len(s) \in Nat /\ Len(some) \in Nat /\ Len(docs) \in Nat
    BY <1>3, <1>6, <1>7 DEF IsSequence
  <2> QED
    BY <1>2, <1>6, <1>7, <2>1
<1>9. IsFirstOf(s, visits, hits, found)
  BY <1>2, <1>4, <1>6, <1>7, <1>8 DEF IsFirstOf
<1> QED
  BY <1>5, <1>9 DEF s, found, visits

(* mergeDocumentsRoundRobin, and what is cited of it: no base crowds out   *)
(* another.                                                                *)
LEMMA FairMerge ==
  ASSUME NEW bases, EachOnce(bases), NEW limit \in Nat, NEW cited \in Nat,
         NEW hits, \A b \in Elements(bases) : AreNamed(hits, b),
         NEW b \in Elements(bases), NEW c \in Elements(bases),
         LET s == Upto(MergeDocumentsRoundRobin(bases, hits, limit), cited)
         IN  OfBase(s, b) > OfBase(s, c) + 1
  PROVE  OfBase(Upto(MergeDocumentsRoundRobin(bases, hits, limit), cited), c) = Len(hits[c])
<1> DEFINE visits == Visits(bases, limit)
           n == limit * Len(bases)
           found == {v \in 1 .. n : TurnAt(visits, v) <= Len(hits[visits[v]])}
<1>1. PICK s : s = Upto(MergeDocumentsRoundRobin(bases, hits, limit), cited)
  OBVIOUS
<1>2. IsFirstOf(s, visits, hits, found)
  BY <1>1, MergedIsFirst
<1>3. n \in Nat /\ found \subseteq 1 .. n
  <2>1. Len(bases) \in Nat
    BY DEF EachOnce, IsSequence
  <2> QED
    BY <2>1
<1>4. PICK k \in Nat : k = Len(s) /\ DOMAIN s = 1 .. k /\ k <= Cardinality(found)
  BY <1>2 DEF IsFirstOf, IsSequence
<1>5. Cardinality(found) \in Nat
  BY <1>3, FinitePlaces
<1> DEFINE At1(i) == Nth(found, i)
           T == [i \in 1 .. k |-> TurnAt(visits, At1(i))]
           Of(x) == {i \in 1 .. k : visits[At1(i)] = x}
<1>6. \A v \in found : /\ v \in 1 .. n /\ visits[v] \in Elements(bases)
                       /\ TurnAt(visits, v) \in 1 .. Len(hits[visits[v]])
  <2>1. ASSUME NEW v \in found PROVE TurnAt(visits, v) \in Nat \ {0} /\ visits[v] \in Elements(bases)
    BY OneTurnAVisit
  <2>2. \A x \in Elements(bases) : Len(hits[x]) \in Nat
    BY DEF AreNamed, IsSequence
  <2> HIDE DEF visits
  <2> QED
    BY <2>1, <2>2
<1>7. \A i \in 1 .. k : /\ At1(i) \in found /\ T[i] = TurnAt(visits, At1(i))
                        /\ i \in 1 .. Cardinality(found)
  <2>1. \A i \in 1 .. k : i \in 1 .. Cardinality(found)
    BY <1>4, <1>5
  <2>2. \A i \in 1 .. Cardinality(found) : Nth(found, i) \in found
    <3> HIDE DEF found
    <3> QED
      BY <1>3, NthPlace
  <2> HIDE DEF found, visits
  <2> QED
    BY <2>1, <2>2
<1>8. \A i \in 1 .. k : s[i].base = visits[At1(i)]
  <2>1. TAKE i \in 1 .. k
  <2>2. s[i] = hits[visits[At1(i)]][TurnAt(visits, At1(i))]
    BY <1>2, <1>4 DEF IsFirstOf
  <2>3. PICK v \in found : v = At1(i)
    BY <1>7
  <2> HIDE DEF found, visits, At1
  <2>4. visits[v] \in Elements(bases) /\ TurnAt(visits, v) \in DOMAIN hits[visits[v]]
    BY <1>6 DEF AreNamed, IsSequence
  <2> QED
    BY <2>2, <2>3, <2>4 DEF AreNamed
<1>9. \A x : OfBase(s, x) = Cardinality(Of(x))
  <2>1. TAKE x
  <2>2. {i \in DOMAIN s : s[i].base = x} = Of(x)
    <3> HIDE DEF visits, found
    <3> QED
      BY <1>4, <1>8
  <2> QED
    BY <2>2 DEF OfBase
(* Of the passages of a base every one came in a turn of its own.          *)
<1>10. ASSUME NEW x, NEW h \in Of(x), NEW i \in Of(x), h # i PROVE T[h] # T[i]
  <2>1. At1(h) # At1(i)
    <3>1. h \in 1 .. Cardinality(found) /\ i \in 1 .. Cardinality(found)
      BY <1>7
    <3> HIDE DEF found
    <3> QED
      BY <1>3, <1>10, <3>1, NthDiffers
  <2>2. PICK u \in 1 .. n, v \in 1 .. n : u = At1(h) /\ v = At1(i)
    BY <1>6, <1>7
  <2>3. visits[u] = visits[v]
    BY <2>2
  <2>4. TurnAt(visits, u) # TurnAt(visits, v)
    BY <2>1, <2>2, <2>3, OneTurnAVisit
  <2> HIDE DEF visits, found
  <2> QED
    BY <1>7, <2>2, <2>4
(* Before it every base with as many passages had each earlier turn.       *)
<1>11. ASSUME NEW i \in 1 .. k, NEW x \in Elements(bases), NEW t \in 1 .. Len(hits[x]), t < T[i]
       PROVE  \E j \in Of(x) : T[j] = t
  <2>1. PICK v \in found : v = At1(i) /\ T[i] = TurnAt(visits, v)
    BY <1>7
  <2>2. v \in 1 .. n /\ TurnAt(visits, v) \in Nat
    BY <1>6, OneTurnAVisit
  <2>3. t \in 1 .. TurnAt(visits, v) - 1
    <3> HIDE DEF T, visits
    <3> QED
      BY <1>11, <2>1, <2>2
  <2>4. PICK u \in 1 .. n : u < v /\ visits[u] = x /\ TurnAt(visits, u) = t
    BY <2>2, <2>3, OneTurnAVisit
  <2>5. u \in found
    <3> HIDE DEF visits
    <3> QED
      BY <2>4
  <2>6. Rank(found, u) \in 1 .. Cardinality(found) /\ Nth(found, Rank(found, u)) = u
    <3> HIDE DEF found
    <3> QED
      BY <1>3, <2>5, NthOfRank
  <2>7. Rank(found, u) < Rank(found, v)
    <3> HIDE DEF found
    <3> QED
      BY <1>3, <2>4, <2>5, RankRises
  <2>8. Rank(found, v) = i
    <3>1. i \in 1 .. Cardinality(found)
      BY <1>7
    <3> HIDE DEF found
    <3> QED
      BY <1>3, <2>1, <3>1, NthPlace
  <2>9. Rank(found, u) \in 1 .. k
    <3> HIDE DEF found
    <3> QED
      BY <1>5, <2>6, <2>7, <2>8
  <2> HIDE DEF visits, found
  <2>10. Rank(found, u) \in Of(x) /\ T[Rank(found, u)] = t
    BY <2>4, <2>6, <2>9
  <2> QED
    BY <2>10
<1>12. ASSUME NEW x \in Elements(bases)
       PROVE  /\ IsFiniteSet(Of(x)) /\ Len(hits[x]) \in Nat
              /\ \A i \in Of(x) : T[i] \in 1 .. Len(hits[x])
  <2>1. IsFiniteSet(Of(x))
    BY FinitePlaces
  <2>2. Len(hits[x]) \in Nat
    BY DEF AreNamed, IsSequence
  <2> HIDE DEF visits, found
  <2> QED
    BY <1>6, <1>7, <2>1, <2>2
<1> HIDE DEF Of, T, visits, found
<1>13. Cardinality(Of(c)) \in Nat /\ Cardinality(Of(c)) <= Len(hits[c])
  BY <1>10, <1>12, AtMost
<1>14. PICK q \in Nat : q = Cardinality(Of(c))
  BY <1>13
<1>15. Cardinality(Of(b)) \in Nat /\ Cardinality(Of(b)) > q + 1
  <2>1. Cardinality(Of(b)) \in Nat
    BY <1>12, FS_CardinalityType
  <2>2. OfBase(s, b) > OfBase(s, c) + 1
    BY <1>1
  <2> QED
    BY <1>9, <1>14, <2>1, <2>2
<1>16. PICK i \in Of(b) : ~(T[i] <= q + 1)
  <2>1. (\A i \in Of(b) : T[i] <= q + 1) => \A i \in Of(b) : T[i] \in 1 .. q + 1
    BY <1>12
  <2>2. (\A i \in Of(b) : T[i] \in 1 .. q + 1) => Cardinality(Of(b)) <= q + 1
    <3>1. q + 1 \in Nat
      OBVIOUS
    <3> QED
      BY <1>10, <3>1, AtMost
  <2> QED
    BY <1>15, <2>1, <2>2
<1>17. ~(q < Len(hits[c]))
  <2> SUFFICES ASSUME q < Len(hits[c]) PROVE FALSE
    OBVIOUS
  <2>1. i \in 1 .. k /\ T[i] \in Nat
    <3>1. i \in 1 .. k
      BY <1>16 DEF Of
    <3>2. T[i] \in 1 .. Len(hits[b]) /\ Len(hits[b]) \in Nat
      BY <1>12, <1>16
    <3> QED
      BY <3>1, <3>2
  <2>2. ASSUME NEW t \in 1 .. q + 1 PROVE \E j \in Of(c) : T[j] = t
    <3>1. t \in 1 .. Len(hits[c]) /\ t < T[i]
      BY <1>12, <1>16, <2>1
    <3> QED
      BY <1>11, <2>1, <3>1
  <2>3. q + 1 \in Nat
    OBVIOUS
  <2>4. q + 1 <= Cardinality(Of(c))
    BY <1>12, <2>2, <2>3, AtLeast
  <2> QED
    BY <1>14, <2>4
<1> QED
  <2>1. Len(hits[c]) \in Nat
    BY <1>12
  <2> QED
    BY <1>1, <1>9, <1>13, <1>14, <1>17, <2>1

-----------------------------------------------------------------------------
(* Sources of several bases                                                *)

(* The first places, where none of them is left out.                       *)
LEMMA AtFirstPlaces ==
  ASSUME NEW P, \E n \in Nat : P \subseteq 1 .. n, NEW s, NEW m \in Nat, 1 .. m \subseteq P
  PROVE  m <= Len(AtPlaces(s, P)) /\ \A k \in 1 .. m : AtPlaces(s, P)[k] = s[k]
<1>0. PICK n \in Nat : P \subseteq 1 .. n
  OBVIOUS
<1>1. PICK S : \A i \in P : s[i] \in S
  <2>1. \A i \in P : s[i] \in {s[j] : j \in P}
    OBVIOUS
  <2> QED
    BY <2>1
<1>2. /\ AtPlaces(s, P) \in Seq(S)
      /\ Len(AtPlaces(s, P)) = Cardinality(P) /\ Cardinality(P) \in Nat
      /\ \A k \in 1 .. Cardinality(P) : AtPlaces(s, P)[k] = s[Nth(P, k)] /\ Nth(P, k) \in P
  BY <1>0, <1>1, AtPlacesSeq
<1>3. ASSUME NEW k \in 1 .. m PROVE k \in 1 .. Cardinality(P) /\ Nth(P, k) = k
  <2>0. k \in Nat /\ \A j \in 1 .. k : j \in 1 .. m
    OBVIOUS
  <2>1. {j \in P : j <= k} = 1 .. k
    <3>1. \A j \in 1 .. k : j \in P /\ j <= k
      BY <2>0
    <3>2. \A j \in P : j <= k => j \in 1 .. k
      BY <1>0, <2>0
    <3> QED
      BY <3>1, <3>2
  <2>2. Rank(P, k) = k
    BY <2>0, <2>1, CountTo DEF Rank
  <2>3. k \in P
    OBVIOUS
  <2> QED
    BY <1>0, <2>2, <2>3, NthOfRank
<1>4. m <= Cardinality(P)
  BY <1>2, <1>3
<1> QED
  BY <1>2, <1>3, <1>4

(* What is put together begins with what the first query found.            *)
LEMMA FuseBegins ==
  ASSUME NEW lists, Len(lists) \in Nat \ {0}, NEW room \in Nat \ {0},
         IsSequence(lists[1]), Len(lists[1]) <= room, NodesDiffer(lists[1])
  PROVE  /\ Len(lists[1]) <= Len(Fuse(lists, room))
         /\ \A k \in 1 .. Len(lists[1]) : Fuse(lists, room)[k] = lists[1][k]
<1> DEFINE ListOf(p) == ((p - 1) \div room) + 1
           Rank1(p) == ((p - 1) % room) + 1
           n == room * Len(lists)
           all == {p \in 1 .. n : Rank1(p) <= Len(lists[ListOf(p)])}
           at == [p \in all |-> lists[ListOf(p)][Rank1(p)]]
           kept == {p \in all : \A o \in all : o < p => at[o].node # at[p].node}
<1>1. PICK m \in Nat : m = Len(lists[1])
  BY DEF IsSequence
<1>2. n \in Nat /\ room <= n
  <2>1. PICK c \in Nat : Len(lists) = c + 1
    <3>1. Len(lists) - 1 \in Nat /\ Len(lists) = (Len(lists) - 1) + 1
      OBVIOUS
    <3> QED
      BY <3>1
  <2>2. c * room \in Nat
    BY <2>1
  <2>3. n = c * room + room
    BY <2>1
  <2> QED
    BY <2>2, <2>3
<1>3. ASSUME NEW p \in 1 .. room PROVE ListOf(p) = 1 /\ Rank1(p) = p
  <2>1. p - 1 \in 0 .. room - 1 /\ 0 * room + (p - 1) = p - 1
    OBVIOUS
  <2>2. (p - 1) \div room = 0 /\ (p - 1) % room = p - 1
    BY <2>1, DividedOnce
  <2> QED
    BY <2>2
<1>4. ASSUME NEW p \in 1 .. m PROVE p \in all /\ at[p] = lists[1][p]
  <2>1. p \in 1 .. room /\ p \in 1 .. n
    BY <1>1, <1>2
  <2>2. ListOf(p) = 1 /\ Rank1(p) = p
    BY <1>3, <2>1
  <2>3. p \in all
    BY <1>1, <2>1, <2>2
  <2> QED
    BY <2>2, <2>3
<1>5. Fuse(lists, room) = AtPlaces(at, kept)
  BY DEF Fuse
<1>6. all \subseteq 1 .. n /\ kept \subseteq 1 .. n /\ kept \subseteq all
  OBVIOUS
<1>7. \A i \in kept : at[i] \in {at[j] : j \in kept}
  OBVIOUS
<1>8. ASSUME NEW p \in 1 .. m PROVE p \in kept
  <2>1. ASSUME NEW o \in all, o < p PROVE at[o].node # at[p].node
    <3>1. o \in 1 .. m /\ o # p
      BY <1>6, <2>1
    <3>2. at[o] = lists[1][o] /\ at[p] = lists[1][p]
      BY <1>4, <3>1
    <3>3. o \in DOMAIN lists[1] /\ p \in DOMAIN lists[1]
      BY <1>1, <3>1 DEF IsSequence
    <3> QED
      BY <3>1, <3>2, <3>3 DEF NodesDiffer
  <2> QED
    BY <1>4, <2>1
<1> HIDE DEF n, all, at, kept
<1>9. m <= Len(AtPlaces(at, kept)) /\ \A k \in 1 .. m : AtPlaces(at, kept)[k] = at[k]
  <2>1. \E top \in Nat : kept \subseteq 1 .. top
    BY <1>2, <1>6
  <2>2. 1 .. m \subseteq kept
    BY <1>8
  <2> QED
    BY <2>1, <2>2, AtFirstPlaces
<1> QED
  BY <1>1, <1>4, <1>5, <1>9

(* What is cited of a sequence begins like what is cited of its beginning. *)
LEMMA UptoBegins ==
  ASSUME NEW s, IsSequence(s), NEW t, IsSequence(t), Len(t) <= Len(s),
         \A k \in 1 .. Len(t) : s[k] = t[k], NEW cited \in Nat
  PROVE  Upto(Upto(s, cited), Len(t)) = Upto(t, cited)
<1>0. Len(s) \in Nat /\ Len(t) \in Nat
  BY DEF IsSequence
<1>1. PICK u : u = Upto(s, cited)
  OBVIOUS
<1>2. /\ IsSequence(u) /\ Len(u) = IF Len(s) <= cited THEN Len(s) ELSE cited
      /\ \A i \in 1 .. Len(u) : u[i] = s[i]
  BY <1>1, UptoIs
<1>3. PICK v : v = Upto(u, Len(t))
  OBVIOUS
<1>4. /\ IsSequence(v) /\ Len(v) = IF Len(u) <= Len(t) THEN Len(u) ELSE Len(t)
      /\ \A i \in 1 .. Len(v) : v[i] = u[i]
  BY <1>0, <1>2, <1>3, UptoIs
<1>5. PICK w : w = Upto(t, cited)
  OBVIOUS
<1>6. /\ IsSequence(w) /\ Len(w) = IF Len(t) <= cited THEN Len(t) ELSE cited
      /\ \A i \in 1 .. Len(w) : w[i] = t[i]
  BY <1>5, UptoIs
<1>7. Len(v) = Len(w) /\ Len(w) <= Len(t) /\ Len(w) <= Len(u)
  BY <1>0, <1>2, <1>4, <1>6
<1>8. \A i \in 1 .. Len(w) : v[i] = w[i]
  <2> SUFFICES ASSUME NEW i \in 1 .. Len(w) PROVE v[i] = w[i]
    OBVIOUS
  <2>1. Len(w) \in Nat /\ Len(u) \in Nat
    BY <1>2, <1>6 DEF IsSequence
  <2>2. i \in 1 .. Len(u) /\ i \in 1 .. Len(t)
    BY <1>0, <1>7, <2>1
  <2> QED
    BY <1>2, <1>4, <1>6, <1>7, <2>2
<1>9. v = w
  BY <1>4, <1>6, <1>7, <1>8 DEF IsSequence
<1> QED
  BY <1>1, <1>3, <1>5, <1>9

(* No base crowds out another among the sources of the first query.        *)
FirstShares(agent, hits, sources) ==
    LET docs  == RetrieveOnce(agent, hits)
        first == Upto(sources, Len(docs))
    IN  ~RewritesQueries(agent) \/ NodesDiffer(docs) =>
           \A b, c \in Elements(agent.kbIDs) :
              OfBase(first, b) > OfBase(first, c) + 1 => OfBase(first, c) = Len(hits[c])
Shares(s) == s.sources # << >> => FirstShares(KnowledgeTool(s.agent.key), s.hits, s.sources)
ShareInv == CitedInv /\ \A s \in Elements(response.steps) : Shares(s)

(* What a query finds is shared, whatever the bases return.                *)
LEMMA OnceShared ==
  ASSUME BasesAreDistinct, HitsNameTheirBase,
         NEW key \in Elements(Keys(Tree.leaves)), NEW hits \in Hits, NEW cited \in Nat,
         RetrieveOnce(KnowledgeTool(key), hits) # None
  PROVE  LET agent == KnowledgeTool(key)
             s == Upto(RetrieveOnce(agent, hits), cited)
         IN  \A b, c \in Elements(agent.kbIDs) :
                OfBase(s, b) > OfBase(s, c) + 1 => OfBase(s, c) = Len(hits[c])
<1> DEFINE agent == KnowledgeTool(key)
           l == Node(Tree.leaves, key)
<1>1. PICK bases \in {l.kbIDs}, topK \in Nat : bases = l.kbIDs /\ bases = agent.kbIDs /\ topK = agent.topK
  <2>1. agent.topK \in Nat /\ agent.kbIDs = l.kbIDs
    BY Limits
  <2> HIDE DEF agent, l
  <2> QED
    BY <2>1
<1>2. l \in Elements(Tree.leaves) /\ bases \in Seq(STRING)
  <2>1. \E i \in DOMAIN Tree.leaves : l = Tree.leaves[i]
    BY NodeIs
  <2>2. l.kbIDs \in Seq(STRING)
    BY LeafChecked
  <2> QED
    BY <1>1, <2>1, <2>2 DEF Elements
<1>3. EachOnce(bases)
  <2>1. \A i, j \in DOMAIN bases : i # j => bases[i] # bases[j]
    BY <1>1, <1>2 DEF BasesAreDistinct
  <2>2. IsSequence(bases)
    BY <1>2, SequenceIn
  <2> QED
    BY <2>1, <2>2 DEF EachOnce, IsSequence
<1> HIDE DEF agent
<1>4. /\ RetrieveOnce(agent, hits) = MergeDocumentsRoundRobin(bases, hits, topK)
      /\ \A b \in Elements(bases) : hits[b] # None
  BY <1>1 DEF RetrieveOnce, agent
<1>5. ASSUME NEW b \in Elements(bases) PROVE AreNamed(hits, b)
  <2>1. hits[b] \in Seq(Elements(hits[b])) /\ \A i \in DOMAIN hits[b] : hits[b][i].base = b
    BY <1>1, <1>2, <1>4 DEF HitsNameTheirBase
  <2> QED
    BY <2>1, SequenceIn DEF AreNamed
<1>6. PICK s : s = Upto(RetrieveOnce(agent, hits), cited)
  OBVIOUS
<1>7. ASSUME NEW b \in Elements(bases), NEW c \in Elements(bases), OfBase(s, b) > OfBase(s, c) + 1
      PROVE  OfBase(s, c) = Len(hits[c])
  <2>1. s = Upto(MergeDocumentsRoundRobin(bases, hits, topK), cited)
    BY <1>4, <1>6
  <2> QED
    BY <1>3, <1>5, <1>7, <2>1, FairMerge
<1> QED
  BY <1>1, <1>6, <1>7 DEF agent

(* What a knowledge agent cites, whatever its bases return.                *)
LEMMA AnswerShares ==
  ASSUME BasesAreDistinct, HitsNameTheirBase,
         NEW key \in Elements(Keys(Tree.leaves)), NEW found \in Found(key), NEW answered,
         Answer(KnowledgeTool(key), found, answered).sources # << >>
  PROVE  FirstShares(KnowledgeTool(key), FirstHits(found), Answer(KnowledgeTool(key), found, answered).sources)
<1> DEFINE docs == Retrieve(KnowledgeTool(key), found)
           used == IF docs = None \/ ~answered THEN << >> ELSE docs
<1>1. PICK agent : agent = KnowledgeTool(key)
  OBVIOUS
<1>2. PICK sources : sources = Answer(KnowledgeTool(key), found, answered).sources
  OBVIOUS
<1>3. PICK cited \in Nat, topK \in Nat \ {0} : cited = agent.sourceLimit /\ topK = agent.topK
  BY <1>1, Limits
<1>4. sources = Upto(used, cited)
  BY <1>1, <1>2, <1>3 DEF Answer, SourcesFromDocuments
<1>5. ASSUME NEW u, IsSequence(u), Len(u) = 0 PROVE Upto(u, cited) = << >>
  <2>1. IsSequence(Upto(u, cited)) /\ Len(Upto(u, cited)) = IF Len(u) <= cited THEN Len(u) ELSE cited
    BY <1>5, UptoIs
  <2>2. PICK s : s = Upto(u, cited)
    OBVIOUS
  <2>3. s \in Seq(Elements(s)) /\ Len(s) = 0
    BY <1>5, <2>1, <2>2, InSeq
  <2> QED
    BY <2>2, <2>3, EmptySeq
<1>6. sources # << >>
  BY <1>2
<1>7. used # << >>
  <2>1. Upto(<< >>, cited) = << >>
    BY <1>5, NoElements, EmptySeq
  <2> QED
    BY <1>4, <1>6, <2>1
<1>8. docs # None /\ used = docs
  BY <1>7
<1>9. IsSequence(docs) /\ Len(docs) # 0
  <2>1. IsSequence(docs)
    BY <1>8, RetrievedIs
  <2> QED
    BY <1>4, <1>5, <1>6, <1>8, <2>1
<1>10. PICK n \in Nat \ {0} :
          /\ found \in [1 .. n -> Hits]
          /\ RetrieveOnce(agent, found[1]) # None
          /\ IF RewritesQueries(agent)
             THEN docs = Fuse([q \in 1 .. n |-> RetrieveOnce(agent, found[q])], topK)
             ELSE docs = RetrieveOnce(agent, found[1])
  BY <1>1, <1>3, <1>8, <1>9, RetrievedIs
<1>11. PICK t : t = RetrieveOnce(agent, found[1])
  OBVIOUS
<1>12. IsSequence(t) /\ Len(t) <= topK
  BY <1>1, <1>3, <1>10, <1>11, RetrievedOnce
<1>13. found[1] \in Hits /\ FirstHits(found) = found[1]
  <2>1. 1 \in 1 .. n
    OBVIOUS
  <2>2. found # None
    BY <1>8 DEF Retrieve
  <2>3. found # << >>
    <3>1. PICK e : e = << >>
      OBVIOUS
    <3>2. DOMAIN e = {}
      BY <3>1
    <3>3. 1 \in DOMAIN found
      BY <1>10, <2>1
    <3> QED
      BY <3>1, <3>2, <3>3
  <2> QED
    BY <1>10, <2>1, <2>2, <2>3 DEF FirstHits
<1> HIDE DEF docs, used
<1>14. ASSUME ~RewritesQueries(agent) \/ NodesDiffer(t)
       PROVE  Len(t) <= Len(docs) /\ \A k \in 1 .. Len(t) : docs[k] = t[k]
  <2>1. CASE ~RewritesQueries(agent)
    <3>1. docs = t
      BY <1>10, <1>11, <2>1
    <3>2. Len(t) \in Nat
      BY <1>12 DEF IsSequence
    <3> QED
      BY <3>1, <3>2
  <2>2. CASE RewritesQueries(agent)
    <3>1. PICK lists : lists = [q \in 1 .. n |-> RetrieveOnce(agent, found[q])]
      OBVIOUS
    <3>2. 1 \in 1 .. n /\ lists = [q \in 1 .. n |-> lists[q]] /\ lists[1] = t
      BY <1>11, <3>1
    <3>3. \A q \in 1 .. n : lists[q] \in {lists[p] : p \in 1 .. n}
      OBVIOUS
    <3>4. Len(lists) = n
      BY <3>2, <3>3, IsSeq
    <3>5. docs = Fuse(lists, topK)
      BY <1>10, <2>2, <3>1
    <3> QED
      BY <1>12, <1>14, <2>2, <3>2, <3>4, <3>5, FuseBegins
  <2> QED
    BY <2>1, <2>2
<1>15. ASSUME ~RewritesQueries(agent) \/ NodesDiffer(t)
       PROVE  Upto(sources, Len(t)) = Upto(t, cited)
  BY <1>4, <1>8, <1>9, <1>12, <1>14, <1>15, UptoBegins
<1>16. ASSUME ~RewritesQueries(agent) \/ NodesDiffer(t),
              NEW b \in Elements(agent.kbIDs), NEW c \in Elements(agent.kbIDs),
              OfBase(Upto(sources, Len(t)), b) > OfBase(Upto(sources, Len(t)), c) + 1
       PROVE  OfBase(Upto(sources, Len(t)), c) = Len(found[1][c])
  <2>1. Upto(sources, Len(t)) = Upto(RetrieveOnce(agent, found[1]), cited)
    BY <1>11, <1>15, <1>16
  <2>2. RetrieveOnce(KnowledgeTool(key), found[1]) # None
    BY <1>1, <1>10
  <2> QED
    BY <1>1, <1>13, <1>16, <2>1, <2>2, OnceShared
<1>17. FirstShares(agent, found[1], sources)
  BY <1>11, <1>16 DEF FirstShares
<1> QED
  BY <1>1, <1>2, <1>13, <1>17

(* No base has anything at the start.                                      *)
LEMMA InitShared == Init => ShareInv
<1> SUFFICES ASSUME Init PROVE ShareInv
  OBVIOUS
<1>1. CitedInv /\ response.steps = << >>
  BY InitCited, SameSteps DEF Init
<1> QED
  BY <1>1, NoElements DEF ShareInv

(* Every step keeps the shares.                                            *)
LEMMA StepShared ==
  ASSUME BasesAreDistinct, HitsNameTheirBase PROVE ShareInv /\ [Next]_vars => ShareInv'
<1> SUFFICES ASSUME ShareInv, [Next]_vars PROVE ShareInv'
  OBVIOUS
<1>0. CitedInv /\ CitedInv' /\ PlanInv /\ AllCited(response) /\ \A s \in Elements(response.steps) : Shares(s)
  BY StepCited DEF ShareInv, CitedInv, FollowInv
<1> SUFFICES \A s \in Elements(response'.steps) : Shares(s)
  BY <1>0 DEF ShareInv
<1>1. CASE UNCHANGED response
  BY <1>0, <1>1
<1>2. CASE response' \in {Paused(response), Completed(response)}
  BY <1>0, <1>2, SameSteps
<1>3. CASE response' = NoResponse
  BY <1>3, SameSteps, NoElements
<1>4. CASE Query \/ Route \/ EndStage \/ Resume \/ UNCHANGED vars
  BY <1>1, <1>2, <1>3, <1>4
     DEF Query, Route, RunRootPlan, RunFallback, InterruptForClarify, EndStage, Ended, Resume, vars
<1>5. ASSUME NEW m \in Modules, ModuleNext(m) PROVE \A s \in Elements(response'.steps) : Shares(s)
  <2>1. IsFollowed(m)
    BY <1>0 DEF PlanInv
  <2>2. ASSUME NEW s, Shares(s), response'.steps = Append(response.steps, s)
        PROVE  \A x \in Elements(response'.steps) : Shares(x)
    BY <1>0, <2>2, StepAdded DEF AllCited
  <2>3. ASSUME mod[m].next <= Len(mod[m].steps), NEW found \in Found(StepOf(m).key),
               NEW answer \in KnowledgeAnswers[StepOf(m).key][found], AddKnowledge(m, FirstHits(found), answer)
        PROVE  \A s \in Elements(response'.steps) : Shares(s)
    <3> DEFINE s == Step(m, <<StepOf(m).key, StepOf(m).key>>, FirstHits(found), answer)
    <3>1. StepOf(m).key \in Elements(Keys(Tree.leaves))
      BY <2>1, <2>3, StepIs, LeafKeysAre
    <3>2. PICK answered : answer = Answer(KnowledgeTool(StepOf(m).key), found, answered)
      BY <2>3, <3>1 DEF KnowledgeAnswers
    <3>3. s.agent = StepOf(m) /\ s.sources = answer.sources /\ s.hits = FirstHits(found)
      BY DEF Step
    <3>4. response'.steps = Append(response.steps, s)
      BY <1>0, <2>3 DEF AddKnowledge, AllCited
    <3> HIDE DEF s
    <3>5. Shares(s)
      <4>1. PICK key \in Elements(Keys(Tree.leaves)) : key = StepOf(m).key
        BY <3>1
      <4>2. PICK sources : sources = Answer(KnowledgeTool(key), found, answered).sources
        OBVIOUS
      <4>3. sources # << >> => FirstShares(KnowledgeTool(key), FirstHits(found), sources)
        BY <2>3, <4>1, <4>2, AnswerShares
      <4>4. s.agent.key = key /\ s.sources = sources /\ s.hits = FirstHits(found)
        BY <3>2, <3>3, <4>1, <4>2
      <4> QED
        BY <4>3, <4>4 DEF Shares
    <3> QED
      BY <2>2, <3>4, <3>5
  <2>4. ASSUME NEW success, AddTicket(m, success) PROVE \A s \in Elements(response'.steps) : Shares(s)
    <3> DEFINE said == [context |-> << >>, sources |-> << >>]
               s == Step(m, <<"itsm", StepOf(m).key>>, None, said)
               ticket == IF success THEN m ELSE None
    <3>1. s.sources = << >>
      BY DEF Step
    <3>2. \/ UNCHANGED response
          \/ response' = [response EXCEPT !.steps = Append(@, s), !.result = [ticket |-> ticket, sources |-> response.sources]]
      BY <2>4 DEF AddTicket
    <3> HIDE DEF s, ticket
    <3>3. Shares(s)
      BY <3>1 DEF Shares
    <3>4. CASE response' = [response EXCEPT !.steps = Append(@, s), !.result = [ticket |-> ticket, sources |-> response.sources]]
      <4>1. response'.steps = Append(response.steps, s)
        BY <1>0, <3>4 DEF AllCited
      <4> QED
        BY <2>2, <3>3, <4>1
    <3> QED
      BY <1>1, <3>2, <3>4
  <2> QED
    BY <1>1, <1>3, <1>5, <2>3, <2>4
       DEF ModuleNext, RunModule, RunWithPlan, RunClarifyOrError, RunLeaf, ResumeLeaf, PlanDone, Fail
<1> QED
  BY <1>4, <1>5 DEF Next

(* Among the sources that its first query found, two bases of an agent have *)
(* as many as each other, give or take one, while both have passages left  *)
(* (retriever.go:119-145), where no agent names a base twice, passages are *)
(* of the base they came from, and, for an agent that rewrites questions,  *)
(* no node comes twice in what the first query found (agent.go:44-95).     *)
THEOREM BasesShare ==
  ASSUME BasesAreDistinct, HitsNameTheirBase PROVE Spec => []FairShare
<1>1. ShareInv => FairShare
  BY DEF ShareInv, Shares, FirstShares, FairShare, OfBase
<1>2. ShareInv /\ [Next]_vars => ShareInv'
  BY StepShared
<1> QED
  BY InitShared, <1>1, <1>2, PTL DEF Spec
=============================================================================
