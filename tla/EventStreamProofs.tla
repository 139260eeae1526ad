------------------------- MODULE EventStreamProofs -------------------------
(***************************************************************************)
(* What every event stream keeps, for any number of agents, pages and ids, *)
(* any capacity of the channels, and with or without overlapping           *)
(* transactions.                                                           *)
(***************************************************************************)
EXTENDS EventStream, TLAPS, SequenceTheorems, FiniteSetTheorems

-----------------------------------------------------------------------------
(* The invariants                                                          *)

Active(e) == emit[e].at \in {"append", "broadcast"}

(* An event that is being emitted has a row of its own, which is open      *)
(* until the commit and kept after it (storage.go:575-608).                *)
EmissionsHaveRows ==
    /\ \A e \in Emitters : Active(e) =>
          row[emit[e].row] = IF emit[e].at = "append" THEN "open" ELSE "kept"
    /\ \A e, f \in Emitters : Active(e) /\ Active(f) /\ e # f => emit[e].row # emit[f].row

(* Ids are given in order, and an event that is still being emitted when a *)
(* later one has its id overlaps it.                                       *)
IdsInOrder == \A i, j \in Ids : row[i] = "free" /\ i < j => row[j] = "free"
LaterOverlap ==
    \A e \in Emitters, j \in Ids :
        Active(e) /\ emit[e].row < j /\ row[j] # "free" => {emit[e].row, j} \subseteq overlapped

(* The id an event is offered under is its row's, or the later one of a    *)
(* kept event whose emission overlapped (storage.go:591-597).              *)
MayBeCalled(i, id) ==
    /\ id \in Kept \cup {i}
    /\ id >= i
    /\ id # i => {i, id} \subseteq overlapped
IdsAreAhead ==
    \A e \in Emitters : Active(e) /\ emit[e].id # 0 => MayBeCalled(emit[e].row, emit[e].id)

(* The worker is done with one event before it goes on to the next.        *)
WorkerIsSerial == worker \in {"begin", "agents", "final"} => ~Busy(Worker)

(* The closing event gets its row from the worker, after the run's.        *)
ClosingIsLast ==
    /\ closing # 0 => /\ row[closing] # "free"
                      /\ \/ worker \in {"clear", "gone"}
                         \/ worker = "closing" /\ Active(Worker)
    /\ worker \in {"final", "closing", "clear", "gone"} => runRow \in {"finished", "stuck"}

(* Pages are shown committed events, and the cursor is the id of one that  *)
(* is not before any of them.                                              *)
OnlyKept ==
    \A p \in Pages :
        /\ shown[p] \subseteq Kept
        /\ cursor[p] = 0 \/ cursor[p] \in Kept
        /\ \A i \in shown[p] : i <= cursor[p]

(* The events still on their way to a page: those in its channel and those *)
(* about to be broadcast.                                                  *)
Sent(e) == [row |-> emit[e].row, id |-> emit[e].id]
OnTheWay(p) == {chan[p][k] : k \in 1 .. Len(chan[p])}
                   \cup {Sent(e) : e \in {f \in Emitters : emit[f].at = "broadcast"}}

(* They are committed, each comes under one id, and one that the page was  *)
(* shown already comes under an id that its cursor has reached.            *)
WayIsClear ==
    \A p \in Pages : \A x \in OnTheWay(p) :
        /\ x.row \in Kept /\ MayBeCalled(x.row, x.id)
        /\ \A y \in OnTheWay(p) : x.row = y.row => x.id = y.id
        /\ x.row \in shown[p] => x.id <= cursor[p]

(* An event that a waiting page has yet to see, and whose emission is over *)
(* and overlapped no other's, is in the page's channel if the page is      *)
(* still subscribed, and no event before it there comes under its id or a  *)
(* later one.                                                              *)
Emitted(i) == \A e \in Emitters : ~(emit[e].at = "broadcast" /\ emit[e].row = i)
Owed(p, i) == i \in Kept /\ i > cursor[p] /\ i \notin overlapped /\ Emitted(i)
IsIn(i, s) == \E k \in 1 .. Len(s) : s[k].row = i
IsBeforeLater(i, s) == \A k \in 1 .. Len(s) : s[k].id >= i => \E l \in 1 .. k : s[l].row = i
OwedIsQueued ==
    \A p \in Pages, i \in Ids : page[p] = "waiting" /\ Owed(p, i) =>
        /\ p \in subscribers => IsIn(i, chan[p])
        /\ IsBeforeLater(i, chan[p])

(* The inductive invariant.                                                *)
StreamInv ==
    /\ TypeOK /\ NothingLeftBehind
    /\ EmissionsHaveRows /\ IdsInOrder /\ LaterOverlap /\ IdsAreAhead /\ WorkerIsSerial
    /\ ClosingIsLast /\ ClosedAfterTheRow
    /\ OnlyKept /\ WayIsClear /\ OwedIsQueued /\ SkippedOnlyByOverlap

-----------------------------------------------------------------------------
(* What a page is shown                                                    *)

(* The largest of some ids has the fewest ids of the set behind it.        *)
LEMMA LargestOf ==
  ASSUME NEW b \in Nat, NEW T \in SUBSET (0 .. b), T # {}
  PROVE  Largest(T) \in T /\ \A i \in T : Largest(T) >= i
<1> SUFFICES \E c \in T : \A i \in T : c >= i
  BY Zenon DEF Largest
<1> DEFINE Behind(c) == {i \in T : i > c}
           Sets == {Behind(c) : c \in T}
<1>1. T \in SUBSET Nat
  OBVIOUS
<1>2. IsFiniteSet(T)
  BY <1>1, FS_BoundedSetOfNaturals
<1>3. IsWellFoundedOn(StrictSubsetOrdering(T), SUBSET T)
  BY <1>2, FS_StrictSubsetOrderingWellFounded, FS_FiniteSubsetsOfFinite
<1>4. Sets \subseteq SUBSET T /\ Sets # {}
  OBVIOUS
<1>5. PICK B \in Sets : \A C \in Sets : <<C, B>> \notin StrictSubsetOrdering(T)
  <2> HIDE DEF Sets
  <2> QED
    BY <1>3, <1>4, WFMin
<1>6. PICK c \in T : B = Behind(c)
  BY <1>5
<1>7. ASSUME NEW i \in T, i > c PROVE FALSE
  <2>1. ~(i > i) /\ \A j \in T : j > i => j > c
    BY <1>1, <1>7
  <2>2. Behind(i) \subseteq Behind(c) /\ i \in Behind(c) /\ i \notin Behind(i)
    BY <1>7, <2>1, Zenon
  <2>3. Behind(i) \in Sets /\ <<Behind(i), Behind(c)>> \in StrictSubsetOrdering(T)
    BY <2>2 DEF StrictSubsetOrdering
  <2> QED
    BY <1>5, <1>6, <2>3
<1> QED
  BY <1>1, <1>7

(* The cursor becomes the id the page is shown events up to.               *)
LEMMA ShowCursor ==
  ASSUME TypeOK, NEW p \in Pages, NEW batch \in SUBSET Ids, NEW upto \in 0 .. MaxEvents,
         Show(p, batch, upto)
  PROVE  /\ cursor' \in [Pages -> 0 .. MaxEvents]
         /\ cursor'[p] = upto
         /\ \A q \in Pages \ {p} : cursor'[q] = cursor[q]
BY DEF Show, TypeOK

(* A page that reads the database is shown events up to the largest id.    *)
LEMMA FlushUpto ==
  ASSUME TypeOK, NEW p \in Pages
  PROVE  LET upto == Largest(Unread(p) \cup {cursor[p]})
         IN /\ upto \in Unread(p) \cup {cursor[p]} /\ upto \in 0 .. MaxEvents
            /\ \A i \in Unread(p) \cup {cursor[p]} : i <= upto
<1> DEFINE T == Unread(p) \cup {cursor[p]}
<1>1. MaxEvents \in Nat /\ T \in SUBSET (0 .. MaxEvents) /\ T # {}
  BY StreamAssumption DEF TypeOK, Unread, Kept, Ids
<1> HIDE DEF T
<1>2. Largest(T) \in T /\ \A i \in T : Largest(T) >= i
  BY <1>1, LargestOf
<1>3. Largest(T) \in 0 .. MaxEvents /\ \A i \in T : i <= Largest(T)
  BY <1>1, <1>2
<1> QED
  BY <1>2, <1>3 DEF T

LEMMA ShowTypes ==
  ASSUME TypeOK, NEW p \in Pages, NEW batch \in SUBSET Ids, NEW upto \in 0 .. MaxEvents,
         Show(p, batch, upto)
  PROVE  /\ shown' \in [Pages -> SUBSET Ids]
         /\ cursor' \in [Pages -> 0 .. MaxEvents]
         /\ page' \in [Pages -> {"away", "subscribed", "waiting", "complete", "cut"}]
         /\ subscribers' \subseteq Local /\ chanOpen' \subseteq Local
<1>1. shown' \in [Pages -> SUBSET Ids]
  BY DEF TypeOK, Show
<1> QED
  BY <1>1, ShowCursor DEF TypeOK, Show, Unsubscribe

-----------------------------------------------------------------------------
(* Types                                                                   *)

LEMMA Bounds ==
  /\ MaxEvents \in Nat /\ Capacity \in Nat \ {0}
  /\ Ids \subseteq 0 .. MaxEvents
  /\ Worker \in Emitters /\ Agents \subseteq Emitters
BY StreamAssumption DEF Ids, Emitters

LEMMA InitTypes == Init => TypeOK
<1> SUFFICES ASSUME Init PROVE TypeOK
  OBVIOUS
<1>1. ChanTypeOK
  BY Bounds DEF Init, ChanTypeOK
<1>2. EmitTypeOK
  BY Bounds DEF Init, Idle, EmitTypeOK, Emission
<1>3. cursor \in [Pages -> 0 .. MaxEvents] /\ closing \in 0 .. MaxEvents
  BY Bounds DEF Init
<1> QED
  BY <1>1, <1>2, <1>3 DEF Init, TypeOK

(* An emission goes to its next step.                                      *)
LEMMA EmitTypes ==
  ASSUME EmitTypeOK, NEW e \in Emitters, NEW at \in {"idle", "insert", "broadcast"},
         at = "broadcast" => emit[e].at = "append" /\ emit[e].id # 0,
         \/ emit' = [emit EXCEPT ![e].at = at]
         \/ at = "idle" /\ emit' = [emit EXCEPT ![e] = Idle]
  PROVE  EmitTypeOK'
<1>1. Idle \in Emission /\ Idle.at = "idle"
  BY Bounds DEF Idle, Emission
<1>2. emit'[e] \in Emission /\ emit'[e].at = at
  BY <1>1 DEF EmitTypeOK, Emission
<1>3. \A f \in Emitters \ {e} : emit'[f] = emit[f]
  BY DEF EmitTypeOK
<1>4. emit' \in [Emitters -> Emission]
  BY <1>1, <1>2, <1>3 DEF EmitTypeOK
<1>5. emit'[e].at = "broadcast" => emit'[e].row \in Ids /\ emit'[e].id \in Ids
  BY <1>2, Bounds DEF EmitTypeOK, Emission, Ids
<1> QED
  BY <1>2, <1>3, <1>4, <1>5 DEF EmitTypeOK

LEMMA StepTypes == TypeOK /\ [Next]_vars => TypeOK'
<1> SUFFICES ASSUME TypeOK, [Next]_vars PROVE TypeOK'
  OBVIOUS
<1> USE DEF database, process, subs, pages
<1>0. EmitTypeOK /\ ChanTypeOK
  BY DEF TypeOK
<1>1. ASSUME NEW e \in Emitters, Insert(e) PROVE TypeOK'
  <2>1. PICK i \in Free : /\ row' = [row EXCEPT ![i] = "open"]
                          /\ emit' = [emit EXCEPT ![e] = [at |-> "append", row |-> i, id |-> 0]]
                          /\ closing' \in {i, closing}
                          /\ overlapped' \subseteq overlapped \cup {i} \cup
                                {emit[o].row : o \in {o \in Emitters \ {e} :
                                                     emit[o].at \in {"append", "broadcast"}}}
    BY <1>1 DEF Insert
  <2>2. [at |-> "append", row |-> i, id |-> 0] \in Emission /\ i \in Ids
    BY Bounds, <2>1 DEF Emission, Free
  <2>3. EmitTypeOK'
    BY <1>0, <2>1, <2>2 DEF EmitTypeOK
  <2>4. row' \in [Ids -> {"free", "open", "kept", "lost"}]
    BY <2>1, <2>2 DEF TypeOK
  <2>5. closing' \in 0 .. MaxEvents
    BY Bounds, <2>1, <2>2 DEF TypeOK
  <2>6. overlapped' \subseteq Ids
    BY <1>0, <2>1, <2>2 DEF TypeOK, EmitTypeOK
  <2> QED
    BY <1>1, <2>3, <2>4, <2>5, <2>6 DEF TypeOK, Insert, ChanTypeOK
<1>1a. ASSUME NEW e \in Emitters, LearnID(e) PROVE TypeOK'
  <2>1. emit[e].at = "append" /\ emit[e] \in Emission /\ emit[e].row \in Ids
    BY <1>0, <1>1a DEF LearnID, EmitTypeOK
  <2>2. PICK known : /\ known = Largest(Kept \cup {emit[e].row})
                     /\ emit' = [emit EXCEPT ![e].id = known]
    BY <1>1a DEF LearnID
  <2>3. known \in 0 .. MaxEvents
    <3>1. Kept \cup {emit[e].row} \in SUBSET (0 .. MaxEvents)
      BY <2>1, Bounds DEF Kept
    <3> QED
      BY <2>2, <3>1, LargestOf, Bounds
  <2>4. EmitTypeOK'
    BY <1>0, <2>1, <2>2, <2>3 DEF EmitTypeOK, Emission
  <2> QED
    BY <1>1a, <2>4 DEF TypeOK, LearnID, ChanTypeOK
<1>2. ASSUME NEW e \in Emitters, Commit(e) PROVE TypeOK'
  <2>1. EmitTypeOK'
    BY <1>0, <1>2, EmitTypes DEF Commit
  <2> QED
    BY <1>2, <2>1 DEF TypeOK, Commit, ChanTypeOK
<1>3. ASSUME NEW e \in Emitters, AppendFails(e) PROVE TypeOK'
  <2>1. EmitTypeOK'
    BY <1>0, <1>3, EmitTypes DEF AppendFails
  <2> QED
    BY <1>3, <2>1 DEF TypeOK, AppendFails, Proceed, ChanTypeOK
<1>4. ASSUME NEW e \in Emitters, Broadcast(e) PROVE TypeOK'
  <2>1. EmitTypeOK'
    BY <1>0, <1>4, EmitTypes DEF Broadcast
  <2>2. ASSUME NEW p \in Pages PROVE chan'[p] \in Seq(RunEvent) /\ Len(chan'[p]) <= Capacity
    <3> DEFINE event == [row |-> emit[e].row, id |-> emit[e].id]
    <3>1. event \in RunEvent /\ chan[p] \in Seq(RunEvent) /\ Len(chan[p]) \in Nat
      <4>1. emit[e].row \in Ids /\ emit[e].id \in Ids
        BY <1>0, <1>4 DEF Broadcast, EmitTypeOK
      <4>2. event \in RunEvent
        BY <4>1 DEF RunEvent
      <4>3. chan[p] \in Seq(RunEvent)
        BY <1>0 DEF ChanTypeOK
      <4>4. Len(chan[p]) \in Nat
        BY <4>3, LenProperties
      <4> QED
        BY <4>2, <4>3, <4>4
    <3>2. CASE p \in subscribers \ Full
      <4>1. chan'[p] = Append(chan[p], event) /\ ~(Len(chan[p]) >= Capacity)
        BY <1>4, <3>2 DEF Broadcast, Full
      <4> HIDE DEF event
      <4> QED
        BY <3>1, <4>1, AppendProperties, Bounds
    <3>3. CASE p \notin subscribers \ Full
      BY <1>0, <1>4, <3>3 DEF Broadcast, ChanTypeOK
    <3> QED
      BY <3>2, <3>3
  <2>3. ChanTypeOK'
    <3>1. chan' = [p \in Pages |-> chan'[p]]
      BY <1>4 DEF Broadcast
    <3> QED
      BY <2>2, <3>1 DEF ChanTypeOK
  <2> QED
    BY <1>4, <2>1, <2>3 DEF TypeOK, Broadcast, Proceed
<1>5. ASSUME NEW a \in Agents, NEW lifecycle \in BOOLEAN, EmitStep(a, lifecycle) PROVE TypeOK'
  <2>1. EmitTypeOK'
    BY <1>0, <1>5, Bounds, EmitTypes DEF EmitStep, Enter
  <2> QED
    BY <1>5, <2>1 DEF TypeOK, EmitStep, ChanTypeOK
<1>6. CASE EmitStarted \/ EmitFinal
  <2>1. EmitTypeOK'
    BY <1>0, <1>6, Bounds, EmitTypes DEF EmitStarted, EmitFinal, Enter
  <2> QED
    BY <1>6, <2>1 DEF TypeOK, EmitStarted, EmitFinal, ChanTypeOK
<1>7. ASSUME NEW p \in Pages, Receive(p) PROVE TypeOK'
  <2>1. chan[p] \in Seq(RunEvent) /\ chan[p] # << >>
    BY <1>0, <1>7 DEF Receive, ChanTypeOK
  <2>2. Head(chan[p]) \in RunEvent /\ Tail(chan[p]) \in Seq(RunEvent)
        /\ Len(Tail(chan[p])) <= Len(chan[p])
    BY <2>1, HeadTailProperties
  <2>3. chan' = [chan EXCEPT ![p] = Tail(chan[p])]
    BY <1>7 DEF Receive
  <2>4. ChanTypeOK'
    BY <1>0, <2>1, <2>2, <2>3, Bounds DEF ChanTypeOK
  <2>5. CASE Show(p, {Head(chan[p]).row}, Head(chan[p]).id)
    <3>1. {Head(chan[p]).row} \in SUBSET Ids /\ Head(chan[p]).id \in 0 .. MaxEvents
      BY <2>2, Bounds DEF RunEvent
    <3> QED
      BY <1>7, <2>4, <2>5, <3>1, ShowTypes DEF TypeOK, Receive, EmitTypeOK
  <2>6. CASE UNCHANGED <<shown, cursor, page, subscribers, chanOpen>>
    BY <1>7, <2>4, <2>6 DEF TypeOK, Receive, EmitTypeOK
  <2> QED
    BY <1>7, <2>5, <2>6 DEF Receive
<1>8. ASSUME NEW p \in Pages, Flush(p) PROVE TypeOK'
  <2>1. PICK upto \in 0 .. MaxEvents : Show(p, Unread(p), upto)
    BY <1>8, FlushUpto DEF Flush
  <2>2. Unread(p) \in SUBSET Ids
    BY DEF Unread, Kept
  <2> QED
    BY <1>8, <2>1, <2>2, ShowTypes DEF TypeOK, Flush, EmitTypeOK, ChanTypeOK
<1>9. ASSUME NEW p \in Pages, Subscribe(p) \/ ChannelClosed(p) \/ Leave(p) PROVE TypeOK'
  BY <1>9 DEF TypeOK, Subscribe, ChannelClosed, Leave, Unsubscribe, EmitTypeOK, ChanTypeOK
<1>10. ASSUME NEW still \in SUBSET Agents, FinishRun(still) PROVE TypeOK'
  BY <1>10 DEF TypeOK, FinishRun, EmitTypeOK, ChanTypeOK
<1>11. ASSUME NEW a \in Agents, Stop(a) PROVE TypeOK'
  BY <1>11 DEF TypeOK, Stop, EmitTypeOK, ChanTypeOK
<1>12. CASE WindowPasses \/ ClearLive
  BY <1>12 DEF TypeOK, WindowPasses, ClearLive, EmitTypeOK, ChanTypeOK
<1>13. CASE UNCHANGED vars
  BY <1>13 DEF vars, TypeOK, EmitTypeOK, ChanTypeOK
<1> QED
  BY <1>1, <1>1a, <1>2, <1>3, <1>4, <1>5, <1>6, <1>7, <1>8, <1>9, <1>10, <1>11, <1>12, <1>13
     DEF Next, EmitterNext, AgentNext, PageNext, WorkerNext

(* A variable of the model has a value of its type (emitRunEvent,          *)
(* SubscribeRun, waitForRunTerminal): no channel holds more than its       *)
(* capacity, and an event is sent under the id of a row.                   *)
THEOREM TypeCorrect == Spec => []TypeOK
BY InitTypes, StepTypes, PTL DEF Spec

-----------------------------------------------------------------------------
(* The table of subscribers                                                *)

LEMMA InitSubscribers == Init => NothingLeftBehind
BY DEF Init, NothingLeftBehind

LEMMA StepSubscribers == TypeOK /\ NothingLeftBehind /\ [Next]_vars => NothingLeftBehind'
<1> SUFFICES ASSUME TypeOK, NothingLeftBehind, [Next]_vars PROVE NothingLeftBehind'
  OBVIOUS
<1> USE DEF database, process, subs, pages
<1>0. subscribers \subseteq Pages /\ page \in [Pages -> {"away", "subscribed", "waiting", "complete", "cut"}]
  BY StreamAssumption DEF TypeOK
<1>1. ASSUME NEW e \in Emitters, Broadcast(e) PROVE NothingLeftBehind'
  BY <1>1 DEF NothingLeftBehind, Broadcast
<1>2. ASSUME NEW p \in Pages, Subscribe(p) PROVE NothingLeftBehind'
  BY <1>0, <1>2 DEF NothingLeftBehind, Subscribe
<1>3. ASSUME NEW p \in Pages, ChannelClosed(p) \/ Leave(p) PROVE NothingLeftBehind'
  BY <1>0, <1>3 DEF NothingLeftBehind, ChannelClosed, Leave, Unsubscribe
<1>4. ASSUME NEW p \in Pages, NEW batch, NEW upto, Show(p, batch, upto) PROVE NothingLeftBehind'
  BY <1>0, <1>4 DEF NothingLeftBehind, Show, Unsubscribe
<1>5. CASE UNCHANGED <<subscribers, chanOpen, page>>
  BY <1>5 DEF NothingLeftBehind
<1> QED
  BY <1>1, <1>2, <1>3, <1>4, <1>5
     DEF Next, EmitterNext, AgentNext, PageNext, WorkerNext, Insert, LearnID, Commit, AppendFails, EmitStep,
         Stop, Flush, Receive, EmitStarted, FinishRun, EmitFinal, ClearLive, WindowPasses, vars

(* The table of subscribers holds exactly the open channels, and no page   *)
(* that returned: no broadcast sends on a closed channel and no channel is *)
(* closed twice (run_runtime.go:455-493).                                  *)
THEOREM SubscribersAreOpen == Spec => []NothingLeftBehind
BY InitTypes, StepTypes, InitSubscribers, StepSubscribers, PTL DEF Spec

-----------------------------------------------------------------------------
(* Emissions                                                               *)

EmissionInv == EmissionsHaveRows /\ IdsInOrder /\ LaterOverlap /\ IdsAreAhead

LEMMA InitEmissions == Init => EmissionInv
BY DEF Init, Idle, EmissionInv, EmissionsHaveRows, IdsInOrder, LaterOverlap, IdsAreAhead, Active

(* A step that neither inserts nor ends an emission.                       *)
LEMMA QuietEmissions ==
  ASSUME EmissionInv, row' = row, overlapped' = overlapped,
         \A e \in Emitters : Active(e)' => emit'[e] = emit[e]
  PROVE  EmissionInv'
<1>1. \A e \in Emitters : Active(e)' => Active(e)
  BY DEF Active
<1> QED
  BY <1>1 DEF EmissionInv, EmissionsHaveRows, IdsInOrder, LaterOverlap, IdsAreAhead, MayBeCalled,
              Kept

LEMMA StepEmissions == TypeOK /\ EmissionInv /\ [Next]_vars => EmissionInv'
<1> SUFFICES ASSUME TypeOK, EmissionInv, [Next]_vars PROVE EmissionInv'
  OBVIOUS
<1> USE DEF database, process, subs, pages
<1>0. /\ \A e \in Emitters : Active(e) => emit[e].row \in Ids
      /\ emit \in [Emitters -> Emission] /\ row \in [Ids -> {"free", "open", "kept", "lost"}]
      /\ Ids \subseteq Nat
  BY Bounds DEF TypeOK, EmitTypeOK, Active
<1>1. ASSUME NEW e \in Emitters, Insert(e) PROVE EmissionInv'
  <2>1. PICK i \in Free : /\ \A j \in Free : i <= j
                          /\ row' = [row EXCEPT ![i] = "open"]
                          /\ emit' = [emit EXCEPT ![e] = [at |-> "append", row |-> i, id |-> 0]]
                          /\ \A f \in Emitters \ {e} : Active(f) => {emit[f].row, i} \subseteq overlapped'
                          /\ overlapped \subseteq overlapped'
    <3> DEFINE others == {emit[o].row : o \in {o \in Emitters \ {e} :
                                              emit[o].at \in {"append", "broadcast"}}}
    <3>1. PICK i \in Free : /\ \A j \in Free : i <= j
                            /\ row' = [row EXCEPT ![i] = "open"]
                            /\ emit' = [emit EXCEPT ![e] = [at |-> "append", row |-> i, id |-> 0]]
                            /\ overlapped' = IF others = {} THEN overlapped
                                             ELSE overlapped \cup others \cup {i}
      BY <1>1 DEF Insert
    <3>2. \A f \in Emitters \ {e} : Active(f) => emit[f].row \in others
      BY DEF Active
    <3> HIDE DEF others
    <3>3. overlapped \subseteq overlapped'
      BY <3>1
    <3>4. \A f \in Emitters \ {e} : Active(f) => {emit[f].row, i} \subseteq overlapped'
      BY <3>1, <3>2
    <3> QED
      BY <3>1, <3>3, <3>4
  <2>2. i \in Ids /\ row[i] = "free" /\ row'[i] = "open" /\ \A j \in Ids \ {i} : row'[j] = row[j]
    BY <1>0, <2>1 DEF Free
  <2>3. /\ emit'[e] = [at |-> "append", row |-> i, id |-> 0]
        /\ \A f \in Emitters \ {e} : emit'[f] = emit[f] /\ (Active(f) => emit[f].row # i)
    BY <1>0, <2>1, <2>2 DEF EmissionInv, EmissionsHaveRows, Active
  <2>4. EmissionsHaveRows'
    <3>1. ASSUME NEW f \in Emitters, Active(f)', f # e
          PROVE  /\ row'[emit'[f].row] = IF emit'[f].at = "append" THEN "open" ELSE "kept"
                 /\ emit'[f].row # i
      <4>1. Active(f) /\ emit'[f] = emit[f] /\ emit[f].row \in Ids \ {i}
        BY <1>0, <2>3, <3>1 DEF Active
      <4>2. row[emit[f].row] = IF emit[f].at = "append" THEN "open" ELSE "kept"
        BY <4>1 DEF EmissionInv, EmissionsHaveRows
      <4> QED
        BY <2>2, <4>1, <4>2
    <3>2. ASSUME NEW f \in Emitters, NEW g \in Emitters, f # g, Active(f)', Active(g)'
          PROVE  emit'[f].row # emit'[g].row
      BY <2>3, <3>1, <3>2 DEF EmissionInv, EmissionsHaveRows, Active
    <3>3. row'[emit'[e].row] = "open" /\ emit'[e].at = "append"
      BY <2>2, <2>3
    <3> QED
      BY <3>1, <3>2, <3>3 DEF EmissionsHaveRows
  <2>5. \A j \in Ids : row[j] = "free" => i <= j
    BY <2>1 DEF Free
  <2>6. IdsInOrder'
    BY <1>0, <2>2, <2>5 DEF EmissionInv, IdsInOrder
  <2>7. LaterOverlap'
    <3> SUFFICES ASSUME NEW f \in Emitters, NEW j \in Ids,
                        Active(f)', emit'[f].row < j, row'[j] # "free"
                 PROVE  {emit'[f].row, j} \subseteq overlapped'
      BY DEF LaterOverlap
    <3>1. CASE f = e
      <4>1. i < j /\ row[j] # "free"
        BY <1>0, <2>2, <2>3, <3>1
      <4> QED
        BY <2>2, <4>1 DEF EmissionInv, IdsInOrder
    <3>2. CASE f # e /\ j = i
      BY <2>1, <2>3, <3>2 DEF Active
    <3>3. CASE f # e /\ j # i
      BY <2>1, <2>2, <2>3, <3>3 DEF Active, EmissionInv, LaterOverlap
    <3> QED
      BY <3>1, <3>2, <3>3
  <2>8. IdsAreAhead'
    <3>1. Kept \subseteq Kept'
      BY <1>0, <2>1, <2>2 DEF Kept
    <3>2. \A f \in Emitters \ {e} : Active(f)' => Active(f) /\ emit'[f] = emit[f]
      BY <2>3 DEF Active
    <3>3. emit'[e].id = 0
      BY <2>3
    <3>4. ASSUME NEW f \in Emitters, Active(f)', emit'[f].id # 0
          PROVE  MayBeCalled(emit[f].row, emit[f].id)' /\ emit'[f] = emit[f]
      <4>1. f # e /\ Active(f) /\ emit'[f] = emit[f]
        BY <3>2, <3>3, <3>4
      <4>2. MayBeCalled(emit[f].row, emit[f].id)
        BY <3>4, <4>1 DEF EmissionInv, IdsAreAhead
      <4> QED
        BY <2>1, <3>1, <4>1, <4>2 DEF MayBeCalled
    <3> QED
      BY <3>4 DEF IdsAreAhead
  <2> QED
    BY <2>4, <2>6, <2>7, <2>8 DEF EmissionInv
<1>1a. ASSUME NEW e \in Emitters, LearnID(e) PROVE EmissionInv'
  <2> DEFINE i == emit[e].row
  <2>1. Active(e) /\ i \in Ids /\ row[i] = "open" /\ emit[e].at = "append"
    BY <1>0, <1>1a DEF LearnID, Active, EmissionInv, EmissionsHaveRows
  <2>2. PICK known : /\ known = Largest(Kept \cup {i})
                     /\ emit' = [emit EXCEPT ![e].id = known]
    BY <1>1a DEF LearnID
  <2>3. MaxEvents \in Nat /\ Kept \cup {i} \in SUBSET (0 .. MaxEvents)
    BY <2>1, Bounds DEF Kept
  <2>4. known \in Kept \cup {i} /\ \A j \in Kept \cup {i} : known >= j
    BY <2>2, <2>3, LargestOf
  <2>5. MayBeCalled(i, known)
    <3>1. known # i => known \in Ids /\ row[known] # "free" /\ i < known
      BY <1>0, <2>1, <2>3, <2>4 DEF Kept
    <3> QED
      BY <2>1, <2>4, <3>1 DEF MayBeCalled, EmissionInv, LaterOverlap
  <2>6. /\ emit'[e].row = i /\ emit'[e].at = "append" /\ emit'[e].id = known
        /\ \A f \in Emitters \ {e} : emit'[f] = emit[f]
    BY <1>0, <2>1, <2>2 DEF Emission
  <2>7. \A f \in Emitters : emit'[f].row = emit[f].row /\ emit'[f].at = emit[f].at
    BY <2>1, <2>6
  <2>8. UNCHANGED <<row, overlapped>>
    BY <1>1a DEF LearnID
  <2>9. EmissionsHaveRows' /\ IdsInOrder' /\ LaterOverlap'
    BY <2>7, <2>8 DEF EmissionInv, EmissionsHaveRows, IdsInOrder, LaterOverlap, Active
  <2>10. IdsAreAhead'
    <3>1. \A f \in Emitters \ {e} : Active(f) /\ emit[f].id # 0 => MayBeCalled(emit[f].row, emit[f].id)
      BY DEF EmissionInv, IdsAreAhead
    <3> QED
      BY <2>5, <2>6, <2>8, <3>1 DEF IdsAreAhead, Active, MayBeCalled, Kept
  <2> QED
    BY <2>9, <2>10 DEF EmissionInv
<1>2. ASSUME NEW e \in Emitters, Commit(e) PROVE EmissionInv'
  <2>1. /\ Active(e) /\ emit[e].row \in Ids
        /\ row'[emit[e].row] = "kept" /\ row[emit[e].row] = "open"
        /\ \A j \in Ids \ {emit[e].row} : row'[j] = row[j]
        /\ emit'[e].at = "broadcast" /\ emit'[e].row = emit[e].row /\ emit'[e].id = emit[e].id
        /\ \A f \in Emitters \ {e} : emit'[f] = emit[f]
    BY <1>0, <1>2 DEF Commit, Active, EmissionInv, EmissionsHaveRows, Emission
  <2>2. EmissionsHaveRows'
    <3>1. \A f \in Emitters \ {e} : Active(f) => emit[f].row \in Ids \ {emit[e].row}
      BY <1>0, <2>1 DEF EmissionInv, EmissionsHaveRows
    <3>2. \A f \in Emitters \ {e} : Active(f)' <=> Active(f)
      BY <2>1 DEF Active
    <3>3. \A f \in Emitters \ {e} : Active(f) =>
             row'[emit'[f].row] = IF emit'[f].at = "append" THEN "open" ELSE "kept"
      BY <2>1, <3>1 DEF EmissionInv, EmissionsHaveRows
    <3>4. \A f \in Emitters \ {e}, g \in Emitters \ {e} :
             Active(f) /\ Active(g) /\ f # g => emit'[f].row # emit'[g].row
      BY <2>1 DEF EmissionInv, EmissionsHaveRows
    <3> QED
      BY <2>1, <3>1, <3>2, <3>3, <3>4 DEF EmissionsHaveRows, Active
  <2>3. IdsInOrder'
    BY <2>1 DEF EmissionInv, IdsInOrder
  <2>4. LaterOverlap'
    BY <1>2, <2>1 DEF EmissionInv, LaterOverlap, Active, Commit
  <2>5. IdsAreAhead'
    <3>1. Kept \subseteq Kept' /\ overlapped' = overlapped
      BY <1>0, <1>2, <2>1 DEF Commit, Kept
    <3>2. ASSUME NEW f \in Emitters, Active(f)', emit'[f].id # 0
          PROVE  MayBeCalled(emit[f].row, emit[f].id)'
      <4>1. Active(f) /\ emit'[f].row = emit[f].row /\ emit'[f].id = emit[f].id
        BY <2>1, <3>2 DEF Active
      <4>2. MayBeCalled(emit[f].row, emit[f].id)
        BY <3>2, <4>1 DEF EmissionInv, IdsAreAhead
      <4> QED
        BY <3>1, <4>1, <4>2 DEF MayBeCalled
    <3> QED
      BY <3>2 DEF IdsAreAhead
  <2> QED
    BY <2>2, <2>3, <2>4, <2>5 DEF EmissionInv
<1>3. ASSUME NEW e \in Emitters, AppendFails(e) PROVE EmissionInv'
  <2>1. /\ Active(e) /\ emit[e].row \in Ids
        /\ row'[emit[e].row] = "lost" /\ row[emit[e].row] = "open"
        /\ \A j \in Ids \ {emit[e].row} : row'[j] = row[j]
        /\ emit'[e].at = "idle"
        /\ \A f \in Emitters \ {e} : emit'[f] = emit[f]
    BY <1>0, <1>3 DEF AppendFails, Active, EmissionInv, EmissionsHaveRows, Idle
  <2>2. EmissionsHaveRows'
    <3>1. \A f \in Emitters \ {e} : Active(f) => emit[f].row \in Ids \ {emit[e].row}
      BY <1>0, <2>1 DEF EmissionInv, EmissionsHaveRows
    <3>2. \A f \in Emitters \ {e} : Active(f)' <=> Active(f)
      BY <2>1 DEF Active
    <3>3. \A f \in Emitters \ {e} : Active(f) =>
             row'[emit'[f].row] = IF emit'[f].at = "append" THEN "open" ELSE "kept"
      BY <2>1, <3>1 DEF EmissionInv, EmissionsHaveRows
    <3>4. \A f \in Emitters \ {e}, g \in Emitters \ {e} :
             Active(f) /\ Active(g) /\ f # g => emit'[f].row # emit'[g].row
      BY <2>1 DEF EmissionInv, EmissionsHaveRows
    <3> QED
      BY <2>1, <3>1, <3>2, <3>3, <3>4 DEF EmissionsHaveRows, Active
  <2>3. IdsInOrder'
    BY <2>1 DEF EmissionInv, IdsInOrder
  <2>4. LaterOverlap'
    BY <1>3, <2>1 DEF EmissionInv, LaterOverlap, Active, AppendFails
  <2>5. IdsAreAhead'
    <3>1. Kept \subseteq Kept' /\ overlapped' = overlapped
      BY <1>0, <1>3, <2>1 DEF AppendFails, Kept
    <3>2. ASSUME NEW f \in Emitters, Active(f)', emit'[f].id # 0
          PROVE  MayBeCalled(emit[f].row, emit[f].id)'
      <4>1. Active(f) /\ emit'[f].row = emit[f].row /\ emit'[f].id = emit[f].id
        BY <2>1, <3>2 DEF Active
      <4>2. MayBeCalled(emit[f].row, emit[f].id)
        BY <3>2, <4>1 DEF EmissionInv, IdsAreAhead
      <4> QED
        BY <3>1, <4>1, <4>2 DEF MayBeCalled
    <3> QED
      BY <3>2 DEF IdsAreAhead
  <2> QED
    BY <2>2, <2>3, <2>4, <2>5 DEF EmissionInv
<1>4. ASSUME NEW e \in Emitters, Broadcast(e) PROVE EmissionInv'
  BY <1>0, <1>4, QuietEmissions DEF Broadcast, Active, Idle
<1>5. ASSUME NEW e \in Emitters, Enter(e), UNCHANGED <<row, overlapped>> PROVE EmissionInv'
  BY <1>0, <1>5, QuietEmissions DEF Enter, Active, Emission
<1>6. CASE UNCHANGED <<row, emit, overlapped>>
  BY <1>6, QuietEmissions
<1> QED
  BY <1>1, <1>1a, <1>2, <1>3, <1>4, <1>5, <1>6, Bounds
     DEF Next, EmitterNext, AgentNext, PageNext, WorkerNext, EmitStep, Stop, Subscribe, Flush,
         Receive, ChannelClosed, Leave, EmitStarted, FinishRun, EmitFinal, ClearLive, WindowPasses,
         vars

LEMMA InitSerial == Init => WorkerIsSerial
BY Bounds DEF Init, Idle, WorkerIsSerial, Busy

LEMMA StepSerial == TypeOK /\ WorkerIsSerial /\ [Next]_vars => WorkerIsSerial'
<1> SUFFICES ASSUME TypeOK, WorkerIsSerial, [Next]_vars PROVE WorkerIsSerial'
  OBVIOUS
<1> USE DEF database, process, subs, pages
<1>0. emit \in [Emitters -> Emission] /\ Worker \in Emitters /\ Worker \notin Agents
  BY Bounds, StreamAssumption DEF TypeOK, EmitTypeOK
<1>1. ASSUME NEW e \in Emitters, EmitterNext(e) PROVE WorkerIsSerial'
  BY <1>0, <1>1 DEF EmitterNext, Insert, LearnID, Commit, AppendFails, Broadcast, Proceed, Idle,
                    Busy,
                    WorkerIsSerial
<1>2. ASSUME NEW a \in Agents, AgentNext(a) PROVE WorkerIsSerial'
  BY <1>0, <1>2 DEF AgentNext, EmitStep, Enter, Stop, Busy, WorkerIsSerial
<1>3. CASE WorkerNext
  BY <1>0, <1>3 DEF WorkerNext, EmitStarted, FinishRun, EmitFinal, ClearLive, Enter, Busy,
                    WorkerIsSerial
<1>4. CASE UNCHANGED process
  BY <1>4 DEF Busy, WorkerIsSerial
<1> QED
  BY <1>1, <1>2, <1>3, <1>4
     DEF Next, PageNext, Subscribe, Flush, Receive, ChannelClosed, Leave, WindowPasses, vars,
         Busy, WorkerIsSerial

LEMMA KeptStays == TypeOK /\ EmissionInv /\ [Next]_vars => Kept \subseteq Kept'
<1> SUFFICES ASSUME TypeOK, EmissionInv, [Next]_vars PROVE Kept \subseteq Kept'
  OBVIOUS
<1> USE DEF database, process, subs, pages
<1>0. row \in [Ids -> {"free", "open", "kept", "lost"}]
  BY DEF TypeOK
<1>1. ASSUME NEW e \in Emitters, Insert(e) PROVE Kept \subseteq Kept'
  BY <1>0, <1>1 DEF Insert, Kept, Free
<1>2. ASSUME NEW e \in Emitters, Commit(e) PROVE Kept \subseteq Kept'
  BY <1>0, <1>2 DEF Commit, Kept
<1>3. ASSUME NEW e \in Emitters, AppendFails(e) PROVE Kept \subseteq Kept'
  <2>1. row[emit[e].row] = "open"
    BY <1>3 DEF AppendFails, EmissionInv, EmissionsHaveRows, Active
  <2> QED
    BY <1>0, <1>3, <2>1 DEF AppendFails, Kept
<1>4. CASE UNCHANGED row
  BY <1>4 DEF Kept
<1> QED
  BY <1>1, <1>2, <1>3, <1>4
     DEF Next, EmitterNext, AgentNext, PageNext, WorkerNext, LearnID, Broadcast, EmitStep, Stop, Subscribe,
         Flush, Receive, ChannelClosed, Leave, EmitStarted, FinishRun, EmitFinal, ClearLive,
         WindowPasses, vars

-----------------------------------------------------------------------------
(* The end of the run                                                      *)

EndInv == ClosingIsLast /\ ClosedAfterTheRow

LEMMA InitEnd == Init => EndInv
BY DEF Init, EndInv, ClosingIsLast, ClosedAfterTheRow

(* The row of the run is written before the closing event has an id, and a *)
(* page completes only with that.                                          *)
LEMMA ShowEnd ==
  ASSUME TypeOK, EndInv, NEW p \in Pages, NEW batch \in SUBSET Ids, NEW upto,
         Show(p, batch, upto),
         UNCHANGED <<database, process>>
  PROVE  EndInv'
<1>1. ClosingIsLast'
  BY DEF EndInv, ClosingIsLast, Active, database, process
<1>2. closing \in batch => runRow \in {"finished", "stuck"}
  BY Bounds DEF EndInv, ClosingIsLast, Ids
<1>3. \A q \in Pages : page'[q] = "complete" => page[q] = "complete" \/ closing \in batch
  BY DEF TypeOK, Show
<1> QED
  BY <1>1, <1>2, <1>3 DEF EndInv, ClosedAfterTheRow, database

LEMMA StepEnd == TypeOK /\ EmissionInv /\ EndInv /\ [Next]_vars => EndInv'
<1> SUFFICES ASSUME TypeOK, EmissionInv, EndInv, [Next]_vars PROVE EndInv'
  OBVIOUS
<1>0. /\ emit \in [Emitters -> Emission] /\ row \in [Ids -> {"free", "open", "kept", "lost"}]
      /\ closing # 0 => closing \in Ids
      /\ Worker \in Emitters /\ Worker \notin Agents
  BY Bounds, StreamAssumption DEF TypeOK, EmitTypeOK, Ids
<1>1. ASSUME NEW e \in Emitters, Insert(e) PROVE EndInv'
  BY <1>0, <1>1 DEF Insert, EndInv, ClosingIsLast, ClosedAfterTheRow, Active, Free, subs, pages
<1>1a. ASSUME NEW e \in Emitters, LearnID(e) PROVE EndInv'
  <2>1. \A f \in Emitters : emit'[f].at = emit[f].at
    BY <1>0, <1>1a DEF LearnID, Emission
  <2> QED
    BY <1>0, <1>1a, <2>1 DEF LearnID, EndInv, ClosingIsLast, ClosedAfterTheRow, Active, database,
                             subs, pages
<1>2. ASSUME NEW e \in Emitters, Commit(e) PROVE EndInv'
  BY <1>0, <1>2 DEF Commit, EndInv, ClosingIsLast, ClosedAfterTheRow, Active, subs, pages
<1>3. ASSUME NEW e \in Emitters, AppendFails(e) PROVE EndInv'
  BY <1>0, <1>3 DEF AppendFails, Proceed, EndInv, ClosingIsLast, ClosedAfterTheRow, Active, Idle,
                    subs, pages
<1>4. ASSUME NEW e \in Emitters, Broadcast(e) PROVE EndInv'
  BY <1>0, <1>4 DEF Broadcast, Proceed, EndInv, ClosingIsLast, ClosedAfterTheRow, Active, Idle,
                    database, pages
<1>5. ASSUME NEW a \in Agents, NEW lifecycle \in BOOLEAN, EmitStep(a, lifecycle) PROVE EndInv'
  BY <1>0, <1>5 DEF EmitStep, Enter, EndInv, ClosingIsLast, ClosedAfterTheRow, Active,
                    database, subs, pages
<1>6. CASE EmitStarted \/ EmitFinal
  BY <1>0, <1>6 DEF EmitStarted, EmitFinal, Enter, EndInv, ClosingIsLast, ClosedAfterTheRow, Active,
                    database, subs, pages
<1>7. ASSUME NEW still \in SUBSET Agents, FinishRun(still) PROVE EndInv'
  BY <1>0, <1>7 DEF FinishRun, EndInv, ClosingIsLast, ClosedAfterTheRow, Active, subs, pages
<1>8. ASSUME NEW p \in Pages, Flush(p) PROVE EndInv'
  BY <1>8, ShowEnd DEF Flush, Unread, Kept
<1>9. ASSUME NEW p \in Pages, Receive(p) PROVE EndInv'
  <2>1. Head(chan[p]).row \in Ids /\ UNCHANGED <<database, process>>
    <3>1. chan[p] \in Seq(RunEvent) /\ chan[p] # << >>
      BY <1>9 DEF Receive, TypeOK, ChanTypeOK
    <3>2. Head(chan[p]) \in RunEvent
      BY <3>1, HeadTailProperties
    <3> QED
      BY <1>9, <3>2 DEF Receive, RunEvent
  <2>2. CASE Show(p, {Head(chan[p]).row}, Head(chan[p]).id)
    BY <2>1, <2>2, ShowEnd
  <2>3. CASE UNCHANGED page
    BY <2>1, <2>3 DEF EndInv, ClosingIsLast, ClosedAfterTheRow, Active, database, process
  <2> QED
    BY <1>9, <2>2, <2>3 DEF Receive
<1>10. ASSUME NEW p \in Pages, Subscribe(p) \/ ChannelClosed(p) \/ Leave(p) PROVE EndInv'
  BY <1>10 DEF Subscribe, ChannelClosed, Leave, EndInv, ClosingIsLast, ClosedAfterTheRow, Active,
               TypeOK, database, process
<1>11. CASE ClearLive
  BY <1>11 DEF ClearLive, EndInv, ClosingIsLast, ClosedAfterTheRow, Active, database, subs, pages
<1>12. CASE UNCHANGED <<row, runRow, worker, emit, closing, page>>
  BY <1>12 DEF EndInv, ClosingIsLast, ClosedAfterTheRow, Active
<1>13. ASSUME NEW a \in Agents, Stop(a) PROVE UNCHANGED <<row, runRow, worker, emit, closing, page>>
  BY <1>13 DEF Stop, database, pages
<1>14. CASE WindowPasses \/ UNCHANGED vars
  BY <1>12, <1>14 DEF WindowPasses, vars, database, pages
<1> QED
  BY <1>1, <1>1a, <1>2, <1>3, <1>4, <1>5, <1>6, <1>7, <1>8, <1>9, <1>10, <1>11, <1>12, <1>13, <1>14
     DEF Next, EmitterNext, AgentNext, PageNext, WorkerNext

(* A page that was shown the closing event finds the row of the run        *)
(* written, or its write has failed (run_runtime.go:189-193).              *)
THEOREM RowBeforeClosing == Spec => []ClosedAfterTheRow
<1> DEFINE Inv == TypeOK /\ EmissionInv /\ EndInv
<1>1. Init => Inv
  BY InitTypes, InitEmissions, InitEnd
<1>2. Inv /\ [Next]_vars => Inv'
  BY StepTypes, StepEmissions, StepEnd
<1>3. Inv => ClosedAfterTheRow
  BY DEF EndInv
<1> QED
  BY <1>1, <1>2, <1>3, PTL DEF Spec

-----------------------------------------------------------------------------
(* What the pages see                                                      *)

LEMMA InitPages == Init => OnlyKept /\ WayIsClear /\ OwedIsQueued /\ SkippedOnlyByOverlap
BY DEF Init, OnlyKept, WayIsClear, OnTheWay, Idle, OwedIsQueued, SkippedOnlyByOverlap, Kept

(* An event that a page receives is on the way to it.                      *)
LEMMA HeadIsOnTheWay ==
  ASSUME TypeOK, WayIsClear, NEW p \in Pages, chan[p] # << >>
  PROVE  LET x == Head(chan[p])
         IN /\ x = chan[p][1] /\ 1 \in 1 .. Len(chan[p]) /\ x \in OnTheWay(p)
            /\ x \in RunEvent /\ x.row \in Kept /\ x.id \in Kept /\ x.id >= x.row
            /\ x.id # x.row => x.row \in overlapped
            /\ x.row \in shown[p] => x.id <= cursor[p]
<1>1. chan[p] \in Seq(RunEvent)
  BY DEF TypeOK, ChanTypeOK
<1>2. Head(chan[p]) = chan[p][1] /\ 1 \in 1 .. Len(chan[p]) /\ Head(chan[p]) \in RunEvent
  BY <1>1, HeadTailProperties
<1>3. Head(chan[p]) \in OnTheWay(p)
  BY <1>2 DEF OnTheWay
<1> DEFINE x == Head(chan[p])
<1>4. x.row \in Kept /\ MayBeCalled(x.row, x.id) /\ (x.row \in shown[p] => x.id <= cursor[p])
  BY <1>3 DEF WayIsClear
<1> QED
  BY <1>2, <1>3, <1>4 DEF MayBeCalled

(* What a page is shown, from the database or from its channel.            *)
ShownTo(p, batch, upto) ==
    /\ batch \in SUBSET Kept /\ upto \in Kept \cup {cursor[p]}
    /\ cursor[p] <= upto /\ \A i \in batch : i <= upto
    /\ Show(p, batch, upto) /\ UNCHANGED <<database, process, overlapped>>

LEMMA FlushShows ==
  ASSUME TypeOK, NEW p \in Pages, Flush(p)
  PROVE  /\ ShownTo(p, Unread(p), cursor'[p]) /\ UNCHANGED chan
         /\ \A i \in Kept : i <= cursor'[p]
<1> DEFINE upto == Largest(Unread(p) \cup {cursor[p]})
<1>1. /\ upto \in Unread(p) \cup {cursor[p]} /\ upto \in 0 .. MaxEvents
      /\ \A i \in Unread(p) \cup {cursor[p]} : i <= upto
  BY FlushUpto
<1>2. Show(p, Unread(p), upto) /\ UNCHANGED <<database, process, overlapped, chan>>
  BY DEF Flush
<1> HIDE DEF upto
<1>3. Unread(p) \in SUBSET Kept /\ Kept \subseteq Ids /\ Ids \subseteq Nat /\ MaxEvents \in Nat
  BY Bounds DEF Unread, Kept
<1>4. cursor'[p] = upto
  BY <1>1, <1>2, <1>3, ShowCursor
<1>5. ASSUME NEW i \in Kept PROVE i <= upto
  <2>1. i \in Nat /\ cursor[p] \in Nat /\ upto \in Nat /\ cursor[p] <= upto
    BY <1>1, <1>3, Bounds DEF TypeOK
  <2>2. i \in Unread(p) \/ i <= cursor[p]
    BY <2>1 DEF Unread
  <2> QED
    BY <1>1, <2>1, <2>2
<1> QED
  BY <1>1, <1>2, <1>3, <1>4, <1>5 DEF ShownTo

LEMMA ReceiveShows ==
  ASSUME TypeOK, WayIsClear, NEW p \in Pages, Receive(p)
  PROVE  LET x == Head(chan[p])
         IN \/ /\ x.id > cursor[p] /\ x.row \notin shown[p]
               /\ ShownTo(p, {x.row}, cursor'[p]) /\ cursor'[p] = x.id
            \/ x.id <= cursor[p] /\ UNCHANGED <<shown, cursor, page, subscribers, chanOpen>>
<1> DEFINE x == Head(chan[p])
<1>1. /\ x \in RunEvent /\ x.row \in Kept /\ x.id \in Kept /\ x.id >= x.row
      /\ x.row \in shown[p] => x.id <= cursor[p]
  BY HeadIsOnTheWay DEF Receive
<1>2. UNCHANGED <<database, process, overlapped>>
  BY DEF Receive
<1>3. \/ x.id > cursor[p] /\ Show(p, {x.row}, x.id)
      \/ ~(x.id > cursor[p]) /\ UNCHANGED <<shown, cursor, page, subscribers, chanOpen>>
  BY DEF Receive
<1> HIDE DEF x
<1>4. cursor[p] \in Nat /\ x.id \in Nat /\ x.row \in Nat /\ x.id \in 0 .. MaxEvents
      /\ {x.row} \in SUBSET Ids
  <2>1. MaxEvents \in Nat /\ Kept \subseteq Ids /\ Ids \subseteq 0 .. MaxEvents
    BY Bounds DEF Kept
  <2>2. cursor[p] \in 0 .. MaxEvents
    BY DEF TypeOK
  <2>3. x.id \in 0 .. MaxEvents /\ x.row \in 0 .. MaxEvents /\ x.row \in Ids
    BY <1>1, <2>1
  <2> QED
    BY <2>1, <2>2, <2>3
<1>5. CASE x.id > cursor[p] /\ Show(p, {x.row}, x.id)
  <2>1. cursor'[p] = x.id
    BY <1>4, <1>5, ShowCursor
  <2>2. x.row \notin shown[p]
    BY <1>1, <1>4, <1>5
  <2>3. ShownTo(p, {x.row}, x.id)
    BY <1>1, <1>2, <1>4, <1>5 DEF ShownTo
  <2> QED
    BY <1>5, <2>1, <2>2, <2>3 DEF x
<1>6. CASE ~(x.id > cursor[p]) /\ UNCHANGED <<shown, cursor, page, subscribers, chanOpen>>
  BY <1>4, <1>6 DEF x
<1> QED
  BY <1>3, <1>5, <1>6

LEMMA ShowValues ==
  ASSUME TypeOK, NEW p \in Pages, NEW batch, NEW upto, ShownTo(p, batch, upto)
  PROVE  /\ cursor'[p] = upto /\ upto \in Nat /\ cursor[p] \in Nat
         /\ shown'[p] = shown[p] \cup batch
         /\ \A q \in Pages \ {p} : /\ cursor'[q] = cursor[q] /\ shown'[q] = shown[q]
                                   /\ page'[q] = page[q]
         /\ subscribers' \subseteq subscribers
         /\ UNCHANGED <<row, emit, overlapped>>
<1>1. cursor[p] \in 0 .. MaxEvents /\ MaxEvents \in Nat /\ Kept \subseteq 0 .. MaxEvents
  BY Bounds DEF TypeOK, Kept
<1>2. upto \in 0 .. MaxEvents /\ Show(p, batch, upto)
  BY <1>1 DEF ShownTo
<1> QED
  BY <1>1, <1>2 DEF Show, TypeOK, Unsubscribe, ShownTo, database, process

LEMMA StepKept == TypeOK /\ EmissionInv /\ WayIsClear /\ OnlyKept /\ [Next]_vars => OnlyKept'
<1> SUFFICES ASSUME TypeOK, EmissionInv, WayIsClear, OnlyKept, [Next]_vars PROVE OnlyKept'
  OBVIOUS
<1> USE DEF database, process, subs, pages
<1>0. Kept \subseteq Kept' /\ Kept \subseteq Ids /\ Ids \subseteq Nat
  BY KeptStays, Bounds DEF Kept
<1>1. ASSUME NEW p \in Pages, NEW batch, ShownTo(p, batch, cursor'[p]) PROVE OnlyKept'
  <2>1. /\ cursor'[p] \in Nat /\ cursor[p] \in Nat /\ cursor[p] <= cursor'[p]
        /\ shown'[p] = shown[p] \cup batch /\ batch \subseteq Kept
        /\ \A q \in Pages \ {p} : cursor'[q] = cursor[q] /\ shown'[q] = shown[q]
        /\ cursor'[p] \in Kept \cup {cursor[p]} /\ \A i \in batch : i <= cursor'[p]
    BY <1>1, ShowValues DEF ShownTo
  <2>2. \A i \in shown'[p] : i <= cursor'[p]
    <3>1. \A i \in shown[p] : i \in Nat /\ i <= cursor[p]
      BY <1>0 DEF OnlyKept
    <3> QED
      BY <2>1, <3>1
  <2> QED
    BY <1>0, <2>1, <2>2 DEF OnlyKept
<1>2. ASSUME NEW p \in Pages, Flush(p) PROVE OnlyKept'
  BY <1>1, <1>2, FlushShows
<1>3. CASE UNCHANGED <<shown, cursor>>
  BY <1>0, <1>3 DEF OnlyKept
<1>4. ASSUME NEW p \in Pages, Receive(p) PROVE OnlyKept'
  BY <1>1, <1>3, <1>4, ReceiveShows
<1> QED
  BY <1>2, <1>3, <1>4
     DEF Next, EmitterNext, AgentNext, PageNext, WorkerNext, Insert, LearnID, Commit, AppendFails,
         Broadcast, EmitStep, Stop, Subscribe, ChannelClosed, Leave, EmitStarted, FinishRun, EmitFinal,
         ClearLive, WindowPasses, vars

(* Nothing comes back to a page's way, and what is behind it stays behind.  *)
LEMMA WayShrinks ==
  ASSUME WayIsClear, Kept \subseteq Kept', overlapped \subseteq overlapped',
         \A p \in Pages : OnTheWay(p)' \subseteq OnTheWay(p),
         \A p \in Pages : \A x \in OnTheWay(p) : x.row \in shown'[p] => x.id <= cursor'[p]
  PROVE  WayIsClear'
<1> SUFFICES ASSUME NEW p \in Pages, NEW x \in OnTheWay(p)'
             PROVE  /\ x.row \in Kept' /\ MayBeCalled(x.row, x.id)'
                    /\ \A y \in OnTheWay(p)' : x.row = y.row => x.id = y.id
                    /\ x.row \in shown'[p] => x.id <= cursor'[p]
  BY DEF WayIsClear
<1>1. x \in OnTheWay(p) /\ \A y \in OnTheWay(p)' : y \in OnTheWay(p)
  OBVIOUS
<1>2. MayBeCalled(x.row, x.id) /\ x.row \in Kept /\ \A y \in OnTheWay(p) : x.row = y.row => x.id = y.id
  BY <1>1 DEF WayIsClear
<1> QED
  BY <1>1, <1>2 DEF MayBeCalled

LEMMA StepWay ==
  ASSUME TypeOK, EmissionInv, OnlyKept, WayIsClear, [Next]_vars
  PROVE  WayIsClear'
<1> USE DEF database, process, subs, pages
<1>0. /\ Kept \subseteq Kept' /\ emit \in [Emitters -> Emission]
      /\ row \in [Ids -> {"free", "open", "kept", "lost"}]
      /\ \A p \in Pages : \A x \in OnTheWay(p) : x.row \in shown[p] => x.id <= cursor[p]
  BY KeptStays DEF TypeOK, EmitTypeOK, WayIsClear
<1>1. ASSUME UNCHANGED <<chan, shown, cursor>>, overlapped \subseteq overlapped',
             \A e \in Emitters : emit'[e].at = "broadcast" => emit'[e] = emit[e]
      PROVE  WayIsClear'
  <2>1. \A p \in Pages : OnTheWay(p)' \subseteq OnTheWay(p)
    BY <1>1 DEF OnTheWay, Sent
  <2> QED
    BY <1>0, <1>1, <2>1, WayShrinks
<1>2. ASSUME NEW e \in Emitters, Insert(e) \/ LearnID(e) \/ AppendFails(e) PROVE WayIsClear'
  <2>1. overlapped \subseteq overlapped'
    BY <1>2 DEF Insert, LearnID, AppendFails
  <2>2. \A f \in Emitters \ {e} : emit'[f] = emit[f]
    BY <1>0, <1>2 DEF Insert, LearnID, AppendFails
  <2>3. emit'[e].at # "broadcast"
    BY <1>0, <1>2 DEF Insert, LearnID, AppendFails, Idle, Emission
  <2>4. UNCHANGED <<chan, shown, cursor>>
    BY <1>2 DEF Insert, LearnID, AppendFails
  <2> QED
    BY <1>1, <2>1, <2>2, <2>3, <2>4
<1>3. ASSUME NEW e \in Emitters, Commit(e) PROVE WayIsClear'
  <2> PICK new : new = Sent(e)
    OBVIOUS
  <2>1. /\ emit[e].at = "append" /\ emit[e].id # 0
        /\ emit'[e].row = emit[e].row /\ emit'[e].id = emit[e].id
        /\ \A f \in Emitters \ {e} : emit'[f] = emit[f]
        /\ UNCHANGED <<chan, shown, cursor, overlapped>>
    BY <1>0, <1>3 DEF Commit, Emission
  <2>2. new.row \in Kept' /\ new.row \notin Kept
    <3>1. Active(e) /\ row[emit[e].row] = "open" /\ emit[e].row \in Ids
      BY <2>1 DEF Active, EmissionInv, EmissionsHaveRows, TypeOK, EmitTypeOK
    <3> QED
      BY <1>0, <1>3, <3>1 DEF Commit, Kept, Sent
  <2>3. MayBeCalled(new.row, new.id)'
    <3>1. MayBeCalled(emit[e].row, emit[e].id)
      BY <2>1 DEF Active, EmissionInv, IdsAreAhead
    <3> QED
      BY <1>0, <2>1, <3>1 DEF MayBeCalled, Sent
  <2>4. Sent(e)' = new
    BY <2>1 DEF Sent
  <2>5. \A p \in Pages : OnTheWay(p)' \subseteq OnTheWay(p) \cup {new}
    BY <2>1, <2>4 DEF OnTheWay, Sent
  <2>6. ASSUME NEW p \in Pages, NEW x \in OnTheWay(p)'
        PROVE  /\ x.row \in Kept' /\ MayBeCalled(x.row, x.id)'
               /\ \A y \in OnTheWay(p)' : x.row = y.row => x.id = y.id
               /\ x.row \in shown'[p] => x.id <= cursor'[p]
    <3>1. \A y \in OnTheWay(p) : y.row \in Kept
      BY DEF WayIsClear
    <3>2. CASE x = new
      <4>1. x.row \notin shown'[p]
        BY <2>1, <2>2, <3>2 DEF OnlyKept
      <4>2. \A y \in OnTheWay(p)' : x.row = y.row => x.id = y.id
        BY <2>2, <2>5, <3>1, <3>2
      <4>3. MayBeCalled(x.row, x.id)'
        BY <2>3, <3>2
      <4> QED
        BY <2>2, <3>2, <4>1, <4>2, <4>3
    <3>3. CASE x \in OnTheWay(p)
      <4>1. /\ x.row \in Kept /\ MayBeCalled(x.row, x.id)
            /\ \A y \in OnTheWay(p) : x.row = y.row => x.id = y.id
        BY <3>3 DEF WayIsClear
      <4>2. \A y \in OnTheWay(p)' : x.row = y.row => x.id = y.id
        BY <2>2, <2>5, <4>1
      <4>3. MayBeCalled(x.row, x.id)'
        BY <1>0, <2>1, <4>1 DEF MayBeCalled
      <4> QED
        BY <1>0, <2>1, <3>3, <4>1, <4>2, <4>3
    <3> QED
      BY <2>5, <3>2, <3>3
  <2> QED
    BY <2>6 DEF WayIsClear
<1>4. ASSUME NEW e \in Emitters, Broadcast(e) PROVE WayIsClear'
  <2>1. UNCHANGED <<shown, cursor, overlapped>>
    BY <1>4 DEF Broadcast
  <2>2. /\ emit[e].at = "broadcast" /\ emit'[e].at = "idle"
        /\ \A f \in Emitters \ {e} : emit'[f] = emit[f]
    BY <1>0, <1>4 DEF Broadcast, Idle
  <2>3. ASSUME NEW p \in Pages PROVE OnTheWay(p)' \subseteq OnTheWay(p)
    <3>1. \A f \in Emitters : emit'[f].at = "broadcast" => emit[f].at = "broadcast" /\ Sent(f)' = Sent(f)
      BY <2>2 DEF Sent
    <3>2. chan[p] \in Seq(RunEvent) /\ Sent(e) \in RunEvent
      BY <1>4 DEF Broadcast, TypeOK, ChanTypeOK, EmitTypeOK, Sent, RunEvent
    <3>3. chan'[p] = Append(chan[p], Sent(e)) \/ chan'[p] = chan[p]
      BY <1>4 DEF Broadcast, Sent
    <3>4. \A k \in 1 .. Len(chan'[p]) :
             chan'[p][k] = Sent(e) \/ \E l \in 1 .. Len(chan[p]) : chan'[p][k] = chan[p][l]
      BY <3>2, <3>3, AppendProperties
    <3> QED
      BY <2>2, <3>1, <3>4 DEF OnTheWay
  <2> QED
    BY <1>0, <2>1, <2>3, WayShrinks
<1>5. ASSUME NEW p \in Pages, Flush(p) PROVE WayIsClear'
  <2>1. /\ UNCHANGED <<chan, emit, overlapped>> /\ \A i \in Kept : i <= cursor'[p]
        /\ \A q \in Pages \ {p} : cursor'[q] = cursor[q] /\ shown'[q] = shown[q]
    BY <1>5, FlushShows, ShowValues
  <2>2. \A x \in OnTheWay(p) : x.id \in Kept
    BY DEF WayIsClear, MayBeCalled
  <2>3. \A q \in Pages : OnTheWay(q)' \subseteq OnTheWay(q)
    BY <2>1 DEF OnTheWay, Sent
  <2> QED
    BY <1>0, <2>1, <2>2, <2>3, WayShrinks
<1>6. ASSUME NEW p \in Pages, Receive(p) PROVE WayIsClear'
  <2> DEFINE h == Head(chan[p])
  <2>1. chan[p] # << >> /\ chan' = [chan EXCEPT ![p] = Tail(chan[p])] /\ UNCHANGED <<emit, overlapped>>
    BY <1>6 DEF Receive
  <2>2. ASSUME NEW q \in Pages PROVE OnTheWay(q)' \subseteq OnTheWay(q)
    <3>1. chan[q] \in Seq(RunEvent) /\ chan \in [Pages -> Seq(RunEvent)]
      BY DEF TypeOK, ChanTypeOK
    <3>2. CASE q = p
      <4>1. /\ chan'[p] = Tail(chan[p]) /\ Len(Tail(chan[p])) = Len(chan[p]) - 1
            /\ Len(chan[p]) \in Nat
            /\ \A k \in 1 .. Len(Tail(chan[p])) : Tail(chan[p])[k] = chan[p][k + 1]
        BY <2>1, <3>1, <3>2, HeadTailProperties
      <4>2. \A k \in 1 .. Len(chan'[p]) : \E l \in 1 .. Len(chan[p]) : chan'[p][k] = chan[p][l]
        BY <4>1
      <4> QED
        BY <2>1, <3>2, <4>2 DEF OnTheWay, Sent
    <3>3. CASE q # p
      <4>1. chan'[q] = chan[q]
        BY <2>1, <3>1, <3>3
      <4> QED
        BY <2>1, <4>1 DEF OnTheWay, Sent
    <3> QED
      BY <3>2, <3>3
  <2>3. ASSUME NEW q \in Pages, NEW x \in OnTheWay(q), x.row \in shown'[q] PROVE x.id <= cursor'[q]
    <3>1. CASE UNCHANGED <<shown, cursor>>
      BY <1>0, <2>3, <3>1
    <3>2. CASE ShownTo(p, {h.row}, cursor'[p]) /\ cursor'[p] = h.id
      <4>1. /\ shown'[p] = shown[p] \cup {h.row} /\ cursor[p] <= cursor'[p]
            /\ cursor[p] \in Nat /\ cursor'[p] \in Nat
            /\ \A r \in Pages \ {p} : cursor'[r] = cursor[r] /\ shown'[r] = shown[r]
        BY <3>2, ShowValues DEF ShownTo
      <4>2. CASE q # p
        BY <1>0, <2>3, <4>1, <4>2
      <4>3. CASE q = p /\ x.row = h.row
        <5>1. h \in OnTheWay(p)
          BY <2>1, HeadIsOnTheWay
        <5>2. x.id = h.id
          BY <4>3, <5>1 DEF WayIsClear
        <5> QED
          BY <3>2, <4>1, <4>3, <5>2
      <4>4. CASE q = p /\ x.row # h.row
        <5>1. x.id <= cursor[p]
          BY <1>0, <2>3, <4>1, <4>4
        <5>2. x.id \in Kept
          BY DEF WayIsClear, MayBeCalled
        <5>3. x.id \in Nat
          BY <5>2 DEF Kept, Ids
        <5> QED
          BY <4>1, <4>4, <5>1, <5>3
      <4> QED
        BY <4>2, <4>3, <4>4
    <3> QED
      BY <1>6, <3>1, <3>2, ReceiveShows
  <2> QED
    BY <1>0, <2>1, <2>2, <2>3, WayShrinks
<1>7. ASSUME NEW e \in Emitters, Enter(e), UNCHANGED <<chan, shown, cursor, overlapped>> PROVE WayIsClear'
  BY <1>0, <1>1, <1>7 DEF Enter, Emission
<1>8. CASE UNCHANGED <<emit, chan, shown, cursor, overlapped>>
  BY <1>1, <1>8
<1> QED
  BY <1>2, <1>3, <1>4, <1>5, <1>6, <1>7, <1>8, Bounds
     DEF Next, EmitterNext, AgentNext, PageNext, WorkerNext, EmitStep, Stop, Subscribe, ChannelClosed,
         Leave, EmitStarted, FinishRun, EmitFinal, ClearLive, WindowPasses, vars

(* No step of the process but a broadcast ends an emission.                *)
LEMMA StepOwed ==
  ASSUME TypeOK, EmissionInv, WorkerIsSerial, OnlyKept, WayIsClear, OwedIsQueued, [Next]_vars
  PROVE  OwedIsQueued'
<1> USE DEF database, process, subs, pages
<1>0. /\ Kept \subseteq Ids /\ Ids \subseteq Nat
      /\ \A p \in Pages : cursor[p] \in Nat
      /\ emit \in [Emitters -> Emission]
      /\ row \in [Ids -> {"free", "open", "kept", "lost"}]
      /\ page \in [Pages -> {"away", "subscribed", "waiting", "complete", "cut"}]
      /\ chan \in [Pages -> Seq(RunEvent)]
  BY Bounds DEF Kept, TypeOK, EmitTypeOK, ChanTypeOK
<1>1. ASSUME NEW p \in Pages, page'[p] # "waiting",
             \A q \in Pages \ {p} : /\ cursor'[q] = cursor[q] /\ page'[q] = page[q]
                                    /\ chan'[q] = chan[q]
                                    /\ q \in subscribers' => q \in subscribers,
             UNCHANGED <<row, emit, overlapped>>
      PROVE  OwedIsQueued'
  BY <1>1 DEF OwedIsQueued, Owed, Kept, Emitted
<1>2. ASSUME UNCHANGED <<page, chan, subscribers, cursor>>, overlapped \subseteq overlapped',
             Kept' \subseteq Kept,
             \A e \in Emitters : emit[e].at = "broadcast" => emit'[e] = emit[e]
      PROVE  OwedIsQueued'
  BY <1>2 DEF OwedIsQueued, Owed, Emitted
<1>3. ASSUME NEW e \in Emitters, Insert(e) \/ LearnID(e) PROVE OwedIsQueued'
  <2>1. UNCHANGED <<page, chan, subscribers, cursor>> /\ overlapped \subseteq overlapped'
    BY <1>3 DEF Insert, LearnID
  <2>2. \A f \in Emitters : emit[f].at = "broadcast" => emit'[f] = emit[f]
    BY <1>0, <1>3 DEF Insert, LearnID
  <2>3. Kept' \subseteq Kept
    BY <1>0, <1>3 DEF Insert, LearnID, Free, Kept
  <2> QED
    BY <1>2, <2>1, <2>2, <2>3
<1>4. ASSUME NEW e \in Emitters, Commit(e) PROVE OwedIsQueued'
  <2> DEFINE b == emit[e].row
  <2>1. /\ emit'[e].at = "broadcast" /\ emit'[e].row = b
        /\ \A f \in Emitters \ {e} : emit'[f] = emit[f]
        /\ emit[e].at = "append"
    BY <1>0, <1>4 DEF Commit, Emission
  <2>2. ~Emitted(b)'
    BY <2>1 DEF Emitted
  <2>3. \A i \in Ids \ {b} : (i \in Kept' => i \in Kept) /\ (Emitted(i)' => Emitted(i))
    BY <1>0, <1>4, <2>1 DEF Commit, Kept, Emitted
  <2> QED
    BY <1>4, <2>2, <2>3 DEF Commit, OwedIsQueued, Owed
<1>5. ASSUME NEW e \in Emitters, AppendFails(e) PROVE OwedIsQueued'
  BY <1>0, <1>2, <1>5 DEF AppendFails, Kept
<1>6. ASSUME NEW e \in Emitters, Broadcast(e) PROVE OwedIsQueued'
  <2> DEFINE b == emit[e].row
  <2> SUFFICES ASSUME NEW p \in Pages, NEW i \in Ids, page[p] = "waiting", Owed(p, i)'
               PROVE  /\ p \in subscribers' => IsIn(i, chan'[p])
                      /\ IsBeforeLater(i, chan'[p])
    BY <1>6 DEF Broadcast, OwedIsQueued, IsIn, IsBeforeLater
  <2> DEFINE x == Sent(e)
  <2>0. chan[p] \in Seq(RunEvent) /\ Len(chan[p]) \in Nat /\ b \in Ids /\ x \in RunEvent /\ x.row = b
    <3>1. b \in Ids /\ emit[e].id \in Ids
      BY <1>6 DEF Broadcast, TypeOK, EmitTypeOK
    <3> QED
      BY <1>0, <3>1, LenProperties DEF RunEvent, Sent
  <2>1. i \in Kept /\ i > cursor[p] /\ i \notin overlapped /\ Emitted(i)'
    BY <1>6 DEF Broadcast, Owed, Kept
  <2>2. \A f \in Emitters \ {e} : emit'[f] = emit[f]
    BY <1>0, <1>6 DEF Broadcast
  <2>3. /\ p \in subscribers \ Full => chan'[p] = Append(chan[p], x)
        /\ p \notin subscribers \ Full => chan'[p] = chan[p]
        /\ subscribers' = subscribers \ Full
    BY <1>6 DEF Broadcast, Sent
  <2> HIDE DEF x
  <2>4. p \in subscribers \ Full => /\ Len(chan'[p]) = Len(chan[p]) + 1
                                   /\ chan'[p][Len(chan[p]) + 1] = x
                                   /\ \A k \in 1 .. Len(chan[p]) : chan'[p][k] = chan[p][k]
    BY <2>0, <2>3, AppendProperties
  <2>5. CASE i = b
    <3>1. ASSUME NEW k \in 1 .. Len(chan[p]), chan[p][k].id >= b PROVE chan[p][k].row = b
      <4> DEFINE y == chan[p][k]
      <4>1. y \in OnTheWay(p)
        BY DEF OnTheWay
      <4>2. y.row \in Kept /\ MayBeCalled(y.row, y.id)
        BY <4>1 DEF WayIsClear
      <4>3. y.id \in Ids /\ row[y.id] # "free"
        BY <4>2 DEF MayBeCalled, Kept
      <4>4. Active(e) /\ emit[e].row \notin overlapped
        BY <1>6, <2>1, <2>5 DEF Broadcast, Active
      <4>5. ~(b < y.id)
        BY <4>3, <4>4 DEF EmissionInv, LaterOverlap
      <4>5a. y.id >= b
        BY <3>1
      <4> HIDE DEF y
      <4>6. y.id = b
        <5>1. y.id \in Nat /\ b \in Nat
          BY <1>0, <2>0, <4>3
        <5> QED
          BY <4>5, <4>5a, <5>1
      <4>7. y.row = b
        BY <2>1, <2>5, <4>2, <4>6 DEF MayBeCalled
      <4> QED
        BY <4>7 DEF y
    <3>2. \A k \in 1 .. Len(chan'[p]) : chan'[p][k].id >= b => chan'[p][k].row = b
      <4>1. CASE p \in subscribers \ Full
        <5>1. \A k \in 1 .. Len(chan'[p]) : k \in 1 .. Len(chan[p]) \/ k = Len(chan[p]) + 1
          BY <2>0, <2>4, <4>1
        <5> QED
          BY <2>0, <2>4, <3>1, <4>1, <5>1
      <4>2. CASE p \notin subscribers \ Full
        BY <2>3, <3>1, <4>2
      <4> QED
        BY <4>1, <4>2
    <3>3. IsBeforeLater(b, chan'[p])
      <4> SUFFICES ASSUME NEW k \in 1 .. Len(chan'[p]), chan'[p][k].id >= b
                   PROVE  \E l \in 1 .. k : chan'[p][l].row = b
        BY DEF IsBeforeLater
      <4>1. k \in 1 .. k /\ chan'[p][k].row = b
        BY <3>2
      <4> QED
        BY <4>1
    <3>4. p \in subscribers' => IsIn(b, chan'[p])
      <4> SUFFICES ASSUME p \in subscribers \ Full PROVE IsIn(b, chan'[p])
        BY <2>3
      <4>1. Len(chan[p]) + 1 \in 1 .. Len(chan'[p]) /\ chan'[p][Len(chan[p]) + 1].row = b
        BY <2>0, <2>4
      <4> QED
        BY <4>1 DEF IsIn
    <3> QED
      BY <2>5, <3>3, <3>4
  <2>6. CASE i # b
    <3>1. Owed(p, i)
      BY <2>1, <2>2, <2>6 DEF Owed, Emitted
    <3>2. (p \in subscribers => IsIn(i, chan[p])) /\ IsBeforeLater(i, chan[p])
      BY <3>1 DEF OwedIsQueued
    <3>3. CASE p \in subscribers \ Full
      <4>1. PICK l \in 1 .. Len(chan[p]) : chan[p][l].row = i
        BY <3>2, <3>3 DEF IsIn
      <4>2. l \in 1 .. Len(chan'[p]) /\ chan'[p][l].row = i
        BY <2>0, <2>4, <3>3, <4>1
      <4>3. ASSUME NEW k \in 1 .. Len(chan'[p]), chan'[p][k].id >= i
            PROVE  \E m \in 1 .. k : chan'[p][m].row = i
        <5>1. CASE k \in 1 .. Len(chan[p])
          <6>1. chan[p][k].id >= i
            BY <2>4, <3>3, <4>3, <5>1
          <6>2. PICK m \in 1 .. k : chan[p][m].row = i
            BY <3>2, <5>1, <6>1 DEF IsBeforeLater
          <6>3. m \in 1 .. Len(chan[p])
            BY <2>0, <5>1, <6>2
          <6> QED
            BY <2>4, <3>3, <6>2, <6>3
        <5>2. CASE k = Len(chan[p]) + 1
          <6>1. l \in 1 .. k
            BY <2>0, <4>1, <5>2
          <6> QED
            BY <4>2, <6>1
        <5> QED
          BY <2>0, <2>4, <3>3, <5>1, <5>2
      <4> QED
        BY <4>2, <4>3 DEF IsIn, IsBeforeLater
    <3>4. CASE p \notin subscribers \ Full
      BY <2>3, <3>2, <3>4
    <3> QED
      BY <3>3, <3>4
  <2> QED
    BY <2>5, <2>6
<1>7. ASSUME NEW e \in Emitters, Enter(e), ~Busy(e),
             UNCHANGED <<row, page, chan, subscribers, cursor, overlapped>>
      PROVE  OwedIsQueued'
  BY <1>0, <1>2, <1>7 DEF Enter, Busy, Kept
<1>8. ASSUME NEW p \in Pages, Flush(p) PROVE OwedIsQueued'
  <2>1. /\ \A i \in Kept : i <= cursor'[p]
        /\ cursor'[p] \in Nat
        /\ \A q \in Pages \ {p} : cursor'[q] = cursor[q] /\ page'[q] = page[q]
        /\ subscribers' \subseteq subscribers
        /\ UNCHANGED <<row, emit, overlapped, chan>>
    BY <1>8, FlushShows, ShowValues
  <2>3. ASSUME NEW i \in Ids, Owed(p, i)' PROVE FALSE
    <3>1. i \in Kept /\ i > cursor'[p] /\ i \in Nat
      BY <1>0, <2>1, <2>3 DEF Owed, Kept
    <3> QED
      BY <2>1, <3>1
  <2>6. ASSUME NEW q \in Pages \ {p}, NEW i \in Ids, page'[q] = "waiting", Owed(q, i)'
        PROVE  (q \in subscribers' => IsIn(i, chan'[q])) /\ IsBeforeLater(i, chan'[q])
    BY <2>1, <2>6 DEF OwedIsQueued, Owed, Kept, Emitted
  <2> QED
    BY <2>3, <2>6 DEF OwedIsQueued
<1>9. ASSUME NEW p \in Pages, Receive(p) PROVE OwedIsQueued'
  <2> DEFINE s == chan[p]
             h == Head(s)
  <2>1. s \in Seq(RunEvent) /\ s # << >> /\ page[p] = "waiting" /\ chan' = [chan EXCEPT ![p] = Tail(s)]
    BY <1>0, <1>9 DEF Receive
  <2>2. /\ h = s[1]
        /\ Len(Tail(s)) = Len(s) - 1 /\ Len(s) \in Nat /\ Tail(s) \in Seq(RunEvent)
        /\ \A k \in 1 .. Len(Tail(s)) : Tail(s)[k] = s[k + 1]
    BY <2>1, HeadTailProperties
  <2>2a. h.row \in Nat /\ h.id \in Nat /\ h.id >= h.row
    <3>1. h.row \in Kept /\ h.id \in Kept /\ h.id >= h.row
      BY <2>1, HeadIsOnTheWay
    <3> QED
      BY <1>0, <3>1
  <2>3. chan'[p] = Tail(s) /\ \A q \in Pages \ {p} : chan'[q] = chan[q]
    BY <1>0, <2>1
  <2>4. /\ cursor[p] <= cursor'[p] /\ h.id <= cursor'[p] /\ cursor'[p] \in Nat
        /\ \A q \in Pages \ {p} : /\ cursor'[q] = cursor[q] /\ page'[q] = page[q]
        /\ subscribers' \subseteq subscribers
        /\ UNCHANGED <<row, emit, overlapped>>
    <3>1. CASE ShownTo(p, {h.row}, cursor'[p]) /\ cursor'[p] = h.id
      <4>1. cursor[p] <= cursor'[p] /\ h.id <= cursor'[p]
        BY <2>2a, <3>1 DEF ShownTo
      <4> QED
        BY <3>1, <4>1, ShowValues
    <3>2. CASE h.id <= cursor[p] /\ UNCHANGED <<shown, cursor, page, subscribers, chanOpen>>
      <4>1. cursor[p] \in Nat /\ cursor'[p] = cursor[p]
        BY <1>0, <3>2
      <4> QED
        BY <1>9, <3>2, <4>1 DEF Receive
    <3> QED
      BY <1>9, <3>1, <3>2, ReceiveShows
  <2>5. ASSUME NEW q \in Pages \ {p}, NEW i \in Ids, page'[q] = "waiting", Owed(q, i)'
        PROVE  (q \in subscribers' => IsIn(i, chan'[q])) /\ IsBeforeLater(i, chan'[q])
    BY <2>3, <2>4, <2>5 DEF OwedIsQueued, Owed, Kept, Emitted
  <2>6. ASSUME NEW i \in Ids, Owed(p, i)'
        PROVE  (p \in subscribers' => IsIn(i, chan'[p])) /\ IsBeforeLater(i, chan'[p])
    <3>1. Owed(p, i) /\ i # h.row
      <4>1. i \in Nat /\ cursor[p] \in Nat /\ cursor'[p] \in Nat /\ i > cursor'[p]
        BY <1>0, <2>4, <2>6 DEF Owed
      <4>2. i > cursor[p] /\ i # h.row
        BY <2>2a, <2>4, <4>1
      <4> QED
        BY <2>4, <2>6, <4>2 DEF Owed, Kept, Emitted
    <3>2. (p \in subscribers => IsIn(i, s)) /\ IsBeforeLater(i, s)
      BY <2>1, <3>1 DEF OwedIsQueued
    <3>3. ASSUME NEW l \in 1 .. Len(s), s[l].row = i
          PROVE  l - 1 \in 1 .. Len(Tail(s)) /\ Tail(s)[l - 1].row = i
      <4>1. l # 1
        BY <2>2, <3>1, <3>3
      <4>2. l - 1 \in 1 .. Len(Tail(s)) /\ (l - 1) + 1 = l
        BY <2>2, <4>1
      <4> QED
        BY <2>2, <3>3, <4>2
    <3>4. p \in subscribers' => IsIn(i, Tail(s))
      BY <2>4, <3>2, <3>3 DEF IsIn
    <3>5. ASSUME NEW k \in 1 .. Len(Tail(s)), Tail(s)[k].id >= i
          PROVE  \E m \in 1 .. k : Tail(s)[m].row = i
      <4>1. k + 1 \in 1 .. Len(s) /\ s[k + 1].id >= i
        BY <2>2, <3>5
      <4>2. PICK l \in 1 .. k + 1 : s[l].row = i
        BY <3>2, <4>1 DEF IsBeforeLater
      <4>3. l \in 1 .. Len(s)
        BY <2>2, <4>1, <4>2
      <4>4. Tail(s)[l - 1].row = i /\ l - 1 \in 1 .. Len(Tail(s))
        BY <3>3, <4>2, <4>3
      <4>5. l - 1 \in 1 .. k
        BY <4>2, <4>4
      <4> QED
        BY <4>4, <4>5
    <3> QED
      BY <2>3, <3>4, <3>5 DEF IsBeforeLater
  <2> QED
    BY <2>5, <2>6 DEF OwedIsQueued
<1>10. ASSUME NEW p \in Pages, Subscribe(p) \/ ChannelClosed(p) \/ Leave(p) PROVE OwedIsQueued'
  BY <1>0, <1>1, <1>10 DEF Subscribe, ChannelClosed, Leave, Unsubscribe
<1>11. CASE UNCHANGED <<row, emit, page, chan, subscribers, cursor, overlapped>>
  BY <1>2, <1>11 DEF Kept
<1>12. ASSUME NEW a \in Agents, AgentNext(a) PROVE OwedIsQueued'
  BY <1>7, <1>11, <1>12, Bounds DEF AgentNext, EmitStep, Stop
<1>13. CASE WorkerNext
  BY <1>7, <1>11, <1>13, Bounds DEF WorkerNext, EmitStarted, FinishRun, EmitFinal, ClearLive,
                                    WorkerIsSerial
<1> QED
  BY <1>3, <1>4, <1>5, <1>6, <1>8, <1>9, <1>10, <1>11, <1>12, <1>13
     DEF Next, EmitterNext, PageNext, WindowPasses, vars

LEMMA StepSkipped ==
  ASSUME TypeOK, EmissionInv, OnlyKept, WayIsClear, OwedIsQueued, SkippedOnlyByOverlap, [Next]_vars
  PROVE  SkippedOnlyByOverlap'
<1> USE DEF database, process, subs, pages
<1>0. /\ Kept \subseteq Ids /\ Ids \subseteq Nat /\ 0 \notin Ids
      /\ \A p \in Pages : cursor[p] \in Nat
      /\ emit \in [Emitters -> Emission]
      /\ row \in [Ids -> {"free", "open", "kept", "lost"}]
      /\ shown \in [Pages -> SUBSET Ids]
  BY Bounds DEF Kept, TypeOK, EmitTypeOK, Ids
<1>1. ASSUME UNCHANGED <<shown, cursor>>, overlapped \subseteq overlapped', Kept' \subseteq Kept
      PROVE  SkippedOnlyByOverlap'
  BY <1>1 DEF SkippedOnlyByOverlap
<1>2. ASSUME NEW e \in Emitters, Insert(e) PROVE SkippedOnlyByOverlap'
  BY <1>0, <1>1, <1>2 DEF Insert, Free, Kept
<1>3. ASSUME NEW e \in Emitters, AppendFails(e) PROVE SkippedOnlyByOverlap'
  BY <1>0, <1>1, <1>3 DEF AppendFails, Kept
<1>4. ASSUME NEW e \in Emitters, Commit(e) PROVE SkippedOnlyByOverlap'
  <2> DEFINE b == emit[e].row
  <2>1. b \in Ids /\ row[b] = "open" /\ Active(e)
    BY <1>4 DEF Commit, TypeOK, EmitTypeOK, EmissionInv, EmissionsHaveRows, Active
  <2>2. Kept' \subseteq Kept \cup {b}
    BY <1>0, <1>4 DEF Commit, Kept
  <2>3. ASSUME NEW p \in Pages, b <= cursor[p] PROVE b \in overlapped
    <3>0. b \in Nat /\ cursor[p] \in Nat /\ b # 0
      BY <1>0, <2>1
    <3>1. cursor[p] \in Ids /\ row[cursor[p]] = "kept"
      BY <2>3, <3>0 DEF OnlyKept, Kept
    <3>2. b < cursor[p]
      BY <2>1, <2>3, <3>0, <3>1
    <3> QED
      BY <2>1, <3>1, <3>2 DEF EmissionInv, LaterOverlap
  <2> QED
    BY <1>4, <2>2, <2>3 DEF Commit, SkippedOnlyByOverlap
<1>5. ASSUME NEW p \in Pages, NEW batch, ShownTo(p, batch, cursor'[p]),
             \A i \in Kept : i > cursor[p] /\ i <= cursor'[p] /\ i \notin batch => i \in overlapped
      PROVE  SkippedOnlyByOverlap'
  <2>1. /\ \A q \in Pages \ {p} : cursor'[q] = cursor[q] /\ shown'[q] = shown[q]
        /\ shown'[p] = shown[p] \cup batch /\ UNCHANGED <<row, overlapped>>
    BY <1>5, ShowValues
  <2>2. ASSUME NEW i \in Kept, i <= cursor'[p], i \notin shown'[p] PROVE i \in overlapped
    <3>1. i \in Nat /\ cursor[p] \in Nat
      BY <1>0
    <3>2. i <= cursor[p] \/ i > cursor[p]
      BY <3>1
    <3> QED
      BY <1>5, <2>1, <2>2, <3>2 DEF SkippedOnlyByOverlap
  <2>3. Kept' = Kept
    BY <2>1 DEF Kept
  <2> QED
    BY <2>1, <2>2, <2>3 DEF SkippedOnlyByOverlap
<1>6. ASSUME NEW p \in Pages, Flush(p) PROVE SkippedOnlyByOverlap'
  <2>1. \A i \in Kept : i > cursor[p] => i \in Unread(p)
    BY DEF Unread
  <2> QED
    BY <1>5, <1>6, <2>1, FlushShows
<1>7. ASSUME NEW p \in Pages, Receive(p) PROVE SkippedOnlyByOverlap'
  <2> DEFINE h == Head(chan[p])
  <2>1. page[p] = "waiting" /\ UNCHANGED <<row, overlapped>>
    BY <1>7 DEF Receive
  <2>2. /\ h = chan[p][1] /\ 1 \in 1 .. Len(chan[p]) /\ h.row \in Kept /\ h.id \in Kept
        /\ h.id >= h.row
    BY <1>7, HeadIsOnTheWay DEF Receive
  <2>3. CASE ShownTo(p, {h.row}, cursor'[p]) /\ cursor'[p] = h.id
    <3>1. ASSUME NEW i \in Kept, i > cursor[p], i <= cursor'[p], i \notin {h.row} PROVE i \in overlapped
      <4> SUFFICES ASSUME i \notin overlapped PROVE FALSE
        OBVIOUS
      <4>1. i \in Ids /\ i \in Nat /\ h.id \in Nat /\ h.id >= i
        BY <1>0, <2>2, <2>3, <3>1
      <4>2. Emitted(i)
        <5> SUFFICES ASSUME NEW e \in Emitters, emit[e].at = "broadcast", emit[e].row = i PROVE FALSE
          BY DEF Emitted
        <5>1. ~(i < h.id)
          BY <2>2 DEF EmissionInv, LaterOverlap, Active, Kept
        <5>2. h.id = i /\ h.row # h.id
          BY <3>1, <4>1, <5>1
        <5>3. h \in OnTheWay(p)
          BY <1>7, HeadIsOnTheWay DEF Receive
        <5> QED
          BY <5>2, <5>3 DEF WayIsClear, MayBeCalled
      <4>3. IsBeforeLater(i, chan[p])
        BY <2>1, <3>1, <4>1, <4>2 DEF OwedIsQueued, Owed
      <4>4. PICK l \in 1 .. 1 : chan[p][l].row = i
        BY <2>2, <4>1, <4>3 DEF IsBeforeLater
      <4> QED
        BY <2>2, <3>1, <4>4
    <3> QED
      BY <1>5, <2>3, <3>1
  <2>4. CASE UNCHANGED <<shown, cursor>>
    BY <1>1, <2>1, <2>4 DEF Kept
  <2> QED
    BY <1>7, <2>3, <2>4, ReceiveShows
<1>8. CASE UNCHANGED <<row, cursor, shown, overlapped>>
  BY <1>1, <1>8 DEF Kept
<1> QED
  BY <1>2, <1>3, <1>4, <1>6, <1>7, <1>8
     DEF Next, EmitterNext, AgentNext, PageNext, WorkerNext, LearnID, Broadcast, EmitStep, Stop, Subscribe,
         ChannelClosed, Leave, EmitStarted, FinishRun, EmitFinal, ClearLive, WindowPasses, vars

LEMMA StreamInvariant == Spec => []StreamInv
<1>1. Init => StreamInv
  BY InitTypes, InitSubscribers, InitEmissions, InitSerial, InitEnd, InitPages
     DEF StreamInv, EmissionInv, EndInv
<1>2. StreamInv /\ [Next]_vars => StreamInv'
  BY StepTypes, StepSubscribers, StepEmissions, StepSerial, StepEnd, StepKept, StepWay, StepOwed,
     StepSkipped
     DEF StreamInv, EmissionInv, EndInv
<1> QED
  BY <1>1, <1>2, PTL DEF Spec

(* The cursor of a page passes an event unseen only if the emission of the *)
(* event overlapped another's, also when events come under other ids than  *)
(* their own (a2ui.go:838-860, run_runtime.go:361-362, storage.go:591-597).*)
THEOREM OnlyOverlapIsSkipped == Spec => []SkippedOnlyByOverlap
<1>1. StreamInv => SkippedOnlyByOverlap
  BY DEF StreamInv
<1> QED
  BY <1>1, StreamInvariant, PTL

-----------------------------------------------------------------------------
(* The stream is an event feed                                             *)

FeedStep == Feed!FeedNext \/ UNCHANGED <<Kept, FeedClosing, overlapped, shown, cursor, FeedPage>>

LEMMA InitFeed == Init => Feed!FeedInit
BY DEF Init, Feed!FeedInit, Kept, FeedClosing, FeedPage

LEMMA ShowIsGive ==
  ASSUME StreamInv, NEW p \in Pages, page[p] \in {"subscribed", "waiting"},
         NEW batch, NEW upto, ShownTo(p, batch, upto),
         batch \cap shown[p] = {}, \A i \in batch \ overlapped : i > cursor[p],
         batch # {} => upto > cursor[p] /\ (upto \in batch \/ batch \subseteq overlapped),
         batch = {} => upto = cursor[p]
  PROVE  FeedStep
<1>0. /\ batch \subseteq Kept /\ Kept \subseteq Ids /\ 0 \notin Ids
      /\ upto \in Kept \cup {cursor[p]}
      /\ cursor[p] \in Nat /\ shown[p] \in SUBSET Ids
      /\ shown \in [Pages -> SUBSET Ids] /\ cursor \in [Pages -> 0 .. MaxEvents]
      /\ page \in [Pages -> {"away", "subscribed", "waiting", "complete", "cut"}]
  BY Bounds DEF Kept, Ids, StreamInv, TypeOK, ShownTo
<1>1. /\ Kept' = Kept /\ FeedClosing' = FeedClosing /\ overlapped' = overlapped
      /\ Show(p, batch, upto) /\ \A i \in batch : i <= upto
  BY DEF Kept, FeedClosing, ShownTo, database, process
<1>2. shown' = [shown EXCEPT ![p] = @ \cup batch] /\ cursor' = [cursor EXCEPT ![p] = upto]
  BY <1>1 DEF Show
<1>3. closing \in batch <=> FeedClosing \in batch
  BY <1>0 DEF FeedClosing
<1>4. page' = [page EXCEPT ![p] = IF FeedClosing \in batch THEN "complete" ELSE "waiting"]
  BY <1>1, <1>3 DEF Show
<1>5. CASE batch = {}
  <2>1. shown' = shown /\ cursor' = cursor
    BY <1>0, <1>2, <1>5
  <2>2. FeedPage' = FeedPage
    BY <1>0, <1>4, <1>5 DEF FeedPage
  <2> QED
    BY <1>1, <2>1, <2>2 DEF FeedStep
<1>6. CASE batch # {}
  <2>1. FeedPage' = IF FeedClosing \in batch THEN [FeedPage EXCEPT ![p] = "complete"] ELSE FeedPage
    BY <1>0, <1>4 DEF FeedPage
  <2>2. FeedPage[p] = "reading"
    BY DEF FeedPage
  <2>3. batch \in SUBSET (Kept \ shown[p]) /\ upto \in Kept
    <3>1. upto # cursor[p]
      BY <1>0, <1>6
    <3> QED
      BY <1>0, <3>1
  <2>4. Feed!Give(p, batch, upto)
    BY <1>0, <1>1, <1>2, <1>6, <2>1, <2>2 DEF Feed!Give
  <2> QED
    BY <2>3, <2>4 DEF FeedStep, Feed!FeedNext
<1> QED
  BY <1>5, <1>6

LEMMA StepFeed == StreamInv /\ [Next]_vars => FeedStep
<1> SUFFICES ASSUME StreamInv, [Next]_vars PROVE FeedStep
  OBVIOUS
<1> USE DEF database, process, subs, pages
<1>0. /\ TypeOK /\ 0 \notin Ids
      /\ emit \in [Emitters -> Emission]
      /\ row \in [Ids -> {"free", "open", "kept", "lost"}]
      /\ page \in [Pages -> {"away", "subscribed", "waiting", "complete", "cut"}]
  BY Bounds DEF StreamInv, TypeOK, EmitTypeOK, Ids
<1>1. ASSUME Kept' = Kept, FeedClosing' = FeedClosing, UNCHANGED <<overlapped, shown, cursor, page>>
      PROVE  FeedStep
  BY <1>1 DEF FeedStep, FeedPage
<1>2. ASSUME NEW e \in Emitters, Insert(e) PROVE FeedStep
  <2>1. PICK i \in Ids : /\ row[i] = "free" /\ row' = [row EXCEPT ![i] = "open"]
                         /\ closing' = IF e = Worker /\ worker = "closing" THEN i ELSE closing
    BY <1>2 DEF Insert, Free
  <2>2. Kept' = Kept /\ i \notin Kept
    BY <1>0, <2>1 DEF Kept
  <2>3. e = Worker /\ worker = "closing" => closing = 0
    BY <1>2 DEF Insert, StreamInv, ClosingIsLast, Active
  <2>4. FeedClosing' = FeedClosing
    BY <1>0, <2>1, <2>2, <2>3 DEF FeedClosing
  <2>5. UNCHANGED <<shown, cursor, FeedPage>>
    BY <1>2 DEF Insert, FeedPage
  <2>6. CASE overlapped' = overlapped
    BY <2>2, <2>4, <2>5, <2>6 DEF FeedStep
  <2>7. CASE overlapped' # overlapped
    <3> DEFINE others == {emit[o].row : o \in {o \in Emitters \ {e} :
                                              emit[o].at \in {"append", "broadcast"}}}
    <3>1. PICK j \in Free : overlapped' = IF others = {} THEN overlapped
                                          ELSE overlapped \cup others \cup {j}
      BY <1>2 DEF Insert
    <3>2. others \subseteq Ids
      BY <1>0 DEF TypeOK, EmitTypeOK
    <3>3. others \cup {j} \in SUBSET Ids /\ ~(others \cup {j} \subseteq Kept)
      BY <3>2 DEF Free, Kept
    <3>4. Feed!Mix(others \cup {j})
      BY <2>2, <2>4, <2>5, <2>7, <3>1, <3>3 DEF Feed!Mix
    <3> QED
      BY <3>3, <3>4 DEF FeedStep, Feed!FeedNext
  <2> QED
    BY <2>6, <2>7
<1>2a. ASSUME NEW e \in Emitters, LearnID(e) PROVE FeedStep
  BY <1>1, <1>2a DEF LearnID, Kept, FeedClosing
<1>3. ASSUME NEW e \in Emitters, Commit(e) PROVE FeedStep
  <2> DEFINE b == emit[e].row
  <2>1. b \in Ids /\ row[b] = "open" /\ row' = [row EXCEPT ![b] = "kept"]
    BY <1>0, <1>3 DEF Commit, TypeOK, EmitTypeOK, StreamInv, EmissionsHaveRows, Active
  <2>2. Kept' = Kept \cup {b} /\ b \notin Kept
    BY <1>0, <2>1 DEF Kept
  <2>3. FeedClosing' \in IF FeedClosing = 0 THEN {0, b} ELSE {FeedClosing}
    BY <1>0, <1>3, <2>2 DEF Commit, FeedClosing, Kept
  <2>4. UNCHANGED <<overlapped, shown, cursor, FeedPage>>
    BY <1>3 DEF Commit, FeedPage
  <2>5. Feed!Record(b)
    BY <2>2, <2>3, <2>4 DEF Feed!Record
  <2> QED
    BY <2>1, <2>5 DEF FeedStep, Feed!FeedNext
<1>4. ASSUME NEW e \in Emitters, AppendFails(e) PROVE FeedStep
  <2>1. row[emit[e].row] = "open"
    BY <1>4 DEF AppendFails, StreamInv, EmissionsHaveRows, Active
  <2>2. Kept' = Kept
    BY <1>0, <1>4, <2>1 DEF AppendFails, Kept
  <2> QED
    BY <1>1, <1>4, <2>2 DEF AppendFails, FeedClosing
<1>5. ASSUME NEW p \in Pages, Subscribe(p) PROVE FeedStep
  <2>1. FeedPage[p] = "away" /\ FeedPage' = [FeedPage EXCEPT ![p] = "reading"]
    BY <1>0, <1>5 DEF Subscribe, FeedPage
  <2>2. UNCHANGED <<Kept, FeedClosing, overlapped, shown, cursor>>
    BY <1>5 DEF Subscribe, Kept, FeedClosing
  <2>3. Feed!Open(p)
    BY <2>1, <2>2 DEF Feed!Open
  <2> QED
    BY <2>3 DEF FeedStep, Feed!FeedNext
<1>6. ASSUME NEW p \in Pages, ChannelClosed(p) \/ Leave(p) PROVE FeedStep
  <2>1. FeedPage[p] = "reading" /\ FeedPage' = [FeedPage EXCEPT ![p] = "cut"]
    BY <1>0, <1>6 DEF ChannelClosed, Leave, FeedPage
  <2>2. UNCHANGED <<Kept, FeedClosing, overlapped, shown, cursor>>
    BY <1>6 DEF ChannelClosed, Leave, Kept, FeedClosing
  <2>3. Feed!Cut(p)
    BY <2>1, <2>2 DEF Feed!Cut
  <2> QED
    BY <2>3 DEF FeedStep, Feed!FeedNext
<1>7. ASSUME NEW p \in Pages, Flush(p) PROVE FeedStep
  <2>1. ShownTo(p, Unread(p), cursor'[p]) /\ page[p] \in {"subscribed", "waiting"}
    BY <1>0, <1>7, FlushShows DEF Flush
  <2>2. cursor'[p] \in Unread(p) \cup {cursor[p]}
    <3>1. cursor'[p] \in Kept \cup {cursor[p]} /\ cursor[p] <= cursor'[p]
      BY <2>1 DEF ShownTo
    <3>2. cursor[p] \in Nat /\ cursor'[p] \in Nat
      BY <1>0, <2>1, ShowValues
    <3> QED
      BY <3>1, <3>2 DEF Unread
  <2>3. \A i \in Unread(p) : i > cursor[p] /\ i \notin shown[p]
    <3>1. \A i \in shown[p] : i <= cursor[p] /\ i \in Nat
      BY Bounds DEF StreamInv, OnlyKept, Kept, Ids
    <3>2. cursor[p] \in Nat
      BY <1>0, Bounds DEF TypeOK
    <3> QED
      BY <3>1, <3>2 DEF Unread
  <2>4. Unread(p) # {} => cursor'[p] > cursor[p] /\ cursor'[p] \in Unread(p)
    <3>1. \A i \in Unread(p) : i <= cursor'[p]
      BY <2>1 DEF ShownTo
    <3>2. cursor[p] \in Nat /\ cursor'[p] \in Nat /\ Unread(p) \subseteq Nat
      BY <1>0, <2>1, ShowValues DEF Unread, Kept, Ids
    <3> QED
      BY <2>2, <2>3, <3>1, <3>2
  <2>5. Unread(p) \cap shown[p] = {}
    BY <2>3
  <2> QED
    BY <2>1, <2>2, <2>3, <2>4, <2>5, ShowIsGive
<1>8. ASSUME NEW p \in Pages, Receive(p) PROVE FeedStep
  <2> DEFINE h == Head(chan[p])
  <2>1. page[p] = "waiting" /\ WayIsClear
    BY <1>8 DEF Receive, StreamInv
  <2>2. h.id >= h.row /\ (h.id # h.row => h.row \in overlapped) /\ h.row \in Kept /\ h.id \in Kept
    BY <1>0, <1>8, <2>1, HeadIsOnTheWay DEF Receive
  <2>3. CASE h.id > cursor[p] /\ h.row \notin shown[p] /\ ShownTo(p, {h.row}, h.id)
    <3>1. \A i \in {h.row} \ overlapped : i > cursor[p]
      BY <2>2, <2>3
    <3>2. h.id \in {h.row} \/ {h.row} \subseteq overlapped
      BY <2>2
    <3>3. {h.row} # {} /\ {h.row} \cap shown[p] = {}
      BY <2>3
    <3> HIDE DEF h
    <3> QED
      BY <2>1, <2>3, <3>1, <3>2, <3>3, ShowIsGive
  <2>4. CASE UNCHANGED <<shown, cursor, page>>
    BY <1>1, <1>8, <2>4 DEF Receive, Kept, FeedClosing
  <2> QED
    BY <1>0, <1>8, <2>1, <2>3, <2>4, ReceiveShows
<1>9. CASE UNCHANGED <<row, closing, overlapped, shown, cursor, page>>
  BY <1>1, <1>9 DEF Kept, FeedClosing
<1> QED
  BY <1>2, <1>2a, <1>3, <1>4, <1>5, <1>6, <1>7, <1>8, <1>9
     DEF Next, EmitterNext, AgentNext, PageNext, WorkerNext, Broadcast, EmitStep, Stop,
         EmitStarted, FinishRun, EmitFinal, ClearLive, WindowPasses, vars

(* The stream is an event feed: pages are given recorded events only, none *)
(* twice, under growing ids, an event that overlapped no other under its   *)
(* own, and are complete exactly with the closing one (a2ui.go:838-889,    *)
(* storage.go:591-597).                                                    *)
THEOREM StreamIsAFeed == Spec => ImplementsEventFeed
<1>1. StreamInv /\ [Next]_vars => [Feed!FeedNext]_(Feed!feedVars)
  BY StepFeed DEF FeedStep, Feed!feedVars
<1> QED
  BY <1>1, InitFeed, StreamInvariant, PTL DEF Spec, ImplementsEventFeed, Feed!FeedSpec

=============================================================================
