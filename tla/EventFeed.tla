----------------------------- MODULE EventFeed -----------------------------
(***************************************************************************)
(* What the stream of a run's events promises to the pages that watch it:  *)
(* a page is given recorded events, each at most once, under numbers that  *)
(* grow, and it stops when it was given the closing event, or when it is   *)
(* cut off.  An event is given under its own number, unless its emission   *)
(* was mixed with another's: then it may come late, under the number of a  *)
(* later event.  Which events a page may miss is left open here.           *)
(***************************************************************************)
EXTENDS Naturals

CONSTANTS Pages,       \* the pages that may watch the run
          Events,      \* the numbers the database gives to events
          NoEvent      \* no event: before the first, and no closing one yet

VARIABLES recorded,    \* the events in the database
          closing,     \* the event that closes the run
          mixed,       \* events whose emission was mixed with another's
          given,       \* what each page was given
          mark,        \* the number each page has been given events up to
          page         \* "away", "reading", "complete", "cut"

feedVars == <<recorded, closing, mixed, given, mark, page>>

FeedInit ==
    /\ recorded = {}
    /\ closing = NoEvent
    /\ mixed = {}
    /\ given = [p \in Pages |-> {}]
    /\ mark = [p \in Pages |-> NoEvent]
    /\ page = [p \in Pages |-> "away"]

(* Events are recorded in any order of their numbers, one of them closes.  *)
Record(i) ==
    /\ i \notin recorded
    /\ recorded' = recorded \cup {i}
    /\ closing' \in IF closing = NoEvent THEN {NoEvent, i} ELSE {closing}
    /\ UNCHANGED <<mixed, given, mark, page>>

(* The emissions of several events overlap, one of them not yet recorded.  *)
Mix(events) ==
    /\ ~(events \subseteq recorded)
    /\ mixed' = mixed \cup events
    /\ UNCHANGED <<recorded, closing, given, mark, page>>

Open(p) ==
    /\ page[p] = "away"
    /\ page' = [page EXCEPT ![p] = "reading"]
    /\ UNCHANGED <<recorded, closing, mixed, given, mark>>

(* A page is given some recorded events it does not have, under numbers    *)
(* that follow its mark and end with upto.                                 *)
Give(p, batch, upto) ==
    /\ page[p] = "reading"
    /\ batch # {}
    /\ upto > mark[p]
    /\ \A i \in batch : i <= upto
    /\ \A i \in batch \ mixed : i > mark[p]
    /\ upto \in batch \/ batch \subseteq mixed
    /\ given' = [given EXCEPT ![p] = @ \cup batch]
    /\ mark' = [mark EXCEPT ![p] = upto]
    /\ page' = IF closing \in batch
               THEN [page EXCEPT ![p] = "complete"] ELSE page
    /\ UNCHANGED <<recorded, closing, mixed>>

Cut(p) ==
    /\ page[p] = "reading"
    /\ page' = [page EXCEPT ![p] = "cut"]
    /\ UNCHANGED <<recorded, closing, mixed, given, mark>>

FeedNext ==
    \/ \E i \in Events : Record(i)
    \/ \E events \in SUBSET Events : Mix(events)
    \/ \E p \in Pages : \/ Open(p)
                        \/ Cut(p)
                        \/ \E batch \in SUBSET (recorded \ given[p]), upto \in recorded : Give(p, batch, upto)

FeedSpec == FeedInit /\ [][FeedNext]_feedVars
=============================================================================
