------------------------------- MODULE MCTurn -------------------------------
(* The leaves of the example configuration (manifest/config), and a second *)
(* domain that shares the ticket agent, the way other domains would be     *)
(* added.  Limits are written, left out, or mixed.                         *)
EXTENDS Turn

ITSM == [key |-> "itsm", type |-> "itsm", kbIDs |-> << >>, topK |-> 0, rewriteQueries |-> 0,
         maxContextDocs |-> 0, sourceLimit |-> 0, internal |-> FALSE]
KB(key, in, bases, topK, queries, docs, cited) ==
    [key |-> key, type |-> "knowledge", kbIDs |-> bases, topK |-> topK, rewriteQueries |-> queries,
     maxContextDocs |-> docs, sourceLimit |-> cited, internal |-> in]

MCTree ==
    [roots   |-> <<[key |-> "campus", children |-> <<"it", "osa">>]>>,
     domains |-> <<[key |-> "it", children |-> <<"itsm", "kb_itso", "kb">>],
                   [key |-> "osa", children |-> <<"kb_osa", "itsm">>]>>,
     leaves  |-> <<ITSM, KB("kb", FALSE, <<"b1", "b2">>, 4, 2, 2, 2), KB("kb_itso", TRUE, <<"b1">>, 0, 0, 1, 0),
                   KB("kb_osa", FALSE, <<"b1", "b2">>, 0, 1, 0, 0)>>,
     defaultTopK |-> 3]

MCMessages == {{}, {"long"}, {"vague", "long"}, {"nonIt", "long"}, {"it", "long"},
               {"it", "long", "lookup", "internal"}, {"it", "long", "howTo", "process"},
               {"it", "long", "submit", "write", "process"},
               {"it", "long", "guide", "submit", "process"},
               {"it", "long", "tried", "process"}}
MCAnswers == {{"long"}, {"it", "long"}}

Said(status, phase, score) == [status |-> status, phase |-> phase, score |-> score]
MCModelAssessments == {Said("ready", "read", 50), Said("ready", "write", 0), Said("ready", "read", 120),
                       Said("need_clarify", "read", 40), Said("maybe", "never", 70)}

Proposed(mode, steps) == [mode |-> mode, steps |-> steps]
MCModelPlans == {Proposed("sequential", <<"itsm", "kb", "kb_osa">>), Proposed("supervisor", <<"kb">>),
                 Proposed("parallel", <<"kb", "kb_osa">>),
                 Proposed("sequential", <<"kb", "none", "kb_osa", "kb", "kb_osa">>)}
Passage(b, n) == [base |-> b, node |-> n]
MCHits == {[b1 |-> <<Passage("b1", 1), Passage("b1", 1), Passage("b1", 2)>>, b2 |-> <<Passage("b2", 3)>>],
           [b1 |-> <<Passage("b1", 2), Passage("b1", 4)>>, b2 |-> <<Passage("b2", 3)>>],
           [b1 |-> <<Passage("b1", 1)>>, b2 |-> << >>],
           [b1 |-> None, b2 |-> <<Passage("b2", 3)>>]}

(* What some of the theorems of TurnProofs need.                           *)
ASSUME MCTurnAssumption == TicketAgentsAreItsm /\ BasesAreDistinct /\ HitsNameTheirBase
=============================================================================
