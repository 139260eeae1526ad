--------------------------- MODULE IncidentSignal ---------------------------
(***************************************************************************)
(* Grouping of similar incident reports, and the promotion of a ticket to  *)
(* the highest service level when enough users report the same incident:   *)
(* the operators of signal.go.  A text is the set of its words; a word     *)
(* stands for all the keywords that the code lists together.               *)
(***************************************************************************)
EXTENDS Naturals, FiniteSets

CONSTANTS MinDistinctUsers,    \* itsm.signal.minDistinctUsersForP1
          SimilarityThreshold, \* itsm.signal.similarityThreshold, in percent
          MaxCandidates,       \* itsm.signal.maxCandidates
          WindowTicks,         \* itsm.signal.windowMinutes, in ticks of the clock
          RetentionTicks,      \* itsm.signal.retentionHours, in ticks of the clock
          Locations            \* the words that name a building

ASSUME SignalAssumption ==
  /\ MinDistinctUsers \in Nat \ {0} /\ MaxCandidates \in Nat \ {0}
  /\ SimilarityThreshold \in 1..100
  /\ WindowTicks \in Nat /\ RetentionTicks \in Nat \ {0}

-----------------------------------------------------------------------------
(* What is read off the words of a ticket *)

ContainsAny(text, words) == text \cap words # {}

\* The value of the first rule <<words, value>> with a word in the text.
FirstMatch(text, rules, default) ==
  LET hits == {i \in DOMAIN rules : ContainsAny(text, rules[i][1])}
  IN  IF hits = {} THEN default
      ELSE rules[CHOOSE i \in hits : \A j \in hits : i <= j][2]

DetectSignalDomain(text) ==
  FirstMatch(text, << <<{"wifi", "web", "net", "vpn", "noInternet"}, "network">>,
                      <<{"mail"}, "mail">>,
                      <<{"print"}, "printer">>,
                      <<{"account", "sso", "permission", "loginFailed"}, "account">>,
                      <<{"device"}, "device">>,
                      <<{"meeting", "projector"}, "meeting">> >>, "other")

DetectSignalObject(text, domain) ==
  CASE domain = "network" ->
         FirstMatch(text, << <<{"wifi"}, "wifi">>, <<{"web"}, "web">>, <<{"vpn"}, "vpn">> >>,
                    "network")
    [] domain = "mail"    -> "mailbox"
    [] domain = "account" -> FirstMatch(text, << <<{"sso"}, "sso">> >>, "account")
    [] domain = "meeting" -> FirstMatch(text, << <<{"projector"}, "projector">> >>, "meeting_room")
    [] OTHER              -> domain   \* printer, device, other

DetectSignalSymptom(text) ==
  FirstMatch(text, << <<{"down", "noInternet"}, "unavailable">>,
                      <<{"slow"}, "degraded">>,
                      <<{"loginFailed", "permission"}, "auth_fail">>,
                      <<{"sendFailed"}, "send_receive_fail">>,
                      <<{"paperJam"}, "print_fail">>,
                      <<{"error"}, "error">> >>, "unknown")

ExtractLocationScope(text) ==
  IF ContainsAny(text, Locations) THEN CHOOSE l \in text \cap Locations : TRUE ELSE ""

DetectSignalScope(text, location) ==
  LET wide == FirstMatch(text, << <<{"wholeCampus"}, "campus">>, <<{"manyBuildings"}, "area">>,
                                  <<{"wholeBuilding"}, "building">> >>, "")
  IN  IF wide # "" THEN wide
      ELSE IF location # "" THEN "building"
      ELSE FirstMatch(text, << <<{"manyUsers"}, "multi_user">>, <<{"room"}, "room">> >>,
                      "single_user")

\* scopeLevel: the place of a scope in the order of impact.
Scopes == <<"single_user", "multi_user", "room", "building", "area", "campus">>
ScopeLevel(scope) == CHOOSE i \in DOMAIN Scopes : Scopes[i] = scope

\* The event of a draft; "text" stands for the normalized summary and its embedding.
NormalizeSignalEvent(draft, now) ==
  LET text     == draft.subject \cup draft.othersDesc
      domain   == DetectSignalDomain(text)
      location == ExtractLocationScope(text)
  IN  [user |-> draft.userCode, domain |-> domain, object |-> DetectSignalObject(text, domain),
       symptom |-> DetectSignalSymptom(text), location |-> location,
       scope |-> DetectSignalScope(text, location), text |-> text, at |-> now, cluster |-> ""]

-----------------------------------------------------------------------------
(* Clusters *)

\* A stand-in for the embedding model: the words two texts share, in percent.
CosineSimilarity(a, b) ==
  IF a = {} \/ b = {} THEN 0 ELSE (100 * Cardinality(a \cap b)) \div Cardinality(a \cup b)

AgreeOn(a, b, wildcard) == a = b \/ a = wildcard \/ b = wildcard

SameCoarseGroupNoObject(current, candidate) ==
  /\ current.domain = candidate.domain
  /\ AgreeOn(current.symptom, candidate.symptom, "unknown")

\* Only incidents get this far, so that the kinds agree.
SameCoarseGroup(current, candidate) ==
  /\ current.domain = candidate.domain
  /\ AgreeOn(current.object, candidate.object, "other")
  /\ AgreeOn(current.symptom, candidate.symptom, "unknown")
  /\ \/ AgreeOn(current.location, candidate.location, "")
     \/ ScopeLevel(current.scope) >= ScopeLevel("area")
     \/ ScopeLevel(candidate.scope) >= ScopeLevel("area")

\* All events that are kept, not only those of the window.
LoadAllEvents(events, now) == {events}

\* loadRecentEvents: the newest MaxCandidates events of the window.
LoadRecentEvents(events, now) ==
  LET window == {e \in events : e.at + WindowTicks >= now}
      size   == IF Cardinality(window) < MaxCandidates THEN Cardinality(window) ELSE MaxCandidates
  IN  {S \in SUBSET window : /\ Cardinality(S) = size
                             /\ \A e \in S, o \in window \ S : e.at >= o.at}

\* The clusters of the most similar candidates; of equals the newest.
MatchCluster(event, candidates) ==
  LET Sim(c)  == CosineSimilarity(event.text, c.text)
      similar == {c \in candidates : SameCoarseGroup(event, c) /\ Sim(c) >= SimilarityThreshold}
      Better(c, d) == Sim(c) > Sim(d) \/ (Sim(c) = Sim(d) /\ c.at >= d.at)
  IN  {c.cluster : c \in {b \in similar : \A d \in similar : Better(b, d)}}

\* summarizeCluster: distinct users and impact; two users at one place make it a building.
SummarizeCluster(cluster, candidates, current) ==
  LET group == {e \in candidates : e.cluster = cluster} \cup {current}
      named == {e \in group : e.user # ""}
      reported == CHOOSE l \in {ScopeLevel(e.scope) : e \in group} :
                    \A e \in group : ScopeLevel(e.scope) <= l
      shared == \E d, e \in named : d.user # e.user /\ d.location = e.location /\ d.location # ""
  IN  [users |-> Cardinality({e.user : e \in named}),
       impact |-> IF reported < ScopeLevel("area") /\ shared
                  THEN ScopeLevel("building") ELSE reported]

ShouldPromoteP1(level, summary) ==
  /\ level \in {"2", "3"}
  /\ summary.users >= MinDistinctUsers
  /\ summary.impact >= ScopeLevel("building")

\* Record: the event joins the recent events, and those past the retention leave.
RecordEvent(events, event) ==
  {e \in events \cup {event} : e.at + RetentionTicks > event.at}
=============================================================================
