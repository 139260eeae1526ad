--------------------------- MODULE KnowledgeBase ---------------------------
(***************************************************************************)
(* What a knowledge agent makes of a question: the model rewrites it into  *)
(* several queries; each asks the knowledge bases in parallel and merges   *)
(* what they return in turns; what the queries find is put together, and   *)
(* the model answers from the first passages, which are cited as sources.  *)
(* A passage is a record of its base and its node; "hits" maps every base  *)
(* to the passages it returns for a query, or to None when the request     *)
(* fails; an agent is a record with its bases kbIDs and its limits topK    *)
(* (passages for a query), rewriteQueries (queries for a question),        *)
(* maxContextDocs (it answers from) and sourceLimit (it cites).            *)
(***************************************************************************)
EXTENDS Integers, Sequences, FiniteSets

CONSTANT None

Elements(s) == {s[i] : i \in DOMAIN s}
Upto(s, limit) == SubSeq(s, 1, IF Len(s) <= limit THEN Len(s) ELSE limit)

(* What s has at some places, in their order.                              *)
AtPlaces(s, places) ==
    LET Nth(k) == CHOOSE i \in places : Cardinality({j \in places : j <= i}) = k
    IN  [k \in 1 .. Cardinality(places) |-> s[Nth(k)]]

(* The elements of a sequence at their first places.                       *)
Distinct(s) == AtPlaces(s, {i \in DOMAIN s : \A j \in 1 .. i - 1 : s[j] # s[i]})

(* The passages found at visits to some bases: each visit gives the next   *)
(* one of the base, if there is one left, until there are enough.          *)
MergeDocuments(visits, hits, limit) ==
    LET Turn(v) == Cardinality({u \in 1 .. v : visits[u] = visits[v]})
        found == {v \in DOMAIN visits : Turn(v) <= Len(hits[visits[v]])}
    IN  Upto(AtPlaces([v \in found |-> hits[visits[v]][Turn(v)]], found), limit)

(* The passages of one base after those of another.                        *)
MergeOneByOne(bases, hits, limit) ==
    MergeDocuments([v \in 1 .. limit * Len(bases) |-> bases[((v - 1) \div limit) + 1]], hits, limit)

(* mergeDocumentsRoundRobin: the bases are visited in turns.               *)
MergeDocumentsRoundRobin(bases, hits, limit) ==
    MergeDocuments([v \in 1 .. limit * Len(bases) |-> bases[((v - 1) % Len(bases)) + 1]], hits, limit)

(* One query: a base that fails loses what the others found.               *)
RetrieveOnce(agent, hits) ==
    IF \E b \in Elements(agent.kbIDs) : hits[b] = None THEN None
    ELSE MergeDocumentsRoundRobin(agent.kbIDs, hits, agent.topK)

(* What several queries found, up to "room" passages each: one query after *)
(* another, and of the passages with the same node the first.              *)
Fuse(lists, room) ==
    LET ListOf(p) == ((p - 1) \div room) + 1
        Rank(p) == ((p - 1) % room) + 1
        all == {p \in 1 .. room * Len(lists) : Rank(p) <= Len(lists[ListOf(p)])}
        at == [p \in all |-> lists[ListOf(p)][Rank(p)]]
    IN  AtPlaces(at, {p \in all : \A o \in all : o < p => at[o].node # at[p].node})

(* Rewriting or not, by the limit.                                         *)
RewritesQueries(agent) == agent.rewriteQueries > 1

(* buildKnowledgeRetriever: "found" is what the bases return for each of   *)
(* the queries, one after another, or None when the model fails to rewrite *)
(* the question; one query that fails loses what the others found.         *)
Retrieve(agent, found) ==
    LET docs == [q \in DOMAIN found |-> RetrieveOnce(agent, found[q])]
    IN  IF found = None THEN None
        ELSE IF \E q \in DOMAIN docs : docs[q] = None THEN None
        ELSE IF RewritesQueries(agent) THEN Fuse(docs, agent.topK) ELSE docs[1]

(* generateAnswer: an answer needs a model that says something, streaming  *)
(* or, where a stream cannot be opened, at once; a stream that breaks off  *)
(* is a failure, whatever was shown of it.                                 *)
GenerateAnswer ==
    {stream = "said" \/ (stream = "unavailable" /\ generated) :
        stream \in {"said", "unavailable", "broken"}, generated \in BOOLEAN}

(* All passages are cited.                                                 *)
SourcesFromAllDocuments(agent, docs) == docs

(* The passages the model is given, and those that are cited.              *)
ContextDocs(agent, docs) == Upto(docs, agent.maxContextDocs)
SourcesFromDocuments(agent, docs) == Upto(docs, agent.sourceLimit)

(* Run: its sources, << >> if nothing was found or something failed, which *)
(* is an answer too, and the passages the answer is made from.             *)
Answer(agent, found, answered) ==
    LET docs == Retrieve(agent, found)
        used == IF docs = None \/ ~answered THEN << >> ELSE docs
    IN  [context |-> ContextDocs(agent, used), sources |-> SourcesFromDocuments(agent, used)]

(* Sources are not compared.                                               *)
MergeSourcesAll(base, incoming) == base \o incoming

(* mergeSources                                                            *)
MergeSources(base, incoming) == IF incoming = << >> THEN base ELSE Distinct(base \o incoming)

=============================================================================
