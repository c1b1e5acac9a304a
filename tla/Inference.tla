------------------------------- MODULE Inference -------------------------------
(***************************************************************************)
(* Inference over the building graph (crow_inference/service.py): runs     *)
(* whose result is kept until the graph changes, reviews of the derived    *)
(* relations, and the promotion of an accepted one to a relation of the    *)
(* graph.                                                                  *)
(*                                                                         *)
(* Four documents are kept: the graph, the current result, the runs made   *)
(* and the reviews.  A request loads a document, changes its copy and      *)
(* saves it whole, and requests interleave between any load and save.  A   *)
(* load and a save are one step here: SavedDocument looks into the save.   *)
(* A fingerprint of a graph is the graph, and one of rules the rules with  *)
(* the rounds they are applied for.  The identifier of a derived relation  *)
(* is that of its rule and of the chain that explains it; what the rule    *)
(* concludes is not part of it.                                            *)
(***************************************************************************)
EXTENDS Optional, Integers, FiniteSets, FiniteSetsExt, SequencesExt

CONSTANTS
    InitialLinks, NewLinks,  \* pairs related in the graph, or by a client later
    RuleSets, DefaultRules,  \* rules, with the rounds a client asks for; the engine's
    Derive(_, _),    \* what the engine derives from some relations by some rules
    Requests,        \* the threads of the server
    Loads            \* the loads it may be put under

\* How a run may be asked for: by which rules, whether also when the result on
\* file would do, and whether it is kept.
Asks == [rules : RuleSets, force : BOOLEAN, persist : BOOLEAN]

(* A load: the threads in use, the kinds of request served, how runs are   *)
(* asked for, whether the server process may be restarted, and two bounds: *)
(* the runs on file when another is asked for, and the review events when  *)
(* another is asked for.                                                   *)
ASSUME LoadAssumption ==
    Loads \subseteq [threads : SUBSET Requests,
                     jobs : SUBSET {"run", "invalidate", "review", "promote", "relate"},
                     asks : SUBSET Asks, restarts : BOOLEAN, runs : Nat, decisions : Nat]

ASSUME RulesAssumption == DefaultRules \in RuleSets

\* A server has a pool of threads.
ASSUME RequestsAssumption == IsFiniteSet(Requests)

VARIABLES
    graph,       \* [relations, recorded]: the relations, the keys with history
    result,      \* the current result: [graph, rules, derived, status, run]
    runs,        \* the runs on file: [run, added, removed]
    reviews,     \* relation id -> the statuses its review has had
    req,         \* thread -> the request it serves
    load,        \* the load of this behaviour
    accepted     \* history: the relation ids a reviewer ever accepted

vars == <<graph, result, runs, reviews, req, load, accepted>>

-----------------------------------------------------------------------------

Full == 1000

Key(r) == <<r.source, r.type, r.target>>

Relation(source, type, target, from) ==
    [source |-> source, type |-> type, target |-> target, confidence |-> Full,
     id |-> <<source, type, target>>, from |-> from]

Link(p) == Relation(p[1], "located_in", p[2], None)

\* The relation that a derived one is promoted to.
Promoted(d, id) ==
    [Relation(d.source, d.type, d.target, id) EXCEPT !.confidence = d.confidence]

Keys(g) == {Key(r) : r \in g.relations}

Derived(g, rules) == Derive(g.relations, rules)

\* The engine derives no relation that is in the graph already (explicit_keys).
DerivesNothingExplicit(relations, rules) ==
    \A d \in Derive(relations, rules) : Key(d) \notin {Key(r) : r \in relations}

\* status(): the result is of the graph as it is and was not invalidated.
Current(res, g) == res # None /\ res.graph = g /\ res.status = "current"

NextRunNumber(doc) == Max({0} \cup {doc[i].run : i \in DOMAIN doc}) + 1

Ids(derived) == {d.id : d \in derived}

LastStatus(doc, id) ==
    IF id \in DOMAIN doc THEN doc[id][Len(doc[id])] ELSE "none"

\* The review document with one more event about a relation.
WithEvent(doc, id, status) ==
    [i \in DOMAIN doc \cup {id} |->
        IF i # id THEN doc[i]
        ELSE IF id \in DOMAIN doc THEN Append(doc[id], status) ELSE <<status>>]

Events(doc) == FoldSet(LAMBDA id, n : n + Len(doc[id]), 0, DOMAIN doc)

Idle == [job |-> "idle", pc |-> "idle", id |-> None, arg |-> None, graph |-> None,
         result |-> None, doc |-> None, log |-> None, run |-> 0, relation |-> None,
         ask |-> [rules |-> DefaultRules, force |-> FALSE, persist |-> TRUE]]

Begin(job, pc, id, arg) ==
    [Idle EXCEPT !.job = job, !.pc = pc, !.id = id, !.arg = arg]

Init ==
    /\ graph = [relations |-> {Link(p) : p \in InitialLinks}, recorded |-> {}]
    /\ result = None
    /\ runs = <<>>
    /\ reviews = <<>>
    /\ req = [r \in Requests |-> Idle]
    /\ load \in Loads
    /\ accepted = {}

Become(r, q) == req' = [req EXCEPT ![r] = q]

-----------------------------------------------------------------------------
(* The requests a client makes                                             *)

\* POST .../inference/run: by rules and for rounds of the client's choice; what
\* is not to be kept is answered only.
StartRun(r, ask) ==
    /\ "run" \in load.jobs /\ req[r] = Idle /\ Len(runs) < load.runs
    /\ Become(r, [Begin("run", "graph", None, None) EXCEPT !.ask = ask])
    /\ UNCHANGED <<graph, result, runs, reviews, accepted>>

\* POST .../inference/invalidate
StartInvalidate(r) ==
    /\ "invalidate" \in load.jobs /\ req[r] = Idle
    /\ Become(r, Begin("invalidate", "invalidate", None, None))
    /\ UNCHANGED <<graph, result, runs, reviews, accepted>>

\* POST .../inference/relations/{id}/review
StartReview(r, id, decision) ==
    /\ "review" \in load.jobs /\ req[r] = Idle /\ Events(reviews) < load.decisions
    /\ Become(r, Begin("review", "reviews", id, decision))
    /\ UNCHANGED <<graph, result, runs, reviews, accepted>>

\* POST .../inference/relations/{id}/promote
StartPromote(r, id) ==
    /\ "promote" \in load.jobs /\ req[r] = Idle
    /\ Become(r, Begin("promote", "explain", id, None))
    /\ UNCHANGED <<graph, result, runs, reviews, accepted>>

\* POST .../building-graph/relations
StartRelate(r, p) ==
    /\ "relate" \in load.jobs /\ req[r] = Idle
    /\ Become(r, [Begin("relate", "add", None, None) EXCEPT !.relation = Link(p)])
    /\ UNCHANGED <<graph, result, runs, reviews, accepted>>

-----------------------------------------------------------------------------
(* run                                                                     *)

RunLoadsGraph(r) ==
    /\ req[r].pc = "graph"
    /\ Become(r, [req[r] EXCEPT !.pc = "previous", !.graph = graph])
    /\ UNCHANGED <<graph, result, runs, reviews, accepted>>

\* What a request does with the result of a run it has made or found: a run
\* ends, a review or promotion goes on if the relation is there and current.
AfterRun(q, res) ==
    CASE q.job = "run" -> Idle
      [] \/ q.id \notin Ids(res.derived)
         \/ res.status # "current" -> Idle
      [] OTHER -> [q EXCEPT !.pc = IF q.job = "review" THEN "decide" ELSE "accepted",
                            !.relation = CHOOSE d \in res.derived : d.id = q.id,
                            !.result = None, !.graph = None]

\* A fault: the rules are not compared.
CachedByGraph(q) == ~q.ask.force /\ result # None /\ result.graph = q.graph

Cached(q) ==
    /\ ~q.ask.force
    /\ result # None
    /\ result.graph = q.graph
    /\ result.rules = q.ask.rules

\* The result on file is of this graph and these rules and is taken as it is.
RunFindsResult(r) ==
    LET q == req[r]
    IN  /\ q.pc = "previous"
        /\ Cached(q)
        /\ Become(r, AfterRun(q, result))
        /\ UNCHANGED <<graph, result, runs, reviews, accepted>>

RunReadsPrevious(r) ==
    LET q == req[r]
    IN  /\ q.pc = "previous"
        /\ ~Cached(q)
        /\ Become(r, [q EXCEPT !.pc = "number", !.result = result])
        /\ UNCHANGED <<graph, result, runs, reviews, accepted>>

\* The engine runs and the run is numbered; a run that is not kept ends here.
RunTakesNumber(r) ==
    /\ req[r].pc = "number"
    /\ Become(r, IF req[r].ask.persist
                 THEN [req[r] EXCEPT !.pc = "result", !.run = NextRunNumber(runs)]
                 ELSE Idle)
    /\ UNCHANGED <<graph, result, runs, reviews, accepted>>

NewResult(q) ==
    [graph |-> q.graph, rules |-> q.ask.rules, derived |-> Derived(q.graph, q.ask.rules),
     status |-> "current", run |-> q.run]

RunWritesResult(r) ==
    /\ req[r].pc = "result"
    /\ result' = NewResult(req[r])
    /\ Become(r, [req[r] EXCEPT !.pc = "history"])
    /\ UNCHANGED <<graph, runs, reviews, accepted>>

RunReadsHistory(r) ==
    /\ req[r].pc = "history"
    /\ Become(r, [req[r] EXCEPT !.pc = "append", !.log = runs])
    /\ UNCHANGED <<graph, result, runs, reviews, accepted>>

\* A fault: the difference is taken the wrong way round.
RunEntryReversed(q) ==
    LET old == IF q.result = None THEN {} ELSE Ids(q.result.derived)
        new == Ids(Derived(q.graph, q.ask.rules))
    IN  [run |-> q.run, added |-> old \ new, removed |-> new \ old]

\* The run's entry: its number and its difference from the result before it.
RunEntry(q) ==
    LET old == IF q.result = None THEN {} ELSE Ids(q.result.derived)
        new == Ids(Derived(q.graph, q.ask.rules))
    IN  [run |-> q.run, added |-> new \ old, removed |-> old \ new]

RunWritesHistory(r) ==
    LET q == req[r]
    IN  /\ q.pc = "append"
        /\ runs' = Append(q.log, RunEntry(q))
        /\ Become(r, [AfterRun(q, NewResult(q)) EXCEPT !.log = None, !.run = 0])
        /\ UNCHANGED <<graph, result, reviews, accepted>>

-----------------------------------------------------------------------------
(* explain: the relation, and whether the result is current                *)

Explain(r) ==
    /\ req[r].pc = "explain"
    /\ Become(r, IF result = None
                 THEN [req[r] EXCEPT !.pc = "graph"]
                 ELSE [req[r] EXCEPT !.pc = "status", !.result = result])
    /\ UNCHANGED <<graph, result, runs, reviews, accepted>>

StatusLoadsGraph(r) ==
    /\ req[r].pc = "status"
    /\ Become(r, [req[r] EXCEPT !.pc = "lifecycle", !.graph = graph])
    /\ UNCHANGED <<graph, result, runs, reviews, accepted>>

StatusReadsResult(r) ==
    LET q      == req[r]
        status == IF Current(result, q.graph) THEN "current" ELSE "stale"
    IN  /\ q.pc = "lifecycle"
        /\ Become(r, AfterRun(q, [q.result EXCEPT !.status = status]))
        /\ UNCHANGED <<graph, result, runs, reviews, accepted>>

-----------------------------------------------------------------------------
(* review_relation                                                         *)

ReviewLoads(r) ==
    /\ req[r].pc = "reviews"
    /\ Become(r, IF LastStatus(reviews, req[r].id) = "promoted" THEN Idle
                 ELSE [req[r] EXCEPT !.pc = "explain", !.doc = reviews])
    /\ UNCHANGED <<graph, result, runs, reviews, accepted>>

ReviewSaves(r) ==
    LET q == req[r]
    IN  /\ q.pc = "decide"
        /\ reviews' = WithEvent(q.doc, q.id, q.arg)
        /\ accepted' = IF q.arg = "accepted" THEN accepted \cup {q.id} ELSE accepted
        /\ Become(r, Idle)
        /\ UNCHANGED <<graph, result, runs>>

-----------------------------------------------------------------------------
(* promote_relation                                                        *)

\* A fault: a rejected relation may be promoted.
MayPromoteReviewed(doc, id) == LastStatus(doc, id) \in {"accepted", "rejected"}

MayPromote(doc, id) == LastStatus(doc, id) = "accepted"

PromoteLoadsReviews(r) ==
    /\ req[r].pc = "accepted"
    /\ Become(r, IF MayPromote(reviews, req[r].id)
                 THEN [req[r] EXCEPT !.pc = "existing", !.doc = reviews]
                 ELSE Idle)
    /\ UNCHANGED <<graph, result, runs, reviews, accepted>>

\* A fault: the relation is taken to be in the graph.
PromoteSkipsRelation(r) ==
    /\ req[r].pc = "existing"
    /\ Become(r, [req[r] EXCEPT !.pc = "promoted"])
    /\ UNCHANGED <<graph, result, runs, reviews, accepted>>

\* A relation with this key may be in the graph by now.
PromoteLooksForRelation(r) ==
    LET q == req[r]
    IN  /\ q.pc = "existing"
        /\ Become(r, IF Key(q.relation) \in Keys(graph)
                     THEN [q EXCEPT !.pc = "promoted"]
                     ELSE [q EXCEPT !.pc = "add", !.relation = Promoted(@, q.id)])
        /\ UNCHANGED <<graph, result, runs, reviews, accepted>>

PromoteSaves(r) ==
    LET q == req[r]
    IN  /\ q.pc = "promoted"
        /\ reviews' = WithEvent(q.doc, q.id, "promoted")
        /\ Become(r, Begin(q.job, "invalidate", q.id, None))
        /\ UNCHANGED <<graph, result, runs, accepted>>

-----------------------------------------------------------------------------
(* create_relation: the relation is added, then its history                *)

AddLoads(r) ==
    /\ req[r].pc = "add"
    /\ Become(r, IF Key(req[r].relation) \in Keys(graph) THEN Idle
                 ELSE [req[r] EXCEPT !.pc = "save", !.graph = graph])
    /\ UNCHANGED <<graph, result, runs, reviews, accepted>>

AddSaves(r) ==
    LET q == req[r]
    IN  /\ q.pc = "save"
        /\ graph' = [q.graph EXCEPT !.relations = @ \cup {q.relation}]
        /\ Become(r, [q EXCEPT !.pc = "record", !.graph = None])
        /\ UNCHANGED <<result, runs, reviews, accepted>>

RecordLoads(r) ==
    /\ req[r].pc = "record"
    /\ Become(r, IF Key(req[r].relation) \in graph.recorded THEN Idle
                 ELSE [req[r] EXCEPT !.pc = "recorded", !.graph = graph])
    /\ UNCHANGED <<graph, result, runs, reviews, accepted>>

AfterRecord(q) ==
    IF q.job = "relate" THEN Idle ELSE [q EXCEPT !.pc = "promoted", !.graph = None]

RecordSaves(r) ==
    LET q == req[r]
    IN  /\ q.pc = "recorded"
        /\ graph' = [q.graph EXCEPT !.recorded = @ \cup {Key(q.relation)}]
        /\ Become(r, AfterRecord(q))
        /\ UNCHANGED <<result, runs, reviews, accepted>>

-----------------------------------------------------------------------------
(* invalidate                                                              *)

InvalidateReads(r) ==
    /\ req[r].pc = "invalidate"
    /\ Become(r, IF result = None THEN Idle
                 ELSE [req[r] EXCEPT !.pc = "stale", !.result = result])
    /\ UNCHANGED <<graph, result, runs, reviews, accepted>>

InvalidateWrites(r) ==
    /\ req[r].pc = "stale"
    /\ result' = [req[r].result EXCEPT !.status = "stale"]
    /\ Become(r, Idle)
    /\ UNCHANGED <<graph, runs, reviews, accepted>>

\* The server process dies and is restarted: the documents stay as they are.
Crash ==
    /\ load.restarts
    /\ req' = [r \in Requests |-> Idle]
    /\ UNCHANGED <<graph, result, runs, reviews, accepted>>

-----------------------------------------------------------------------------

\* A reviewer names relations that a result on file, or a run that was not
\* persisted, has shown.
Shown ==
    UNION {Ids(Derived(graph, rules)) : rules \in RuleSets}
    \cup IF result = None THEN {} ELSE Ids(result.derived)

Start(r) ==
    \/ \E ask \in load.asks : StartRun(r, ask)
    \/ StartInvalidate(r)
    \/ \E id \in Shown, d \in {"accepted", "rejected"} : StartReview(r, id, d)
    \/ \E id \in Shown \cup DOMAIN reviews : StartPromote(r, id)
    \/ \E p \in NewLinks : StartRelate(r, p)

Step(r) ==
    \/ RunLoadsGraph(r) \/ RunFindsResult(r) \/ RunReadsPrevious(r)
    \/ RunTakesNumber(r) \/ RunWritesResult(r) \/ RunReadsHistory(r)
    \/ RunWritesHistory(r)
    \/ Explain(r) \/ StatusLoadsGraph(r) \/ StatusReadsResult(r)
    \/ ReviewLoads(r) \/ ReviewSaves(r)
    \/ PromoteLoadsReviews(r) \/ PromoteLooksForRelation(r) \/ PromoteSaves(r)
    \/ AddLoads(r) \/ AddSaves(r) \/ RecordLoads(r) \/ RecordSaves(r)
    \/ InvalidateReads(r) \/ InvalidateWrites(r)

Next ==
    /\ (\E r \in load.threads : Start(r) \/ Step(r)) \/ Crash
    /\ UNCHANGED load

Spec == Init /\ [][Next]_vars

-----------------------------------------------------------------------------
(* Properties                                                              *)

\* In the review of a relation, promotion comes straight after an acceptance
\* and ends the review. (review_relation, promote_relation)
EndsInPromotion(h) ==
    \A i \in DOMAIN h : h[i] = "promoted" => /\ i = Len(h)
                                            /\ i > 1 /\ h[i-1] = "accepted"

PromotionWasAccepted == \A id \in DOMAIN reviews : EndsInPromotion(reviews[id])

\* A derived relation enters the graph only after a reviewer accepted one of its
\* identifier: of the same rule and the same chain.  (promote_relation)
FactsWereAccepted == \A f \in graph.relations : f.from # None => f.from \in accepted

\* The result on file is what the engine gives for the graph and the rules it
\* names.
ResultIsOfItsInputs ==
    result # None => result.derived = Derived(result.graph, result.rules)

\* Whichever requests meet: the result on file is reproducible, and who asks for
\* a run and is given the result on file is given what the engine derives from
\* the graph that was read, by the rules that were asked for.  (run)
ResultIsReproducible ==
    /\ []ResultIsOfItsInputs
    /\ [][\A r \in Requests : RunFindsResult(r)
             => result.derived = Derived(req[r].graph, req[r].ask.rules)]_vars

\* One request at a time.
Alone == Cardinality(load.threads) = 1

\* With one request at a time: a relation whose review says promoted is in the
\* graph, wherever a restart has cut a promotion off. (promote_relation)
PromotedIsFact ==
    Alone => \A id \in DOMAIN reviews :
        LastStatus(reviews, id) = "promoted" => \E f \in graph.relations : f.from = id

\* The runs on file, replayed: what one of them added and no later one removed.
Replayed(log) ==
    {id \in UNION {log[n].added : n \in DOMAIN log} :
        \E n \in DOMAIN log : /\ id \in log[n].added
                             /\ \A m \in DOMAIN log : m > n => id \notin log[m].removed}

\* With one request at a time and no restart: the differences of the runs on
\* file, applied in turn, give the derived relations of the result. (_diff)
DiffsReplay ==
    Alone /\ ~load.restarts /\ result # None /\ (\A r \in Requests : req[r] = Idle)
        => /\ Replayed(runs) = Ids(result.derived)
           /\ runs[Len(runs)].run = result.run
================================================================================
