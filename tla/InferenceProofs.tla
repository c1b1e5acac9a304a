---------------------------- MODULE InferenceProofs ----------------------------
(***************************************************************************)
(* Reviews, promotions and results of Inference, for any engine, any       *)
(* graph, any number of threads and restarts at any time.                  *)
(*                                                                         *)
(* A request saves a copy that others may have written over meanwhile, so  *)
(* what is to hold of the documents has to hold of every copy.  It is      *)
(* stated of a document and the ids that were accepted; there are only     *)
(* ever more of those, so a copy that was sound stays so.                  *)
(***************************************************************************)
EXTENDS Inference, FiniteSetTheorems, TLAPS

Statuses == {"accepted", "rejected", "promoted"}

\* A review of id: it has events, ends in a promotion if it has one, and its
\* acceptances are known.
ReviewOK(known, id, h) ==
    /\ h \in Seq(Statuses) /\ Len(h) > 0
    /\ EndsInPromotion(h)
    /\ \A i \in DOMAIN h : h[i] = "accepted" => id \in known

DocOK(known, doc) == \A id \in DOMAIN doc : ReviewOK(known, id, doc[id])

RelationOK(known, f) == f.from # None => f.from \in known

GraphOK(known, g) ==
    /\ DOMAIN g = {"relations", "recorded"}
    /\ \A f \in g.relations : RelationOK(known, f)

ResultOK(res) ==
    res # None => /\ DOMAIN res = {"graph", "rules", "derived", "status", "run"}
                  /\ res.derived = Derived(res.graph, res.rules)

-----------------------------------------------------------------------------
(* What a request holds                                                    *)

Running == {"graph", "previous", "number", "result", "history", "append"}
Explaining == {"explain", "status", "lifecycle"}
Adding == {"add", "save", "record", "recorded"}

\* The requests that get to a step.
JobOK(q) ==
    /\ q.pc \in Running => q.job \in {"run", "review", "promote"}
    /\ q.pc \in Explaining => q.job \in {"review", "promote"}
    /\ q.pc \in Adding => q.job \in {"promote", "relate"}
    /\ q.pc \in {"reviews", "decide"} => q.job = "review"
    /\ q.pc \in {"accepted", "existing", "promoted"} => q.job = "promote"

\* A request that has loaded the reviews, to add an event to them.
Reviewing(q) == q.job = "review" /\ q.pc # "reviews"
Promoting(q) == q.job = "promote" /\ q.pc \in Adding \cup {"existing", "promoted"}

\* A request holds copies that were sound when it loaded them.
RequestOK(known, q) ==
    /\ DOMAIN q = DOMAIN Idle
    /\ JobOK(q)
    /\ ResultOK(q.result)
    /\ q.pc \in {"status", "lifecycle", "stale"} => q.result # None
    /\ q.job = "review" => q.arg \in {"accepted", "rejected"}
    /\ Reviewing(q) => DocOK(known, q.doc) /\ LastStatus(q.doc, q.id) # "promoted"
    /\ Promoting(q) => DocOK(known, q.doc) /\ LastStatus(q.doc, q.id) = "accepted"
    /\ q.pc \in {"save", "recorded"} => GraphOK(known, q.graph)
    /\ q.pc \in Adding => RelationOK(known, q.relation)

\* The inductive invariant.
InferenceInv ==
    /\ load.threads \subseteq Requests
    /\ DOMAIN req = Requests
    /\ GraphOK(accepted, graph)
    /\ ResultOK(result)
    /\ DocOK(accepted, reviews)
    /\ \A r \in Requests : RequestOK(accepted, req[r])

-----------------------------------------------------------------------------
(* One request at a time                                                   *)

HoldsGraph == {"previous", "number", "result", "history", "append", "lifecycle", "save", "recorded"}

HasFact(g, id) == \E f \in g.relations : f.from = id

\* The copies of a request that nobody meets are the documents g, res and doc.
Fresh(q, g, res, doc) ==
    /\ q.pc \in HoldsGraph => q.graph = g
    /\ q.pc \in {"status", "lifecycle", "stale"} => q.result = res
    /\ Reviewing(q) \/ Promoting(q) => q.doc = doc
    /\ q.pc \in {"accepted", "existing"} => \E rules : q.relation \in Derived(g, rules)
    /\ q.job = "promote" /\ q.pc \in {"add", "save"} => q.relation.from = q.id
    /\ q.job = "promote" /\ q.pc \in {"record", "recorded", "promoted"} => HasFact(g, q.id)

PromotedHaveFacts(g, doc) ==
    \A id \in DOMAIN doc : LastStatus(doc, id) = "promoted" => HasFact(g, id)

\* What is invariant besides if there is one thread.
AloneInv ==
    Alone => /\ PromotedHaveFacts(graph, reviews)
             /\ \A r \in load.threads : Fresh(req[r], graph, result, reviews)

-----------------------------------------------------------------------------
(* Documents                                                               *)

\* What was sound stays so when more is accepted.
LEMMA MoreAccepted ==
  ASSUME NEW known, NEW more, known \subseteq more
  PROVE  /\ \A doc : DocOK(known, doc) => DocOK(more, doc)
         /\ \A g : GraphOK(known, g) => GraphOK(more, g)
         /\ \A q : RequestOK(known, q) => RequestOK(more, q)
  <1>1. \A doc : DocOK(known, doc) => DocOK(more, doc)
    BY DEF DocOK, ReviewOK
  <1>2. \A f : RelationOK(known, f) => RelationOK(more, f)
    BY DEF RelationOK
  <1>3. \A g : GraphOK(known, g) => GraphOK(more, g)
    BY <1>2 DEF GraphOK
  <1> QED
    BY <1>1, <1>2, <1>3 DEF RequestOK

\* An event leaves the reviews of others as they are and is the last of its own.
LEMMA EventIsLast ==
  ASSUME NEW known, NEW doc, DocOK(known, doc), NEW id, NEW status \in Statuses
  PROVE  \A i : LastStatus(WithEvent(doc, id, status), i) = IF i = id THEN status ELSE LastStatus(doc, i)
  <1> DEFINE new == WithEvent(doc, id, status)
  <1>1. /\ DOMAIN new = DOMAIN doc \cup {id}
        /\ \A i \in DOMAIN doc : i # id => new[i] = doc[i]
        /\ new[id] = IF id \in DOMAIN doc THEN Append(doc[id], status) ELSE <<status>>
    BY DEF WithEvent
  <1> HIDE DEF new
  <1>2. new[id][Len(new[id])] = status
    <2>1. CASE id \in DOMAIN doc
      <3>1. doc[id] \in Seq(Statuses)
        BY <2>1 DEF DocOK, ReviewOK
      <3> QED
        BY <1>1, <2>1, <3>1
    <2>2. CASE id \notin DOMAIN doc
      BY <1>1, <2>2
    <2> QED
      BY <2>1, <2>2
  <1>3. \A i : LastStatus(new, i) = IF i = id THEN status ELSE LastStatus(doc, i)
    BY <1>1, <1>2 DEF LastStatus
  <1> QED
    BY <1>1, <1>3 DEF new

\* A review that has not ended may go on, and may end when it was accepted.
LEMMA EventKeepsDoc ==
  ASSUME NEW known, NEW doc, DocOK(known, doc), NEW id, NEW status \in Statuses,
         LastStatus(doc, id) # "promoted",
         status = "accepted" => id \in known,
         status = "promoted" => LastStatus(doc, id) = "accepted"
  PROVE  DocOK(known, WithEvent(doc, id, status))
  <1> DEFINE new == WithEvent(doc, id, status)
  <1>1. /\ DOMAIN new = DOMAIN doc \cup {id}
        /\ \A i \in DOMAIN doc : i # id => new[i] = doc[i]
        /\ new[id] = IF id \in DOMAIN doc THEN Append(doc[id], status) ELSE <<status>>
    BY DEF WithEvent
  <1> HIDE DEF new
  <1>2. ReviewOK(known, id, new[id])
    <2>1. CASE id \in DOMAIN doc
      <3> DEFINE h == doc[id]
                 n == Len(h)
                 g == Append(h, status)
      <3>1. h \in Seq(Statuses) /\ n > 0 /\ EndsInPromotion(h)
            /\ (\A i \in DOMAIN h : h[i] = "accepted" => id \in known)
        BY <2>1 DEF DocOK, ReviewOK
      <3>2. h[n] # "promoted" /\ (status = "promoted" => h[n] = "accepted")
        BY <2>1 DEF LastStatus
      <3>3. new[id] = g
        BY <1>1, <2>1
      <3> HIDE DEF h
      <3>4. /\ n \in Nat /\ g \in Seq(Statuses) /\ Len(g) = n + 1 /\ DOMAIN g = 1..(n + 1)
            /\ DOMAIN h = 1..n
            /\ \A i \in 1..n : g[i] = h[i]
            /\ g[n + 1] = status
        BY <3>1
      <3> HIDE DEF n, g
      <3>5. \A i \in 1..n : h[i] # "promoted"
        BY <3>1, <3>2, <3>4 DEF EndsInPromotion, n
      <3>6. EndsInPromotion(g)
        BY <3>1, <3>2, <3>4, <3>5 DEF EndsInPromotion
      <3>7. \A i \in DOMAIN g : g[i] = "accepted" => id \in known
        BY <3>1, <3>4
      <3> QED
        BY <3>1, <3>3, <3>4, <3>6, <3>7 DEF ReviewOK
    <2>2. CASE id \notin DOMAIN doc
      <3>1. status # "promoted"
        BY <2>2 DEF LastStatus
      <3>2. new[id] = <<status>>
        BY <1>1, <2>2
      <3> QED
        BY <3>1, <3>2 DEF ReviewOK, EndsInPromotion
    <2> QED
      BY <2>1, <2>2
  <1>3. \A i \in DOMAIN new : i # id => i \in DOMAIN doc /\ new[i] = doc[i]
    BY <1>1
  <1>4. DocOK(known, new)
    BY <1>2, <1>3 DEF DocOK
  <1> QED
    BY <1>4 DEF new

\* Who was promoted or accepted last was accepted.
LEMMA AcceptedIsKnown ==
  ASSUME NEW known, NEW doc, DocOK(known, doc), NEW id, LastStatus(doc, id) = "accepted"
  PROVE  id \in known
  <1>1. id \in DOMAIN doc /\ doc[id][Len(doc[id])] = "accepted"
    BY DEF LastStatus
  <1>2. doc[id] \in Seq(Statuses) /\ Len(doc[id]) > 0
    BY <1>1 DEF DocOK, ReviewOK
  <1>3. Len(doc[id]) \in DOMAIN doc[id]
    BY <1>2
  <1> QED
    BY <1>1, <1>3 DEF DocOK, ReviewOK

-----------------------------------------------------------------------------
(* What every step keeps                                                   *)

\* A request that ends, begins or is killed holds nothing.
LEMMA IdleOK == \A known : RequestOK(known, Idle)
  BY DEF RequestOK, Idle, JobOK, Running, Explaining, Adding, Reviewing, Promoting, ResultOK

\* One request goes on to q, and the documents it writes are sound.
LEMMA InvByParts ==
  ASSUME InferenceInv, NEW r \in load.threads, NEW q, Become(r, q), RequestOK(accepted', q),
         UNCHANGED load, accepted \subseteq accepted',
         GraphOK(accepted', graph'), ResultOK(result'), DocOK(accepted', reviews')
  PROVE  InferenceInv'
  <1>1. r \in Requests /\ DOMAIN req = Requests
    BY DEF InferenceInv
  <1>2. /\ DOMAIN req' = Requests
        /\ req'[r] = q
        /\ \A o \in Requests : o # r => req'[o] = req[o]
    BY <1>1 DEF Become
  <1>3. \A o \in Requests : RequestOK(accepted', req[o])
    BY MoreAccepted DEF InferenceInv
  <1>4. \A o \in Requests : RequestOK(accepted', req'[o])
    BY <1>2, <1>3
  <1>5. GraphOK(accepted, graph)' /\ ResultOK(result)' /\ DocOK(accepted, reviews)'
    BY DEF GraphOK, RelationOK, ResultOK, DocOK, ReviewOK
  <1> QED
    BY <1>2, <1>4, <1>5 DEF InferenceInv

\* Most steps write no document.
LEMMA ReadingKeeps ==
  ASSUME InferenceInv, NEW r \in load.threads, NEW q, Become(r, q), RequestOK(accepted, q),
         UNCHANGED <<graph, result, reviews, accepted, load>>
  PROVE  InferenceInv'
  <1>1. /\ RequestOK(accepted', q) /\ accepted \subseteq accepted'
        /\ GraphOK(accepted', graph') /\ ResultOK(result') /\ DocOK(accepted', reviews')
    BY DEF InferenceInv
  <1> QED
    BY <1>1, InvByParts

\* What a request does with a result of a run is sound.
LEMMA AfterRunOK ==
  ASSUME NEW known, NEW q, RequestOK(known, q), q.pc \in Running \cup Explaining, NEW res
  PROVE  /\ RequestOK(known, AfterRun(q, res))
         /\ RequestOK(known, [AfterRun(q, res) EXCEPT !.log = None, !.run = 0])
  <1> DEFINE d == CHOOSE d \in res.derived : d.id = q.id
             p == [q EXCEPT !.pc = IF q.job = "review" THEN "decide" ELSE "accepted",
                            !.relation = d, !.result = None, !.graph = None]
  <1>1. AfterRun(q, res) = Idle \/ (q.job # "run" /\ AfterRun(q, res) = p)
    BY DEF AfterRun
  <1> HIDE DEF d
  <1>2. CASE AfterRun(q, res) = Idle
    <2> DEFINE s == [Idle EXCEPT !.log = None, !.run = 0]
    <2>1. DOMAIN s = DOMAIN Idle /\ s.job = "idle" /\ s.pc = "idle" /\ s.result = None
      BY DEF Idle
    <2> HIDE DEF s
    <2>2. RequestOK(known, s)
      BY <2>1 DEF RequestOK, JobOK, Running, Explaining, Adding, Reviewing, Promoting, ResultOK
    <2> QED
      BY <1>2, <2>2, IdleOK DEF s
  <1>3. CASE q.job # "run" /\ AfterRun(q, res) = p
    <2>1. DOMAIN q = DOMAIN Idle /\ q.job \in {"review", "promote"} /\ q.pc # "reviews"
      BY <1>3 DEF RequestOK, JobOK, Running, Explaining
    <2>2. /\ DOMAIN p = DOMAIN Idle /\ p.job = q.job /\ p.id = q.id /\ p.arg = q.arg /\ p.doc = q.doc
          /\ p.result = None
          /\ p.pc = IF q.job = "review" THEN "decide" ELSE "accepted"
      BY <2>1 DEF Idle
    <2> HIDE DEF p
    <2> DEFINE s == [p EXCEPT !.log = None, !.run = 0]
    <2>3. /\ DOMAIN s = DOMAIN Idle /\ s.job = p.job /\ s.id = p.id /\ s.arg = p.arg /\ s.doc = p.doc
          /\ s.result = p.result /\ s.pc = p.pc
      BY <2>2 DEF Idle
    <2> HIDE DEF s
    <2>4. ASSUME NEW x, DOMAIN x = DOMAIN Idle, x.job = q.job, x.id = q.id, x.arg = q.arg, x.doc = q.doc,
                 x.result = None, x.pc = IF q.job = "review" THEN "decide" ELSE "accepted"
          PROVE  RequestOK(known, x)
      BY <2>1, <2>4 DEF RequestOK, JobOK, Running, Explaining, Adding, Reviewing, Promoting, ResultOK
    <2> QED
      BY <1>3, <2>2, <2>3, <2>4 DEF s
  <1> QED
    BY <1>1, <1>2, <1>3

-----------------------------------------------------------------------------
(* The steps                                                               *)

\* What is on file is sound, and so is what a request holds.
LEMMA InvGives ==
  ASSUME InferenceInv, NEW r \in load.threads
  PROVE  /\ RequestOK(accepted, req[r])
         /\ GraphOK(accepted, graph) /\ ResultOK(result) /\ DocOK(accepted, reviews)
  BY DEF InferenceInv

\* A request begins with nothing in its hands.
LEMMA StartStep ==
  ASSUME InferenceInv, NEW r \in load.threads, Start(r), UNCHANGED load
  PROVE  InferenceInv'
  <1>1. UNCHANGED <<graph, result, reviews, accepted>>
    BY DEF Start, StartRun, StartInvalidate, StartReview, StartPromote, StartRelate
  <1>2. \E q : Become(r, q) /\ RequestOK(accepted, q)
    <2>1. ASSUME NEW ask, StartRun(r, ask)
          PROVE  \E q : Become(r, q) /\ RequestOK(accepted, q)
      <3>1. RequestOK(accepted, [Begin("run", "graph", None, None) EXCEPT !.ask = ask])
        BY DEF Begin, Idle, RequestOK, JobOK, Running, Explaining, Adding, Reviewing, Promoting, ResultOK
      <3> QED
        BY <2>1, <3>1 DEF StartRun
    <2>2. CASE StartInvalidate(r)
      <3>1. RequestOK(accepted, Begin("invalidate", "invalidate", None, None))
        BY DEF Begin, Idle, RequestOK, JobOK, Running, Explaining, Adding, Reviewing, Promoting, ResultOK
      <3> QED
        BY <2>2, <3>1 DEF StartInvalidate
    <2>3. ASSUME NEW id, NEW d \in {"accepted", "rejected"}, StartReview(r, id, d)
          PROVE  \E q : Become(r, q) /\ RequestOK(accepted, q)
      <3>1. RequestOK(accepted, Begin("review", "reviews", id, d))
        BY DEF Begin, Idle, RequestOK, JobOK, Running, Explaining, Adding, Reviewing, Promoting, ResultOK
      <3> QED
        BY <2>3, <3>1 DEF StartReview
    <2>4. ASSUME NEW id, StartPromote(r, id)
          PROVE  \E q : Become(r, q) /\ RequestOK(accepted, q)
      <3>1. RequestOK(accepted, Begin("promote", "explain", id, None))
        BY DEF Begin, Idle, RequestOK, JobOK, Running, Explaining, Adding, Reviewing, Promoting, ResultOK
      <3> QED
        BY <2>4, <3>1 DEF StartPromote
    <2>5. ASSUME NEW x, StartRelate(r, x)
          PROVE  \E q : Become(r, q) /\ RequestOK(accepted, q)
      <3>1. Link(x).from = None
        BY DEF Link, Relation
      <3>2. RequestOK(accepted, [Begin("relate", "add", None, None) EXCEPT !.relation = Link(x)])
        BY <3>1 DEF Begin, Idle, RequestOK, JobOK, Running, Explaining, Adding, Reviewing, Promoting,
                    ResultOK, RelationOK
      <3> QED
        BY <2>5, <3>2 DEF StartRelate
    <2> QED
      BY <2>1, <2>2, <2>3, <2>4, <2>5 DEF Start
  <1> QED
    BY <1>1, <1>2, ReadingKeeps

\* A run reads what it needs.
LEMMA RunReadsStep ==
  ASSUME InferenceInv, NEW r \in load.threads, UNCHANGED load,
         RunLoadsGraph(r) \/ RunReadsPrevious(r) \/ RunTakesNumber(r) \/ RunReadsHistory(r)
  PROVE  InferenceInv'
  <1> DEFINE p == req[r]
  <1>1. RequestOK(accepted, p) /\ ResultOK(result)
    BY InvGives
  <1> HIDE DEF p
  <1>2. CASE RunLoadsGraph(r)
    <2>1. RequestOK(accepted, [p EXCEPT !.pc = "previous", !.graph = graph])
      BY <1>1, <1>2 DEF RunLoadsGraph, p, Idle, RequestOK, JobOK, Running, Explaining, Adding, Reviewing, Promoting
    <2> QED
      BY <1>2, <2>1, ReadingKeeps DEF RunLoadsGraph, p
  <1>3. CASE RunReadsPrevious(r)
    <2>1. RequestOK(accepted, [p EXCEPT !.pc = "number", !.result = result])
      BY <1>1, <1>3 DEF RunReadsPrevious, p, Idle, RequestOK, JobOK, Running, Explaining, Adding, Reviewing, Promoting
    <2> QED
      BY <1>3, <2>1, ReadingKeeps DEF RunReadsPrevious, p
  <1>4. CASE RunTakesNumber(r)
    <2>1. RequestOK(accepted, [p EXCEPT !.pc = "result", !.run = NextRunNumber(runs)])
      BY <1>1, <1>4 DEF RunTakesNumber, p, Idle, RequestOK, JobOK, Running, Explaining, Adding, Reviewing, Promoting
    <2>2. \/ Become(r, [p EXCEPT !.pc = "result", !.run = NextRunNumber(runs)])
          \/ Become(r, Idle)
      BY <1>4 DEF RunTakesNumber, p
    <2> QED
      BY <1>4, <2>1, <2>2, IdleOK, ReadingKeeps DEF RunTakesNumber
  <1>5. CASE RunReadsHistory(r)
    <2>1. RequestOK(accepted, [p EXCEPT !.pc = "append", !.log = runs])
      BY <1>1, <1>5 DEF RunReadsHistory, p, Idle, RequestOK, JobOK, Running, Explaining, Adding, Reviewing, Promoting
    <2> QED
      BY <1>5, <2>1, ReadingKeeps DEF RunReadsHistory, p
  <1> QED
    BY <1>2, <1>3, <1>4, <1>5

\* The result of a run is what its graph gives by its rules.
LEMMA NewResultOK ==
  ASSUME NEW q
  PROVE  /\ NewResult(q).graph = q.graph
         /\ NewResult(q).derived = Derived(q.graph, q.ask.rules)
         /\ ResultOK(NewResult(q))
  BY DEF NewResult, ResultOK

\* A run puts its result on file.
LEMMA RunWritesResultStep ==
  ASSUME InferenceInv, NEW r \in load.threads, UNCHANGED load, RunWritesResult(r)
  PROVE  InferenceInv'
  <1> DEFINE p == req[r]
  <1>1. RequestOK(accepted, p) /\ GraphOK(accepted, graph) /\ DocOK(accepted, reviews)
    BY InvGives
  <1> HIDE DEF p
  <1>2. RequestOK(accepted, [p EXCEPT !.pc = "history"])
    BY <1>1 DEF RunWritesResult, p, Idle, RequestOK, JobOK, Running, Explaining, Adding, Reviewing, Promoting
  <1>3. ResultOK(result')
    BY NewResultOK DEF RunWritesResult
  <1> QED
    BY <1>1, <1>2, <1>3, InvByParts DEF RunWritesResult, p

\* A run ends, or the request goes on with its result.
LEMMA RunEndsStep ==
  ASSUME InferenceInv, NEW r \in load.threads, UNCHANGED load,
         RunFindsResult(r) \/ RunWritesHistory(r)
  PROVE  InferenceInv'
  <1> DEFINE p == req[r]
  <1>1. RequestOK(accepted, p)
    BY InvGives
  <1>2. CASE RunFindsResult(r)
    <2>1. p.pc \in Running /\ Become(r, AfterRun(p, result))
          /\ UNCHANGED <<graph, result, reviews, accepted>>
      BY <1>2 DEF RunFindsResult, Running
    <2> HIDE DEF p
    <2>2. RequestOK(accepted, AfterRun(p, result))
      BY <1>1, <2>1, AfterRunOK
    <2> QED
      BY <2>1, <2>2, ReadingKeeps
  <1>3. CASE RunWritesHistory(r)
    <2>1. p.pc \in Running /\ Become(r, [AfterRun(p, NewResult(p)) EXCEPT !.log = None, !.run = 0])
          /\ UNCHANGED <<graph, result, reviews, accepted>>
      BY <1>3 DEF RunWritesHistory, Running
    <2> HIDE DEF p
    <2>2. RequestOK(accepted, [AfterRun(p, NewResult(p)) EXCEPT !.log = None, !.run = 0])
      BY <1>1, <2>1, AfterRunOK
    <2> QED
      BY <2>1, <2>2, ReadingKeeps
  <1> QED
    BY <1>2, <1>3

\* An explanation reads the result and the graph, or has a run made.
LEMMA ExplainStep ==
  ASSUME InferenceInv, NEW r \in load.threads, UNCHANGED load,
         Explain(r) \/ StatusLoadsGraph(r) \/ StatusReadsResult(r)
  PROVE  InferenceInv'
  <1> DEFINE p == req[r]
  <1>1. RequestOK(accepted, p) /\ ResultOK(result)
    BY InvGives
  <1>2. UNCHANGED <<graph, result, reviews, accepted>>
    BY DEF Explain, StatusLoadsGraph, StatusReadsResult
  <1> HIDE DEF p
  <1>3. CASE Explain(r) /\ result = None
    <2>1. RequestOK(accepted, [p EXCEPT !.pc = "graph"])
      BY <1>1, <1>3 DEF Explain, p, Idle, RequestOK, JobOK, Running, Explaining, Adding, Reviewing, Promoting
    <2> QED
      BY <1>2, <1>3, <2>1, ReadingKeeps DEF Explain, p
  <1>4. CASE Explain(r) /\ result # None
    <2>1. RequestOK(accepted, [p EXCEPT !.pc = "status", !.result = result])
      BY <1>1, <1>4 DEF Explain, p, Idle, RequestOK, JobOK, Running, Explaining, Adding, Reviewing, Promoting
    <2> QED
      BY <1>2, <1>4, <2>1, ReadingKeeps DEF Explain, p
  <1>5. CASE StatusLoadsGraph(r)
    <2>1. RequestOK(accepted, [p EXCEPT !.pc = "lifecycle", !.graph = graph])
      BY <1>1, <1>5 DEF StatusLoadsGraph, p, Idle, RequestOK, JobOK, Running, Explaining, Adding, Reviewing,
                        Promoting
    <2> QED
      BY <1>2, <1>5, <2>1, ReadingKeeps DEF StatusLoadsGraph, p
  <1>6. CASE StatusReadsResult(r)
    <2>1. p.pc \in Running \cup Explaining /\ \E res : Become(r, AfterRun(p, res))
      BY <1>6 DEF StatusReadsResult, Explaining, p
    <2> QED
      BY <1>1, <1>2, <2>1, AfterRunOK, ReadingKeeps
  <1> QED
    BY <1>3, <1>4, <1>5, <1>6

\* A review begins if the relation was not promoted, and adds a decision to the copy.
LEMMA ReviewStep ==
  ASSUME InferenceInv, NEW r \in load.threads, UNCHANGED load, ReviewLoads(r) \/ ReviewSaves(r)
  PROVE  InferenceInv'
  <1> DEFINE p == req[r]
  <1>1. RequestOK(accepted, p) /\ GraphOK(accepted, graph) /\ ResultOK(result) /\ DocOK(accepted, reviews)
    BY InvGives
  <1> HIDE DEF p
  <1>2. CASE ReviewLoads(r)
    <2>1. CASE LastStatus(reviews, p.id) = "promoted"
      BY <1>2, <2>1, IdleOK, ReadingKeeps DEF ReviewLoads, p
    <2>2. CASE LastStatus(reviews, p.id) # "promoted"
      <3>1. RequestOK(accepted, [p EXCEPT !.pc = "explain", !.doc = reviews])
        BY <1>1, <1>2, <2>2
           DEF ReviewLoads, p, Idle, RequestOK, JobOK, Running, Explaining, Adding, Reviewing, Promoting
      <3> QED
        BY <1>2, <2>2, <3>1, ReadingKeeps DEF ReviewLoads, p
    <2> QED
      BY <2>1, <2>2
  <1>3. CASE ReviewSaves(r)
    <2>1. /\ p.arg \in {"accepted", "rejected"} /\ p.arg \in Statuses /\ p.arg # "promoted"
          /\ DocOK(accepted, p.doc) /\ LastStatus(p.doc, p.id) # "promoted"
      BY <1>1, <1>3 DEF ReviewSaves, p, RequestOK, JobOK, Reviewing, Statuses
    <2>2. /\ reviews' = WithEvent(p.doc, p.id, p.arg)
          /\ accepted' = IF p.arg = "accepted" THEN accepted \cup {p.id} ELSE accepted
          /\ Become(r, Idle)
          /\ UNCHANGED <<graph, result>>
      BY <1>3 DEF ReviewSaves, p
    <2>3. accepted \subseteq accepted' /\ (p.arg = "accepted" => p.id \in accepted')
      BY <2>2
    <2>4. DocOK(accepted', p.doc) /\ GraphOK(accepted', graph')
      BY <1>1, <2>1, <2>2, <2>3, MoreAccepted
    <2>5. DocOK(accepted', reviews')
      BY <2>1, <2>2, <2>3, <2>4, EventKeepsDoc
    <2> QED
      BY <1>1, <2>2, <2>3, <2>4, <2>5, IdleOK, InvByParts
  <1> QED
    BY <1>2, <1>3

\* A promotion begins if the relation was accepted last, and adds itself to the copy.
LEMMA PromoteStep ==
  ASSUME InferenceInv, NEW r \in load.threads, UNCHANGED load,
         PromoteLoadsReviews(r) \/ PromoteLooksForRelation(r) \/ PromoteSaves(r)
  PROVE  InferenceInv'
  <1> DEFINE p == req[r]
  <1>1. RequestOK(accepted, p) /\ GraphOK(accepted, graph) /\ ResultOK(result) /\ DocOK(accepted, reviews)
    BY InvGives
  <1> HIDE DEF p
  <1>2. CASE PromoteLoadsReviews(r)
    <2>1. CASE ~MayPromote(reviews, p.id)
      BY <1>2, <2>1, IdleOK, ReadingKeeps DEF PromoteLoadsReviews, p
    <2>2. CASE MayPromote(reviews, p.id)
      <3>1. RequestOK(accepted, [p EXCEPT !.pc = "existing", !.doc = reviews])
        BY <1>1, <1>2, <2>2
           DEF PromoteLoadsReviews, MayPromote, p, Idle, RequestOK, JobOK, Running, Explaining, Adding,
               Reviewing, Promoting
      <3> QED
        BY <1>2, <2>2, <3>1, ReadingKeeps DEF PromoteLoadsReviews, p
    <2> QED
      BY <2>1, <2>2
  <1>3. CASE PromoteLooksForRelation(r)
    <2>1. p.pc = "existing" /\ p.job = "promote" /\ DocOK(accepted, p.doc) /\ LastStatus(p.doc, p.id) = "accepted"
      BY <1>1, <1>3 DEF PromoteLooksForRelation, p, RequestOK, JobOK, Promoting
    <2>2. CASE Key(p.relation) \in Keys(graph)
      <3>1. RequestOK(accepted, [p EXCEPT !.pc = "promoted"])
        BY <1>1, <2>1 DEF Idle, RequestOK, JobOK, Running, Explaining, Adding, Reviewing, Promoting
      <3> QED
        BY <1>3, <2>2, <3>1, ReadingKeeps DEF PromoteLooksForRelation, p
    <2>3. CASE Key(p.relation) \notin Keys(graph)
      <3> DEFINE f == Promoted(p.relation, p.id)
      <3>1. f.from = p.id
        BY DEF Promoted, Relation
      <3>2. RelationOK(accepted, f)
        BY <2>1, <3>1, AcceptedIsKnown DEF RelationOK
      <3> HIDE DEF f
      <3>3. RequestOK(accepted, [p EXCEPT !.pc = "add", !.relation = f])
        BY <1>1, <2>1, <3>2 DEF Idle, RequestOK, JobOK, Running, Explaining, Adding, Reviewing, Promoting
      <3> QED
        BY <1>3, <2>3, <3>3, ReadingKeeps DEF PromoteLooksForRelation, p, f
    <2> QED
      BY <2>2, <2>3
  <1>4. CASE PromoteSaves(r)
    <2>1. DocOK(accepted, p.doc) /\ LastStatus(p.doc, p.id) = "accepted" /\ p.job = "promote"
      BY <1>1, <1>4 DEF PromoteSaves, p, RequestOK, JobOK, Promoting
    <2>2. /\ reviews' = WithEvent(p.doc, p.id, "promoted")
          /\ Become(r, Begin("promote", "invalidate", p.id, None))
          /\ UNCHANGED <<graph, result, accepted>>
      BY <1>4, <2>1 DEF PromoteSaves, p
    <2>3. DocOK(accepted, reviews')
      BY <2>1, <2>2, EventKeepsDoc DEF Statuses
    <2>4. RequestOK(accepted, Begin("promote", "invalidate", p.id, None))
      BY DEF Begin, Idle, RequestOK, JobOK, Running, Explaining, Adding, Reviewing, Promoting, ResultOK
    <2> QED
      BY <1>1, <2>2, <2>3, <2>4, InvByParts
  <1> QED
    BY <1>2, <1>3, <1>4

\* A relation that is added to the graph is one that a client gave or that was accepted.
LEMMA AddStep ==
  ASSUME InferenceInv, NEW r \in load.threads, UNCHANGED load,
         AddLoads(r) \/ AddSaves(r) \/ RecordLoads(r) \/ RecordSaves(r)
  PROVE  InferenceInv'
  <1> DEFINE p == req[r]
  <1>1. RequestOK(accepted, p) /\ GraphOK(accepted, graph) /\ ResultOK(result) /\ DocOK(accepted, reviews)
    BY InvGives
  <1> HIDE DEF p
  <1>2. CASE AddLoads(r)
    <2>1. RequestOK(accepted, [p EXCEPT !.pc = "save", !.graph = graph])
      BY <1>1, <1>2 DEF AddLoads, p, Idle, RequestOK, JobOK, Running, Explaining, Adding, Reviewing, Promoting
    <2>2. Become(r, Idle) \/ Become(r, [p EXCEPT !.pc = "save", !.graph = graph])
      BY <1>2 DEF AddLoads, p
    <2> QED
      BY <1>2, <2>1, <2>2, IdleOK, ReadingKeeps DEF AddLoads
  <1>3. CASE AddSaves(r)
    <2>1. GraphOK(accepted, p.graph) /\ RelationOK(accepted, p.relation)
      BY <1>1, <1>3 DEF AddSaves, p, RequestOK, Adding
    <2>2. /\ graph' = [p.graph EXCEPT !.relations = @ \cup {p.relation}]
          /\ Become(r, [p EXCEPT !.pc = "record", !.graph = None])
          /\ UNCHANGED <<result, reviews, accepted>>
      BY <1>3 DEF AddSaves, p
    <2>3. GraphOK(accepted, graph')
      BY <2>1, <2>2 DEF GraphOK
    <2>4. RequestOK(accepted, [p EXCEPT !.pc = "record", !.graph = None])
      BY <1>1, <1>3 DEF AddSaves, p, Idle, RequestOK, JobOK, Running, Explaining, Adding, Reviewing, Promoting
    <2> QED
      BY <1>1, <2>2, <2>3, <2>4, InvByParts
  <1>4. CASE RecordLoads(r)
    <2>1. RequestOK(accepted, [p EXCEPT !.pc = "recorded", !.graph = graph])
      BY <1>1, <1>4 DEF RecordLoads, p, Idle, RequestOK, JobOK, Running, Explaining, Adding, Reviewing, Promoting
    <2>2. Become(r, Idle) \/ Become(r, [p EXCEPT !.pc = "recorded", !.graph = graph])
      BY <1>4 DEF RecordLoads, p
    <2> QED
      BY <1>4, <2>1, <2>2, IdleOK, ReadingKeeps DEF RecordLoads
  <1>5. CASE RecordSaves(r)
    <2>1. GraphOK(accepted, p.graph)
      BY <1>1, <1>5 DEF RecordSaves, p, RequestOK
    <2>2. /\ graph' = [p.graph EXCEPT !.recorded = @ \cup {Key(p.relation)}]
          /\ Become(r, AfterRecord(p))
          /\ UNCHANGED <<result, reviews, accepted>>
      BY <1>5 DEF RecordSaves, p
    <2>3. GraphOK(accepted, graph')
      BY <2>1, <2>2 DEF GraphOK
    <2>4. RequestOK(accepted, AfterRecord(p))
      <3>1. CASE p.job = "relate"
        BY <3>1, IdleOK DEF AfterRecord
      <3>2. CASE p.job # "relate"
        <4>1. RequestOK(accepted, [p EXCEPT !.pc = "promoted", !.graph = None])
          BY <1>1, <1>5, <3>2
             DEF RecordSaves, p, Idle, RequestOK, JobOK, Running, Explaining, Adding, Reviewing, Promoting
        <4> QED
          BY <3>2, <4>1 DEF AfterRecord
      <3> QED
        BY <3>1, <3>2
    <2> QED
      BY <1>1, <2>2, <2>3, <2>4, InvByParts
  <1> QED
    BY <1>2, <1>3, <1>4, <1>5

\* A result that is said to be stale is still what its graph gives.
LEMMA InvalidateStep ==
  ASSUME InferenceInv, NEW r \in load.threads, UNCHANGED load, InvalidateReads(r) \/ InvalidateWrites(r)
  PROVE  InferenceInv'
  <1> DEFINE p == req[r]
  <1>1. RequestOK(accepted, p) /\ GraphOK(accepted, graph) /\ ResultOK(result) /\ DocOK(accepted, reviews)
    BY InvGives
  <1> HIDE DEF p
  <1>2. CASE InvalidateReads(r) /\ result = None
    BY <1>2, IdleOK, ReadingKeeps DEF InvalidateReads
  <1>3. CASE InvalidateReads(r) /\ result # None
    <2>1. RequestOK(accepted, [p EXCEPT !.pc = "stale", !.result = result])
      BY <1>1, <1>3
         DEF InvalidateReads, p, Idle, RequestOK, JobOK, Running, Explaining, Adding, Reviewing, Promoting
    <2> QED
      BY <1>3, <2>1, ReadingKeeps DEF InvalidateReads, p
  <1>4. CASE InvalidateWrites(r)
    <2>1. p.result # None /\ ResultOK(p.result)
      BY <1>1, <1>4 DEF InvalidateWrites, p, RequestOK
    <2>2. /\ result' = [p.result EXCEPT !.status = "stale"] /\ Become(r, Idle)
          /\ UNCHANGED <<graph, reviews, accepted>>
      BY <1>4 DEF InvalidateWrites, p
    <2>3. ResultOK(result')
      BY <2>1, <2>2 DEF ResultOK
    <2> QED
      BY <1>1, <2>2, <2>3, IdleOK, InvByParts
  <1> QED
    BY <1>2, <1>3, <1>4

\* At first there is a graph that clients gave.
LEMMA InferenceInvInit == Init => InferenceInv
  <1> SUFFICES ASSUME Init
               PROVE  InferenceInv
    OBVIOUS
  <1>1. load.threads \subseteq Requests
    BY LoadAssumption DEF Init
  <1>2. DOMAIN req = Requests /\ \A r \in Requests : req[r] = Idle
    BY DEF Init
  <1>3. GraphOK(accepted, graph)
    BY DEF Init, GraphOK, RelationOK, Link, Relation
  <1>4. ResultOK(result) /\ DocOK(accepted, reviews)
    BY DEF Init, ResultOK, DocOK
  <1> QED
    BY <1>1, <1>2, <1>3, <1>4, IdleOK DEF InferenceInv

\* Every step keeps the invariant.
LEMMA InferenceInvStep == InferenceInv /\ [Next]_vars => InferenceInv'
  <1> SUFFICES ASSUME InferenceInv, [Next]_vars
               PROVE  InferenceInv'
    OBVIOUS
  <1>1. ASSUME NEW r \in load.threads, Start(r) \/ Step(r), UNCHANGED load
        PROVE  InferenceInv'
    BY <1>1, StartStep, RunReadsStep, RunEndsStep, RunWritesResultStep, ExplainStep, ReviewStep, PromoteStep,
       AddStep, InvalidateStep DEF Step
  <1>2. CASE Crash /\ UNCHANGED load
    BY <1>2, IdleOK DEF Crash, InferenceInv, GraphOK, RelationOK, ResultOK, DocOK, ReviewOK
  <1>3. CASE UNCHANGED vars
    BY <1>3 DEF vars, InferenceInv, GraphOK, RelationOK, ResultOK, DocOK, ReviewOK
  <1> QED
    BY <1>1, <1>2, <1>3 DEF Next

-----------------------------------------------------------------------------
(* One request at a time                                                   *)

\* A request that holds nothing is fresh.
LEMMA IdleFresh == \A g, res, doc : Fresh(Idle, g, res, doc)
  BY DEF Fresh, Idle, HoldsGraph, Adding, Reviewing, Promoting

\* Alone, there is one thread.
LEMMA OneThread ==
  ASSUME InferenceInv, Alone, NEW r \in load.threads
  PROVE  load.threads = {r}
  <1>1. IsFiniteSet(load.threads)
    BY RequestsAssumption, FS_Subset DEF InferenceInv
  <1>2. \E x : load.threads = {x}
    BY <1>1, FS_Singleton DEF Alone
  <1> QED
    BY <1>2

\* The thread goes on to a request that is fresh, and what was promoted is in the graph.
LEMMA AloneByParts ==
  ASSUME InferenceInv, Alone, NEW r \in load.threads, NEW q, Become(r, q), UNCHANGED load,
         Fresh(q, graph', result', reviews'), PromotedHaveFacts(graph', reviews')
  PROVE  AloneInv'
  <1>1. r \in DOMAIN req /\ load'.threads = {r}
    BY OneThread DEF InferenceInv
  <1>2. req'[r] = q
    BY <1>1 DEF Become
  <1>3. Fresh(req[r], graph, result, reviews)'
    BY <1>2 DEF Fresh, HasFact, Derived, Reviewing, Promoting
  <1>4. PromotedHaveFacts(graph, reviews)'
    BY DEF PromotedHaveFacts, HasFact, LastStatus
  <1> QED
    BY <1>1, <1>3, <1>4 DEF AloneInv

\* Most steps write no document.
LEMMA AloneReads ==
  ASSUME InferenceInv, Alone, AloneInv, NEW r \in load.threads, NEW q, Become(r, q), UNCHANGED load,
         Fresh(q, graph, result, reviews), UNCHANGED <<graph, result, reviews>>
  PROVE  AloneInv'
  <1>1. Fresh(q, graph', result', reviews') /\ PromotedHaveFacts(graph', reviews')
    BY DEF AloneInv
  <1> QED
    BY <1>1, AloneByParts

\* What the request of the one thread is known to be.
LEMMA AloneGives ==
  ASSUME InferenceInv, AloneInv, Alone, NEW r \in load.threads
  PROVE  /\ DOMAIN req[r] = DOMAIN Idle /\ JobOK(req[r])
         /\ Fresh(req[r], graph, result, reviews) /\ PromotedHaveFacts(graph, reviews)
  <1>1. r \in Requests
    BY DEF InferenceInv
  <1> QED
    BY <1>1 DEF InferenceInv, AloneInv, RequestOK

\* The relation that a request goes on with is one that the engine derives.
LEMMA AfterRunFresh ==
  ASSUME NEW q, DOMAIN q = DOMAIN Idle, JobOK(q), q.pc \in Running \cup Explaining,
         NEW g, NEW doc, NEW old, Fresh(q, g, old, doc),
         NEW res, NEW rules, res.status = "current" => res.derived = Derived(g, rules)
  PROVE  /\ Fresh(AfterRun(q, res), g, old, doc)
         /\ Fresh([AfterRun(q, res) EXCEPT !.log = None, !.run = 0], g, old, doc)
  <1> DEFINE d == CHOOSE d \in res.derived : d.id = q.id
             p == [q EXCEPT !.pc = IF q.job = "review" THEN "decide" ELSE "accepted",
                            !.relation = d, !.result = None, !.graph = None]
  <1>1. \/ AfterRun(q, res) = Idle
        \/ q.job # "run" /\ q.id \in Ids(res.derived) /\ res.status = "current" /\ AfterRun(q, res) = p
    BY DEF AfterRun
  <1>2. CASE AfterRun(q, res) = Idle
    <2> DEFINE s == [Idle EXCEPT !.log = None, !.run = 0]
    <2>1. s.job = "idle" /\ s.pc = "idle"
      BY DEF Idle
    <2> HIDE DEF s
    <2>2. Fresh(s, g, old, doc)
      BY <2>1 DEF Fresh, HoldsGraph, Adding, Reviewing, Promoting
    <2> QED
      BY <1>2, <2>2, IdleFresh DEF s
  <1>3. CASE q.job # "run" /\ q.id \in Ids(res.derived) /\ res.status = "current" /\ AfterRun(q, res) = p
    <2>1. d \in Derived(g, rules)
      BY <1>3 DEF Ids
    <2> HIDE DEF d
    <2>2. q.job \in {"review", "promote"} /\ q.pc # "reviews"
      BY <1>3 DEF JobOK, Running, Explaining
    <2>3. /\ p.job = q.job /\ p.id = q.id /\ p.doc = q.doc /\ p.relation = d
          /\ p.pc = IF q.job = "review" THEN "decide" ELSE "accepted"
          /\ DOMAIN p = DOMAIN Idle
      BY DEF Idle
    <2> HIDE DEF p
    <2> DEFINE s == [p EXCEPT !.log = None, !.run = 0]
    <2>4. /\ s.job = p.job /\ s.id = p.id /\ s.doc = p.doc /\ s.relation = p.relation /\ s.pc = p.pc
      BY <2>3 DEF Idle
    <2> HIDE DEF s
    <2>5. ASSUME NEW x, x.job = q.job, x.id = q.id, x.doc = q.doc, x.relation = d,
                 x.pc = IF q.job = "review" THEN "decide" ELSE "accepted"
          PROVE  Fresh(x, g, old, doc)
      BY <2>1, <2>2, <2>5 DEF Fresh, HoldsGraph, Running, Explaining, Adding, Reviewing, Promoting
    <2> QED
      BY <1>3, <2>3, <2>4, <2>5 DEF s
  <1> QED
    BY <1>1, <1>2, <1>3

\* A request begins.
LEMMA AloneStartStep ==
  ASSUME InferenceInv, AloneInv, Alone, NEW r \in load.threads, UNCHANGED load, Start(r)
  PROVE  AloneInv'
  <1>1. UNCHANGED <<graph, result, reviews>>
    BY DEF Start, StartRun, StartInvalidate, StartReview, StartPromote, StartRelate
  <1>2. ASSUME NEW job, NEW pc, NEW id, NEW arg,
               <<job, pc>> \in {<<"run", "graph">>, <<"invalidate", "invalidate">>,
                                <<"review", "reviews">>, <<"promote", "explain">>}
        PROVE  Fresh(Begin(job, pc, id, arg), graph, result, reviews)
    BY <1>2 DEF Begin, Idle, Fresh, HoldsGraph, Adding, Reviewing, Promoting
  <1>3. \A x : Fresh([Begin("relate", "add", None, None) EXCEPT !.relation = x], graph, result, reviews)
    BY DEF Begin, Idle, Fresh, HoldsGraph, Adding, Reviewing, Promoting
  <1>4. \E q : Become(r, q) /\ Fresh(q, graph, result, reviews)
    <2>1. ASSUME NEW ask, StartRun(r, ask)
          PROVE  \E q : Become(r, q) /\ Fresh(q, graph, result, reviews)
      <3>1. Fresh([Begin("run", "graph", None, None) EXCEPT !.ask = ask], graph, result, reviews)
        BY DEF Begin, Idle, Fresh, HoldsGraph, Adding, Reviewing, Promoting
      <3> QED
        BY <2>1, <3>1 DEF StartRun
    <2>2. CASE StartInvalidate(r)
      BY <1>2, <2>2 DEF StartInvalidate
    <2>3. ASSUME NEW id, NEW decision, StartReview(r, id, decision)
          PROVE  \E q : Become(r, q) /\ Fresh(q, graph, result, reviews)
      BY <1>2, <2>3 DEF StartReview
    <2>4. ASSUME NEW id, StartPromote(r, id)
          PROVE  \E q : Become(r, q) /\ Fresh(q, graph, result, reviews)
      BY <1>2, <2>4 DEF StartPromote
    <2>5. ASSUME NEW x, StartRelate(r, x)
          PROVE  \E q : Become(r, q) /\ Fresh(q, graph, result, reviews)
      BY <1>3, <2>5 DEF StartRelate
    <2> QED
      BY <2>1, <2>2, <2>3, <2>4, <2>5 DEF Start
  <1> QED
    BY <1>1, <1>4, AloneReads

\* A run is of the graph there is.
LEMMA AloneRunStep ==
  ASSUME InferenceInv, AloneInv, Alone, NEW r \in load.threads, UNCHANGED load,
         \/ RunLoadsGraph(r) \/ RunReadsPrevious(r) \/ RunTakesNumber(r) \/ RunReadsHistory(r)
         \/ RunWritesResult(r) \/ RunFindsResult(r) \/ RunWritesHistory(r)
  PROVE  AloneInv'
  <1> DEFINE p == req[r]
  <1>1. /\ DOMAIN p = DOMAIN Idle /\ JobOK(p)
        /\ Fresh(p, graph, result, reviews) /\ PromotedHaveFacts(graph, reviews) /\ ResultOK(result)
    BY AloneGives, InvGives
  <1> HIDE DEF p
  <1>2. CASE RunLoadsGraph(r)
    <2>1. Fresh([p EXCEPT !.pc = "previous", !.graph = graph], graph, result, reviews)
      BY <1>1, <1>2 DEF RunLoadsGraph, p, Idle, JobOK, Fresh, HoldsGraph, Running, Explaining, Adding, Reviewing, Promoting
    <2> QED
      BY <1>2, <2>1, AloneReads DEF RunLoadsGraph, p
  <1>3. CASE RunReadsPrevious(r)
    <2>1. Fresh([p EXCEPT !.pc = "number", !.result = result], graph, result, reviews)
      BY <1>1, <1>3 DEF RunReadsPrevious, p, Idle, JobOK, Fresh, HoldsGraph, Running, Explaining, Adding, Reviewing, Promoting
    <2> QED
      BY <1>3, <2>1, AloneReads DEF RunReadsPrevious, p
  <1>4. CASE RunTakesNumber(r)
    <2>1. Fresh([p EXCEPT !.pc = "result", !.run = NextRunNumber(runs)], graph, result, reviews)
      BY <1>1, <1>4 DEF RunTakesNumber, p, Idle, JobOK, Fresh, HoldsGraph, Running, Explaining, Adding, Reviewing, Promoting
    <2>2. \/ Become(r, [p EXCEPT !.pc = "result", !.run = NextRunNumber(runs)])
          \/ Become(r, Idle)
      BY <1>4 DEF RunTakesNumber, p
    <2> QED
      BY <1>4, <2>1, <2>2, IdleFresh, AloneReads DEF RunTakesNumber
  <1>5. CASE RunReadsHistory(r)
    <2>1. Fresh([p EXCEPT !.pc = "append", !.log = runs], graph, result, reviews)
      BY <1>1, <1>5 DEF RunReadsHistory, p, Idle, JobOK, Fresh, HoldsGraph, Running, Explaining, Adding, Reviewing, Promoting
    <2> QED
      BY <1>5, <2>1, AloneReads DEF RunReadsHistory, p
  <1>6. CASE RunWritesResult(r)
    <2>1. Fresh([p EXCEPT !.pc = "history"], graph, result', reviews)
      BY <1>1, <1>6 DEF RunWritesResult, p, Idle, JobOK, Fresh, HoldsGraph, Running, Explaining, Adding, Reviewing, Promoting
    <2> QED
      BY <1>1, <1>6, <2>1, AloneByParts DEF RunWritesResult, p
  <1>7. CASE RunFindsResult(r)
    <2>1. p.pc \in Running /\ p.graph = graph /\ result # None /\ result.graph = p.graph
      BY <1>1, <1>7 DEF RunFindsResult, Cached, p, Running, Fresh, HoldsGraph
    <2>2. result.derived = Derived(graph, result.rules)
      BY <1>1, <2>1 DEF ResultOK
    <2>3. Fresh(AfterRun(p, result), graph, result, reviews)
      BY <1>1, <2>1, <2>2, AfterRunFresh
    <2> QED
      BY <1>7, <2>3, AloneReads DEF RunFindsResult, p
  <1>8. CASE RunWritesHistory(r)
    <2>1. p.pc \in Running /\ p.graph = graph
      BY <1>1, <1>8 DEF RunWritesHistory, p, Running, Fresh, HoldsGraph
    <2>2. NewResult(p).derived = Derived(graph, p.ask.rules)
      BY <2>1, NewResultOK
    <2>3. Fresh([AfterRun(p, NewResult(p)) EXCEPT !.log = None, !.run = 0], graph, result, reviews)
      BY <1>1, <2>1, <2>2, AfterRunFresh
    <2> QED
      BY <1>8, <2>3, AloneReads DEF RunWritesHistory, p
  <1> QED
    BY <1>2, <1>3, <1>4, <1>5, <1>6, <1>7, <1>8

\* An explanation that says current is of the graph there is.
LEMMA AloneExplainStep ==
  ASSUME InferenceInv, AloneInv, Alone, NEW r \in load.threads, UNCHANGED load,
         Explain(r) \/ StatusLoadsGraph(r) \/ StatusReadsResult(r)
  PROVE  AloneInv'
  <1> DEFINE p == req[r]
  <1>1. /\ DOMAIN p = DOMAIN Idle /\ JobOK(p) /\ RequestOK(accepted, p)
        /\ Fresh(p, graph, result, reviews) /\ PromotedHaveFacts(graph, reviews) /\ ResultOK(result)
    BY AloneGives, InvGives
  <1> HIDE DEF p
  <1>2. CASE Explain(r)
    <2>1. /\ p.pc = "explain"
          /\ \/ Become(r, [p EXCEPT !.pc = "graph"])
             \/ Become(r, [p EXCEPT !.pc = "status", !.result = result])
      BY <1>2 DEF Explain, p
    <2>2. Fresh([p EXCEPT !.pc = "graph"], graph, result, reviews)
      BY <1>1, <2>1 DEF Idle, JobOK, Fresh, HoldsGraph, Running, Explaining, Adding, Reviewing, Promoting
    <2>3. Fresh([p EXCEPT !.pc = "status", !.result = result], graph, result, reviews)
      BY <1>1, <2>1 DEF Idle, JobOK, Fresh, HoldsGraph, Running, Explaining, Adding, Reviewing, Promoting
    <2> QED
      BY <1>2, <2>1, <2>2, <2>3, AloneReads DEF Explain
  <1>3. CASE StatusLoadsGraph(r)
    <2>1. Fresh([p EXCEPT !.pc = "lifecycle", !.graph = graph], graph, result, reviews)
      BY <1>1, <1>3 DEF StatusLoadsGraph, p, Idle, JobOK, Fresh, HoldsGraph, Running, Explaining, Adding, Reviewing, Promoting
    <2> QED
      BY <1>3, <2>1, AloneReads DEF StatusLoadsGraph, p
  <1>4. CASE StatusReadsResult(r)
    <2> DEFINE status == IF Current(result, p.graph) THEN "current" ELSE "stale"
               res == [p.result EXCEPT !.status = status]
    <2>1. /\ p.pc \in Explaining /\ p.graph = graph /\ p.result = result /\ p.result # None
          /\ Become(r, AfterRun(p, res)) /\ UNCHANGED <<graph, result, reviews>>
      BY <1>1, <1>4 DEF StatusReadsResult, p, Explaining, Fresh, HoldsGraph, RequestOK
    <2>2. /\ DOMAIN p.result = {"graph", "rules", "derived", "status", "run"}
          /\ p.result.derived = Derived(p.result.graph, p.result.rules)
      BY <1>1, <2>1 DEF ResultOK
    <2>3. res.status = status /\ res.derived = p.result.derived
      BY <2>2
    <2> HIDE DEF res
    <2>4. res.status = "current" => res.derived = Derived(graph, p.result.rules)
      BY <2>1, <2>2, <2>3 DEF Current
    <2>5. Fresh(AfterRun(p, res), graph, result, reviews)
      BY <1>1, <2>1, <2>4, AfterRunFresh
    <2> QED
      BY <2>1, <2>5, AloneReads
  <1> QED
    BY <1>2, <1>3, <1>4

\* A decision of a reviewer promotes nothing.
LEMMA AloneReviewStep ==
  ASSUME InferenceInv, AloneInv, Alone, NEW r \in load.threads, UNCHANGED load,
         ReviewLoads(r) \/ ReviewSaves(r)
  PROVE  AloneInv'
  <1> DEFINE p == req[r]
  <1>1. /\ DOMAIN p = DOMAIN Idle /\ JobOK(p) /\ RequestOK(accepted, p)
        /\ Fresh(p, graph, result, reviews) /\ PromotedHaveFacts(graph, reviews)
        /\ DocOK(accepted, reviews)
    BY AloneGives, InvGives
  <1> HIDE DEF p
  <1>2. CASE ReviewLoads(r)
    <2>1. Fresh([p EXCEPT !.pc = "explain", !.doc = reviews], graph, result, reviews)
      BY <1>1, <1>2 DEF ReviewLoads, p, Idle, JobOK, Fresh, HoldsGraph, Running, Explaining, Adding, Reviewing, Promoting
    <2>2. Become(r, Idle) \/ Become(r, [p EXCEPT !.pc = "explain", !.doc = reviews])
      BY <1>2 DEF ReviewLoads, p
    <2> QED
      BY <1>2, <2>1, <2>2, IdleFresh, AloneReads DEF ReviewLoads
  <1>3. CASE ReviewSaves(r)
    <2>1. p.doc = reviews /\ p.arg \in Statuses /\ p.arg # "promoted"
      BY <1>1, <1>3 DEF ReviewSaves, p, RequestOK, JobOK, Fresh, Reviewing, Statuses
    <2>2. reviews' = WithEvent(reviews, p.id, p.arg) /\ Become(r, Idle) /\ UNCHANGED <<graph, result>>
      BY <1>3, <2>1 DEF ReviewSaves, p
    <2>3. \A i : LastStatus(reviews', i) = IF i = p.id THEN p.arg ELSE LastStatus(reviews, i)
      <3>1. \A i : LastStatus(WithEvent(reviews, p.id, p.arg), i) =
                      IF i = p.id THEN p.arg ELSE LastStatus(reviews, i)
        BY <1>1, <2>1, EventIsLast
      <3> QED
        BY <2>2, <3>1
    <2>4. PromotedHaveFacts(graph, reviews')
      <3> SUFFICES ASSUME NEW i, LastStatus(reviews', i) = "promoted"
                   PROVE  HasFact(graph, i)
        BY DEF PromotedHaveFacts
      <3>1. LastStatus(reviews, i) = "promoted"
        BY <2>1, <2>3
      <3>2. i \in DOMAIN reviews
        BY <3>1 DEF LastStatus
      <3> QED
        BY <1>1, <3>1, <3>2 DEF PromotedHaveFacts
    <2> QED
      BY <2>2, <2>4, IdleFresh, AloneByParts
  <1> QED
    BY <1>2, <1>3

\* A relation that is promoted was not in the graph, as it was derived from it, and so
\* has been added by the time that the review says so.
LEMMA AlonePromoteStep ==
  ASSUME InferenceInv, AloneInv, Alone, NEW r \in load.threads, UNCHANGED load,
         \A S, rules : DerivesNothingExplicit(S, rules),
         PromoteLoadsReviews(r) \/ PromoteLooksForRelation(r) \/ PromoteSaves(r)
  PROVE  AloneInv'
  <1> DEFINE p == req[r]
  <1>1. /\ DOMAIN p = DOMAIN Idle /\ JobOK(p) /\ RequestOK(accepted, p)
        /\ Fresh(p, graph, result, reviews) /\ PromotedHaveFacts(graph, reviews)
        /\ DocOK(accepted, reviews)
    BY AloneGives, InvGives
  <1> HIDE DEF p
  <1>2. CASE PromoteLoadsReviews(r)
    <2>1. Fresh([p EXCEPT !.pc = "existing", !.doc = reviews], graph, result, reviews)
      BY <1>1, <1>2 DEF PromoteLoadsReviews, p, Idle, JobOK, Fresh, HoldsGraph, Running, Explaining, Adding, Reviewing, Promoting
    <2>2. Become(r, Idle) \/ Become(r, [p EXCEPT !.pc = "existing", !.doc = reviews])
      BY <1>2 DEF PromoteLoadsReviews, p
    <2> QED
      BY <1>2, <2>1, <2>2, IdleFresh, AloneReads DEF PromoteLoadsReviews
  <1>3. CASE PromoteLooksForRelation(r)
    <2>1. p.pc = "existing" /\ \E rules : p.relation \in Derived(graph, rules)
      BY <1>1, <1>3 DEF PromoteLooksForRelation, p, Fresh
    <2>2. Key(p.relation) \notin Keys(graph)
      BY <2>1 DEF DerivesNothingExplicit, Derived, Keys
    <2> DEFINE f == Promoted(p.relation, p.id)
    <2>3. f.from = p.id
      BY DEF Promoted, Relation
    <2> HIDE DEF f
    <2>4. Fresh([p EXCEPT !.pc = "add", !.relation = f], graph, result, reviews)
      BY <1>1, <2>1, <2>3 DEF Idle, JobOK, Fresh, HoldsGraph, Running, Explaining, Adding, Reviewing, Promoting
    <2> QED
      BY <1>3, <2>2, <2>4, AloneReads DEF PromoteLooksForRelation, p, f
  <1>4. CASE PromoteSaves(r)
    <2>1. p.doc = reviews /\ p.job = "promote" /\ HasFact(graph, p.id)
      BY <1>1, <1>4 DEF PromoteSaves, p, JobOK, Fresh, Promoting
    <2>2. /\ reviews' = WithEvent(reviews, p.id, "promoted")
          /\ Become(r, Begin("promote", "invalidate", p.id, None))
          /\ UNCHANGED <<graph, result>>
      BY <1>4, <2>1 DEF PromoteSaves, p
    <2>3. \A i : LastStatus(reviews', i) = IF i = p.id THEN "promoted" ELSE LastStatus(reviews, i)
      <3>1. "promoted" \in Statuses
        BY DEF Statuses
      <3>2. \A i : LastStatus(WithEvent(reviews, p.id, "promoted"), i) =
                      IF i = p.id THEN "promoted" ELSE LastStatus(reviews, i)
        BY <1>1, <3>1, EventIsLast
      <3> QED
        BY <2>2, <3>2
    <2>4. PromotedHaveFacts(graph, reviews')
      <3> SUFFICES ASSUME NEW i, LastStatus(reviews', i) = "promoted", i # p.id
                   PROVE  HasFact(graph, i)
        BY <2>1 DEF PromotedHaveFacts
      <3>1. LastStatus(reviews, i) = "promoted"
        BY <2>3
      <3>2. i \in DOMAIN reviews
        BY <3>1 DEF LastStatus
      <3> QED
        BY <1>1, <3>1, <3>2 DEF PromotedHaveFacts
    <2>5. Fresh(Begin("promote", "invalidate", p.id, None), graph, result, reviews')
      BY DEF Begin, Idle, Fresh, HoldsGraph, Running, Explaining, Adding, Reviewing, Promoting
    <2> QED
      BY <2>2, <2>4, <2>5, AloneByParts
  <1> QED
    BY <1>2, <1>3, <1>4

\* The graph keeps the facts it has, and gets the one that is promoted.
LEMMA AloneAddStep ==
  ASSUME InferenceInv, AloneInv, Alone, NEW r \in load.threads, UNCHANGED load,
         AddLoads(r) \/ AddSaves(r) \/ RecordLoads(r) \/ RecordSaves(r)
  PROVE  AloneInv'
  <1> DEFINE p == req[r]
  <1>1. /\ DOMAIN p = DOMAIN Idle /\ JobOK(p) /\ RequestOK(accepted, p)
        /\ Fresh(p, graph, result, reviews) /\ PromotedHaveFacts(graph, reviews)
        /\ GraphOK(accepted, graph)
    BY AloneGives, InvGives
  <1> HIDE DEF p
  <1>2. CASE AddLoads(r)
    <2>1. Fresh([p EXCEPT !.pc = "save", !.graph = graph], graph, result, reviews)
      BY <1>1, <1>2 DEF AddLoads, p, Idle, JobOK, Fresh, HoldsGraph, Running, Explaining, Adding, Reviewing, Promoting
    <2>2. Become(r, Idle) \/ Become(r, [p EXCEPT !.pc = "save", !.graph = graph])
      BY <1>2 DEF AddLoads, p
    <2> QED
      BY <1>2, <2>1, <2>2, IdleFresh, AloneReads DEF AddLoads
  <1>3. CASE AddSaves(r)
    <2>1. /\ graph' = [graph EXCEPT !.relations = @ \cup {p.relation}]
          /\ Become(r, [p EXCEPT !.pc = "record", !.graph = None])
          /\ UNCHANGED <<result, reviews>>
      BY <1>1, <1>3 DEF AddSaves, p, Fresh, HoldsGraph
    <2>2. graph'.relations = graph.relations \cup {p.relation}
      BY <1>1, <2>1 DEF GraphOK
    <2>3. PromotedHaveFacts(graph', reviews')
      BY <1>1, <2>1, <2>2 DEF PromotedHaveFacts, HasFact
    <2>4. p.pc = "save" /\ p.job \in {"promote", "relate"}
      BY <1>1, <1>3 DEF AddSaves, p, JobOK, Adding
    <2>5. p.job = "promote" => HasFact(graph', p.id)
      BY <1>1, <2>2, <2>4 DEF HasFact, Fresh
    <2>6. Fresh([p EXCEPT !.pc = "record", !.graph = None], graph', result, reviews)
      BY <1>1, <2>4, <2>5 DEF Idle, Fresh, HoldsGraph, Running, Explaining, Adding, Reviewing, Promoting
    <2> QED
      BY <2>1, <2>3, <2>6, AloneByParts
  <1>4. CASE RecordLoads(r)
    <2>1. Fresh([p EXCEPT !.pc = "recorded", !.graph = graph], graph, result, reviews)
      BY <1>1, <1>4 DEF RecordLoads, p, Idle, JobOK, Fresh, HoldsGraph, Running, Explaining, Adding, Reviewing, Promoting
    <2>2. Become(r, Idle) \/ Become(r, [p EXCEPT !.pc = "recorded", !.graph = graph])
      BY <1>4 DEF RecordLoads, p
    <2> QED
      BY <1>4, <2>1, <2>2, IdleFresh, AloneReads DEF RecordLoads
  <1>5. CASE RecordSaves(r)
    <2>1. /\ graph' = [graph EXCEPT !.recorded = @ \cup {Key(p.relation)}]
          /\ Become(r, AfterRecord(p))
          /\ UNCHANGED <<result, reviews>>
      BY <1>1, <1>5 DEF RecordSaves, p, Fresh, HoldsGraph
    <2>2. graph'.relations = graph.relations
      BY <1>1, <2>1 DEF GraphOK
    <2>3. PromotedHaveFacts(graph', reviews') /\ \A id : HasFact(graph', id) <=> HasFact(graph, id)
      BY <1>1, <2>1, <2>2 DEF PromotedHaveFacts, HasFact
    <2>4. p.pc = "recorded" /\ p.job \in {"promote", "relate"}
      BY <1>1, <1>5 DEF RecordSaves, p, JobOK, Adding
    <2>5. Fresh([p EXCEPT !.pc = "promoted", !.graph = None], graph', result, reviews)
      BY <1>1, <2>3, <2>4 DEF Idle, Fresh, HoldsGraph, Running, Explaining, Adding, Reviewing, Promoting
    <2>6. Fresh(AfterRecord(p), graph', result', reviews')
      BY <2>1, <2>5, IdleFresh DEF AfterRecord
    <2> QED
      BY <2>1, <2>3, <2>6, AloneByParts
  <1> QED
    BY <1>2, <1>3, <1>4, <1>5

\* An invalidation changes the result and ends.
LEMMA AloneInvalidateStep ==
  ASSUME InferenceInv, AloneInv, Alone, NEW r \in load.threads, UNCHANGED load,
         InvalidateReads(r) \/ InvalidateWrites(r)
  PROVE  AloneInv'
  <1> DEFINE p == req[r]
  <1>1. /\ DOMAIN p = DOMAIN Idle /\ JobOK(p)
        /\ Fresh(p, graph, result, reviews) /\ PromotedHaveFacts(graph, reviews)
    BY AloneGives
  <1> HIDE DEF p
  <1>2. CASE InvalidateReads(r)
    <2>1. Fresh([p EXCEPT !.pc = "stale", !.result = result], graph, result, reviews)
      BY <1>1, <1>2 DEF InvalidateReads, p, Idle, JobOK, Fresh, HoldsGraph, Running, Explaining, Adding, Reviewing, Promoting
    <2>2. Become(r, Idle) \/ Become(r, [p EXCEPT !.pc = "stale", !.result = result])
      BY <1>2 DEF InvalidateReads, p
    <2> QED
      BY <1>2, <2>1, <2>2, IdleFresh, AloneReads DEF InvalidateReads
  <1>3. CASE InvalidateWrites(r)
    <2>1. PromotedHaveFacts(graph', reviews') /\ Become(r, Idle)
      BY <1>1, <1>3 DEF InvalidateWrites
    <2> QED
      BY <2>1, IdleFresh, AloneByParts
  <1> QED
    BY <1>2, <1>3

\* Every step keeps what is invariant of one thread.
LEMMA AloneInvStep ==
  ASSUME \A S, rules : DerivesNothingExplicit(S, rules)
  PROVE  InferenceInv /\ AloneInv /\ [Next]_vars => AloneInv'
  <1> SUFFICES ASSUME InferenceInv, AloneInv, [Next]_vars, Alone'
               PROVE  AloneInv'
    BY DEF AloneInv
  <1>1. UNCHANGED load /\ Alone
    BY DEF Next, vars, Alone
  <1>2. ASSUME NEW r \in load.threads, Start(r) \/ Step(r)
        PROVE  AloneInv'
    BY <1>1, <1>2, AloneStartStep, AloneRunStep, AloneExplainStep, AloneReviewStep, AlonePromoteStep,
       AloneAddStep, AloneInvalidateStep DEF Step
  <1>3. CASE Crash
    <2>1. \A r \in load'.threads : req'[r] = Idle
      BY <1>1, <1>3 DEF Crash, InferenceInv
    <2>2. \A r \in load'.threads : Fresh(req[r], graph, result, reviews)'
      BY <2>1, IdleFresh DEF Fresh, HasFact, Derived, Reviewing, Promoting
    <2>3. PromotedHaveFacts(graph, reviews)'
      BY <1>1, <1>3 DEF Crash, AloneInv, PromotedHaveFacts, HasFact, LastStatus
    <2> QED
      BY <2>2, <2>3 DEF AloneInv
  <1>4. CASE UNCHANGED vars
    BY <1>1, <1>4 DEF vars, AloneInv, PromotedHaveFacts, HasFact, LastStatus, Fresh, Derived, Reviewing, Promoting
  <1> QED
    BY <1>2, <1>3, <1>4 DEF Next

\* At first nothing is promoted.
LEMMA AloneInvInit == Init => AloneInv
  <1> SUFFICES ASSUME Init
               PROVE  AloneInv
    OBVIOUS
  <1>1. DOMAIN reviews = {} /\ \A r \in load.threads : req[r] = Idle
    BY LoadAssumption DEF Init
  <1> QED
    BY <1>1, IdleFresh DEF AloneInv, PromotedHaveFacts

-----------------------------------------------------------------------------
(* The runs on file, with one request at a time and no restarts            *)

\* The difference of a run is applied to what the runs before it leave.
LEMMA ReplayedInTurn ==
  ASSUME NEW S, NEW log \in Seq(S), NEW e \in S
  PROVE  Replayed(Append(log, e)) = (Replayed(log) \ e.removed) \cup e.added
  <1> DEFINE new == Append(log, e)
  <1>1. PICK n \in Nat : n = Len(log)
    OBVIOUS
  <1>2. /\ DOMAIN log = 1..n /\ DOMAIN new = 1..(n + 1)
        /\ \A i \in 1..n : new[i] = log[i]
        /\ new[n + 1] = e
    BY <1>1
  <1> HIDE DEF new
  <1>3. ASSUME NEW id \in Replayed(new)
        PROVE  id \in (Replayed(log) \ e.removed) \cup e.added
    <2>1. PICK i \in 1..(n + 1) : id \in new[i].added /\ \A m \in 1..(n + 1) : m > i => id \notin new[m].removed
      BY <1>2, <1>3 DEF Replayed
    <2>2. CASE i = n + 1
      BY <1>2, <2>1, <2>2
    <2>3. CASE i \in 1..n
      <3>1. id \in log[i].added /\ \A m \in 1..n : m > i => id \notin log[m].removed
        BY <1>2, <2>1, <2>3
      <3>2. id \in Replayed(log)
        BY <1>2, <2>3, <3>1 DEF Replayed
      <3>3. id \notin e.removed
        BY <1>2, <2>1, <2>3
      <3> QED
        BY <3>2, <3>3
    <2> QED
      BY <2>1, <2>2, <2>3
  <1>4. ASSUME NEW id \in Replayed(log), id \notin e.removed
        PROVE  id \in Replayed(new)
    <2>1. PICK i \in 1..n : id \in log[i].added /\ \A m \in 1..n : m > i => id \notin log[m].removed
      BY <1>2, <1>4 DEF Replayed
    <2>2. i \in DOMAIN new /\ id \in new[i].added
      BY <1>2, <2>1
    <2>3. \A m \in DOMAIN new : m > i => id \notin new[m].removed
      BY <1>2, <1>4, <2>1
    <2> QED
      BY <2>2, <2>3 DEF Replayed
  <1>5. ASSUME NEW id \in e.added
        PROVE  id \in Replayed(new)
    <2>1. n + 1 \in DOMAIN new /\ id \in new[n + 1].added
      BY <1>2, <1>5
    <2>2. \A m \in DOMAIN new : ~(m > n + 1)
      BY <1>2
    <2> QED
      BY <2>1, <2>2 DEF Replayed
  <1> QED
    BY <1>3, <1>4, <1>5 DEF new

\* A request's result before the run it makes, by the ids that it derives.
IdsOf(res) == IF res = None THEN {} ELSE Ids(res.derived)

\* None is no result.
NoResultIsNone == 
    \A g, rules, d, s, n :
        None # [graph |-> g, rules |-> rules, derived |-> d, status |-> s, run |-> n]

\* A run puts its result on file before its entry, and holds the result before it until then.
Replays(q, res, log) ==
    /\ \E S : log \in Seq(S)
    /\ q.pc \in {"number", "result", "stale"} => q.result = res
    /\ IF q.pc \in {"history", "append"}
       THEN /\ res = NewResult(q) /\ Replayed(log) = IdsOf(q.result)
            /\ q.pc = "append" => q.log = log
       ELSE /\ Replayed(log) = IdsOf(res)
            /\ res # None => log[Len(log)].run = res.run

\* What is invariant besides if there is one thread and no restart.
ReplayInv ==
    Alone /\ ~load.restarts => \A r \in load.threads : Replays(req[r], result, runs)

\* The thread goes on to a request that the runs on file go with.
LEMMA ReplayByParts ==
  ASSUME InferenceInv, Alone, NEW r \in load.threads, NEW q, Become(r, q), UNCHANGED load,
         Replays(q, result', runs')
  PROVE  ReplayInv'
  <1>1. r \in DOMAIN req /\ load'.threads = {r}
    BY OneThread DEF InferenceInv
  <1>2. req'[r] = q
    BY <1>1 DEF Become
  <1>3. Replays(req[r], result, runs)'
    BY <1>2 DEF Replays, NewResult, Derived, Ids, IdsOf, Replayed
  <1> QED
    BY <1>1, <1>3 DEF ReplayInv

\* The steps that neither run anything nor write a result leave the two as they are.
Between == {"number", "result", "history", "append", "stale"}

LEMMA ReplayReads ==
  ASSUME InferenceInv, Alone, NEW r \in load.threads, Replays(req[r], result, runs),
         NEW q, Become(r, q), UNCHANGED <<load, result, runs>>,
         req[r].pc \notin {"history", "append"}, q.pc \notin Between
  PROVE  ReplayInv'
  <1>1. Replays(q, result, runs)
    BY DEF Replays, Between
  <1>2. Replays(q, result', runs')
    BY <1>1
  <1> QED
    BY <1>2, ReplayByParts

\* What a request does with the result of a run is none of these steps.
LEMMA AfterRunIsNotBetween ==
  ASSUME NEW q, DOMAIN q = DOMAIN Idle, NEW res
  PROVE  /\ AfterRun(q, res).pc \notin Between
         /\ [AfterRun(q, res) EXCEPT !.log = None, !.run = 0].pc \notin Between
  <1> DEFINE a == AfterRun(q, res)
  <1>1. DOMAIN a = DOMAIN Idle /\ a.pc \in {"idle", "decide", "accepted"}
    BY DEF AfterRun, Idle
  <1> HIDE DEF a
  <1>2. [a EXCEPT !.log = None, !.run = 0].pc = a.pc
    BY <1>1 DEF Idle
  <1> QED
    BY <1>1, <1>2 DEF Between, a

\* The requests that begin, and the steps besides a run's and an invalidation's.
LEMMA OtherStepReplays ==
  ASSUME InferenceInv, Alone, NEW r \in load.threads, Replays(req[r], result, runs), UNCHANGED load,
         \/ Start(r) \/ RunLoadsGraph(r) \/ RunFindsResult(r)
         \/ Explain(r) \/ StatusLoadsGraph(r) \/ StatusReadsResult(r)
         \/ ReviewLoads(r) \/ ReviewSaves(r)
         \/ PromoteLoadsReviews(r) \/ PromoteLooksForRelation(r) \/ PromoteSaves(r)
         \/ AddLoads(r) \/ AddSaves(r) \/ RecordLoads(r) \/ RecordSaves(r)
  PROVE  ReplayInv'
  <1> DEFINE p == req[r]
  <1>1. DOMAIN p = DOMAIN Idle
    BY InvGives DEF RequestOK
  <1>2. /\ Idle.pc \notin Between
        /\ \A job, id, arg : \A pc \in {"graph", "invalidate", "reviews", "explain", "add"} :
              Begin(job, pc, id, arg).pc \notin Between
        /\ \A x : [Begin("relate", "add", None, None) EXCEPT !.relation = x].pc \notin Between
    BY DEF Begin, Idle, Between
  <1>3. CASE Start(r)
    <2>1. UNCHANGED <<result, runs>> /\ p = Idle
      BY <1>3 DEF Start, StartRun, StartInvalidate, StartReview, StartPromote, StartRelate
    <2> HIDE DEF p
    <2>2. \E q : Become(r, q) /\ q.pc \notin Between
      <3>1. ASSUME NEW ask, StartRun(r, ask)
            PROVE  \E q : Become(r, q) /\ q.pc \notin Between
        <4>1. [Begin("run", "graph", None, None) EXCEPT !.ask = ask].pc \notin Between
          BY DEF Begin, Idle, Between
        <4> QED
          BY <3>1, <4>1 DEF StartRun
      <3>2. CASE StartInvalidate(r)
        BY <1>2, <3>2 DEF StartInvalidate
      <3>3. ASSUME NEW id, NEW decision, StartReview(r, id, decision)
            PROVE  \E q : Become(r, q) /\ q.pc \notin Between
        BY <1>2, <3>3 DEF StartReview
      <3>4. ASSUME NEW id, StartPromote(r, id)
            PROVE  \E q : Become(r, q) /\ q.pc \notin Between
        BY <1>2, <3>4 DEF StartPromote
      <3>5. ASSUME NEW x, StartRelate(r, x)
            PROVE  \E q : Become(r, q) /\ q.pc \notin Between
        BY <1>2, <3>5 DEF StartRelate
      <3> QED
        BY <1>3, <3>1, <3>2, <3>3, <3>4, <3>5 DEF Start
    <2>3. p.pc \notin {"history", "append"}
      BY <2>1 DEF Idle
    <2> QED
      BY <2>1, <2>2, <2>3, ReplayReads DEF p
  <1> HIDE DEF p
  <1>4. CASE RunFindsResult(r) \/ StatusReadsResult(r)
    <2>1. \E res : Become(r, AfterRun(p, res))
      BY <1>4 DEF RunFindsResult, StatusReadsResult, p
    <2>2. UNCHANGED <<result, runs>> /\ p.pc \notin {"history", "append"}
      BY <1>4 DEF RunFindsResult, StatusReadsResult, p
    <2> QED
      BY <1>1, <2>1, <2>2, AfterRunIsNotBetween, ReplayReads DEF p
  <1>5. CASE \/ RunLoadsGraph(r) \/ Explain(r) \/ StatusLoadsGraph(r)
    <2>1. UNCHANGED <<result, runs>> /\ p.pc \notin {"history", "append"}
      BY <1>5 DEF RunLoadsGraph, Explain, StatusLoadsGraph, p
    <2>2. /\ \A x : [p EXCEPT !.pc = "previous", !.graph = x].pc = "previous"
          /\ [p EXCEPT !.pc = "graph"].pc = "graph"
          /\ \A x : [p EXCEPT !.pc = "status", !.result = x].pc = "status"
          /\ \A x : [p EXCEPT !.pc = "lifecycle", !.graph = x].pc = "lifecycle"
      BY <1>1 DEF Idle
    <2>3. \E q : Become(r, q) /\ q.pc \in {"previous", "graph", "status", "lifecycle"}
      <3>1. \/ Become(r, [p EXCEPT !.pc = "previous", !.graph = graph])
            \/ Become(r, [p EXCEPT !.pc = "graph"])
            \/ Become(r, [p EXCEPT !.pc = "status", !.result = result])
            \/ Become(r, [p EXCEPT !.pc = "lifecycle", !.graph = graph])
        <4>1. CASE RunLoadsGraph(r)
          BY <4>1 DEF RunLoadsGraph, p
        <4>2. CASE Explain(r)
          BY <4>2 DEF Explain, p
        <4>3. CASE StatusLoadsGraph(r)
          BY <4>3 DEF StatusLoadsGraph, p
        <4> QED
          BY <1>5, <4>1, <4>2, <4>3
      <3> DEFINE a == [p EXCEPT !.pc = "previous", !.graph = graph]
                 b == [p EXCEPT !.pc = "graph"]
                 c == [p EXCEPT !.pc = "status", !.result = result]
                 d == [p EXCEPT !.pc = "lifecycle", !.graph = graph]
      <3>2. a.pc = "previous" /\ b.pc = "graph" /\ c.pc = "status" /\ d.pc = "lifecycle"
        BY <2>2
      <3>3. Become(r, a) \/ Become(r, b) \/ Become(r, c) \/ Become(r, d)
        BY <3>1
      <3> HIDE DEF a, b, c, d
      <3> QED
        BY <3>2, <3>3
    <2> QED
      BY <2>1, <2>3, ReplayReads DEF p, Between
  <1>6. CASE \/ ReviewLoads(r) \/ ReviewSaves(r)
             \/ PromoteLoadsReviews(r) \/ PromoteLooksForRelation(r) \/ PromoteSaves(r)
    <2>1. UNCHANGED <<result, runs>> /\ p.pc \notin {"history", "append"}
      BY <1>6 DEF ReviewLoads, ReviewSaves, PromoteLoadsReviews, PromoteLooksForRelation, PromoteSaves, p
    <2>2. /\ \A x : [p EXCEPT !.pc = "explain", !.doc = x].pc = "explain"
          /\ \A x : [p EXCEPT !.pc = "existing", !.doc = x].pc = "existing"
          /\ [p EXCEPT !.pc = "promoted"].pc = "promoted"
          /\ \A x : [p EXCEPT !.pc = "add", !.relation = x].pc = "add"
      BY <1>1 DEF Idle
    <2>3. \E q : Become(r, q) /\ q.pc \notin Between
      <3>1. CASE ReviewLoads(r) \/ ReviewSaves(r) \/ PromoteLoadsReviews(r)
        BY <1>2, <2>2, <3>1 DEF ReviewLoads, ReviewSaves, PromoteLoadsReviews, p, Between
      <3>2. CASE PromoteLooksForRelation(r)
        <4>1. \/ Become(r, [p EXCEPT !.pc = "promoted"])
              \/ Become(r, [p EXCEPT !.pc = "add", !.relation = Promoted(p.relation, p.id)])
          BY <1>1, <3>2 DEF PromoteLooksForRelation, p, Idle
        <4> QED
          BY <2>2, <4>1 DEF Between
      <3>3. CASE PromoteSaves(r)
        BY <1>2, <3>3 DEF PromoteSaves
      <3> QED
        BY <1>6, <3>1, <3>2, <3>3
    <2> QED
      BY <2>1, <2>3, ReplayReads DEF p
  <1>7. CASE AddLoads(r) \/ AddSaves(r) \/ RecordLoads(r) \/ RecordSaves(r)
    <2>1. UNCHANGED <<result, runs>> /\ p.pc \notin {"history", "append"}
      BY <1>7 DEF AddLoads, AddSaves, RecordLoads, RecordSaves, p
    <2>2. /\ \A x : [p EXCEPT !.pc = "save", !.graph = x].pc = "save"
          /\ [p EXCEPT !.pc = "record", !.graph = None].pc = "record"
          /\ \A x : [p EXCEPT !.pc = "recorded", !.graph = x].pc = "recorded"
          /\ [p EXCEPT !.pc = "promoted", !.graph = None].pc = "promoted"
      BY <1>1 DEF Idle
    <2>3. \E q : Become(r, q) /\ q.pc \notin Between
      BY <1>2, <1>7, <2>2 DEF AddLoads, AddSaves, RecordLoads, RecordSaves, AfterRecord, p, Between
    <2> QED
      BY <2>1, <2>3, ReplayReads DEF p
  <1> QED
    BY <1>3, <1>4, <1>5, <1>6, <1>7

\* A run holds the result before it, and then has its own on file.
LEMMA RunStepReplays ==
  ASSUME InferenceInv, Alone, NEW r \in load.threads, Replays(req[r], result, runs), UNCHANGED load,
         RunReadsPrevious(r) \/ RunTakesNumber(r) \/ RunWritesResult(r) \/ RunReadsHistory(r)
  PROVE  ReplayInv'
  <1> DEFINE p == req[r]
  <1>1. DOMAIN p = DOMAIN Idle /\ Replays(p, result, runs)
    BY InvGives DEF RequestOK
  <1> HIDE DEF p
  <1>2. CASE RunReadsPrevious(r)
    <2> DEFINE q == [p EXCEPT !.pc = "number", !.result = result]
    <2>1. p.pc = "previous" /\ Become(r, q) /\ UNCHANGED <<result, runs>>
      BY <1>2 DEF RunReadsPrevious, p
    <2>2. q.pc = "number" /\ q.result = result
      BY <1>1 DEF Idle
    <2> HIDE DEF q
    <2>3. Replays(q, result', runs')
      BY <1>1, <2>1, <2>2 DEF Replays
    <2> QED
      BY <2>1, <2>3, ReplayByParts
  <1>3. CASE RunTakesNumber(r)
    <2> DEFINE q == [p EXCEPT !.pc = "result", !.run = NextRunNumber(runs)]
    <2>1. p.pc = "number" /\ (Become(r, Idle) \/ Become(r, q)) /\ UNCHANGED <<result, runs>>
      BY <1>3 DEF RunTakesNumber, p
    <2>2. q.pc = "result" /\ q.result = p.result
      BY <1>1 DEF Idle
    <2> HIDE DEF q
    <2>3. Replays(q, result', runs') /\ Replays(Idle, result', runs')
      BY <1>1, <2>1, <2>2 DEF Replays, Idle
    <2> QED
      BY <2>1, <2>3, ReplayByParts
  <1>4. CASE RunWritesResult(r)
    <2> DEFINE q == [p EXCEPT !.pc = "history"]
    <2>1. p.pc = "result" /\ Become(r, q) /\ result' = NewResult(p) /\ UNCHANGED runs
      BY <1>4 DEF RunWritesResult, p
    <2>2. q.pc = "history" /\ q.result = p.result /\ q.graph = p.graph /\ q.ask = p.ask /\ q.run = p.run
      BY <1>1 DEF Idle
    <2> HIDE DEF q
    <2>3. result' = NewResult(q)
      BY <2>1, <2>2 DEF NewResult
    <2>4. Replays(q, result', runs')
      BY <1>1, <2>1, <2>2, <2>3 DEF Replays
    <2> QED
      BY <2>1, <2>4, ReplayByParts
  <1>5. CASE RunReadsHistory(r)
    <2> DEFINE q == [p EXCEPT !.pc = "append", !.log = runs]
    <2>1. p.pc = "history" /\ Become(r, q) /\ UNCHANGED <<result, runs>>
      BY <1>5 DEF RunReadsHistory, p
    <2>2. /\ q.pc = "append" /\ q.result = p.result /\ q.graph = p.graph /\ q.ask = p.ask /\ q.run = p.run
          /\ q.log = runs
      BY <1>1 DEF Idle
    <2> HIDE DEF q
    <2>3. NewResult(q) = NewResult(p)
      BY <2>2 DEF NewResult
    <2>4. Replays(q, result', runs')
      BY <1>1, <2>1, <2>2, <2>3 DEF Replays
    <2> QED
      BY <2>1, <2>4, ReplayByParts
  <1> QED
    BY <1>2, <1>3, <1>4, <1>5

\* The entry of a run is the difference of its result from the one before, and its last.
LEMMA RunEndReplays ==
  ASSUME NoResultIsNone, InferenceInv, Alone, NEW r \in load.threads, UNCHANGED load,
         Replays(req[r], result, runs), RunWritesHistory(r)
  PROVE  ReplayInv'
  <1> DEFINE p == req[r]
             e == RunEntry(p)
             q == [AfterRun(p, NewResult(p)) EXCEPT !.log = None, !.run = 0]
  <1>1. DOMAIN p = DOMAIN Idle /\ Replays(p, result, runs)
    BY InvGives DEF RequestOK
  <1>2. q.pc \notin Between
    BY <1>1, AfterRunIsNotBetween
  <1>3. /\ p.pc = "append" /\ runs' = Append(p.log, e) /\ Become(r, q) /\ result' = result
    BY DEF RunWritesHistory
  <1>4. /\ e.run = p.run
        /\ e.added = Ids(Derived(p.graph, p.ask.rules)) \ IdsOf(p.result)
        /\ e.removed = IdsOf(p.result) \ Ids(Derived(p.graph, p.ask.rules))
    BY DEF RunEntry, IdsOf
  <1> HIDE DEF p, e, q
  <1>5. p.log = runs /\ result = NewResult(p) /\ Replayed(runs) = IdsOf(p.result)
    BY <1>1, <1>3 DEF Replays
  <1>6. PICK S : runs \in Seq(S)
    BY <1>1 DEF Replays
  <1> DEFINE more == S \cup {e}
  <1>7. runs \in Seq(more) /\ e \in more
    BY <1>6
  <1> HIDE DEF more
  <1>8. runs' = Append(runs, e) /\ runs' \in Seq(more) /\ runs'[Len(runs')] = e
    BY <1>3, <1>5, <1>7
  <1>9. Replayed(runs') = Ids(Derived(p.graph, p.ask.rules))
    <2>1. Replayed(Append(runs, e)) = (Replayed(runs) \ e.removed) \cup e.added
      BY <1>7, ReplayedInTurn
    <2> QED
      BY <1>4, <1>5, <1>8, <2>1
  <1>10. result # None /\ result.run = p.run /\ IdsOf(result) = Ids(Derived(p.graph, p.ask.rules))
    BY <1>5 DEF NewResult, NoResultIsNone, IdsOf
  <1>11. Replays(q, result', runs')
    BY <1>2, <1>3, <1>4, <1>8, <1>9, <1>10 DEF Replays, Between
  <1> QED
    BY <1>3, <1>11, ReplayByParts

\* An invalidation changes nothing of the result but its status.
LEMMA InvalidateStepReplays ==
  ASSUME NoResultIsNone, InferenceInv, Alone, NEW r \in load.threads, UNCHANGED load,
         Replays(req[r], result, runs), InvalidateReads(r) \/ InvalidateWrites(r)
  PROVE  ReplayInv'
  <1> DEFINE p == req[r]
  <1>1. DOMAIN p = DOMAIN Idle /\ Replays(p, result, runs) /\ RequestOK(accepted, p)
    BY InvGives DEF RequestOK
  <1> HIDE DEF p
  <1>2. CASE InvalidateReads(r)
    <2> DEFINE q == [p EXCEPT !.pc = "stale", !.result = result]
    <2>1. p.pc = "invalidate" /\ (Become(r, Idle) \/ Become(r, q)) /\ UNCHANGED <<result, runs>>
      BY <1>2 DEF InvalidateReads, p
    <2>2. q.pc = "stale" /\ q.result = result
      BY <1>1 DEF Idle
    <2> HIDE DEF q
    <2>3. Replays(q, result', runs') /\ Replays(Idle, result', runs')
      BY <1>1, <2>1, <2>2 DEF Replays, Idle
    <2> QED
      BY <2>1, <2>3, ReplayByParts
  <1>3. CASE InvalidateWrites(r)
    <2>1. /\ p.pc = "stale" /\ Become(r, Idle) /\ UNCHANGED runs
          /\ result' = [p.result EXCEPT !.status = "stale"]
      BY <1>3 DEF InvalidateWrites, p
    <2>2. p.result = result /\ result # None /\ DOMAIN result = {"graph", "rules", "derived", "status", "run"}
      BY <1>1, <2>1 DEF Replays, RequestOK, ResultOK
    <2>3. result' = [graph |-> result.graph, rules |-> result.rules, derived |-> result.derived,
                    status |-> "stale", run |-> result.run]
      BY <2>1, <2>2
    <2>4. result' # None /\ result'.derived = result.derived /\ result'.run = result.run
      BY <2>3 DEF NoResultIsNone
    <2>5. IdsOf(result') = IdsOf(result)
      BY <2>2, <2>4 DEF IdsOf
    <2>6. Replays(Idle, result', runs')
      BY <1>1, <2>1, <2>2, <2>4, <2>5 DEF Replays, Idle
    <2> QED
      BY <2>1, <2>6, ReplayByParts
  <1> QED
    BY <1>2, <1>3

\* Every step keeps the runs and the result together.
LEMMA ReplayInvStep ==
  ASSUME NoResultIsNone
  PROVE  InferenceInv /\ ReplayInv /\ [Next]_vars => ReplayInv'
  <1> SUFFICES ASSUME InferenceInv, ReplayInv, [Next]_vars, Alone', ~load'.restarts
               PROVE  ReplayInv'
    BY DEF ReplayInv
  <1>1. UNCHANGED load /\ Alone /\ ~load.restarts
    BY DEF Next, vars, Alone
  <1>2. ASSUME NEW r \in load.threads, Start(r) \/ Step(r)
        PROVE  ReplayInv'
    <2>1. Replays(req[r], result, runs)
      BY <1>1 DEF ReplayInv
    <2> QED
      BY <1>1, <1>2, <2>1, OtherStepReplays, RunStepReplays, RunEndReplays, InvalidateStepReplays DEF Step
  <1>3. CASE UNCHANGED vars
    <2>1. /\ load' = load /\ req' = req /\ result' = result /\ runs' = runs
          /\ \A r \in load.threads : Replays(req[r], result, runs)
      BY <1>1, <1>3 DEF vars, ReplayInv
    <2>2. \A r \in load.threads : Replays(req[r], result, runs)'
      BY ZenonT(40), <2>1 DEF Replays, NewResult, Derived, Ids, IdsOf, Replayed
    <2> QED
      BY <2>1, <2>2 DEF ReplayInv
  <1> QED
    BY <1>1, <1>2, <1>3 DEF Next, Crash

\* At first there is neither a result nor a run.
LEMMA ReplayInvInit == Init => ReplayInv
  <1> SUFFICES ASSUME Init, NEW r \in load.threads
               PROVE  Replays(req[r], result, runs)
    BY DEF ReplayInv
  <1>1. req[r] = Idle /\ result = None /\ runs = <<>>
    BY LoadAssumption DEF Init
  <1>2. Replayed(<<>>) = {}
    BY DEF Replayed
  <1> QED
    BY <1>1, <1>2 DEF Replays, Idle, IdsOf

-----------------------------------------------------------------------------
(* Theorems                                                                *)

\* Whatever is saved over what, a review says promoted once, at its end, and straight
\* after it was accepted. (review_relation, promote_relation)
THEOREM PromotionsWereAccepted == Spec => []PromotionWasAccepted
  <1>1. InferenceInv => PromotionWasAccepted
    BY DEF InferenceInv, DocOK, ReviewOK, PromotionWasAccepted
  <1> QED
    BY <1>1, InferenceInvInit, InferenceInvStep, PTL DEF Spec

\* Nothing that was derived is in the graph but under an identifier that a reviewer has
\* accepted before: of the same rule and the same chain. (promote_relation, create_relation)
THEOREM FactsAreAccepted == Spec => []FactsWereAccepted
  <1>1. InferenceInv => FactsWereAccepted
    BY DEF InferenceInv, GraphOK, RelationOK, FactsWereAccepted
  <1> QED
    BY <1>1, InferenceInvInit, InferenceInvStep, PTL DEF Spec

\* Whichever request wrote the result on file or said that it is stale, it is what the
\* engine gives for the graph and by the rules that it names; and a request that is given
\* it instead of a run is given what it asked for: what its own rules give for the graph
\* that it read. (run, invalidate)
THEOREM ResultsAreReproducible == Spec => ResultIsReproducible
  <1>1. InferenceInv => ResultIsOfItsInputs
    BY DEF InferenceInv, ResultOK, ResultIsOfItsInputs
  <1>2. ResultIsOfItsInputs =>
          \A r \in Requests : RunFindsResult(r)
              => result.derived = Derived(req[r].graph, req[r].ask.rules)
    BY DEF ResultIsOfItsInputs, RunFindsResult, Cached
  <1> QED
    BY <1>1, <1>2, InferenceInvInit, InferenceInvStep, PTL DEF Spec, ResultIsReproducible

\* With one request at a time, a relation whose review says promoted is in the graph,
\* wherever a restart cut a promotion off, of any engine that derives nothing that is
\* in the graph. (promote_relation)
THEOREM PromotedAreFacts ==
  ASSUME \A S, rules : DerivesNothingExplicit(S, rules)
  PROVE  Spec => []PromotedIsFact
  <1>1. AloneInv => PromotedIsFact
    BY DEF AloneInv, PromotedHaveFacts, HasFact, PromotedIsFact
  <1>2. InferenceInv /\ AloneInv /\ [Next]_vars => InferenceInv' /\ AloneInv'
    BY InferenceInvStep, AloneInvStep
  <1> QED
    BY <1>1, <1>2, InferenceInvInit, AloneInvInit, PTL DEF Spec

\* With one request at a time and no restart, the differences on file give the result's
\* relations when they are applied in turn, and the last of them is of the run that made
\* the result: of any engine, with any number of runs, invalidations, reviews and promotions
\* between. (run, _diff, invalidate)
THEOREM RunsReplay ==
  ASSUME NoResultIsNone
  PROVE  Spec => []DiffsReplay
  <1>1. InferenceInv /\ ReplayInv => DiffsReplay
    <2> SUFFICES ASSUME InferenceInv, ReplayInv, Alone, ~load.restarts, result # None,
                        \A r \in Requests : req[r] = Idle
                 PROVE  Replayed(runs) = Ids(result.derived) /\ runs[Len(runs)].run = result.run
      BY DEF DiffsReplay
    <2>1. load.threads # {}
      BY FS_EmptySet DEF Alone
    <2>2. PICK r \in load.threads : TRUE
      BY <2>1
    <2>3. Replays(Idle, result, runs)
      BY <2>2 DEF InferenceInv, ReplayInv
    <2> QED
      BY <2>3 DEF Replays, Idle, IdsOf
  <1>2. InferenceInv /\ ReplayInv /\ [Next]_vars => InferenceInv' /\ ReplayInv'
    BY InferenceInvStep, ReplayInvStep
  <1> QED
    BY <1>1, <1>2, InferenceInvInit, ReplayInvInit, PTL DEF Spec
================================================================================
