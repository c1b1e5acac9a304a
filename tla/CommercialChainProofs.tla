------------------------ MODULE CommercialChainProofs ------------------------
(***************************************************************************)
(* Proofs about CommercialChain, for every set of inputs, every number of  *)
(* requests and every interleaving of them, with or without restarts.      *)
(***************************************************************************)
EXTENDS CommercialChain, TLAPS

-----------------------------------------------------------------------------
(* Sequences whose elements have no common type                            *)

\* The empty sequence is a sequence.
LEMMA EmptyIsSeq == IsSeq(<<>>)
  BY DEF IsSeq, Range

\* Appending keeps a sequence one, extends its domain by one and keeps what
\* it held.
LEMMA AppendIsSeq ==
  ASSUME NEW s, IsSeq(s), NEW x
  PROVE  /\ IsSeq(Append(s, x))
         /\ Len(s) \in Nat
         /\ Len(Append(s, x)) = Len(s) + 1
         /\ DOMAIN s = 1..Len(s)
         /\ DOMAIN Append(s, x) = 1..(Len(s) + 1)
         /\ \A i \in 1..Len(s) : Append(s, x)[i] = s[i]
         /\ Append(s, x)[Len(s) + 1] = x
  <1> DEFINE t == Append(s, x)
  <1>1. s \in Seq(Range(s) \cup {x})
    BY DEF IsSeq
  <1>2. /\ Len(s) \in Nat
        /\ Len(t) = Len(s) + 1
        /\ DOMAIN s = 1..Len(s)
        /\ DOMAIN t = 1..(Len(s) + 1)
        /\ \A i \in 1..Len(s) : t[i] = s[i]
        /\ t[Len(s) + 1] = x
        /\ t \in Seq(Range(s) \cup {x})
    BY <1>1
  <1>3. \A i \in 1..Len(t) : t[i] \in Range(t)
    BY <1>2 DEF Range
  <1>4. t \in Seq(Range(t))
    BY <1>2, <1>3
  <1> QED
    BY <1>2, <1>4 DEF IsSeq

-----------------------------------------------------------------------------
(* Type correctness                                                        *)

\* Every stage of the chain writes a file of its own that is no input file.
LEMMA StageFiles ==
  /\ InputFiles = {"deltas", "rules", "priceBook", "profile"}
  /\ DOMAIN Inputs = {"scope", "commercial", "adjusted", "review", "estimate"}
  /\ \A stage \in DOMAIN Inputs : Len(Inputs[stage]) \in 1..3
  /\ Len(Inputs["estimate"]) = 3
  /\ \A f \in DOMAIN Inputs : f \notin InputFiles
  BY DEF InputFiles, Sources, Inputs

\* Every stage loads files of the chain.
LEMMA StageInputs == \A stage \in DOMAIN Inputs : \A i \in 1..Len(Inputs[stage]) : Inputs[stage][i] \in Files
  <1>1. Files = {"deltas", "rules", "priceBook", "profile",
                 "scope", "commercial", "adjusted", "review", "estimate"}
    BY StageFiles DEF Files
  <1>2. /\ Inputs["scope"] = <<"deltas", "rules">>
        /\ Inputs["commercial"] = <<"scope", "priceBook">>
        /\ Inputs["adjusted"] = <<"commercial", "profile">>
        /\ Inputs["review"] = <<"adjusted">>
        /\ Inputs["estimate"] = <<"commercial", "adjusted", "review">>
    BY DEF Inputs
  <1>3. \A i \in 1..2 : Inputs["scope"][i] \in Files /\ Inputs["commercial"][i] \in Files /\ Inputs["adjusted"][i] \in Files
    BY <1>1, <1>2
  <1>4. \A i \in 1..1 : Inputs["review"][i] \in Files
    BY <1>1, <1>2
  <1>5. \A i \in 1..3 : Inputs["estimate"][i] \in Files
    BY <1>1, <1>2
  <1>6. /\ Len(Inputs["scope"]) = 2 /\ Len(Inputs["commercial"]) = 2 /\ Len(Inputs["adjusted"]) = 2
        /\ Len(Inputs["review"]) = 1 /\ Len(Inputs["estimate"]) = 3
    BY <1>2
  <1> QED
    BY <1>3, <1>4, <1>5, <1>6, StageFiles

\* A request that begins to load the inputs of a stage is well-formed.
LEMMA LoadingOK ==
  ASSUME NEW job, NEW stage \in DOMAIN Inputs
  PROVE  RequestOK(Loading(job, stage))
  BY EmptyIsSeq, StageFiles DEF RequestOK, Loading

\* A request that holds an output to save is well-formed.
LEMMA SavingOK ==
  ASSUME NEW job, NEW stage \in Files, NEW v,
         stage \in InputFiles => v \in Sources[stage]
  PROVE  RequestOK(Saving(job, stage, v))
  BY DEF RequestOK, Saving

\* An idle thread is well-formed.
LEMMA IdleOK == RequestOK(Idle)
  BY DEF RequestOK

\* Whatever follows a written file leaves the request well-formed.
LEMMA AfterWriteOK ==
  ASSUME NEW q
  PROVE  RequestOK(AfterWrite(q))
  <1>1. /\ RequestOK(Loading("build", "commercial"))
        /\ RequestOK(Loading("build", "adjusted"))
        /\ RequestOK(Loading("build", "review"))
        /\ RequestOK(Loading("review", "estimate"))
    BY LoadingOK, StageFiles
  <1>2. /\ RequestOK(Saving("profile", "priceBook", Template.priceBook))
        /\ RequestOK(Saving("profile", "profile", Template.profile))
    BY SavingOK, StageFiles, TemplateAssumption DEF Files
  <1> QED
    BY <1>1, <1>2, IdleOK DEF AfterWrite

\* A step that gives one request a well-formed value leaves all well-formed.
LEMMA OneRequestChanges ==
  ASSUME TypeOK, NEW r \in Requests, NEW q, RequestOK(q),
         req' = [req EXCEPT ![r] = q]
  PROVE  DOMAIN req' = Requests /\ \A t \in Requests : RequestOK(req'[t])
  BY DEF TypeOK

\* A step that gives one file a possible content leaves all files possible.
LEMMA OneFileChanges ==
  ASSUME FilesOK, NEW f \in Files, NEW v,
         f \in InputFiles => v \in Sources[f] \cup {Absent, Empty, Torn},
         files' = [files EXCEPT ![f] = v]
  PROVE  FilesOK'
  BY DEF FilesOK, Files, InputFiles, Sources

\* Every initial state is well-formed.
LEMMA TypeInit == Init => TypeOK
  <1> SUFFICES ASSUME Init PROVE TypeOK
    OBVIOUS
  <1>1. FilesOK
    BY InitialAssumption DEF Init, FilesOK, Files
  <1>2. DOMAIN req = Requests /\ \A r \in Requests : RequestOK(req[r])
    BY IdleOK DEF Init
  <1>3. IsSeq(decisions) /\ \A i \in DOMAIN decisions : decisions[i].new \in Statuses
    BY EmptyIsSeq DEF Init
  <1> QED
    BY <1>1, <1>2, <1>3 DEF TypeOK

\* Taking up a request keeps the state well-formed.
LEMMA TypeStart ==
  ASSUME TypeOK, NEW r \in Requests, Start(r)
  PROVE  TypeOK'
  <1>1. CASE StartBuild(r)
    <2>1. RequestOK(Loading("build", "scope"))
      BY LoadingOK, StageFiles
    <2> QED
      BY <1>1, <2>1, OneRequestChanges DEF StartBuild, TypeOK, FilesOK
  <1>2. CASE StartProfile(r)
    <2>1. RequestOK(Saving("profile", "rules", Template.rules))
      BY SavingOK, StageFiles, TemplateAssumption DEF Files
    <2> QED
      BY <1>2, <2>1, OneRequestChanges DEF StartProfile, TypeOK, FilesOK
  <1>3. ASSUME NEW v \in DeltaSets, StartDeltas(r, v)
        PROVE  TypeOK'
    <2>1. RequestOK(Saving("deltas", "deltas", v))
      BY SavingOK, StageFiles DEF Files, Sources
    <2> QED
      BY <1>3, <2>1, OneRequestChanges DEF StartDeltas, TypeOK, FilesOK
  <1>4. ASSUME NEW stage \in DOMAIN Inputs, StartCommand(r, stage)
        PROVE  TypeOK'
    <2>1. RequestOK(Loading("command", stage))
      BY LoadingOK
    <2> QED
      BY <1>4, <2>1, OneRequestChanges DEF StartCommand, TypeOK, FilesOK
  <1>5. ASSUME NEW job \in {"review", "command"}, NEW new \in Statuses,
               StartReview(r, job, new)
        PROVE  TypeOK'
    <2> DEFINE q == Saving(job, "review",
                           Transition(files.review, new, Len(decisions) + 1))
               d == [new |-> new, terms |-> Terms(files.review),
                     unresolved |-> files.review.unresolved]
    <2>1. RequestOK(q)
      BY SavingOK, StageFiles DEF Files
    <2>2. req' = [req EXCEPT ![r] = q] /\ decisions' = Append(decisions, d)
          /\ files' = files
      BY <1>5 DEF StartReview
    <2>3. IsSeq(decisions') /\ \A i \in DOMAIN decisions' : decisions'[i].new \in Statuses
      <3> HIDE DEF d
      <3>1. d.new \in Statuses
        BY DEF d
      <3>2. IsSeq(decisions) /\ \A i \in DOMAIN decisions : decisions[i].new \in Statuses
        BY DEF TypeOK
      <3> QED
        BY <2>2, <3>1, <3>2, AppendIsSeq
    <2>4. DOMAIN req' = Requests /\ \A t \in Requests : RequestOK(req'[t])
      <3> HIDE DEF q
      <3> QED
        BY <2>1, <2>2, OneRequestChanges
    <2> QED
      BY <2>2, <2>3, <2>4 DEF TypeOK, FilesOK
  <1> QED
    BY <1>1, <1>2, <1>3, <1>4, <1>5 DEF Start

\* Every step of a handler keeps the state well-formed.
LEMMA TypeStep ==
  ASSUME TypeOK, NEW r \in Requests, Step(r)
  PROVE  TypeOK'
  <1> DEFINE q == req[r]
  <1>0. RequestOK(q) /\ FilesOK
    BY DEF TypeOK
  <1>1. CASE LoadInput(r)
    <2> DEFINE n == [q EXCEPT !.loaded = Append(@, NextInput(q))]
    <2>1. /\ q.pc = "load" /\ ~LastInput(q) /\ req' = [req EXCEPT ![r] = n]
          /\ UNCHANGED <<files, decisions>>
      BY <1>1 DEF LoadInput, TypeOK
    <2>2. /\ q.stage \in DOMAIN Inputs
          /\ IsSeq(q.loaded)
          /\ Len(q.loaded) < Len(Inputs[q.stage])
      BY <1>0, <2>1 DEF RequestOK, Idle
    <2>3. RequestOK(n)
      BY <2>1, <2>2, AppendIsSeq, StageFiles DEF RequestOK, LastInput
    <2> QED
      BY <2>1, <2>3, OneRequestChanges DEF TypeOK, FilesOK
  <1>2. CASE Compute(r)
    <2> DEFINE v == Output(q.stage, Append(q.loaded, NextInput(q)))
    <2>1. /\ q.pc = "load" /\ req' = [req EXCEPT ![r] = Saving(q.job, q.stage, v)]
          /\ UNCHANGED <<files, decisions>>
      BY <1>2 DEF Compute
    <2>2. q.stage \in DOMAIN Inputs
      BY <1>0, <2>1 DEF RequestOK, Idle
    <2>3. RequestOK(Saving(q.job, q.stage, v))
      BY <2>2, SavingOK, StageFiles DEF Files
    <2> QED
      BY <2>1, <2>3, OneRequestChanges DEF TypeOK, FilesOK
  <1>3. CASE Fail(r)
    BY <1>3, IdleOK, OneRequestChanges DEF Fail, TypeOK, FilesOK
  <1>4. CASE OpenOutput(r)
    <2> DEFINE n == [q EXCEPT !.pc = "write"]
    <2>1. /\ q.pc = "open" /\ req' = [req EXCEPT ![r] = n] /\ UNCHANGED decisions
          /\ files' = [files EXCEPT ![q.stage] = Empty]
      BY <1>4 DEF OpenOutput, TypeOK
    <2>2. /\ q.stage \in Files
          /\ q.stage \in InputFiles => q.out \in Sources[q.stage]
      BY <1>0, <2>1 DEF RequestOK, Idle
    <2>3. RequestOK(n)
      BY <2>1, <2>2 DEF RequestOK
    <2>4. FilesOK'
      BY <1>0, <2>1, <2>2, OneFileChanges
    <2> QED
      BY <2>1, <2>3, <2>4, OneRequestChanges DEF TypeOK
  <1>5. CASE WriteOutput(r)
    <2>1. PICK v \in Landed(files[q.stage], q.out) :
             /\ q.pc = "write" /\ req' = [req EXCEPT ![r] = AfterWrite(q)]
             /\ UNCHANGED decisions /\ files' = [files EXCEPT ![q.stage] = v]
      BY <1>5 DEF WriteOutput
    <2>2. /\ q.stage \in Files
          /\ q.stage \in InputFiles => q.out \in Sources[q.stage]
      BY <1>0, <2>1 DEF RequestOK, Idle
    <2>3. FilesOK'
      BY <1>0, <2>1, <2>2, OneFileChanges DEF Landed
    <2> QED
      BY <2>1, <2>3, AfterWriteOK, OneRequestChanges DEF TypeOK
  <1> QED
    BY <1>1, <1>2, <1>3, <1>4, <1>5 DEF Step

\* Every step keeps the state well-formed.
LEMMA TypeNext == TypeOK /\ [Next]_vars => TypeOK'
  <1> SUFFICES ASSUME TypeOK, [Next]_vars PROVE TypeOK'
    OBVIOUS
  <1>1. ASSUME NEW r \in Requests, Start(r) \/ Step(r) PROVE TypeOK'
    BY <1>1, TypeStart, TypeStep
  <1>2. ASSUME NEW f \in InputFiles \ {"deltas"}, NEW v \in Sources[f], EditInput(f, v)
        PROVE  TypeOK'
    <2>1. FilesOK'
      BY <1>2, OneFileChanges DEF EditInput, TypeOK, Files
    <2> QED
      BY <1>2, <2>1 DEF EditInput, TypeOK
  <1>3. CASE Crash
    BY <1>3, IdleOK DEF Crash, TypeOK, FilesOK
  <1>4. CASE UNCHANGED vars
    BY <1>4 DEF vars, TypeOK, FilesOK
  <1> QED
    BY <1>1, <1>2, <1>3, <1>4 DEF Next

\* Type correctness: whatever requests run and however they interleave, the
\* input files hold one of their possible contents and every handler is at a
\* point of its code.
THEOREM TypeCorrect == Spec => []TypeOK
  BY TypeInit, TypeNext, PTL DEF Spec

-----------------------------------------------------------------------------
(* Approvals.  EstimateWasApproved is not inductive: a request holds the   *)
(* review or the estimate it is about to save, so the invariant speaks of  *)
(* what is on file and of what requests hold, and says of a review that    *)
(* its own approval was given.                                             *)

\* The decision with this number approved a calculation on these terms.
Approved(id, terms) ==
    /\ id \in DOMAIN decisions
    /\ decisions[id].new = "approved"
    /\ decisions[id].unresolved = 0
    /\ decisions[id].terms = terms

\* x has exactly the fields of a review.
IsReview(x) ==
    x = [baseline |-> x.baseline, priceBook |-> x.priceBook,
         profile |-> x.profile, currency |-> x.currency, total |-> x.total,
         unresolved |-> x.unresolved, status |-> x.status,
         latest |-> x.latest, history |-> x.history]

GoodHistory(x) == IsSeq(x.history) /\ LegalChain(x)

GoodReview(x) ==
    /\ IsReview(x)
    /\ GoodHistory(x)
    /\ x.status = "approved" => x.unresolved = 0 /\ Approved(x.latest, Terms(x))

GoodEstimate(x) == Approved(x.event, Terms(x))

HeldOK(q) ==
    q.pc \in {"open", "write"} =>
        /\ q.stage = "review" => GoodReview(q.out)
        /\ q.stage = "estimate" => GoodEstimate(q.out)

FiledOK ==
    /\ Readable(files["review"]) => GoodReview(files["review"])
    /\ Readable(files["estimate"]) => GoodEstimate(files["estimate"])

ApprovalInv == FiledOK /\ \A r \in Requests : HeldOK(req[r])

\* A request that begins a stage holds no review and no estimate yet.
LEMMA LoadingHolds == ASSUME NEW job, NEW stage PROVE HeldOK(Loading(job, stage))
  BY DEF HeldOK, Loading

\* An idle thread holds no review and no estimate.
LEMMA IdleHolds == HeldOK(Idle)
  BY DEF HeldOK, Idle

\* A request about to save a good output satisfies the invariant.
LEMMA SavingHolds ==
  ASSUME NEW job, NEW stage, NEW v,
         stage = "review" => GoodReview(v),
         stage = "estimate" => GoodEstimate(v)
  PROVE  HeldOK(Saving(job, stage, v))
  BY DEF HeldOK, Saving

\* A request that has written its file holds nothing that could be bad.
LEMMA AfterWriteHolds == ASSUME NEW q PROVE HeldOK(AfterWrite(q))
  <1>1. /\ HeldOK(Saving("profile", "priceBook", Template.priceBook))
        /\ HeldOK(Saving("profile", "profile", Template.profile))
    BY SavingHolds
  <1> QED
    BY <1>1, LoadingHolds, IdleHolds DEF AfterWrite

\* A step that leaves the decisions alone and gives one request a good value.
LEMMA OneRequestHolds ==
  ASSUME TypeOK, ApprovalInv, NEW r \in Requests, NEW q, HeldOK(q),
         req' = [req EXCEPT ![r] = q], UNCHANGED <<files, decisions>>
  PROVE  ApprovalInv'
  BY DEF ApprovalInv, FiledOK, HeldOK, GoodReview, GoodEstimate, IsReview,
         Approved, Terms, TypeOK

\* A fresh proposal is a good review: it has no history and no approval.
LEMMA ProposalGood == ASSUME NEW adjusted PROVE GoodReview(InitializeReview(adjusted))
  BY EmptyIsSeq DEF GoodReview, GoodHistory, LegalChain, IsReview, InitializeReview

\* generate_estimate gives the estimate the terms of the review it accepted.
LEMMA EstimateGood ==
  ASSUME NEW c, NEW a, NEW review, GoodReview(review), EstimateAccepted(c, a, review)
  PROVE  GoodEstimate(GenerateEstimate(c, a, review))
  <1>1. Approved(review.latest, Terms(review))
    BY DEF GoodReview, EstimateAccepted, InputsValid
  <1>2. Terms(GenerateEstimate(c, a, review)) = Terms(review)
    BY DEF Terms, GenerateEstimate, EstimateAccepted, InputsValid, Agree
  <1>3. GenerateEstimate(c, a, review).event = review.latest
    BY DEF GenerateEstimate
  <1> QED
    BY <1>1, <1>2, <1>3 DEF GoodEstimate

\* A transition changes the status, the latest event and the history only.
LEMMA TransitionShape ==
  ASSUME NEW review, IsReview(review), NEW new, NEW id
  PROVE  Transition(review, new, id)
           = [baseline |-> review.baseline, priceBook |-> review.priceBook,
              profile |-> review.profile, currency |-> review.currency,
              total |-> review.total, unresolved |-> review.unresolved,
              status |-> new, latest |-> id,
              history |-> Append(review.history, Event(review, new, id))]
  <1> DEFINE event == Event(review, new, id)
  <1> HIDE DEF event
  <1>1. Transition(review, new, id)
          = [review EXCEPT !.status = new, !.latest = id,
                           !.history = Append(review.history, event)]
    BY Zenon DEF Transition, event
  <1>2. @ = [baseline |-> review.baseline, priceBook |-> review.priceBook,
             profile |-> review.profile, currency |-> review.currency,
             total |-> review.total, unresolved |-> review.unresolved,
             status |-> new, latest |-> id,
             history |-> Append(review.history, event)]
    <2>1. PICK b, p, a, c, n, u, s, l, h :
             review = [baseline |-> b, priceBook |-> p, profile |-> a,
                       currency |-> c, total |-> n, unresolved |-> u,
                       status |-> s, latest |-> l, history |-> h]
      BY DEF IsReview
    <2> DEFINE h2 == Append(review.history, event)
               r1 == [review EXCEPT !.status = new]
               r2 == [r1 EXCEPT !.latest = id]
               r3 == [r2 EXCEPT !.history = h2]
    <2> HIDE DEF h2, r1, r2, r3
    <2>2. r1 = [baseline |-> b, priceBook |-> p, profile |-> a, currency |-> c,
                total |-> n, unresolved |-> u, status |-> new, latest |-> l,
                history |-> h]
      BY <2>1 DEF r1
    <2>3. r2 = [baseline |-> b, priceBook |-> p, profile |-> a, currency |-> c,
                total |-> n, unresolved |-> u, status |-> new, latest |-> id,
                history |-> h]
      BY <2>2 DEF r2
    <2>4. r3 = [baseline |-> b, priceBook |-> p, profile |-> a, currency |-> c,
                total |-> n, unresolved |-> u, status |-> new, latest |-> id,
                history |-> h2]
      BY <2>3 DEF r3
    <2>5. r3 = [review EXCEPT !.status = new, !.latest = id,
                              !.history = Append(review.history, event)]
      BY Zenon DEF r3, r2, r1, h2
    <2> QED
      BY <2>1, <2>4, <2>5 DEF h2
  <1> QED
    BY <1>1, <1>2 DEF event

\* A transition extends a legal history by one legal decision.
LEMMA TransitionHistory ==
  ASSUME NEW review, IsReview(review), GoodHistory(review), NEW new, NEW id,
         CanTransition(review, new),
         NEW t, t = Transition(review, new, id)
  PROVE  GoodHistory(t)
  <1> DEFINE h == review.history
             e == Event(review, new, id)
             n == Len(h)
  <1>1. /\ e.previous = review.status
        /\ e.new = new
        /\ e.id = id
        /\ e.supersedes = review.latest
    BY DEF Event
  <1>2. /\ t.status = new
        /\ t.latest = id
        /\ t.history = Append(h, e)
    BY TransitionShape
  <1>3. IsSeq(h) /\ (h = <<>> <=> n = 0) /\ n \in Nat
    BY DEF GoodHistory, IsSeq
  <1> HIDE DEF e
  <1>4. /\ IsSeq(t.history)
        /\ DOMAIN h = 1..n
        /\ DOMAIN t.history = 1..(n + 1)
        /\ Len(t.history) = n + 1
        /\ \A i \in 1..n : t.history[i] = h[i]
        /\ t.history[n + 1] = e
    BY <1>2, <1>3, AppendIsSeq
  <1>5. new \in Allowed[review.status]
    BY DEF CanTransition
  <1>6. ASSUME NEW i \in 1..(n + 1)
        PROVE  /\ t.history[i].previous
                     = IF i = 1 THEN "proposed" ELSE t.history[i-1].new
               /\ t.history[i].supersedes = IF i = 1 THEN None ELSE t.history[i-1].id
               /\ t.history[i].new \in Allowed[t.history[i].previous]
    <2>1. CASE i \in 1..n
      <3>1. t.history[i] = h[i]
        BY <1>4, <2>1
      <3>2. i # 1 => i - 1 \in 1..n /\ t.history[i-1] = h[i-1]
        BY <1>3, <1>4, <2>1
      <3>3. \A j \in DOMAIN h :
               /\ h[j].previous = IF j = 1 THEN "proposed" ELSE h[j-1].new
               /\ h[j].supersedes = IF j = 1 THEN None ELSE h[j-1].id
               /\ h[j].new \in Allowed[h[j].previous]
        BY Zenon DEF GoodHistory, LegalChain
      <3>4. i \in DOMAIN h
        BY <1>4, <2>1
      <3>5. /\ h[i].previous = IF i = 1 THEN "proposed" ELSE h[i-1].new
            /\ h[i].supersedes = IF i = 1 THEN None ELSE h[i-1].id
            /\ h[i].new \in Allowed[h[i].previous]
        BY <3>3, <3>4
      <3> HIDE DEF h, n
      <3> QED
        BY <3>1, <3>2, <3>5
    <2>2. CASE i = n + 1
      BY <1>1, <1>3, <1>4, <1>5, <2>2 DEF GoodHistory, LegalChain
    <2> QED
      BY <1>3, <2>1, <2>2
  <1>7. t.history # <<>>
    BY <1>3, <1>4
  <1> QED
    BY <1>1, <1>2, <1>3, <1>4, <1>6, <1>7 DEF GoodHistory, LegalChain

\* A transition keeps the terms, and the approval it records is its own.
LEMMA TransitionGood ==
  ASSUME TypeOK, NEW review, GoodReview(review), NEW new,
         CanTransition(review, new),
         NEW t, t = Transition(review, new, Len(decisions) + 1),
         decisions' = Append(decisions, [new |-> new, terms |-> Terms(review),
                                         unresolved |-> review.unresolved])
  PROVE  /\ GoodReview(t)'
         /\ \A id, terms : Approved(id, terms) => Approved(id, terms)'
  <1> DEFINE d == [new |-> new, terms |-> Terms(review),
                   unresolved |-> review.unresolved]
  <1>1. IsSeq(decisions)
    BY DEF TypeOK
  <1>2. /\ Len(decisions) \in Nat
        /\ DOMAIN decisions = 1..Len(decisions)
        /\ DOMAIN decisions' = 1..(Len(decisions) + 1)
        /\ \A i \in 1..Len(decisions) : decisions'[i] = decisions[i]
        /\ decisions'[Len(decisions) + 1] = d
    <2> HIDE DEF d
    <2> QED
      BY <1>1, AppendIsSeq DEF d
  <1>3. /\ IsReview(t)
        /\ Terms(t) = Terms(review)
        /\ t.status = new
        /\ t.latest = Len(decisions) + 1
        /\ t.unresolved = review.unresolved
    BY TransitionShape DEF GoodReview, IsReview, Terms
  <1>4. new = "approved" => review.unresolved = 0
    BY DEF CanTransition, CanApprove
  <1>5. \A id, terms : Approved(id, terms) => Approved(id, terms)'
    BY SMTT(30), <1>2 DEF Approved
  <1>6. GoodReview(t)'
    <2>0. GoodHistory(t)
      BY TransitionHistory DEF GoodReview
    <2>1. ASSUME new = "approved"
          PROVE  Approved(t.latest, Terms(t))'
      BY <1>2, <1>3, <1>4, <2>1 DEF Approved, Terms
    <2> QED
      BY <1>3, <1>4, <2>0, <2>1 DEF GoodReview, GoodHistory, LegalChain, IsSeq, IsReview
  <1> QED
    BY <1>5, <1>6

\* Initially nothing is on file, so the invariant holds.
LEMMA ApprovalInit == Init => ApprovalInv
  BY IdleHolds, StageFiles DEF Init, ApprovalInv, FiledOK, Readable, Files

\* A good review or estimate stays good when decisions are added.
LEMMA GoodIsStable ==
  ASSUME \A id, terms : Approved(id, terms) => Approved(id, terms)'
  PROVE  /\ \A x : GoodReview(x) => GoodReview(x)'
         /\ \A x : GoodEstimate(x) => GoodEstimate(x)'
  BY DEF GoodReview, GoodHistory, LegalChain, IsSeq, GoodEstimate, IsReview, Terms

\* Taking up a request keeps every review and estimate good; a decision adds
\* a good one.
LEMMA ApprovalStart ==
  ASSUME TypeOK, ApprovalInv, NEW r \in Requests, Start(r)
  PROVE  ApprovalInv'
  <1>1. CASE StartBuild(r)
    BY <1>1, LoadingHolds, OneRequestHolds DEF StartBuild
  <1>2. CASE StartProfile(r)
    <2>1. HeldOK(Saving("profile", "rules", Template.rules))
      BY SavingHolds
    <2> QED
      BY <1>2, <2>1, OneRequestHolds DEF StartProfile
  <1>3. ASSUME NEW v \in DeltaSets, StartDeltas(r, v)
        PROVE  ApprovalInv'
    <2>1. HeldOK(Saving("deltas", "deltas", v))
      BY SavingHolds
    <2> QED
      BY <1>3, <2>1, OneRequestHolds DEF StartDeltas
  <1>4. ASSUME NEW stage \in DOMAIN Inputs, StartCommand(r, stage)
        PROVE  ApprovalInv'
    BY <1>4, LoadingHolds, OneRequestHolds DEF StartCommand
  <1>5. ASSUME NEW job \in {"review", "command"}, NEW new \in Statuses,
               StartReview(r, job, new)
        PROVE  ApprovalInv'
    <2>1. PICK t : t = Transition(files.review, new, Len(decisions) + 1)
      OBVIOUS
    <2>2. /\ GoodReview(files.review)
          /\ CanTransition(files.review, new)
          /\ req' = [req EXCEPT ![r] = Saving(job, "review", t)]
          /\ decisions' = Append(decisions, [new |-> new, terms |-> Terms(files.review),
                                             unresolved |-> files.review.unresolved])
          /\ files' = files
      BY <1>5, <2>1 DEF StartReview, ApprovalInv, FiledOK
    <2>3. PICK review : review = files.review
      OBVIOUS
    <2>4. GoodReview(t)' /\ \A id, terms : Approved(id, terms) => Approved(id, terms)'
      BY <2>1, <2>2, <2>3, TransitionGood
    <2>5. FiledOK'
      BY <2>2, <2>4, GoodIsStable DEF ApprovalInv, FiledOK
    <2>6. ASSUME NEW s \in Requests
          PROVE  HeldOK(req[s])'
      <3>1. CASE s = r
        BY <2>2, <2>4, <3>1 DEF TypeOK, HeldOK, Saving
      <3>2. CASE s # r
        <4>1. req'[s] = req[s] /\ HeldOK(req[s])
          BY <2>2, <3>2 DEF TypeOK, ApprovalInv
        <4> QED
          BY <2>4, <4>1, GoodIsStable DEF HeldOK
      <3> QED
        BY <3>1, <3>2
    <2> QED
      BY <2>5, <2>6 DEF ApprovalInv
  <1> QED
    BY <1>1, <1>2, <1>3, <1>4, <1>5 DEF Start

\* One file and one request change: the file becomes unreadable or good.
LEMMA OneWriteHolds ==
  ASSUME TypeOK, ApprovalInv, NEW r \in Requests, NEW n, HeldOK(n),
         req' = [req EXCEPT ![r] = n], UNCHANGED decisions,
         NEW f \in Files, NEW v, files' = [files EXCEPT ![f] = v],
         f = "review" /\ Readable(v) => GoodReview(v),
         f = "estimate" /\ Readable(v) => GoodEstimate(v)
  PROVE  ApprovalInv'
  <1>1. /\ \A x : GoodReview(x) => GoodReview(x)'
        /\ \A x : GoodEstimate(x) => GoodEstimate(x)'
    BY DEF GoodReview, GoodEstimate, IsReview, Terms, Approved
  <1>2. FiledOK'
    <2>1. /\ files'["review"] = IF f = "review" THEN v ELSE files["review"]
          /\ files'["estimate"] = IF f = "estimate" THEN v ELSE files["estimate"]
      BY StageFiles DEF TypeOK, FilesOK, Files
    <2> QED
      BY <1>1, <2>1 DEF FiledOK, ApprovalInv, Readable
  <1>3. ASSUME NEW s \in Requests
        PROVE  HeldOK(req[s])'
    <2>1. HeldOK(req'[s])
      BY DEF TypeOK, ApprovalInv
    <2> QED
      BY <1>1, <2>1 DEF HeldOK
  <1> QED
    BY <1>2, <1>3 DEF ApprovalInv

\* Every step of a handler keeps every review and estimate good.
LEMMA ApprovalStep ==
  ASSUME TypeOK, ApprovalInv, NEW r \in Requests, Step(r)
  PROVE  ApprovalInv'
  <1> DEFINE q == req[r]
  <1>0. RequestOK(q) /\ HeldOK(q)
    BY DEF TypeOK, ApprovalInv
  <1>1. CASE LoadInput(r)
    <2> DEFINE n == [q EXCEPT !.loaded = Append(@, NextInput(q))]
    <2>1. /\ q.pc = "load" /\ req' = [req EXCEPT ![r] = n]
          /\ UNCHANGED <<files, decisions>>
      BY <1>1 DEF LoadInput, TypeOK
    <2>2. HeldOK(n)
      BY <1>0, <2>1 DEF HeldOK, RequestOK, Idle
    <2> QED
      BY <2>1, <2>2, OneRequestHolds
  <1>2. CASE Compute(r)
    <2> DEFINE in == Append(q.loaded, NextInput(q))
    <2>1. /\ q.pc = "load" /\ LastInput(q) /\ Readable(NextInput(q))
          /\ ~Refused(q.stage, in)
          /\ req' = [req EXCEPT ![r] = Saving(q.job, q.stage, Output(q.stage, in))]
          /\ UNCHANGED <<files, decisions>>
      BY <1>2 DEF Compute
    <2>2. q.stage \in DOMAIN Inputs /\ IsSeq(q.loaded)
      BY <1>0, <2>1 DEF RequestOK, Idle
    <2>3. ASSUME q.stage = "review" PROVE GoodReview(Output(q.stage, in))
      BY <2>3, ProposalGood DEF Output
    <2>4. ASSUME q.stage = "estimate" PROVE GoodEstimate(Output(q.stage, in))
      <3>1. Len(q.loaded) + 1 = 3 /\ Len(q.loaded) \in Nat
        BY <2>1, <2>2, <2>4, AppendIsSeq, StageFiles DEF LastInput
      <3>2. NextInput(q) = files["review"]
        BY <2>4, <3>1 DEF NextInput, Inputs
      <3>3. in[3] = files["review"]
        BY <2>2, <3>1, <3>2, AppendIsSeq
      <3>4. GoodReview(in[3])
        BY <2>1, <3>2, <3>3 DEF ApprovalInv, FiledOK
      <3>5. EstimateAccepted(in[1], in[2], in[3])
        BY <2>1, <2>4 DEF Refused
      <3>6. Output(q.stage, in) = GenerateEstimate(in[1], in[2], in[3])
        BY <2>4 DEF Output
      <3> HIDE DEF in
      <3>7. GoodEstimate(GenerateEstimate(in[1], in[2], in[3]))
        BY <3>4, <3>5, EstimateGood
      <3> QED
        BY <3>6, <3>7
    <2>5. HeldOK(Saving(q.job, q.stage, Output(q.stage, in)))
      BY <2>3, <2>4, SavingHolds
    <2> QED
      BY <2>1, <2>5, OneRequestHolds
  <1>3. CASE Fail(r)
    BY <1>3, IdleHolds, OneRequestHolds DEF Fail
  <1>4. CASE OpenOutput(r)
    <2> DEFINE n == [q EXCEPT !.pc = "write"]
    <2>1. /\ q.pc = "open" /\ req' = [req EXCEPT ![r] = n] /\ UNCHANGED decisions
          /\ files' = [files EXCEPT ![q.stage] = Empty]
      BY <1>4 DEF OpenOutput, TypeOK
    <2>2. q.stage \in Files
      BY <1>0, <2>1 DEF RequestOK, Idle
    <2>3. HeldOK(n)
      BY <1>0, <2>1 DEF HeldOK, RequestOK, Idle
    <2>4. ~Readable(Empty)
      BY DEF Readable
    <2> QED
      BY <2>1, <2>2, <2>3, <2>4, OneWriteHolds
  <1>5. CASE WriteOutput(r)
    <2>1. PICK v \in Landed(files[q.stage], q.out) :
             /\ q.pc = "write" /\ req' = [req EXCEPT ![r] = AfterWrite(q)]
             /\ UNCHANGED decisions /\ files' = [files EXCEPT ![q.stage] = v]
      BY <1>5 DEF WriteOutput
    <2>2. q.stage \in Files
      BY <1>0, <2>1 DEF RequestOK, Idle
    <2>3. Readable(v) => v = q.out
      BY DEF Landed, Readable
    <2>4. /\ q.stage = "review" => GoodReview(q.out)
          /\ q.stage = "estimate" => GoodEstimate(q.out)
      BY <1>0, <2>1 DEF HeldOK
    <2> QED
      BY <2>1, <2>2, <2>3, <2>4, AfterWriteHolds, OneWriteHolds
  <1> QED
    BY <1>1, <1>2, <1>3, <1>4, <1>5 DEF Step

\* Every step keeps every review and estimate good.
LEMMA ApprovalNext == TypeOK /\ ApprovalInv /\ [Next]_vars => ApprovalInv'
  <1> SUFFICES ASSUME TypeOK, ApprovalInv, [Next]_vars PROVE ApprovalInv'
    OBVIOUS
  <1>1. ASSUME NEW r \in Requests, Start(r) \/ Step(r) PROVE ApprovalInv'
    BY <1>1, ApprovalStart, ApprovalStep
  <1>2. ASSUME NEW f \in InputFiles \ {"deltas"}, NEW v \in Sources[f], EditInput(f, v)
        PROVE  ApprovalInv'
    <2>1. files'["review"] = files["review"] /\ files'["estimate"] = files["estimate"]
      BY <1>2, StageFiles DEF EditInput
    <2> QED
      BY <1>2, <2>1 DEF EditInput, ApprovalInv, FiledOK, HeldOK, GoodReview,
         GoodEstimate, IsReview, Terms, Approved
  <1>3. CASE Crash
    BY <1>3, IdleHolds DEF Crash, ApprovalInv, FiledOK, HeldOK, GoodReview,
       GoodEstimate, IsReview, Terms, Approved
  <1>4. CASE UNCHANGED vars
    BY <1>4 DEF vars, ApprovalInv, FiledOK, HeldOK, GoodReview, GoodEstimate,
       IsReview, Terms, Approved
  <1> QED
    BY <1>1, <1>2, <1>3, <1>4 DEF Next

\* Every review and estimate on file, or about to be saved, is a good one.
THEOREM ApprovalInvariant == Spec => []ApprovalInv
  BY TypeCorrect, ApprovalInit, ApprovalNext, PTL DEF Spec

\* The estimate gate (generate_estimate, review_commercial): an estimate on
\* file carries the terms of a decision to approve that was really made, about
\* a calculation with nothing unresolved - for any inputs, any number of
\* concurrent requests, and restarts between any two file operations.
THEOREM EstimateGate == Spec => []EstimateWasApproved
  <1>1. ApprovalInv => EstimateWasApproved
    BY DEF ApprovalInv, FiledOK, GoodEstimate, Approved, EstimateWasApproved
  <1> QED
    BY <1>1, ApprovalInvariant, PTL

\* No review on file is approved while items are unresolved.
THEOREM NoUnresolvedApproval == Spec => []ApprovedIsResolved
  <1>1. ApprovalInv => ApprovedIsResolved
    BY DEF ApprovalInv, FiledOK, GoodReview, ApprovedIsResolved
  <1> QED
    BY <1>1, ApprovalInvariant, PTL

\* The history of a review on file is a legal chain of decisions from the
\* first proposal, each superseding the one before.
THEOREM LegalHistory == Spec => []HistoryIsLegal
  <1>1. ApprovalInv => HistoryIsLegal
    BY DEF ApprovalInv, FiledOK, GoodReview, GoodHistory, HistoryIsLegal
  <1> QED
    BY <1>1, ApprovalInvariant, PTL

-----------------------------------------------------------------------------
(* One calculation.  The three files an estimate is made from are loaded   *)
(* one after another, and another request may replace each in between: the *)
(* invariant says of each file, and of each copy a request has loaded or   *)
(* is about to save, that one undisturbed calculation gives it.            *)

IsScope(x) == \E d \in DeltaSets, rs \in RuleSets : x = DeriveScopeImpacts(d, rs)

IsCommercial(x) == \E y : IsScope(y) /\ \E pb \in PriceBooks : x = DeriveCommercialImpacts(y, pb)

\* The adjusted calculation of some commercial impacts.
AdjustedOf(c, a) == IsCommercial(c) /\ \E p \in Profiles : a = ApplyAdjustments(c, p)

\* What the file f may hold when it is readable.
Derived(f, x) ==
    /\ f \in InputFiles => x \in Sources[f]
    /\ f = "scope" => IsScope(x)
    /\ f = "commercial" => IsCommercial(x)
    /\ f = "adjusted" => \E c : AdjustedOf(c, x)
    /\ f = "estimate" => \E described, priced, adjusted :
          /\ IsCommercial(described)
          /\ AdjustedOf(priced, adjusted)
          /\ IsEstimate(x, described, adjusted)

\* What a request has loaded, or is about to save, is derived.
HoldsDerived(q) ==
    /\ q.pc = "load" => \A i \in 1..Len(q.loaded) : Derived(Inputs[q.stage][i], q.loaded[i])
    /\ q.pc \in {"open", "write"} => Derived(q.stage, q.out)

\* The inductive invariant.
DerivedInv ==
    /\ \A f \in Files : Readable(files[f]) => Derived(f, files[f])
    /\ \A r \in Requests : HoldsDerived(req[r])

\* An estimate that is accepted is described by the commercial impacts and costs
\* what the adjusted calculation does: they have the same impacts.
LEMMA AcceptedIsEstimate ==
  ASSUME NEW c, NEW a, NEW review, EstimateAccepted(c, a, review)
  PROVE  IsEstimate(GenerateEstimate(c, a, review), c, a)
  <1>1. /\ a.unresolved = 0
        /\ Agree(c, a, review)
        /\ GrandTotal(EstimateLines(c, a)) = review.total
        /\ PricedAsAdjusted(c, a)
    BY DEF EstimateAccepted, InputsValid
  <1>2. GenerateEstimate(c, a, review).lines = EstimateLines(c, a)
    BY DEF GenerateEstimate
  <1>3. Terms(GenerateEstimate(c, a, review)) = Terms(InitializeReview(a))
    BY <1>1 DEF GenerateEstimate, InitializeReview, Terms, Agree
  <1> QED
    BY <1>1, <1>2, <1>3 DEF IsEstimate

\* Every stage derives its output from inputs that are derived.
LEMMA OutputDerived ==
  ASSUME NEW stage \in DOMAIN Inputs, NEW in, ~Refused(stage, in),
         \A i \in 1..Len(Inputs[stage]) : Derived(Inputs[stage][i], in[i])
  PROVE  Derived(stage, Output(stage, in))
  <1>1. stage \notin InputFiles /\ stage \in {"scope", "commercial", "adjusted", "review", "estimate"}
    BY StageFiles
  <1>2. CASE stage = "scope"
    <2>1. Derived("deltas", in[1]) /\ Derived("rules", in[2])
      BY <1>2 DEF Inputs
    <2>2. in[1] \in DeltaSets /\ in[2] \in RuleSets
      BY <2>1 DEF Derived, Sources, InputFiles
    <2> QED
      BY <1>1, <1>2, <2>2 DEF Derived, Output, IsScope
  <1>3. CASE stage = "commercial"
    <2>1. Derived("scope", in[1]) /\ Derived("priceBook", in[2])
      BY <1>3 DEF Inputs
    <2>2. IsScope(in[1]) /\ in[2] \in PriceBooks
      BY <2>1 DEF Derived, Sources, InputFiles
    <2>3. IsCommercial(DeriveCommercialImpacts(in[1], in[2]))
      BY <2>2 DEF IsCommercial
    <2> QED
      BY <1>1, <1>3, <2>3 DEF Derived, Output
  <1>4. CASE stage = "adjusted"
    <2>1. Derived("commercial", in[1]) /\ Derived("profile", in[2])
      BY <1>4 DEF Inputs
    <2>2. IsCommercial(in[1]) /\ in[2] \in Profiles
      BY <2>1 DEF Derived, Sources, InputFiles
    <2>3. AdjustedOf(in[1], ApplyAdjustments(in[1], in[2]))
      BY <2>2 DEF AdjustedOf
    <2> QED
      BY <1>1, <1>4, <2>3 DEF Derived, Output
  <1>5. CASE stage = "review"
    BY <1>1, <1>5 DEF Derived
  <1>6. CASE stage = "estimate"
    <2>1. Derived("commercial", in[1]) /\ Derived("adjusted", in[2])
      BY <1>6 DEF Inputs
    <2>2. IsCommercial(in[1]) /\ \E d : AdjustedOf(d, in[2])
      BY <2>1 DEF Derived
    <2>3. EstimateAccepted(in[1], in[2], in[3])
      BY <1>6 DEF Refused
    <2>4. IsEstimate(GenerateEstimate(in[1], in[2], in[3]), in[1], in[2])
      BY <2>3, AcceptedIsEstimate
    <2>5. Output(stage, in) = GenerateEstimate(in[1], in[2], in[3])
      BY <1>6 DEF Output
    <2> QED
      BY <1>1, <1>6, <2>2, <2>4, <2>5 DEF Derived
  <1> QED
    BY <1>1, <1>2, <1>3, <1>4, <1>5, <1>6

\* A request that begins to load, and one that ends, hold nothing.
LEMMA BeginsDerived ==
  /\ \A job, stage : HoldsDerived(Loading(job, stage))
  /\ HoldsDerived(Idle)
  /\ \A job, stage, v : Derived(stage, v) => HoldsDerived(Saving(job, stage, v))
  <1>1. \A job, stage : HoldsDerived(Loading(job, stage))
    BY DEF HoldsDerived, Loading
  <1>2. HoldsDerived(Idle)
    BY DEF HoldsDerived, Idle
  <1>3. \A job, stage, v : Derived(stage, v) => HoldsDerived(Saving(job, stage, v))
    BY DEF HoldsDerived, Saving
  <1> QED
    BY <1>1, <1>2, <1>3

\* The files of the example profile, and any input file, are derived.
LEMMA InputDerived ==
  /\ \A f \in InputFiles : \A v \in Sources[f] : Derived(f, v)
  /\ \A v : Derived("review", v)
  BY StageFiles DEF Derived

\* So is what a request goes on to when its file is written.
LEMMA AfterWriteDerived == ASSUME NEW q PROVE HoldsDerived(AfterWrite(q))
  <1>1. /\ HoldsDerived(Saving("profile", "priceBook", Template.priceBook))
        /\ HoldsDerived(Saving("profile", "profile", Template.profile))
    BY InputDerived, BeginsDerived, TemplateAssumption, StageFiles
  <1> QED
    BY <1>1, BeginsDerived DEF AfterWrite

\* One request and one file change: the file becomes unreadable or derived.
LEMMA OneDerived ==
  ASSUME TypeOK, DerivedInv, NEW r \in Requests, NEW q, HoldsDerived(q),
         req' = [req EXCEPT ![r] = q],
         \/ files' = files
         \/ \E f \in Files : \E v : files' = [files EXCEPT ![f] = v] /\ (Readable(v) => Derived(f, v))
  PROVE  DerivedInv'
  <1>1. \A f \in Files : Readable(files'[f]) => Derived(f, files'[f])
    BY DEF TypeOK, FilesOK, DerivedInv
  <1>2. \A s \in Requests : HoldsDerived(req'[s])
    BY DEF TypeOK, DerivedInv
  <1> QED
    BY <1>1, <1>2 DEF DerivedInv, HoldsDerived, Readable

\* Every step of a handler derives what it saves.
LEMMA DerivedStep ==
  ASSUME TypeOK, DerivedInv, NEW r \in Requests, Step(r)
  PROVE  DerivedInv'
  <1> DEFINE q == req[r]
  <1>0. RequestOK(q) /\ HoldsDerived(q)
    BY DEF TypeOK, DerivedInv
  <1>1. ASSUME q.pc = "load", Readable(NextInput(q))
        PROVE  /\ q.stage \in DOMAIN Inputs /\ IsSeq(q.loaded)
               /\ Derived(Inputs[q.stage][Len(q.loaded) + 1], NextInput(q))
               /\ \A i \in 1..Len(q.loaded) + 1 :
                     Derived(Inputs[q.stage][i], Append(q.loaded, NextInput(q))[i])
    <2>1. q.stage \in DOMAIN Inputs /\ IsSeq(q.loaded) /\ Len(q.loaded) < Len(Inputs[q.stage])
      BY <1>0, <1>1 DEF RequestOK, Idle
    <2>2. Inputs[q.stage][Len(q.loaded) + 1] \in Files
      <3>1. \A stage \in DOMAIN Inputs : \A i \in 1..Len(Inputs[stage]) : Inputs[stage][i] \in Files
        BY StageInputs
      <3>2. Len(q.loaded) + 1 \in 1..Len(Inputs[q.stage])
        BY <2>1, AppendIsSeq, StageFiles
      <3> QED
        BY <2>1, <3>1, <3>2
    <2>3. Derived(Inputs[q.stage][Len(q.loaded) + 1], NextInput(q))
      BY <1>1, <2>2 DEF DerivedInv, NextInput
    <2> DEFINE x == NextInput(q)
               l == q.loaded
    <2>4. \A i \in 1..Len(l) : Derived(Inputs[q.stage][i], l[i])
      BY <1>0, <1>1 DEF HoldsDerived
    <2> HIDE DEF x, l
    <2>5. /\ Len(l) \in Nat /\ Append(l, x)[Len(l) + 1] = x
          /\ \A i \in 1..Len(l) : Append(l, x)[i] = l[i]
      BY <2>1, AppendIsSeq DEF l
    <2>6. \A i \in 1..Len(l) + 1 : i \in 1..Len(l) \/ i = Len(l) + 1
      BY <2>5
    <2>7. \A i \in 1..Len(l) + 1 : Derived(Inputs[q.stage][i], Append(l, x)[i])
      BY <2>3, <2>4, <2>5, <2>6 DEF x, l
    <2> QED
      BY <2>1, <2>3, <2>7 DEF x, l
  <1>2. CASE LoadInput(r)
    <2> DEFINE n == [q EXCEPT !.loaded = Append(@, NextInput(q))]
    <2>1. /\ q.pc = "load" /\ Readable(NextInput(q)) /\ req' = [req EXCEPT ![r] = n]
          /\ files' = files
      BY <1>2 DEF LoadInput, TypeOK
    <2>2. /\ n.pc = "load" /\ n.stage = q.stage /\ n.loaded = Append(q.loaded, NextInput(q))
      BY <1>0, <2>1 DEF RequestOK, Idle
    <2>3. Len(n.loaded) = Len(q.loaded) + 1
      BY <1>1, <2>1, <2>2, AppendIsSeq
    <2>4. HoldsDerived(n)
      BY <1>1, <2>1, <2>2, <2>3 DEF HoldsDerived
    <2> HIDE DEF n
    <2> QED
      BY <2>1, <2>4, OneDerived
  <1>3. CASE Compute(r)
    <2> DEFINE in == Append(q.loaded, NextInput(q))
    <2>1. /\ q.pc = "load" /\ LastInput(q) /\ Readable(NextInput(q))
          /\ ~Refused(q.stage, in)
          /\ req' = [req EXCEPT ![r] = Saving(q.job, q.stage, Output(q.stage, in))]
          /\ files' = files
      BY <1>3 DEF Compute
    <2>2. q.stage \in DOMAIN Inputs /\ \A i \in 1..Len(Inputs[q.stage]) : Derived(Inputs[q.stage][i], in[i])
      BY <1>1, <2>1 DEF LastInput
    <2> HIDE DEF in
    <2>3. Derived(q.stage, Output(q.stage, in))
      BY <2>1, <2>2, OutputDerived
    <2>4. HoldsDerived(Saving(q.job, q.stage, Output(q.stage, in)))
      BY <2>3, BeginsDerived
    <2> QED
      BY <2>1, <2>4, OneDerived
  <1>4. CASE Fail(r)
    BY <1>4, BeginsDerived, OneDerived DEF Fail
  <1>5. CASE OpenOutput(r)
    <2> DEFINE n == [q EXCEPT !.pc = "write"]
    <2>1. /\ q.pc = "open" /\ req' = [req EXCEPT ![r] = n]
          /\ files' = [files EXCEPT ![q.stage] = Empty]
      BY <1>5 DEF OpenOutput, TypeOK
    <2>2. q.stage \in Files
      BY <1>0, <2>1 DEF RequestOK, Idle
    <2>3. n.pc = "write" /\ n.stage = q.stage /\ n.out = q.out
      BY <1>0, <2>1 DEF RequestOK, Idle
    <2>4. HoldsDerived(n) /\ ~Readable(Empty)
      BY <1>0, <2>1, <2>3 DEF HoldsDerived, Readable
    <2> HIDE DEF n
    <2> QED
      BY <2>1, <2>2, <2>4, OneDerived
  <1>6. CASE WriteOutput(r)
    <2>1. PICK v \in Landed(files[q.stage], q.out) :
             /\ q.pc = "write" /\ req' = [req EXCEPT ![r] = AfterWrite(q)]
             /\ files' = [files EXCEPT ![q.stage] = v]
      BY <1>6 DEF WriteOutput
    <2>2. q.stage \in Files
      BY <1>0, <2>1 DEF RequestOK, Idle
    <2>3. Readable(v) => v = q.out
      BY DEF Landed, Readable
    <2>4. Derived(q.stage, q.out)
      BY <1>0, <2>1 DEF HoldsDerived
    <2> QED
      BY <2>1, <2>2, <2>3, <2>4, AfterWriteDerived, OneDerived
  <1> QED
    BY <1>2, <1>3, <1>4, <1>5, <1>6 DEF Step

\* Every step derives what it leaves on file.
LEMMA DerivedNext == TypeOK /\ DerivedInv /\ [Next]_vars => DerivedInv'
  <1> SUFFICES ASSUME TypeOK, DerivedInv, [Next]_vars PROVE DerivedInv'
    OBVIOUS
  <1>1. ASSUME NEW r \in Requests, Start(r) PROVE DerivedInv'
    <2> DEFINE Begins == \E q : HoldsDerived(q) /\ req' = [req EXCEPT ![r] = q] /\ files' = files
    <2>1. Begins
      <3>1. CASE StartBuild(r)
        BY <3>1, BeginsDerived DEF StartBuild
      <3>2. CASE StartProfile(r)
        <4>1. HoldsDerived(Saving("profile", "rules", Template.rules))
          BY InputDerived, BeginsDerived, TemplateAssumption, StageFiles
        <4> QED
          BY <3>2, <4>1 DEF StartProfile
      <3>3. ASSUME NEW v \in DeltaSets, StartDeltas(r, v) PROVE Begins
        <4>1. HoldsDerived(Saving("deltas", "deltas", v))
          BY InputDerived, BeginsDerived, StageFiles DEF Sources
        <4> QED
          BY <3>3, <4>1 DEF StartDeltas
      <3>4. ASSUME NEW stage \in DOMAIN Inputs, StartCommand(r, stage) PROVE Begins
        BY <3>4, BeginsDerived DEF StartCommand
      <3>5. ASSUME NEW job, NEW new, StartReview(r, job, new) PROVE Begins
        BY <3>5, InputDerived, BeginsDerived DEF StartReview
      <3> QED
        BY <1>1, <3>1, <3>2, <3>3, <3>4, <3>5 DEF Start
    <2> QED
      BY <2>1, OneDerived
  <1>2. ASSUME NEW r \in Requests, Step(r) PROVE DerivedInv'
    BY <1>2, DerivedStep
  <1>3. ASSUME NEW f \in InputFiles \ {"deltas"}, NEW v \in Sources[f], EditInput(f, v)
        PROVE  DerivedInv'
    <2>1. \A g \in Files : Readable(files'[g]) => Derived(g, files'[g])
      BY <1>3, InputDerived DEF EditInput, TypeOK, FilesOK, DerivedInv
    <2> QED
      BY <1>3, <2>1 DEF EditInput, DerivedInv, HoldsDerived, Readable
  <1>4. CASE Crash
    BY <1>4, BeginsDerived DEF Crash, DerivedInv
  <1>5. CASE UNCHANGED vars
    BY <1>5 DEF vars, DerivedInv
  <1> QED
    BY <1>1, <1>2, <1>3, <1>4, <1>5 DEF Next

\* The files there are at first are input files.
LEMMA DerivedInit == Init => DerivedInv
  <1> SUFFICES ASSUME Init PROVE DerivedInv
    OBVIOUS
  <1>1. \A f \in Files : Readable(files[f]) => Derived(f, files[f])
    BY InitialAssumption, InputDerived DEF Init, Readable
  <1>2. \A r \in Requests : HoldsDerived(req[r])
    BY BeginsDerived DEF Init
  <1> QED
    BY <1>1, <1>2 DEF DerivedInv

\* However many requests interleave, and wherever the server is restarted, the amounts
\* and the terms of an estimate on file are those of one undisturbed calculation, in
\* which nothing was unresolved, and its lines are described by a calculation that priced
\* the same impacts.  (generate_estimate)
THEOREM AmountsOfOneCalculation == Spec => []AmountsAreOneCalculation
  <1>1. ASSUME NEW c, IsCommercial(c) PROVE c \in Calculations
    <2>1. PICK y : IsScope(y) /\ \E pb \in PriceBooks : c = DeriveCommercialImpacts(y, pb)
      BY <1>1 DEF IsCommercial
    <2>2. PICK d \in DeltaSets, rs \in RuleSets : y = DeriveScopeImpacts(d, rs)
      BY <2>1 DEF IsScope
    <2> QED
      BY <2>1, <2>2 DEF Calculations
  <1>2. ASSUME NEW c, NEW a, AdjustedOf(c, a) PROVE a \in AdjustedCalculations
    <2>1. c \in Calculations /\ \E p \in Profiles : a = ApplyAdjustments(c, p)
      BY <1>1, <1>2 DEF AdjustedOf
    <2> QED
      BY <2>1 DEF AdjustedCalculations
  <1>3. DerivedInv => AmountsAreOneCalculation
    <2> SUFFICES ASSUME DerivedInv, Readable(files.estimate)
                 PROVE  \E described \in Calculations, adjusted \in AdjustedCalculations :
                          IsEstimate(files.estimate, described, adjusted)
      BY DEF AmountsAreOneCalculation
    <2>1. "estimate" \in Files
      BY StageFiles DEF Files
    <2>2. Derived("estimate", files["estimate"])
      BY <2>1 DEF DerivedInv
    <2>3. PICK described, priced, adjusted : /\ IsCommercial(described)
                                           /\ AdjustedOf(priced, adjusted)
                                           /\ IsEstimate(files.estimate, described, adjusted)
      BY <2>2 DEF Derived
    <2> QED
      BY <1>1, <1>2, <2>3
  <1> QED
    BY <1>3, DerivedInit, DerivedNext, TypeCorrect, PTL DEF Spec

-----------------------------------------------------------------------------
(* One request at a time.  What the review on file is, what a decision is  *)
(* about to make of it, and how far a build has linked the files, hold     *)
(* only as long as no two requests interleave; a restart may still fall    *)
(* between any two of their steps.                                         *)

Sole == \A r, s \in Requests : r = s

\* Python's None is no review.
NoneIsNoReview == ~IsReview(None)

\* What a review may be replaced by: a fresh proposal, or itself with one more decision.
Succeeds(old, new) ==
    \/ IsReview(new) /\ new.status = "proposed" /\ new.history = <<>>
    \/ IsReview(old) /\ \E s \in Statuses, id \in 1..MaxDecisions :
          CanTransition(old, s) /\ new = Transition(old, s, id)

WritesReview(q) == q.pc \in {"open", "write"} /\ q.stage = "review"

\* The review on file is the one saved last, and what is about to be saved succeeds it.
StandingOK(q, fs, old) ==
    /\ Readable(fs["review"]) => fs["review"] = old
    /\ WritesReview(q) => Succeeds(old, q.out)

CommercialOf(scope, c) == \E pb \in PriceBooks : c = DeriveCommercialImpacts(scope, pb)

AdjustmentOf(c, a) == \E p \in Profiles : a = ApplyAdjustments(c, p)

\* What a build is about to save follows from what it has left on file.
Continues(stage, v, fs) ==
    /\ stage = "scope" => IsScope(v)
    /\ stage = "commercial" => CommercialOf(fs["scope"], v)
    /\ stage = "adjusted" => AdjustmentOf(fs["commercial"], v)
    /\ stage = "review" => v = InitializeReview(fs["adjusted"])

\* The files are linked up to the stage a build has come to.
BuildOK(q, fs) ==
    q.job = "build" =>
      /\ q.stage \in {"scope", "commercial", "adjusted", "review"}
      /\ q.stage # "scope" => IsScope(fs["scope"])
      /\ q.stage \in {"adjusted", "review"} => CommercialOf(fs["scope"], fs["commercial"])
      /\ q.stage = "review" => AdjustmentOf(fs["commercial"], fs["adjusted"])
      /\ q.pc = "load" /\ Len(q.loaded) = 1 =>
            /\ q.stage = "commercial" => q.loaded[1] = fs["scope"]
            /\ q.stage = "adjusted" => q.loaded[1] = fs["commercial"]
      /\ q.pc \in {"open", "write"} => Continues(q.stage, q.out, fs)

\* The file of a stage is empty between the two halves of writing it.
Truncated(q, fs) == q.pc = "write" /\ q.stage \in DOMAIN Inputs => fs[q.stage] = Empty

\* The inductive invariant of one request at a time.
SoleInv ==
    \A r \in Requests : /\ StandingOK(req[r], files, standing)
                        /\ BuildOK(req[r], files)
                        /\ Truncated(req[r], files)

\* What the only request goes on to, all requests go on to.
LEMMA SoleByParts ==
  ASSUME Sole, TypeOK, NEW r \in Requests, NEW q, req' = [req EXCEPT ![r] = q],
         StandingOK(q, files', standing'), BuildOK(q, files'), Truncated(q, files')
  PROVE  SoleInv'
  <1>1. \A s \in Requests : req'[s] = q
    BY DEF Sole, TypeOK
  <1>2. \A s \in Requests : /\ StandingOK(req'[s], files', standing')
                            /\ BuildOK(req'[s], files')
                            /\ Truncated(req'[s], files')
    BY <1>1
  <1> QED
    BY <1>2 DEF SoleInv, StandingOK, WritesReview, BuildOK, Truncated, Continues

\* Nothing is asked of a request that is idle or has just begun to load.
LEMMA BeginsSole ==
  ASSUME NEW fs, NEW old
  PROVE  /\ BuildOK(Idle, fs) /\ Truncated(Idle, fs) /\ ~WritesReview(Idle)
         /\ \A job, stage : job # "build" => BuildOK(Loading(job, stage), fs)
         /\ \A job, stage : Truncated(Loading(job, stage), fs) /\ ~WritesReview(Loading(job, stage))
         /\ BuildOK(Loading("build", "scope"), fs)
         /\ \A job, stage, v : /\ job # "build" => BuildOK(Saving(job, stage, v), fs)
                               /\ Truncated(Saving(job, stage, v), fs)
                               /\ WritesReview(Saving(job, stage, v)) <=> stage = "review"
                               /\ Saving(job, stage, v).out = v
  <1>1. BuildOK(Idle, fs) /\ Truncated(Idle, fs) /\ ~WritesReview(Idle)
    BY DEF BuildOK, Truncated, WritesReview, Idle
  <1>2. \A job, stage : job # "build" => BuildOK(Loading(job, stage), fs)
    BY DEF BuildOK, Loading
  <1>3. \A job, stage : Truncated(Loading(job, stage), fs) /\ ~WritesReview(Loading(job, stage))
    BY DEF Truncated, WritesReview, Loading
  <1>4. BuildOK(Loading("build", "scope"), fs)
    BY DEF BuildOK, Loading
  <1>5. \A job, stage, v : /\ job # "build" => BuildOK(Saving(job, stage, v), fs)
                           /\ Truncated(Saving(job, stage, v), fs)
                           /\ WritesReview(Saving(job, stage, v)) <=> stage = "review"
                           /\ Saving(job, stage, v).out = v
    BY DEF BuildOK, Truncated, WritesReview, Saving
  <1> QED
    BY <1>1, <1>2, <1>3, <1>4, <1>5

\* Taking up a request: a decision is made of the review that stands.
LEMMA SoleStart ==
  ASSUME Sole, TypeOK, ApprovalInv, SoleInv, NEW r \in Requests, Start(r)
  PROVE  SoleInv'
  <1>0. StandingOK(req[r], files, standing) /\ UNCHANGED <<files, standing>>
    BY DEF SoleInv, Start, StartBuild, StartProfile, StartDeltas, StartCommand, StartReview
  <1>1. ASSUME NEW q, req' = [req EXCEPT ![r] = q], ~WritesReview(q), BuildOK(q, files), Truncated(q, files)
        PROVE  SoleInv'
    <2>1. StandingOK(q, files', standing')
      BY <1>0, <1>1 DEF StandingOK
    <2> QED
      BY <1>0, <1>1, <2>1, SoleByParts
  <1>2. CASE StartBuild(r)
    BY <1>1, <1>2, BeginsSole DEF StartBuild
  <1>3. CASE StartProfile(r)
    <2> DEFINE q == Saving("profile", "rules", Template.rules)
    <2>1. BuildOK(q, files) /\ Truncated(q, files) /\ ~WritesReview(q)
      BY BeginsSole
    <2>2. req' = [req EXCEPT ![r] = q]
      BY <1>3 DEF StartProfile
    <2> HIDE DEF q
    <2> QED
      BY <1>1, <2>1, <2>2
  <1>4. ASSUME NEW v \in DeltaSets, StartDeltas(r, v)
        PROVE  SoleInv'
    BY <1>1, <1>4, BeginsSole DEF StartDeltas
  <1>5. ASSUME NEW stage \in DOMAIN Inputs, StartCommand(r, stage)
        PROVE  SoleInv'
    BY <1>1, <1>5, BeginsSole DEF StartCommand
  <1>6. ASSUME NEW job \in {"review", "command"}, NEW new \in Statuses, StartReview(r, job, new)
        PROVE  SoleInv'
    <2> DEFINE id == Len(decisions) + 1
               t == Transition(files.review, new, id)
               q == Saving(job, "review", t)
    <2>1. /\ req' = [req EXCEPT ![r] = q]
          /\ Readable(files.review) /\ CanTransition(files.review, new)
          /\ Len(decisions) < MaxDecisions
      BY <1>6 DEF StartReview
    <2>2. Len(decisions) \in Nat
      BY AppendIsSeq DEF TypeOK
    <2>3. id \in 1..MaxDecisions
      BY <2>1, <2>2, BoundAssumption
    <2>4. files.review = standing
      BY <1>0, <2>1 DEF StandingOK
    <2>5. IsReview(standing)
      BY <2>1, <2>4 DEF ApprovalInv, FiledOK, GoodReview
    <2> HIDE DEF id
    <2>6. Succeeds(standing, t)
      BY <2>1, <2>3, <2>4, <2>5 DEF Succeeds
    <2> HIDE DEF t
    <2>7. BuildOK(q, files) /\ Truncated(q, files) /\ q.out = t
      BY BeginsSole
    <2> HIDE DEF q
    <2>8. StandingOK(q, files', standing')
      BY <1>0, <2>6, <2>7 DEF StandingOK
    <2> QED
      BY <1>0, <2>1, <2>7, <2>8, SoleByParts
  <1> QED
    BY <1>2, <1>3, <1>4, <1>5, <1>6 DEF Start

\* Loading an input.
LEMMA SoleLoad ==
  ASSUME Sole, TypeOK, SoleInv, NEW r \in Requests, LoadInput(r)
  PROVE  SoleInv'
  <1> DEFINE q == req[r]
             n == [q EXCEPT !.loaded = Append(@, NextInput(q))]
  <1>1. /\ q.pc = "load" /\ req' = [req EXCEPT ![r] = n] /\ UNCHANGED <<files, standing>>
        /\ RequestOK(q) /\ StandingOK(q, files, standing) /\ BuildOK(q, files)
    BY DEF LoadInput, TypeOK, SoleInv
  <1>2. q.stage \in DOMAIN Inputs /\ IsSeq(q.loaded)
    BY <1>1 DEF RequestOK, Idle
  <1>3. /\ n.pc = "load" /\ n.stage = q.stage /\ n.job = q.job
        /\ n.loaded = Append(q.loaded, NextInput(q))
    BY <1>1 DEF RequestOK, Idle
  <1>4. /\ Len(q.loaded) \in Nat /\ Len(n.loaded) = Len(q.loaded) + 1
        /\ n.loaded[Len(q.loaded) + 1] = NextInput(q)
    BY <1>2, <1>3, AppendIsSeq
  <1>5. Len(n.loaded) = 1 => n.loaded[1] = files[Inputs[q.stage][1]]
    BY <1>4 DEF NextInput
  <1>6. Inputs["commercial"][1] = "scope" /\ Inputs["adjusted"][1] = "commercial"
    BY DEF Inputs
  <1> HIDE DEF n
  <1>7. BuildOK(n, files)
    BY <1>1, <1>3, <1>5, <1>6 DEF BuildOK
  <1>8. Truncated(n, files) /\ StandingOK(n, files, standing)
    BY <1>1, <1>3 DEF Truncated, StandingOK, WritesReview
  <1> QED
    BY <1>1, <1>7, <1>8, SoleByParts

\* Computing the output of a stage from what was left on file.
LEMMA SoleCompute ==
  ASSUME Sole, TypeOK, DerivedInv, SoleInv, NEW r \in Requests, Compute(r)
  PROVE  SoleInv'
  <1> DEFINE q == req[r]
             in == Append(q.loaded, NextInput(q))
             v == Output(q.stage, in)
             n == Saving(q.job, q.stage, v)
  <1>1. /\ q.pc = "load" /\ LastInput(q) /\ Readable(NextInput(q))
        /\ req' = [req EXCEPT ![r] = n] /\ UNCHANGED <<files, standing>>
        /\ RequestOK(q) /\ StandingOK(q, files, standing) /\ BuildOK(q, files) /\ HoldsDerived(q)
    BY DEF Compute, TypeOK, SoleInv, DerivedInv
  <1>2. q.stage \in DOMAIN Inputs /\ IsSeq(q.loaded)
    BY <1>1 DEF RequestOK, Idle
  <1>3. /\ Len(q.loaded) \in Nat /\ Len(q.loaded) + 1 = Len(Inputs[q.stage])
        /\ in[Len(q.loaded) + 1] = files[Inputs[q.stage][Len(q.loaded) + 1]]
        /\ Readable(files[Inputs[q.stage][Len(q.loaded) + 1]])
        /\ \A i \in 1..Len(q.loaded) : in[i] = q.loaded[i]
    BY <1>1, <1>2, AppendIsSeq DEF LastInput, NextInput
  <1> HIDE DEF in
  <1>4. /\ Inputs["scope"] = <<"deltas", "rules">>
        /\ Inputs["commercial"] = <<"scope", "priceBook">>
        /\ Inputs["adjusted"] = <<"commercial", "profile">>
        /\ Inputs["review"] = <<"adjusted">>
    BY DEF Inputs
  <1>5. \A f \in InputFiles : Readable(files[f]) => files[f] \in Sources[f]
    BY DEF TypeOK, FilesOK, Readable
  <1>6. /\ InputFiles = {"deltas", "rules", "priceBook", "profile"}
        /\ Sources.deltas = DeltaSets /\ Sources.rules = RuleSets
        /\ Sources.priceBook = PriceBooks /\ Sources.profile = Profiles
    BY DEF InputFiles, Sources
  <1>7. ASSUME Len(Inputs[q.stage]) = 2
        PROVE  /\ Len(q.loaded) = 1 /\ in[1] = q.loaded[1]
               /\ in[2] = files[Inputs[q.stage][2]] /\ Readable(in[2])
    <2> DEFINE l == Len(q.loaded)
    <2>1. l \in Nat /\ l + 1 = 2
      BY <1>3, <1>7
    <2> HIDE DEF l
    <2>2. l = 1 /\ 1 \in 1..l
      BY <2>1
    <2> QED
      BY <1>3, <2>1, <2>2 DEF l
  <1>8. ASSUME q.stage = "scope"
        PROVE  Continues(q.stage, v, files)
    <2>1. in[1] = q.loaded[1] /\ Len(q.loaded) = 1 /\ in[2] = files["rules"] /\ Readable(files["rules"])
      BY <1>4, <1>7, <1>8
    <2>2. Derived("deltas", q.loaded[1])
      BY <1>1, <1>4, <1>8, <2>1 DEF HoldsDerived
    <2>3. in[1] \in DeltaSets /\ in[2] \in RuleSets
      BY <1>5, <1>6, <2>1, <2>2 DEF Derived
    <2>4. IsScope(v)
      BY <1>8, <2>3 DEF IsScope, Output
    <2> HIDE DEF v
    <2> QED
      BY <1>8, <2>4 DEF Continues
  <1>9. ASSUME q.stage = "commercial", q.job = "build"
        PROVE  Continues(q.stage, v, files)
    <2>1. in[1] = files["scope"] /\ in[2] = files["priceBook"] /\ Readable(files["priceBook"])
      BY SMTT(30), <1>1, <1>4, <1>7, <1>9 DEF BuildOK
    <2>2. v = DeriveCommercialImpacts(files["scope"], in[2]) /\ in[2] \in PriceBooks
      BY <1>5, <1>6, <1>9, <2>1 DEF Output
    <2>3. CommercialOf(files["scope"], v)
      BY <2>2 DEF CommercialOf
    <2> HIDE DEF v
    <2> QED
      BY <1>9, <2>3 DEF Continues
  <1>10. ASSUME q.stage = "adjusted", q.job = "build"
         PROVE  Continues(q.stage, v, files)
    <2>1. in[1] = files["commercial"] /\ in[2] = files["profile"] /\ Readable(files["profile"])
      BY SMTT(30), <1>1, <1>4, <1>7, <1>10 DEF BuildOK
    <2>2. v = ApplyAdjustments(files["commercial"], in[2]) /\ in[2] \in Profiles
      BY <1>5, <1>6, <1>10, <2>1 DEF Output
    <2>3. AdjustmentOf(files["commercial"], v)
      BY <2>2 DEF AdjustmentOf
    <2> HIDE DEF v
    <2> QED
      BY <1>10, <2>3 DEF Continues
  <1>11. ASSUME q.stage = "review"
         PROVE  Continues(q.stage, v, files) /\ Succeeds(standing, v)
    <2>1. in[1] = files["adjusted"]
      BY <1>3, <1>4, <1>11
    <2>2. v = InitializeReview(files["adjusted"])
      BY <1>11, <2>1 DEF Output
    <2>3. IsReview(v) /\ v.status = "proposed" /\ v.history = <<>>
      BY <2>2 DEF InitializeReview, IsReview
    <2> HIDE DEF v
    <2> QED
      BY <1>11, <2>2, <2>3 DEF Continues, Succeeds
  <1>12. /\ n.pc = "open" /\ n.job = q.job /\ n.stage = q.stage /\ n.out = v
    BY DEF Saving
  <1> HIDE DEF v, n
  <1>13. q.job = "build" => q.stage \in {"scope", "commercial", "adjusted", "review"}
    BY <1>1 DEF BuildOK
  <1>14. q.job = "build" => Continues(q.stage, v, files)
    BY <1>8, <1>9, <1>10, <1>11, <1>13
  <1>15. BuildOK(n, files)
    BY <1>1, <1>12, <1>14 DEF BuildOK
  <1>16. Truncated(n, files) /\ StandingOK(n, files, standing)
    BY <1>1, <1>11, <1>12 DEF Truncated, StandingOK, WritesReview
  <1> QED
    BY <1>1, <1>15, <1>16, SoleByParts

\* A file is opened: what came before it is still there.
LEMMA SoleOpen ==
  ASSUME Sole, TypeOK, SoleInv, NEW r \in Requests, OpenOutput(r)
  PROVE  SoleInv'
  <1> DEFINE q == req[r]
             n == [q EXCEPT !.pc = "write"]
  <1>1. /\ q.pc = "open" /\ req' = [req EXCEPT ![r] = n] /\ standing' = standing
        /\ files' = [files EXCEPT ![q.stage] = Empty]
        /\ RequestOK(q) /\ StandingOK(q, files, standing) /\ BuildOK(q, files)
    BY DEF OpenOutput, TypeOK, SoleInv
  <1>2. n.pc = "write" /\ n.stage = q.stage /\ n.job = q.job /\ n.out = q.out
    BY <1>1 DEF RequestOK, Idle
  <1>3. /\ files'[q.stage] = Empty
        /\ \A f \in Files : f # q.stage => files'[f] = files[f]
        /\ "scope" \in Files /\ "commercial" \in Files /\ "adjusted" \in Files /\ "review" \in Files
    <2>1. q.stage \in Files
      BY <1>1 DEF RequestOK, Idle
    <2> QED
      BY <1>1, <2>1, StageFiles DEF TypeOK, FilesOK, Files
  <1> HIDE DEF n
  <1>4. ASSUME q.job = "build"
        PROVE  Continues(q.stage, q.out, files')
    BY <1>1, <1>3, <1>4 DEF BuildOK, Continues
  <1>5. BuildOK(n, files')
    BY <1>1, <1>2, <1>3, <1>4 DEF BuildOK
  <1>6. Truncated(n, files')
    BY <1>2, <1>3 DEF Truncated
  <1>7. StandingOK(n, files', standing')
    <2>1. ~Readable(Empty)
      BY DEF Readable
    <2> QED
      BY <1>1, <1>2, <1>3, <2>1 DEF StandingOK, WritesReview
  <1> QED
    BY <1>1, <1>5, <1>6, <1>7, SoleByParts

\* The file of a stage is written as it was computed.
LEMMA SoleWrites ==
  ASSUME Sole, TypeOK, SoleInv, NEW r \in Requests, WriteOutput(r)
  PROVE  /\ req[r].stage \in Files
         /\ \A f \in Files : f # req[r].stage => files'[f] = files[f]
         /\ req[r].stage \in DOMAIN Inputs => files'[req[r].stage] = req[r].out
  <1> DEFINE q == req[r]
  <1>1. PICK v \in Landed(files[q.stage], q.out) :
           q.pc = "write" /\ files' = [files EXCEPT ![q.stage] = v]
    BY DEF WriteOutput
  <1>2. q.stage \in Files /\ DOMAIN files = Files
    BY <1>1 DEF TypeOK, RequestOK, Idle, FilesOK
  <1>3. ASSUME q.stage \in DOMAIN Inputs
        PROVE  v = q.out
    <2>1. files[q.stage] = Empty
      BY <1>1, <1>3 DEF SoleInv, Truncated
    <2> QED
      BY <1>1, <2>1 DEF Landed
  <1> QED
    BY <1>1, <1>2, <1>3

\* Where a request goes on when its file is written.
LEMMA AfterWriteSole ==
  ASSUME NEW q, NEW fs
  PROVE  /\ q.job = "build" /\ q.stage = "scope" => AfterWrite(q) = Loading("build", "commercial")
         /\ q.job = "build" /\ q.stage = "commercial" => AfterWrite(q) = Loading("build", "adjusted")
         /\ q.job = "build" /\ q.stage = "adjusted" => AfterWrite(q) = Loading("build", "review")
         /\ q.job = "build" /\ q.stage = "review" => AfterWrite(q) = Idle
         /\ q.job # "build" => BuildOK(AfterWrite(q), fs)
         /\ Truncated(AfterWrite(q), fs) /\ ~WritesReview(AfterWrite(q))
  <1> DEFINE price == Saving("profile", "priceBook", Template.priceBook)
             profile == Saving("profile", "profile", Template.profile)
  <1>1. /\ BuildOK(price, fs) /\ Truncated(price, fs) /\ ~WritesReview(price)
        /\ BuildOK(profile, fs) /\ Truncated(profile, fs) /\ ~WritesReview(profile)
    BY BeginsSole
  <1>2. AfterWrite(q) \in {Loading("build", "commercial"), Loading("build", "adjusted"),
                           Loading("build", "review"), Loading("review", "estimate"),
                           price, profile, Idle}
    BY DEF AfterWrite
  <1>3. Truncated(AfterWrite(q), fs) /\ ~WritesReview(AfterWrite(q))
    <2> HIDE DEF price, profile
    <2>1. \A job, stage : Truncated(Loading(job, stage), fs) /\ ~WritesReview(Loading(job, stage))
      BY BeginsSole
    <2>2. Truncated(Idle, fs) /\ ~WritesReview(Idle)
      BY BeginsSole
    <2>3. \A n \in {Loading("build", "commercial"), Loading("build", "adjusted"),
                    Loading("build", "review"), Loading("review", "estimate"),
                    price, profile, Idle} : Truncated(n, fs) /\ ~WritesReview(n)
      BY <1>1, <2>1, <2>2
    <2> QED
      BY <1>2, <2>3
  <1>4. ASSUME q.job # "build"
        PROVE  BuildOK(AfterWrite(q), fs)
    <2>1. AfterWrite(q) \in {Loading("review", "estimate"), price, profile, Idle}
      BY <1>4 DEF AfterWrite
    <2>2. BuildOK(Loading("review", "estimate"), fs)
      BY BeginsSole
    <2> HIDE DEF price, profile
    <2> QED
      BY <1>1, <2>1, <2>2, BeginsSole
  <1> QED
    BY <1>3, <1>4 DEF AfterWrite

\* A build goes on from the file it has written.
LEMMA SoleWrite ==
  ASSUME Sole, TypeOK, SoleInv, NEW r \in Requests, WriteOutput(r)
  PROVE  SoleInv'
  <1> DEFINE q == req[r]
             n == AfterWrite(q)
  <1>1. /\ q.pc = "write" /\ req' = [req EXCEPT ![r] = n]
        /\ standing' = IF q.stage = "review" THEN q.out ELSE standing
        /\ StandingOK(q, files, standing) /\ BuildOK(q, files)
    BY DEF WriteOutput, SoleInv
  <1>2. /\ \A f \in Files : f # q.stage => files'[f] = files[f]
        /\ q.stage \in DOMAIN Inputs => files'[q.stage] = q.out
    BY SoleWrites
  <1>3. "scope" \in Files /\ "commercial" \in Files /\ "adjusted" \in Files /\ "review" \in Files
    BY StageFiles DEF Files
  <1>4. Truncated(n, files') /\ ~WritesReview(n)
    BY AfterWriteSole
  <1>5. BuildOK(n, files')
    <2>1. CASE q.job # "build"
      BY <2>1, AfterWriteSole
    <2>2. CASE q.job = "build"
      <3>1. q.stage \in {"scope", "commercial", "adjusted", "review"} /\ Continues(q.stage, q.out, files)
        BY <1>1, <2>2 DEF BuildOK
      <3>2. \A stage : /\ Loading("build", stage).job = "build" /\ Loading("build", stage).pc = "load"
                       /\ Loading("build", stage).stage = stage /\ Len(Loading("build", stage).loaded) = 0
        BY DEF Loading
      <3>3. CASE q.stage = "scope"
        <4>1. n = Loading("build", "commercial")
          BY <2>2, <3>3, AfterWriteSole
        <4>2. IsScope(files'["scope"])
          BY <1>2, <3>1, <3>3, StageFiles DEF Continues
        <4> HIDE DEF n
        <4> QED
          BY <3>2, <4>1, <4>2 DEF BuildOK
      <3>4. CASE q.stage = "commercial"
        <4>1. n = Loading("build", "adjusted")
          BY <2>2, <3>4, AfterWriteSole
        <4>2. IsScope(files'["scope"]) /\ CommercialOf(files'["scope"], files'["commercial"])
          BY <1>1, <1>2, <1>3, <2>2, <3>1, <3>4, StageFiles DEF Continues, BuildOK
        <4> HIDE DEF n
        <4> QED
          BY <3>2, <4>1, <4>2 DEF BuildOK
      <3>5. CASE q.stage = "adjusted"
        <4>1. n = Loading("build", "review")
          BY <2>2, <3>5, AfterWriteSole
        <4>2. /\ IsScope(files'["scope"]) /\ CommercialOf(files'["scope"], files'["commercial"])
              /\ AdjustmentOf(files'["commercial"], files'["adjusted"])
          BY <1>1, <1>2, <1>3, <2>2, <3>1, <3>5, StageFiles DEF Continues, BuildOK
        <4> HIDE DEF n
        <4> QED
          BY <3>2, <4>1, <4>2 DEF BuildOK
      <3>6. CASE q.stage = "review"
        BY <2>2, <3>6, AfterWriteSole, BeginsSole
      <3> QED
        BY <3>1, <3>3, <3>4, <3>5, <3>6
    <2> QED
      BY <2>1, <2>2
  <1> HIDE DEF n
  <1>6. StandingOK(n, files', standing')
    <2>1. CASE q.stage = "review"
      BY <1>1, <1>2, <1>4, <2>1, StageFiles DEF StandingOK
    <2>2. CASE q.stage # "review"
      BY <1>1, <1>2, <1>3, <1>4, <2>2 DEF StandingOK
    <2> QED
      BY <2>1, <2>2
  <1> QED
    BY <1>1, <1>4, <1>5, <1>6, SoleByParts

\* Every step of one request at a time.
LEMMA SoleNext == Sole /\ TypeOK /\ ApprovalInv /\ DerivedInv /\ SoleInv /\ [Next]_vars => SoleInv'
  <1> SUFFICES ASSUME Sole, TypeOK, ApprovalInv, DerivedInv, SoleInv, [Next]_vars PROVE SoleInv'
    OBVIOUS
  <1>1. ASSUME NEW r \in Requests, Start(r) PROVE SoleInv'
    BY <1>1, SoleStart
  <1>2. ASSUME NEW r \in Requests, Fail(r) PROVE SoleInv'
    <2>1. req' = [req EXCEPT ![r] = Idle] /\ UNCHANGED <<files, standing>>
      BY <1>2 DEF Fail
    <2>2. StandingOK(Idle, files', standing') /\ BuildOK(Idle, files') /\ Truncated(Idle, files')
      BY <2>1, BeginsSole DEF StandingOK, SoleInv
    <2> QED
      BY <2>1, <2>2, SoleByParts
  <1>3. ASSUME NEW r \in Requests, Step(r) PROVE SoleInv'
    BY <1>2, <1>3, SoleLoad, SoleCompute, SoleOpen, SoleWrite DEF Step
  <1>4. ASSUME NEW f \in InputFiles \ {"deltas"}, NEW v \in Sources[f], EditInput(f, v)
        PROVE  SoleInv'
    <2>1. UNCHANGED <<req, standing>> /\ \A stage \in DOMAIN Inputs : files'[stage] = files[stage]
      <3>1. \A stage \in DOMAIN Inputs : stage \in Files /\ stage # f
        BY StageFiles DEF Files
      <3> QED
        BY <1>4, <3>1 DEF EditInput, TypeOK, FilesOK
    <2>2. /\ files'["scope"] = files["scope"] /\ files'["commercial"] = files["commercial"]
          /\ files'["adjusted"] = files["adjusted"] /\ files'["review"] = files["review"]
      BY <2>1, StageFiles
    <2>3. \A q : /\ StandingOK(q, files, standing) => StandingOK(q, files', standing)
                 /\ BuildOK(q, files) => BuildOK(q, files')
                 /\ Truncated(q, files) => Truncated(q, files')
      BY <2>1, <2>2 DEF StandingOK, BuildOK, Continues, Truncated
    <2>4. \A r \in Requests : /\ StandingOK(req[r], files', standing)
                              /\ BuildOK(req[r], files')
                              /\ Truncated(req[r], files')
      BY <2>3 DEF SoleInv
    <2> QED
      BY <2>1, <2>4 DEF SoleInv, StandingOK, WritesReview, BuildOK, Truncated, Continues
  <1>5. CASE Crash
    <2>1. /\ UNCHANGED <<files, standing>> /\ \A r \in Requests : req'[r] = Idle
          /\ \A r \in Requests : StandingOK(req[r], files, standing)
      BY <1>5 DEF Crash, SoleInv
    <2>2. \A r \in Requests : /\ StandingOK(req'[r], files', standing')
                              /\ BuildOK(req'[r], files')
                              /\ Truncated(req'[r], files')
      BY <2>1, BeginsSole DEF StandingOK
    <2> QED
      BY <2>2 DEF SoleInv, StandingOK, WritesReview, BuildOK, Truncated, Continues
  <1>6. CASE UNCHANGED vars
    BY <1>6 DEF vars, SoleInv, StandingOK, WritesReview, BuildOK, Truncated, Continues
  <1> QED
    BY <1>1, <1>3, <1>4, <1>5, <1>6 DEF Next

\* At first there is no review and nobody works on one.
LEMMA SoleInit == Init => SoleInv
  <1> SUFFICES ASSUME Init PROVE SoleInv
    OBVIOUS
  <1>1. files["review"] = Absent /\ \A r \in Requests : req[r] = Idle
    BY StageFiles DEF Init, Files
  <1> QED
    BY <1>1, BeginsSole DEF SoleInv, StandingOK, Readable

\* The invariants of one request at a time, together.
LEMMA SoleInvariant == Sole /\ Spec => [](TypeOK /\ ApprovalInv /\ SoleInv)
  <1>1. Init => TypeOK /\ ApprovalInv /\ DerivedInv /\ SoleInv
    BY TypeInit, ApprovalInit, DerivedInit, SoleInit
  <1>2. Sole /\ TypeOK /\ ApprovalInv /\ DerivedInv /\ SoleInv /\ [Next]_vars
          => TypeOK' /\ ApprovalInv' /\ DerivedInv' /\ SoleInv'
    BY TypeNext, ApprovalNext, DerivedNext, SoleNext
  <1>3. Sole => []Sole
    <2>1. Sole => Sole'
      BY DEF Sole
    <2> QED
      BY <2>1, PTL
  <1> QED
    BY <1>1, <1>2, <1>3, PTL DEF Spec

\* A review that is saved succeeds the one saved before it.
LEMMA SavedSucceeds ==
  ASSUME SoleInv, [Next]_vars, standing' # standing
  PROVE  \E r \in Requests : /\ WriteOutput(r) /\ req[r].stage = "review" /\ standing' = req[r].out
                             /\ Succeeds(standing, standing')
  <1>1. PICK r \in Requests : WriteOutput(r)
    BY DEF Next, Start, Step, StartBuild, StartProfile, StartDeltas, StartCommand, StartReview,
           LoadInput, Compute, Fail, OpenOutput, EditInput, Crash, vars
  <1>2. req[r].pc = "write" /\ req[r].stage = "review" /\ standing' = req[r].out
    BY <1>1 DEF WriteOutput
  <1> QED
    BY <1>1, <1>2 DEF SoleInv, StandingOK, WritesReview

\* With one request at a time, wherever it is interrupted, the review saved last is one in
\* the sense of ReviewLifecycle: proposed afresh, or decided about once more.
\* (review_commercial, save_review)
THEOREM ReviewIsLifecycle == Sole /\ NoneIsNoReview /\ Spec => ReviewLifecycleHolds
  <1>1. Init => Lifecycle!Init
    BY DEF Init, Lifecycle!Init
  <1>2. NoneIsNoReview /\ SoleInv /\ [Next]_vars => [Lifecycle!Next]_standing
    <2> SUFFICES ASSUME NoneIsNoReview, SoleInv, [Next]_vars, standing' # standing
                 PROVE  Lifecycle!Next
      OBVIOUS
    <2>1. Succeeds(standing, standing')
      BY SavedSucceeds
    <2>2. CASE IsReview(standing') /\ standing'.status = "proposed" /\ standing'.history = <<>>
      <3>1. standing' # None
        BY <2>2 DEF NoneIsNoReview
      <3> QED
        BY <2>2, <3>1 DEF Lifecycle!Next, Lifecycle!Propose
    <2>3. ASSUME IsReview(standing), NEW s \in Statuses, NEW id \in 1..MaxDecisions,
                 CanTransition(standing, s), standing' = Transition(standing, s, id)
          PROVE  Lifecycle!Next
      <3>1. standing # None
        BY <2>3 DEF NoneIsNoReview
      <3>2. s \in Allowed[standing.status] /\ (s = "approved" => standing.unresolved = 0)
        BY <2>3 DEF CanTransition, CanApprove
      <3>3. standing' = [standing EXCEPT
              !.status  = s,
              !.latest  = id,
              !.history = Append(@, [id |-> id, previous |-> standing.status,
                                     new |-> s, supersedes |-> standing.latest])]
        BY <2>3, Zenon DEF Transition, Event
      <3>4. Lifecycle!Decide(s, id)
        BY <3>1, <3>2, <3>3, Zenon DEF Lifecycle!Decide
      <3> QED
        BY <3>4 DEF Lifecycle!Next
    <2> QED
      BY <2>1, <2>2, <2>3 DEF Succeeds
  <1>3. NoneIsNoReview => []NoneIsNoReview
    <2>1. NoneIsNoReview => NoneIsNoReview'
      BY DEF NoneIsNoReview, IsReview
    <2> QED
      BY <2>1, PTL
  <1>4. Spec => Init /\ [][Next]_vars
    BY DEF Spec
  <1> QED
    BY <1>1, <1>2, <1>3, <1>4, SoleInvariant, PTL DEF ReviewLifecycleHolds, Lifecycle!Spec

\* With one request at a time, what was approved or rejected is only ever superseded: no
\* other decision about it is saved.  (ALLOWED_TRANSITIONS, review_commercial)
THEOREM SoleDecisionStands == Sole /\ Spec => DecisionStands
  <1> DEFINE Stands ==
        \A r \in Requests :
          (req[r].job \in {"review", "command"} /\ req[r].stage = "review"
             /\ req[r].pc = "write" /\ req[r].out.status # "proposed"
             /\ standing # standing'
             /\ standing.status \in {"approved", "rejected"})
          => standing'.status = "superseded"
  <1>1. Sole /\ SoleInv /\ [Next]_vars => [Stands]_vars
    <2> SUFFICES ASSUME Sole, SoleInv, [Next]_vars, NEW r \in Requests, standing' # standing,
                        req[r].out.status # "proposed", standing.status \in {"approved", "rejected"}
                 PROVE  standing'.status = "superseded"
      OBVIOUS
    <2>1. standing' = req[r].out /\ Succeeds(standing, standing')
      BY SavedSucceeds DEF Sole
    <2>2. PICK s \in Statuses, id \in 1..MaxDecisions :
             IsReview(standing) /\ CanTransition(standing, s) /\ standing' = Transition(standing, s, id)
      BY <2>1 DEF Succeeds
    <2>3. standing'.status = s
      BY <2>2, TransitionShape
    <2>4. Allowed["approved"] = {"superseded"} /\ Allowed["rejected"] = {"superseded"}
      BY DEF Allowed, Statuses
    <2> QED
      BY <2>2, <2>3, <2>4 DEF CanTransition
  <1> HIDE DEF Stands
  <1>2. Sole => []Sole
    <2>1. Sole => Sole'
      BY DEF Sole
    <2> QED
      BY <2>1, PTL
  <1>3. Sole /\ Spec => [][Stands]_vars
    BY <1>1, <1>2, SoleInvariant, PTL DEF Spec
  <1> QED
    BY <1>3 DEF DecisionStands, Stands

\* With one request at a time, a build that ends leaves one linked chain, in whatever state
\* a restart or a failed build had left the files.  (build_commercial)
THEOREM BuildLinksChain == Sole /\ Spec => BuildRepairsChain
  <1>1. Sole /\ TypeOK /\ SoleInv /\ [Next]_vars => [\A r \in Requests : BuildEnds(r) => Linked']_vars
    <2> SUFFICES ASSUME Sole, TypeOK, SoleInv, [Next]_vars, NEW r \in Requests, BuildEnds(r)
                 PROVE  Linked'
      OBVIOUS
    <2> DEFINE q == req[r]
    <2>1. q.job = "build" /\ q.stage = "review" /\ q.pc = "write" /\ files'["review"] # files["review"]
      BY DEF BuildEnds
    <2>2. WriteOutput(r)
      <3>1. q # Idle /\ q.pc \notin {"load", "open"}
        BY <2>1 DEF Idle
      <3>2. \A f \in InputFiles : \A v : EditInput(f, v) => files'["review"] = files["review"]
        BY StageFiles DEF EditInput
      <3>3. ~Crash /\ ~UNCHANGED vars
        BY <2>1 DEF Crash, vars
      <3>4. \E s \in Requests : Start(s) \/ Step(s)
        BY <2>1, <3>2, <3>3 DEF Next
      <3>5. Start(r) \/ Step(r)
        BY <3>4 DEF Sole
      <3> QED
        BY <3>1, <3>5 DEF Start, StartBuild, StartProfile, StartDeltas, StartCommand, StartReview,
                          Step, LoadInput, Compute, Fail, OpenOutput
    <2>3. /\ IsScope(files["scope"]) /\ CommercialOf(files["scope"], files["commercial"])
          /\ AdjustmentOf(files["commercial"], files["adjusted"])
          /\ q.out = InitializeReview(files["adjusted"])
      BY <2>1 DEF SoleInv, BuildOK, Continues
    <2>4. /\ files'["scope"] = files["scope"] /\ files'["commercial"] = files["commercial"]
          /\ files'["adjusted"] = files["adjusted"] /\ files'["review"] = q.out
      BY <2>1, <2>2, SoleWrites, StageFiles DEF Files
    <2> QED
      BY <2>3, <2>4 DEF Linked, IsScope, CommercialOf, AdjustmentOf
  <1>2. Sole => []Sole
    <2>1. Sole => Sole'
      BY DEF Sole
    <2> QED
      BY <2>1, PTL
  <1> QED
    BY <1>1, <1>2, SoleInvariant, PTL DEF Spec, BuildRepairsChain
=============================================================================
