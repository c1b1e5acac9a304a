---------------------------- MODULE CommercialChain ----------------------------
(***************************************************************************)
(* The commercial chain of the workbench: the files a project keeps next   *)
(* to its manifest, and the requests that read and write them.             *)
(*                                                                         *)
(* The handlers are plain functions, which the web server runs on a pool   *)
(* of threads, and none of them takes a lock: two requests on one project  *)
(* interleave between any two file operations.  A file is written with     *)
(* Path.write_text, which truncates it and then writes it, so a reader (or *)
(* a restart) may find it empty, and two writers may leave a mixture.      *)
(***************************************************************************)
EXTENDS CommercialEngine

CONSTANTS
    DeltaSets, RuleSets, PriceBooks, Profiles,  \* what the input files may hold
    InitialInputs,   \* the input files a behaviour starts from
    Template,        \* the example profile: one content per file it writes
    Requests,        \* the threads that serve requests on this project
    MaxDecisions,    \* bound: review decisions accepted in one behaviour
    Jobs,            \* the kinds of request served, a subset of JobKinds
    MayCrash,        \* whether the server process may be restarted
    Absent, Empty, Torn       \* no such file; truncated; a mixture of two writes

Sources == [deltas |-> DeltaSets, rules |-> RuleSets,
            priceBook |-> PriceBooks, profile |-> Profiles]

InputFiles == DOMAIN Sources

ASSUME TemplateAssumption ==
    /\ DOMAIN Template = {"rules", "priceBook", "profile"}
    /\ \A f \in DOMAIN Template : Template[f] \in Sources[f]

JobKinds == {"build", "profile", "deltas", "review", "command"}

ASSUME InitialAssumption ==
    \A f \in InputFiles : InitialInputs[f] \in Sources[f] \cup {Absent}

ASSUME BoundAssumption ==
    MaxDecisions \in Nat /\ MayCrash \in BOOLEAN /\ Jobs \subseteq JobKinds

VARIABLES
    files,        \* file name -> content
    req,          \* thread -> the request it serves
    decisions,    \* history: every decision a reviewer was allowed to make
    standing      \* history: the review most recently saved

vars == <<files, req, decisions, standing>>

-----------------------------------------------------------------------------
(* Files and stages.  A stage is named for the file it writes.             *)

Inputs == [scope      |-> <<"deltas", "rules">>,
           commercial |-> <<"scope", "priceBook">>,
           adjusted   |-> <<"commercial", "profile">>,
           review     |-> <<"adjusted">>,
           estimate   |-> <<"commercial", "adjusted", "review">>]

Files == InputFiles \cup DOMAIN Inputs

Readable(content) == content \notin {Absent, Empty, Torn}

\* What a stage computes from the files it has loaded, in loading order.
Output(stage, in) ==
    CASE stage = "scope"      -> DeriveScopeImpacts(in[1], in[2])
      [] stage = "commercial" -> DeriveCommercialImpacts(in[1], in[2])
      [] stage = "adjusted"   -> ApplyAdjustments(in[1], in[2])
      [] stage = "review"     -> InitializeReview(in[1])
      [] stage = "estimate"   -> GenerateEstimate(in[1], in[2], in[3])

\* The ValueErrors a stage raises instead.
Refused(stage, in) ==
    \/ stage = "adjusted" /\ ~SameCurrency(in[1], in[2])
    \/ stage = "estimate" /\ ~EstimateAccepted(in[1], in[2], in[3])

\* What writing v over a file opened earlier leaves in it: v, unless another
\* request has written since, when a longer text leaves its tail behind.
Landed(content, v) == IF content = Empty THEN {v} ELSE {v, Torn}

-----------------------------------------------------------------------------
(* Requests                                                                *)

Idle == [job |-> "idle", stage |-> "none", pc |-> "idle", loaded |-> <<>>, out |-> None]

Loading(job, stage) ==
    [job |-> job, stage |-> stage, pc |-> "load", loaded |-> <<>>, out |-> None]

Saving(job, stage, v) ==
    [job |-> job, stage |-> stage, pc |-> "open", loaded |-> <<>>, out |-> v]

\* A fault: an approval does not go on to the estimate.
AfterWriteNoEstimate(q) ==
    CASE q.job = "build" /\ q.stage = "scope"      -> Loading("build", "commercial")
      [] q.job = "build" /\ q.stage = "commercial" -> Loading("build", "adjusted")
      [] q.job = "build" /\ q.stage = "adjusted"   -> Loading("build", "review")
      [] OTHER -> Idle

\* A fault: a build takes the adjusted calculation that is on file.
AfterWriteKeepsAdjusted(q) ==
    CASE q.job = "build" /\ q.stage = "scope"      -> Loading("build", "commercial")
      [] q.job = "build" /\ q.stage = "commercial" -> Loading("build", "review")
      [] q.job = "profile" /\ q.stage = "rules"
                              -> Saving("profile", "priceBook", Template.priceBook)
      [] q.job = "profile" /\ q.stage = "priceBook"
                              -> Saving("profile", "profile", Template.profile)
      [] OTHER -> Idle

\* Where a request goes once its current file is written.
AfterWrite(q) ==
    CASE q.job = "build" /\ q.stage = "scope"      -> Loading("build", "commercial")
      [] q.job = "build" /\ q.stage = "commercial" -> Loading("build", "adjusted")
      [] q.job = "build" /\ q.stage = "adjusted"   -> Loading("build", "review")
      [] q.job = "review" /\ q.stage = "review" /\ q.out.status = "approved"
                                                   -> Loading("review", "estimate")
      [] q.job = "profile" /\ q.stage = "rules"
                              -> Saving("profile", "priceBook", Template.priceBook)
      [] q.job = "profile" /\ q.stage = "priceBook"
                              -> Saving("profile", "profile", Template.profile)
      [] OTHER -> Idle

Init ==
    /\ files = [f \in Files |-> IF f \in InputFiles THEN InitialInputs[f] ELSE Absent]
    /\ req = [r \in Requests |-> Idle]
    /\ decisions = <<>>
    /\ standing = None

\* POST .../commercial/build: all four inputs must exist (their content is
\* read later, stage by stage).
StartBuild(r) ==
    /\ "build" \in Jobs
    /\ req[r] = Idle
    /\ \A f \in InputFiles : files[f] # Absent
    /\ req' = [req EXCEPT ![r] = Loading("build", "scope")]
    /\ UNCHANGED <<files, decisions, standing>>

\* POST .../commercial/profile/example
StartProfile(r) ==
    /\ "profile" \in Jobs
    /\ req[r] = Idle
    /\ req' = [req EXCEPT ![r] = Saving("profile", "rules", Template.rules)]
    /\ UNCHANGED <<files, decisions, standing>>

\* POST .../technical-deltas/build, reduced to the file it writes.
StartDeltas(r, v) ==
    /\ "deltas" \in Jobs
    /\ req[r] = Idle
    /\ req' = [req EXCEPT ![r] = Saving("deltas", "deltas", v)]
    /\ UNCHANGED <<files, decisions, standing>>

\* One stage run from the command line: crow scope build, crow commercial
\* build, adjust or review-init, crow estimate build.
StartCommand(r, stage) ==
    /\ "command" \in Jobs
    /\ req[r] = Idle
    /\ req' = [req EXCEPT ![r] = Loading("command", stage)]
    /\ UNCHANGED <<files, decisions, standing>>

\* What a decision was about: the terms the review captures.
Terms(x) == [baseline |-> x.baseline, priceBook |-> x.priceBook,
             profile |-> x.profile, currency |-> x.currency, total |-> x.total]

\* POST .../commercial/review, or crow commercial review-set, which does not
\* go on to the estimate: the review is loaded and the transition made.  An
\* unreadable review or a forbidden transition is answered 409.
StartReview(r, job, new) ==
    LET review == files.review
        id     == Len(decisions) + 1
    IN  /\ job \in Jobs
        /\ req[r] = Idle
        /\ Readable(review)
        /\ CanTransition(review, new)
        /\ Len(decisions) < MaxDecisions
        /\ req' = [req EXCEPT ![r] =
                      Saving(job, "review", Transition(review, new, id))]
        /\ decisions' = Append(decisions, [new |-> new, terms |-> Terms(review),
                                           unresolved |-> review.unresolved])
        /\ UNCHANGED <<files, standing>>

NextInput(q) == files[Inputs[q.stage][Len(q.loaded) + 1]]

LastInput(q) == Len(q.loaded) + 1 = Len(Inputs[q.stage])

\* Load one of the inputs of the stage.
LoadInput(r) ==
    /\ req[r].pc = "load"
    /\ Readable(NextInput(req[r]))
    /\ ~LastInput(req[r])
    /\ req' = [req EXCEPT ![r].loaded = Append(@, NextInput(req[r]))]
    /\ UNCHANGED <<files, decisions, standing>>

\* Load the last input and compute the output.
Compute(r) ==
    LET q  == req[r]
        in == Append(q.loaded, NextInput(q))
    IN  /\ q.pc = "load"
        /\ Readable(NextInput(q))
        /\ LastInput(q)
        /\ ~Refused(q.stage, in)
        /\ req' = [req EXCEPT ![r] = Saving(q.job, q.stage, Output(q.stage, in))]
        /\ UNCHANGED <<files, decisions, standing>>

\* An input does not parse, or the stage refuses its inputs: the exception
\* ends the request and leaves every file written so far.
Fail(r) ==
    LET q == req[r]
    IN  /\ q.pc = "load"
        /\ Readable(NextInput(q)) =>
              LastInput(q) /\ Refused(q.stage, Append(q.loaded, NextInput(q)))
        /\ req' = [req EXCEPT ![r] = Idle]
        /\ UNCHANGED <<files, decisions, standing>>

\* write_text, first half: the file is opened and truncated.
OpenOutput(r) ==
    /\ req[r].pc = "open"
    /\ files' = [files EXCEPT ![req[r].stage] = Empty]
    /\ req' = [req EXCEPT ![r].pc = "write"]
    /\ UNCHANGED <<decisions, standing>>

\* write_text, second half: the text is written and the file closed.
WriteOutput(r) ==
    LET q == req[r]
    IN  /\ q.pc = "write"
        /\ \E v \in Landed(files[q.stage], q.out) :
              files' = [files EXCEPT ![q.stage] = v]
        /\ req' = [req EXCEPT ![r] = AfterWrite(q)]
        /\ standing' = IF q.stage = "review" THEN q.out ELSE standing
        /\ UNCHANGED decisions

\* A user replaces the rules, the price book or the profile by hand.
EditInput(f, v) ==
    /\ files[f] # Absent
    /\ files' = [files EXCEPT ![f] = v]
    /\ UNCHANGED <<req, decisions, standing>>

\* The server process dies and is restarted: files stay as they are.
Crash ==
    /\ MayCrash
    /\ req' = [r \in Requests |-> Idle]
    /\ UNCHANGED <<files, decisions, standing>>

Step(r) == LoadInput(r) \/ Compute(r) \/ Fail(r) \/ OpenOutput(r) \/ WriteOutput(r)

Start(r) ==
    \/ StartBuild(r)
    \/ StartProfile(r)
    \/ \E v \in DeltaSets : StartDeltas(r, v)
    \/ \E stage \in DOMAIN Inputs : StartCommand(r, stage)
    \/ \E job \in {"review", "command"}, new \in Statuses : StartReview(r, job, new)

Next ==
    \/ \E r \in Requests : Start(r) \/ Step(r)
    \/ \E f \in InputFiles \ {"deltas"} : \E v \in Sources[f] : EditInput(f, v)
    \/ Crash

Spec == Init /\ [][Next]_vars

\* A thread that has taken up a request runs it to its end.
FairSpec == Spec /\ \A r \in Requests : WF_vars(Step(r))

-----------------------------------------------------------------------------
(* Properties                                                              *)

\* Every input file holds one of its possible contents.
FilesOK ==
    /\ DOMAIN files = Files
    /\ \A f \in InputFiles : files[f] \in Sources[f] \cup {Absent, Empty, Torn}

IsSeq(s) == s \in Seq(Range(s))

\* A request is idle, loads an input its stage still lacks, or saves an output.
RequestOK(q) ==
    \/ q = Idle
    \/ /\ q.pc = "load"
       /\ q.stage \in DOMAIN Inputs
       /\ IsSeq(q.loaded)
       /\ Len(q.loaded) < Len(Inputs[q.stage])
    \/ /\ q.pc \in {"open", "write"}
       /\ q.stage \in Files
       /\ q.stage \in InputFiles => q.out \in Sources[q.stage]

\* Every input file holds one of its possible contents, every request is at a
\* point of its handler with as many inputs loaded as it can have there, and
\* every decision moves to a status the review knows.
TypeOK ==
    /\ FilesOK
    /\ DOMAIN req = Requests
    /\ \A r \in Requests : RequestOK(req[r])
    /\ IsSeq(decisions)
    /\ \A i \in DOMAIN decisions : decisions[i].new \in Statuses

\* An estimate on file stands on an approval that was really given: the event
\* it names is a decision to approve, made about a calculation with nothing
\* unresolved, on the terms (baseline, price book, profile, currency, total)
\* the estimate carries.  (generate_estimate, review_commercial)
EstimateWasApproved ==
    Readable(files.estimate) =>
        LET e == files.estimate
        IN  /\ e.event \in DOMAIN decisions
            /\ decisions[e.event].new = "approved"
            /\ decisions[e.event].unresolved = 0
            /\ decisions[e.event].terms = Terms(e)

\* The decisions of a review form a legal chain from the first proposal, each
\* superseding the one before, and the review stands where its last one left
\* it.  (transition_commercial_review, save_review)
LegalChain(review) ==
    LET h == review.history
    IN  /\ \A i \in DOMAIN h :
              /\ h[i].previous = IF i = 1 THEN "proposed" ELSE h[i-1].new
              /\ h[i].supersedes = IF i = 1 THEN None ELSE h[i-1].id
              /\ h[i].new \in Allowed[h[i].previous]
        /\ review.status = IF h = <<>> THEN "proposed" ELSE h[Len(h)].new
        /\ review.latest = IF h = <<>> THEN None ELSE h[Len(h)].id

\* Whatever review is on file has a legal history.
\* (transition_commercial_review, save_review)
HistoryIsLegal == Readable(files.review) => LegalChain(files.review)

\* A review on file is not approved while items are unresolved.
\* (transition_commercial_review, can_approve)
ApprovedIsResolved ==
    Readable(files.review) /\ files.review.status = "approved"
        => files.review.unresolved = 0

Calculations ==
    {DeriveCommercialImpacts(DeriveScopeImpacts(d, rs), pb) :
        d \in DeltaSets, rs \in RuleSets, pb \in PriceBooks}

AdjustedCalculations == {ApplyAdjustments(c, p) : c \in Calculations, p \in Profiles}

\* An estimate whose lines are described by one calculation and cost what the
\* other does, which has nothing unresolved and is the one approved.
IsEstimate(estimate, described, adjusted) ==
    /\ adjusted.unresolved = 0
    /\ Terms(estimate) = Terms(InitializeReview(adjusted))
    /\ PricedAsAdjusted(described, adjusted)
    /\ estimate.lines = EstimateLines(described, adjusted)

\* Whatever requests interleaved, all amounts and terms of an estimate are of
\* one undisturbed calculation in which nothing is unresolved, and all that
\* describes its lines is of one that priced the same impacts at the same
\* amounts: never are the amounts of two calculations mixed, never is an item
\* left out.  (generate_estimate)
AmountsAreOneCalculation ==
    Readable(files.estimate) =>
        \E described \in Calculations, adjusted \in AdjustedCalculations :
            IsEstimate(files.estimate, described, adjusted)

\* The lines of an estimate are those that one calculation gives: what a line
\* says is done, and as which type of cost, is what its amount was adjusted as.
\* (generate_estimate)
EstimateIsOneCalculation ==
    Readable(files.estimate) =>
        \E c \in Calculations, p \in Profiles :
            IsEstimate(files.estimate, c, ApplyAdjustments(c, p))

\* Each artefact on file follows from the one before it.
Linked ==
    /\ \E d \in DeltaSets, rs \in RuleSets :
          files.scope = DeriveScopeImpacts(d, rs)
    /\ \E pb \in PriceBooks :
          files.commercial = DeriveCommercialImpacts(files.scope, pb)
    /\ \E p \in Profiles : files.adjusted = ApplyAdjustments(files.commercial, p)
    /\ files.review = InitializeReview(files.adjusted)

BuildEnds(r) ==
    /\ req[r].job = "build" /\ req[r].stage = "review" /\ req[r].pc = "write"
    /\ files'.review # files.review

\* With one request at a time, a build that ends leaves one linked chain, in
\* whatever state a crash or a failed build had left the files.
BuildRepairsChain == [][\A r \in Requests : BuildEnds(r) => Linked']_vars

\* The three files an estimate is made of are there and make one.
Estimable ==
    /\ \A f \in {"commercial", "adjusted", "review"} : Readable(files[f])
    /\ EstimateAccepted(files.commercial, files.adjusted, files.review)

\* With one request at a time and no crash, an approval on file gets its
\* estimate, unless the review is replaced or the calculation that was
\* approved is no longer the one on file, as after a build that was refused
\* halfway: the approval then stays without an estimate.  (review_commercial)
ApprovalGetsEstimate ==
    \A id \in 1..MaxDecisions :
        (Readable(files.review) /\ files.review.status = "approved"
            /\ files.review.latest = id)
        ~> \/ Readable(files.estimate) /\ files.estimate.event = id
           \/ ~Estimable
           \/ files.review.latest # id

\* With one request at a time, the review saved last is a review in the sense
\* of ReviewLifecycle.
Lifecycle == INSTANCE ReviewLifecycle
    WITH NoReview <- None, EventIds <- 1..MaxDecisions, review <- standing

ReviewLifecycleHolds == Lifecycle!Spec

\* Approved and rejected reviews can only transition to superseded.
DecisionStands ==
    [][\A r \in Requests :
          (req[r].job \in {"review", "command"} /\ req[r].stage = "review"
             /\ req[r].pc = "write" /\ req[r].out.status # "proposed"
             /\ standing # standing'
             /\ standing.status \in {"approved", "rejected"})
          => standing'.status = "superseded"]_vars
=============================================================================
