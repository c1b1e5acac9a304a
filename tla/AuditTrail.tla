------------------------------- MODULE AuditTrail -------------------------------
(***************************************************************************)
(* Audits of the building graph and what people say of them (crow_workbench*)
(* app.py, crow_graph_rules/audit.py, crow_evidence_rules, crow_assurance).*)
(* There are two trails of one shape, for the rules of the graph and for   *)
(* those of its evidence.  An audit is a file of its own that is written   *)
(* once for a graph; reviews of findings, and verifications that a finding *)
(* of one audit is gone in another, are registers that are loaded, grown   *)
(* and saved as a whole.  No two changes leave the same graph: its history *)
(* carries the time of each.                                               *)
(***************************************************************************)
EXTENDS Requests

CONSTANTS
    AuditGraphs,        \* the graphs there may be
    Raised(_, _)        \* what the rules of a trail find in a graph

VARIABLES
    audited,            \* [n, graph]: the building graph, the n-th there was
    audits,             \* trail -> set of [n, raised, at]
    reviews,            \* trail -> set of [audit, finding]
    verifications,      \* trail -> set of [base, target, finding, decision]
    auditClock          \* the time

auditDocs == <<audited, audits, reviews, verifications, auditClock>>

Trails == {"graph", "evidence"}

Uses(t) == load.part \in {"all", t}

EmptyTrails == [t \in Trails |-> {}]

AuditInit ==
    /\ audited \in {[n |-> 1, graph |-> g] : g \in AuditGraphs}
    /\ audits = EmptyTrails /\ reviews = EmptyTrails /\ verifications = EmptyTrails
    /\ auditClock = 0

HasAudit(t, n) == \E a \in audits[t] : a.n = n

-----------------------------------------------------------------------------

\* Another request changes the graph.
AuditedGraphChanges ==
    /\ audited.n < load.bound
    /\ \E g \in AuditGraphs : audited' = [n |-> audited.n + 1, graph |-> g]
    /\ UNCHANGED <<load, client, audits, reviews, verifications, auditClock>>

\* serialize_graph_audit, serialize_evidence_audit: the graph is loaded and judged ...
StartAudit(c, t) ==
    /\ client[c] = Idle
    /\ auditClock < 2 * load.bound
    /\ Goes(c, [pc |-> "judged", trail |-> t, n |-> audited.n,
                raised |-> Raised(t, audited.graph)])
    /\ UNCHANGED <<load, auditDocs>>

\* ... the audit is stamped; one of the same graph is answered as it stands ...
StampAudit(c) ==
    LET q == client[c]
    IN  /\ q.pc = "judged"
        /\ IF HasAudit(q.trail, q.n) THEN Ends(c) /\ UNCHANGED auditClock
           ELSE /\ auditClock' = auditClock + 1
                /\ Goes(c, [pc |-> "stamped", trail |-> q.trail,
                           audit |-> [n |-> q.n, raised |-> q.raised, at |-> auditClock + 1]])
        /\ UNCHANGED <<load, audited, audits, reviews, verifications>>

\* ... or its file is written, over one that was written since.
WriteAudit(c) ==
    LET q == client[c]
    IN  /\ q.pc = "stamped"
        /\ audits' = [audits EXCEPT ![q.trail] =
                        {a \in @ : a.n # q.audit.n} \cup {q.audit}]
        /\ Ends(c)
        /\ UNCHANGED <<load, audited, reviews, verifications, auditClock>>

\* review_audit_finding, review_evidence_audit_finding: 404 for a finding that the
\* audit does not have, 409 for one that was reviewed.
StartReview(c, t) ==
    /\ client[c] = Idle
    /\ \E a \in audits[t] : \E f \in a.raised :
          /\ ~\E r \in reviews[t] : r.audit = a.n /\ r.finding = f
          /\ Goes(c, [pc |-> "reviewed", trail |-> t,
                      held |-> reviews[t] \cup {[audit |-> a.n, finding |-> f]}])
    /\ UNCHANGED <<load, auditDocs>>

SaveReviews(c) ==
    /\ client[c].pc = "reviewed"
    /\ reviews' = [reviews EXCEPT ![client[c].trail] = client[c].held]
    /\ Ends(c)
    /\ UNCHANGED <<load, audited, audits, verifications, auditClock>>

\* GraphAuditDiffer.compare, EvidenceAuditDiffer.compare
Lifecycle(base, target, f) ==
    CASE f \notin base.raised   -> "new"
      [] f \notin target.raised -> "no_longer_detected"
      [] OTHER                  -> "persistent"

Compared(base, target) ==
    IF base.n = target.n THEN {} ELSE base.raised \cup target.raised

\* A finding that is in both audits may be verified too (a fault).
MayBeVerifiedWhilePersistent(base, target, f) ==
    f \in Compared(base, target) /\ Lifecycle(base, target, f) # "new"

\* GraphResolutionVerificationService.decide
MayBeVerified(base, target, f) ==
    f \in Compared(base, target) /\ Lifecycle(base, target, f) = "no_longer_detected"

\* verify_audit_resolution, verify_evidence_audit_resolution
StartVerify(c, t) ==
    /\ client[c] = Idle
    /\ \E base, target \in audits[t] : \E f \in base.raised \cup target.raised :
          /\ ~\E v \in verifications[t] :
                v.base = base.n /\ v.target = target.n /\ v.finding = f
          /\ MayBeVerified(base, target, f)
          /\ \E d \in {"verify_resolved", "reject_resolution"} :
                Goes(c, [pc |-> "verified", trail |-> t,
                         held |-> verifications[t] \cup
                           {[base |-> base.n, target |-> target.n, finding |-> f,
                             decision |-> d]}])
    /\ UNCHANGED <<load, auditDocs>>

SaveVerifications(c) ==
    /\ client[c].pc = "verified"
    /\ verifications' = [verifications EXCEPT ![client[c].trail] = client[c].held]
    /\ Ends(c)
    /\ UNCHANGED <<load, audited, audits, reviews, auditClock>>

CreateGraphAuditRun(c) == StartAudit(c, "graph")
CreateEvidenceAuditRun(c) == StartAudit(c, "evidence")
ReviewGraphFinding(c) == StartReview(c, "graph")
ReviewEvidenceFinding(c) == StartReview(c, "evidence")
VerifyGraphResolution(c) == StartVerify(c, "graph")
VerifyEvidenceResolution(c) == StartVerify(c, "evidence")

AuditNext ==
    \/ \E c \in load.clients :
          \/ Uses("graph") /\ (CreateGraphAuditRun(c) \/ ReviewGraphFinding(c)
                              \/ VerifyGraphResolution(c))
          \/ Uses("evidence") /\ (CreateEvidenceAuditRun(c) \/ ReviewEvidenceFinding(c)
                                 \/ VerifyEvidenceResolution(c))
    \/ \E c \in load.clients :
          StampAudit(c) \/ WriteAudit(c) \/ SaveReviews(c) \/ SaveVerifications(c)
    \/ AuditedGraphChanges
    \/ Restart /\ UNCHANGED <<load, auditDocs>>

auditVars == <<load, client, auditDocs>>

AuditSpec == RequestsInit /\ AuditInit /\ [][AuditNext]_auditVars

-----------------------------------------------------------------------------
(* The assurance summary                                                   *)

\* The audit the summary speaks of is the first one (a fault).
EarliestAudit(t) == CHOOSE a \in audits[t] : \A b \in audits[t] : a.at <= b.at

\* ProjectAssuranceSummaryBuilder._latest
LatestAudit(t) == CHOOSE a \in audits[t] : \A b \in audits[t] : b.at <= a.at

\* _domain
DomainStatus(t) ==
    IF audits[t] = {} THEN "no_persisted_audit"
    ELSE LET a == LatestAudit(t)
             reviewed == {r.finding : r \in {x \in reviews[t] : x.audit = a.n}}
         IN  CASE a.raised = {}             -> "no_findings_detected"
               [] a.raised \ reviewed # {}  -> "attention_required"
               [] OTHER                     -> "review_in_progress"

VerifiedCount(t) ==
    Cardinality({v \in verifications[t] :
                   v.target = LatestAudit(t).n /\ v.decision = "verify_resolved"})

\* build
AssuranceStatus ==
    LET statuses == {DomainStatus(t) : t \in Trails}
    IN  IF "attention_required" \in statuses THEN "attention_required"
        ELSE IF "review_in_progress" \in statuses THEN "review_in_progress"
        ELSE IF "no_persisted_audit" \in statuses THEN "incomplete_audit_coverage"
        ELSE "no_findings_detected"

-----------------------------------------------------------------------------
(* Properties                                                              *)

\* Whoever writes the registers: a review is of a finding of an audit that is
\* kept, no finding is verified to be gone that the later audit still reports
\* or the earlier one did not, and nothing is decided twice.
\* (review_audit_finding, verify_audit_resolution)
RegistersAreSound ==
    \A t \in Trails :
       /\ \A r \in reviews[t] : \E a \in audits[t] : a.n = r.audit /\ r.finding \in a.raised
       /\ \A v \in verifications[t] :
             /\ \E a, b \in audits[t] :
                   /\ a.n = v.base /\ b.n = v.target
                   /\ v.finding \in a.raised \ b.raised
             /\ \A w \in verifications[t] :
                   w.base = v.base /\ w.target = v.target /\ w.finding = v.finding => w = v

\* With one client the assurance summary says that nothing was found, or that
\* all is reviewed, only if that holds of the newest graph that was audited,
\* in both trails; what counts as verified was found in another audit.
\* (ProjectAssuranceSummaryBuilder)
AssuranceIsOfNewestAudit ==
    Alone =>
      /\ AssuranceStatus \in {"no_findings_detected", "review_in_progress"} =>
           \A t \in Trails : \A a \in audits[t] :
              (\A b \in audits[t] : b.n <= a.n) =>
                 \A f \in a.raised : \E r \in reviews[t] : r.audit = a.n /\ r.finding = f
      /\ \A t \in Trails :
           audits[t] # {} =>
             VerifiedCount(t) <= Cardinality({v \in verifications[t] :
                                   \E a \in audits[t] : a.n = v.base /\ a # LatestAudit(t)})
=============================================================================
