---------------------------- MODULE ProjectAggregate ----------------------------
(***************************************************************************)
(* The project of the module SDK (project.py): its documents, the claims   *)
(* taken from them, what makes it ready to run, its runs, and what a new   *)
(* revision of a document invalidates.  A project is a value: an operation *)
(* gives a new one, and who called it holds it.                            *)
(*                                                                         *)
(* Callers keep a project in two places: the JSON repository, which stores *)
(* no runs (project_persistence.py), and the unit of work, which a run     *)
(* commits to together with its decision graphs (project_transaction.py).  *)
(* An operation that raises leaves everything as it was and is no action.  *)
(* The audit events of a project decide nothing and are left out.          *)
(***************************************************************************)
EXTENDS DecisionServices

CONSTANTS
    Documents, Revisions,  \* documents, and the revisions they may have
    Claims,        \* what may be extracted, from each document and revision
    Policies,      \* authority policies
    Registry,      \* modules that may be enabled
    RunIds,
    Callers,       \* who holds a project
    MaxRuns        \* bound: runs of the project in hand when another is started

ASSUME ProjectAssumption ==
    /\ \A c \in Claims : c.document \in Documents /\ c.revision \in Revisions
    /\ MaxRuns \in Nat
    /\ \A r \in Policies : r # None

VARIABLES
    hand,        \* caller -> the project it holds
    started,     \* caller -> the run it is about to commit, or None
    saved,       \* the project in the JSON repository, or None
    committed,   \* the project in the unit of work, or None
    graphs       \* the decision graphs in the unit of work: id -> item

projectVars == <<hand, started, saved, committed, graphs>>

-----------------------------------------------------------------------------
(* The project                                                             *)

NewProject ==
    [status |-> "draft", documents |-> <<>>, claims |-> {}, policy |-> None,
     modules |-> {}, runs |-> <<>>, invalidated |-> {}]

IdsOf(claims) == {c.id : c \in claims}

ClaimsOf(p, d) == {c \in p.claims : c.document = d}

Used(run) == UNION {item.claims : item \in run.items}

HasClaim(p) == \E c \in p.claims : c.id \notin p.invalidated

\* Of what readiness_errors() finds missing, everything but a claim is there.
ReadyButForClaims(p) ==
    /\ DOMAIN p.documents # {}
    /\ p.invalidated = {}
    /\ p.policy # None
    /\ p.modules # {}

Ready(p) == HasClaim(p) /\ ReadyButForClaims(p)

\* A document at a revision, for the first time or again.
WithDocument(p, d, r) ==
    [p EXCEPT !.documents = [e \in DOMAIN @ \cup {d} |-> IF e = d THEN r ELSE @[e]]]

\* Runs that used a claim with one of these ids are invalidated.
Invalidate(runs, ids) ==
    [i \in DOMAIN runs |->
        [runs[i] EXCEPT !.invalidated = @ \/ IdsOf(Used(runs[i])) \cap ids # {}]]

\* A fault: the runs stay as they are.
RevisedKeepsRuns(p, d, r) ==
    [WithDocument(p, d, r) EXCEPT
        !.invalidated = @ \cup IdsOf(ClaimsOf(p, d)), !.status = "draft"]

\* A fault: a project that was ready stays so.
RevisedKeepsStatus(p, d, r) ==
    [WithDocument(p, d, r) EXCEPT
        !.runs = Invalidate(@, IdsOf(ClaimsOf(p, d))),
        !.invalidated = @ \cup IdsOf(ClaimsOf(p, d))]

\* revise_document
Revised(p, d, r) ==
    [WithDocument(p, d, r) EXCEPT
        !.runs = Invalidate(@, IdsOf(ClaimsOf(p, d))),
        !.invalidated = @ \cup IdsOf(ClaimsOf(p, d)),
        !.status = "draft"]

\* What a caller may have extracted: from a document of the project, at its
\* present revision; or from one the project does not have.
Extractable(p) ==
    {c \in Claims : c.document \in DOMAIN p.documents => p.documents[c.document] = c.revision}

\* add_claims raises no error: no id is taken, and no two are the same.
Addable(p, additions) ==
    /\ \A c \in additions : c.document \in DOMAIN p.documents
    /\ \A c \in additions, e \in p.claims : c.id # e.id
    /\ \A c, e \in additions : c.id = e.id => c = e

WithClaims(p, additions) == [p EXCEPT !.claims = @ \cup additions]

\* A fault: the invalidated claims of the document stay on the list.
WithoutClaimsOfListed(p, d) == [p EXCEPT !.claims = @ \ ClaimsOf(p, d)]

WithoutClaimsOf(p, d) ==
    [p EXCEPT !.claims = @ \ ClaimsOf(p, d),
              !.invalidated = @ \ IdsOf(ClaimsOf(p, d))]

\* The project after a run, and the run itself.
Run(p, id, keys) ==
    [id |-> id, items |-> Batch(p.claims, p.policy, keys), invalidated |-> FALSE]

RunStatus(run) ==
    IF \E item \in run.items : item.selected = None THEN "review_required" ELSE "completed"

Executed(p, run) == [p EXCEPT !.status = RunStatus(run), !.runs = Append(@, run)]

MayExecute(p) == p.status \in {"ready", "review_required"} /\ p.policy # None

\* The graphs of a run are numbered in the order of their conflict keys.
KeyOf(item) == (CHOOSE c \in item.claims : TRUE).key

GraphsOf(run) ==
    [g \in {run.id} \X (1..Cardinality(run.items)) |->
        CHOOSE item \in run.items :
            Cardinality({other \in run.items : KeyOf(other) <= KeyOf(item)}) = g[2]]

\* dict.update
Updated(dict, entries) ==
    [g \in DOMAIN dict \cup DOMAIN entries |->
        IF g \in DOMAIN entries THEN entries[g] ELSE dict[g]]

-----------------------------------------------------------------------------

ProjectInit ==
    /\ hand = [c \in Callers |-> NewProject]
    /\ started = [c \in Callers |-> None]
    /\ saved = None
    /\ committed = None
    /\ graphs = <<>>

Hold(c, p) ==
    /\ started[c] = None
    /\ hand' = [hand EXCEPT ![c] = p]
    /\ UNCHANGED <<started, saved, committed, graphs>>

AddDocument(c, d, r) ==
    /\ d \notin DOMAIN hand[c].documents
    /\ Hold(c, WithDocument(hand[c], d, r))

ReviseDocument(c, d, r) ==
    /\ d \in DOMAIN hand[c].documents
    /\ hand[c].documents[d] # r
    /\ Hold(c, Revised(hand[c], d, r))

AddClaims(c, additions) ==
    /\ Addable(hand[c], additions)
    /\ Hold(c, WithClaims(hand[c], additions))

\* At any time, and whatever the project's status, which stays as it is.
ReplaceClaims(c, d, additions) ==
    LET rest == WithoutClaimsOf(hand[c], d)
    IN  /\ \A e \in additions : e.document = d
        /\ Addable(rest, additions)
        /\ Hold(c, WithClaims(rest, additions))

SetAuthorityPolicy(c, policy) == Hold(c, [hand[c] EXCEPT !.policy = policy])

EnableModule(c, m) == Hold(c, [hand[c] EXCEPT !.modules = @ \cup {m}])

MarkReady(c) ==
    /\ Ready(hand[c])
    /\ Hold(c, [hand[c] EXCEPT !.status = "ready"])

\* JsonProjectRepository.save and load
SaveProject(c) ==
    /\ started[c] = None
    /\ saved' = [hand[c] EXCEPT !.runs = <<>>]
    /\ UNCHANGED <<hand, started, committed, graphs>>

LoadProject(c) ==
    /\ saved # None
    /\ Hold(c, saved)

TakeCommitted(c) ==
    /\ committed # None
    /\ Hold(c, committed)

\* execute_project_transactionally: the run is made and, with its graphs, put
\* into a transaction that nobody else sees.
Execute(c, id, keys) ==
    LET p == hand[c]
    IN  /\ started[c] = None
        /\ Len(p.runs) < MaxRuns
        /\ MayExecute(p)
        /\ BatchAccepted(p.claims, p.policy, keys)
        /\ started' = [started EXCEPT ![c] = Run(p, id, keys)]
        /\ UNCHANGED <<hand, saved, committed, graphs>>

\* A fault: the graphs are not part of the transaction.
CommitProjectOnly(c) ==
    /\ started[c] # None
    /\ committed' = Executed(hand[c], started[c])
    /\ hand' = [hand EXCEPT ![c] = committed']
    /\ started' = [started EXCEPT ![c] = None]
    /\ UNCHANGED <<saved, graphs>>

Commit(c) ==
    /\ started[c] # None
    /\ committed' = Executed(hand[c], started[c])
    /\ graphs' = Updated(graphs, GraphsOf(started[c]))
    /\ hand' = [hand EXCEPT ![c] = committed']
    /\ started' = [started EXCEPT ![c] = None]
    /\ UNCHANGED saved

\* The commit fails: rollback, and the caller still has the project of before.
CommitFails(c) ==
    /\ started[c] # None
    /\ started' = [started EXCEPT ![c] = None]
    /\ UNCHANGED <<hand, saved, committed, graphs>>

ProjectNext ==
    \E c \in Callers :
        \/ \E d \in Documents, r \in Revisions : AddDocument(c, d, r)
        \/ \E d \in Documents, r \in Revisions : ReviseDocument(c, d, r)
        \/ \E additions \in SUBSET Extractable(hand[c]) :
              \/ AddClaims(c, additions)
              \/ \E d \in DOMAIN hand[c].documents : ReplaceClaims(c, d, additions)
        \/ \E policy \in Policies : SetAuthorityPolicy(c, policy)
        \/ \E m \in Registry : EnableModule(c, m)
        \/ MarkReady(c)
        \/ SaveProject(c) \/ LoadProject(c) \/ TakeCommitted(c)
        \/ \E id \in RunIds, keys \in SUBSET {e.key : e \in Claims} : Execute(c, id, keys)
        \/ Commit(c) \/ CommitFails(c)

ProjectSpec == ProjectInit /\ [][ProjectNext]_projectVars

-----------------------------------------------------------------------------
(* Properties                                                              *)

RunOK(run) ==
    /\ run.id \in RunIds
    /\ run.invalidated \in BOOLEAN
    /\ \A item \in run.items :
          item.claims \subseteq Claims /\ item.selected \in item.claims \cup {None}

ProjectOK(p) ==
    /\ p.status \in {"draft", "ready", "review_required", "completed"}
    /\ DOMAIN p.documents \subseteq Documents
    /\ \A d \in DOMAIN p.documents : p.documents[d] \in Revisions
    /\ p.claims \subseteq Claims
    /\ \A c \in p.claims : c.document \in DOMAIN p.documents
    /\ p.policy \in Policies \cup {None}
    /\ p.modules \subseteq Registry
    /\ Len(p.runs) <= MaxRuns
    /\ \A i \in DOMAIN p.runs : RunOK(p.runs[i])

\* Every project there is holds documents, claims of those documents, policies,
\* modules and runs it may hold, and a run about to be committed is a run.
TypeOK ==
    /\ \A c \in Callers : ProjectOK(hand[c])
    /\ \A c \in Callers : started[c] # None => RunOK(started[c])
    /\ saved # None => ProjectOK(saved)
    /\ committed # None => ProjectOK(committed)

\* Whatever a project went through, no two of its claims share an id, and the
\* ids it lists as invalidated are of claims it has: a claim that was replaced
\* does not keep the project from being ready.
\* (add_claims, revise_document, replace_claims_for_document)
InvalidatedAreClaims ==
    \A c \in Callers :
        /\ \A e, f \in hand[c].claims : e.id = f.id => e = f
        /\ hand[c].invalidated \subseteq IdsOf(hand[c].claims)

\* The claims that a run used are of the revisions that their documents have now.
Follows(p, used) == \A e \in used : p.documents[e.document] = e.revision

\* Of the claims that a valid run of a project used, those that the project still
\* has are of the present revisions and not invalidated, whatever was revised,
\* replaced, numbered anew, reloaded and run between.
\* (revise_document, replace_claims_for_document, add_claims, execute)
KeptSourcesAreCurrent ==
    \A c \in Callers : \A i \in DOMAIN hand[c].runs :
        LET kept == Used(hand[c].runs[i]) \cap hand[c].claims
        IN  ~hand[c].runs[i].invalidated =>
                Follows(hand[c], kept) /\ IdsOf(kept) \cap hand[c].invalidated = {}

\* A decision does not outlive its sources: all the claims that a valid run used
\* are of the present revisions.  (docs/AUDIT_AND_REVISION.md)
DecisionsFollowSources ==
    \A c \in Callers : \A i \in DOMAIN hand[c].runs :
        ~hand[c].runs[i].invalidated => Follows(hand[c], Used(hand[c].runs[i]))

\* A project is run only when it has a document, a policy and a module and none of
\* its claims is invalidated, whatever was done to it since it was marked ready and
\* wherever it was kept: what a replacement may have taken away is its last claim,
\* and nothing else.  (mark_ready, execute, replace_claims_for_document)
RunsNothingInvalidated ==
    [][\A c \in Callers :
          started[c] = None /\ started'[c] # None => ReadyButForClaims(hand[c])]_projectVars

\* A project is run only when it would pass the readiness check at that moment.
\* (docs/PROJECT_AGGREGATE_RULES.md, rule 5)  The code does not keep this: a project
\* whose claims are replaced by none stays ready, and RunsNothingInvalidated is what is left.
RunsWhenReady ==
    [][\A c \in Callers :
          started[c] = None /\ started'[c] # None => Ready(hand[c])]_projectVars

\* The last run of a committed project has its decision graphs, every one of
\* them, whichever commits failed or reused its id.
\* (execute_project_transactionally, ProjectUnitOfWork)
AllOrNothing ==
    committed # None =>
        LET own == GraphsOf(Last(committed.runs))
        IN  \A g \in DOMAIN own : g \in DOMAIN graphs /\ graphs[g] = own[g]
=============================================================================
