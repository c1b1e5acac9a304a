----------------------------- MODULE KnowledgeChain -----------------------------
(***************************************************************************)
(* From uploaded documents to accepted claims: the document index          *)
(* (crow_document_intelligence), observations, claim candidates, their     *)
(* fusion, authority by the hierarchy of documents, and what is accepted   *)
(* (crow_observation_engine ... crow_accepted_claims).  Every stage loads  *)
(* the file of the stage before, computes, and writes a file of its own    *)
(* beside crow-project.json; a missing file before it is made first.  A    *)
(* page says values of subjects, bare quantities and references: how text  *)
(* is parsed is left out.                                                  *)
(***************************************************************************)
EXTENDS Requests, SequencesExt

CONSTANTS
    Batches,        \* sets of [file, sha, number, revision, type, named, role, says, marks, state]
    Authorities(_)  \* sets of [doc, type, date] that a client may post, given the index

\* A batch and a page are finite; revisions are numbers.
ASSUME BatchesAssumption ==
    \A paths \in Batches : \A p \in paths : p.revision \in Nat /\ IsFiniteSet(p.says)

VARIABLES
    index,       \* crow-project.json: [docs, pages, results, relations]
    files,       \* stage -> {} or {what the file holds}
    imports      \* how many imports have begun

knowledgeVars == <<load, client, index, files, imports>>
knowledgeDocs == <<index, files, imports>>

KnowledgeStages ==
    {"observations", "candidates", "fusion", "discovery", "manifest", "resolution", "accepted"}
TechnicalStages == {"decisions", "validation", "reviews", "deltas"}

NoFiles == [s \in KnowledgeStages \cup TechnicalStages |-> {}]
NoIndex == [docs |-> {}, pages |-> {}, results |-> {}, relations |-> {}]

KnowledgeInit == index = NoIndex /\ files = NoFiles /\ imports = 0

TheOnly(s) == CHOOSE x \in s : TRUE

-----------------------------------------------------------------------------
(* Documents                                                               *)

\* DocumentIndex.active_documents
CurrentDocs(ix) == {d \in ix.docs : ~d.superseded}

\* infer_document_relations
DocumentRelations(docs) ==
    LET primary == {d \in docs : ~d.superseded /\ d.role = "primary"}
        having(role) == {d \in docs : ~d.superseded /\ d.role = role}
        typed(type) == {d \in primary : d.type = type}
    IN  {<<a.id, "governs", p.id>> : a \in having("authority"), p \in primary}
        \cup {<<p.id, "references", r.id>> : r \in having("reference"), p \in primary}
        \cup {<<s.id, "describes", p.id>> :
                s \in typed("technical_specification"), p \in typed("drawing")}

\* Whatever comes last replaces what is there (a fault).
LastIsNewest(revision, current) == TRUE

\* is_newer_or_equal
IsNewerOrEqual(revision, current) == revision >= current.revision

\* import_documents, one path.  A file that cannot be read is left out; one whose
\* text cannot be extracted is in the index by then, and has replaced the revision
\* before it, but has no pages.
Ingest(st, p) ==
    LET previous == {d \in st.docs : d.number = p.number /\ ~d.superseded}
        current == CHOOSE d \in previous : \A e \in previous : d.revision >= e.revision
        newer == previous = {} \/ IsNewerOrEqual(p.revision, current)
        new == [id |-> <<st.at, p.file>>, paper |-> p, number |-> p.number,
                revision |-> p.revision, type |-> p.type, role |-> p.role,
                superseded |-> ~newer, at |-> st.at]
        replaced == {IF previous # {} /\ newer /\ d = current THEN [d EXCEPT !.superseded = TRUE]
                     ELSE d : d \in st.docs}
        result(outcome) == [session |-> st.at, file |-> p.file, outcome |-> outcome]
    IN  IF p.state = "unreadable" THEN [st EXCEPT !.results = @ \cup {result("failed")}]
        ELSE IF p.sha \in st.known THEN [st EXCEPT !.results = @ \cup {result("duplicate")}]
        ELSE IF newer /\ p.state = "no_text"
        THEN [st EXCEPT !.docs = replaced \cup {new}, !.results = @ \cup {result("failed")}]
        ELSE [st EXCEPT
                !.docs = replaced \cup {new},
                !.pages = IF newer THEN @ \cup {[doc |-> new.id, says |-> p.says, marks |-> p.marks]}
                          ELSE @,
                !.known = @ \cup {p.sha},
                !.results = @ \cup {result(IF previous = {} THEN "imported"
                                           ELSE IF newer THEN "revision" ELSE "older_revision")}]

\* import_documents, when it begins.
Opened(ix, at) ==
    [docs |-> ix.docs, pages |-> ix.pages, results |-> ix.results,
     known |-> {d.paper.sha : d \in ix.docs}, at |-> at]

\* import_documents, at its end.
Updated(st) ==
    [docs |-> st.docs, pages |-> st.pages, results |-> st.results,
     relations |-> DocumentRelations(st.docs)]

\* upload_documents, import_into_project: the index is loaded, ...
StartImport(c, paths) ==
    /\ client[c] = Idle
    /\ imports' = imports + 1
    /\ Goes(c, [pc |-> "import", left |-> paths, read |-> Opened(index, imports')])
    /\ UNCHANGED <<load, index, files>>

\* ... the paths are read in the order of their names, ...
ReadPath(c) ==
    LET q == client[c]
    IN  /\ q.pc = "import"
        /\ \E p \in q.left :
              /\ \A o \in q.left : p.file <= o.file
              /\ Goes(c, [q EXCEPT !.left = @ \ {p}, !.read = Ingest(@, p)])
        /\ UNCHANGED <<load, knowledgeDocs>>

\* ... and the index is saved.
SaveIndex(c) ==
    /\ client[c].pc = "import" /\ client[c].left = {}
    /\ index' = Updated(client[c].read)
    /\ Ends(c)
    /\ UNCHANGED <<load, files, imports>>

-----------------------------------------------------------------------------
(* Claims                                                                  *)

\* observe_index: what is said on every page, those of documents that were superseded
\* too; nothing of a page without text.
Observe(ix) == {[doc |-> p.doc, says |-> p.says] : p \in {p \in ix.pages : p.says # {}}}

\* How sure a candidate is, in hundredths.
Sureness(s) ==
    CASE s.kind = "key_value" -> IF s.unit # "none" THEN 88 ELSE 80
      [] s.kind = "quantity" -> 62
      [] s.kind = "reference" -> 90

\* extract_claim_candidates; a bare quantity has no subject, and semantic_key keeps
\* the kind, the subject and the unit.
ExtractClaims(observations) ==
    UNION {{[doc |-> o.doc, value |-> s.value, sure |-> Sureness(s),
             key |-> <<s.kind, IF s.kind = "key_value" THEN s.subject ELSE s.kind, s.unit>>] :
               s \in o.says} : o \in observations}

\* _cluster_fingerprint: the key and the values, not the documents.
ClusterId(key, members) ==
    <<key, [v \in {m.value : m \in members} |-> Cardinality({m \in members : m.value = v})]>>

\* fuse_claim_candidates: a cluster of every semantic key.
Fuse(candidates) ==
    {LET members == {m \in candidates : m.key = key}
     IN  [id |-> ClusterId(key, members), key |-> key, members |-> members,
          status |-> IF Cardinality(members) = 1 THEN "singleton"
                     ELSE IF Cardinality({m.value : m \in members}) = 1 THEN "consistent"
                     ELSE "conflicting"] :
        key \in {m.key : m \in candidates}}

-----------------------------------------------------------------------------
(* Authority                                                               *)

\* DEFAULT_AB04_HIERARCHY
AB04 ==
    <<"contract", "ab04_changes", "ab04", "order", "tender", "measurement_rules",
      "priced_bill", "pre_tender_supplement", "administrative_specifications",
      "unpriced_bill", "technical_description", "drawing", "other", "unknown">>

\* project_framework, of a hierarchy without duplicates: what it leaves out comes last.
ProjectFramework(hierarchy) ==
    hierarchy \o SelectSeq(AB04, LAMBDA t : t \notin ToSet(hierarchy))

\* load_authority_manifest
HierarchyOf(manifest) ==
    IF manifest.hierarchy = <<>> THEN AB04 ELSE ProjectFramework(manifest.hierarchy)

\* _variant_metadata: the best rank and the latest date of the documents of a value.
Variant(cluster, value, manifest) ==
    LET docs == {m.doc : m \in {m \in cluster.members : m.value = value}}
        known == {e \in manifest.documents : e.doc \in docs}
        hierarchy == HierarchyOf(manifest)
    IN  [value |-> value, docs |-> docs,
         ranks |-> {i \in 1..Len(hierarchy) : \E e \in known : e.type = hierarchy[i]},
         dates |-> {e.date : e \in known} \ {0}]

Best(v) == Min(v.ranks)
Latest(v) == Max(v.dates)

\* The variants that nothing outranks, and those of them that are dated last.
HierarchyWinners(vs) == {v \in vs : \A w \in vs : Best(v) <= Best(w)}
DateWinners(vs) ==
    LET dated == {v \in vs : v.dates # {}}
    IN  {v \in dated : \A w \in dated : Latest(v) >= Latest(w)}

\* Documents that are not in the manifest do not count (a fault).
ResolveClusterOfKnown(cluster, manifest) ==
    LET vs == {Variant(cluster, v, manifest) : v \in {m.value : m \in cluster.members}}
        ranked == {v \in vs : v.ranks # {}}
        top == HierarchyWinners(ranked)
        decided(status, winners) ==
            [cluster |-> cluster.id, status |-> status, accepted |-> winners]
    IN  IF cluster.status # "conflicting" THEN decided("accepted_" \o cluster.status, vs)
        ELSE IF Cardinality(top) = 1 THEN decided("resolved_by_hierarchy", top)
        ELSE decided("unresolved_tie", {})

\* resolve_cluster
ResolveCluster(cluster, manifest) ==
    LET vs == {Variant(cluster, v, manifest) : v \in {m.value : m \in cluster.members}}
        top == HierarchyWinners(vs)
        decided(status, winners) ==
            [cluster |-> cluster.id, status |-> status, accepted |-> winners]
    IN  IF cluster.status = "singleton" THEN decided("accepted_complementary", vs)
        ELSE IF cluster.status = "consistent" THEN decided("accepted_consistent", vs)
        ELSE IF \E v \in vs : v.ranks = {} THEN decided("unresolved_missing_metadata", {})
        ELSE IF Cardinality(top) = 1 THEN decided("resolved_by_hierarchy", top)
        ELSE IF Cardinality(DateWinners(top)) = 1
        THEN decided("resolved_by_date", DateWinners(top))
        ELSE decided("unresolved_tie", {})

\* resolve_authority (resolver)
Resolve(fusion, manifest) ==
    [manifest |-> manifest, decisions |-> {ResolveCluster(k, manifest) : k \in fusion}]

\* _authority_type
AuthorityType(d) ==
    CASE d.type = "drawing" -> "drawing"
      [] d.type = "af" -> "administrative_specifications"
      [] d.type = "technical_specification" -> "technical_description"
      [] d.type = "quotation" -> "tender"
      [] OTHER -> d.paper.named

\* discover_authority: the framework of the contract and the precedence the pages
\* speak of, the documents that are current, and whether a person must look.
Discover(ix) ==
    LET marks == UNION {p.marks : p \in ix.pages}
        types == {AuthorityType(d) : d \in CurrentDocs(ix)}
        drawingFirst == SelectSeq(AB04, LAMBDA t : t \notin {"drawing", "technical_description"})
    IN  [hierarchy |-> IF "drawing_first" \in marks
                       THEN SubSeq(drawingFirst, 1, 10) \o <<"drawing", "technical_description">>
                            \o SubSeq(drawingFirst, 11, 12)
                       ELSE AB04,
         documents |-> {[doc |-> d.id, type |-> AuthorityType(d), date |-> d.at] :
                          d \in CurrentDocs(ix)},
         review |-> \/ ("ab04" \in marks) = ("abt06" \in marks)
                    \/ "unknown" \in types
                    \/ marks \cap {"drawing_first", "description_first", "af111"} = {"af111"}]

-----------------------------------------------------------------------------
(* Accepted claims                                                         *)

AcceptedStatuses ==
    {"accepted_complementary", "accepted_consistent", "resolved_by_hierarchy", "resolved_by_date"}

\* canonicalize_claims raises for a decision of a cluster that is not there.
CanAccept(fusion, resolution) ==
    {d.cluster : d \in resolution.decisions} \subseteq {k.id : k \in fusion}

\* _confidence: the mean of the candidates behind the value, in hundredths.
Confidence(cluster, value) ==
    LET members == {m \in cluster.members : m.value = value}
    IN  FoldSet(LAMBDA m, sum : m.sure + sum, 0, members) \div Cardinality(members)

\* _claim: what was accepted, by which decision.
AcceptedClaim(fusion, d) ==
    LET cluster == CHOOSE k \in fusion : k.id = d.cluster
        v == TheOnly(d.accepted)
    IN  [key |-> cluster.key, value |-> v.value, docs |-> v.docs, cluster |-> cluster.id,
         status |-> d.status, sure |-> Confidence(cluster, v.value)]

\* canonicalize_claims
Accept(fusion, resolution) ==
    LET decided == {d \in resolution.decisions : d.status \in AcceptedStatuses}
    IN  [claims |-> {AcceptedClaim(fusion, d) : d \in decided},
         pending |-> {k.id : k \in fusion} \ {d.cluster : d \in decided}]

-----------------------------------------------------------------------------
(* A request runs stages, each of which reads, computes and writes.        *)

\* The stage a stage runs first when its file is missing.
Upstream == [candidates |-> "observations", fusion |-> "candidates", resolution |-> "fusion"]

\* What the stage before has just made, or its file.
Input(q, stage) == IF q.given # {} THEN TheOnly(q.given) ELSE TheOnly(files[stage])

MayRun(q, stage) ==
    stage = "accepted" =>
      /\ files.fusion # {} /\ files.resolution # {}
      /\ CanAccept(TheOnly(files.fusion), TheOnly(files.resolution))

\* resolve_project is given the manifest that was posted, or the one discovered.
ManifestOf(q) == TheOnly(IF q.manifest # {} THEN files.manifest ELSE files.discovery)

Made(q, stage) ==
    CASE stage = "observations" -> Observe(index)
      [] stage = "candidates" -> ExtractClaims(Input(q, "observations"))
      [] stage = "fusion" -> Fuse(Input(q, "candidates"))
      [] stage = "discovery" -> Discover(index)
      [] stage = "manifest" -> TheOnly(q.manifest)
      [] stage = "resolution" -> Resolve(Input(q, "fusion"), ManifestOf(q))
      [] stage = "accepted" -> Accept(TheOnly(files.fusion), TheOnly(files.resolution))

Stages(todo) ==
    [pc |-> "run", todo |-> todo, given |-> {}, made |-> {}, manifest |-> {}]

\* What a stage reads and computes; the stage before first, if its file is missing.
RunStage(c) ==
    LET q == client[c]
        stage == Head(q.todo)[1]
    IN  /\ q.pc = "run" /\ q.made = {} /\ stage \in KnowledgeStages
        /\ IF stage \in DOMAIN Upstream /\ q.given = {} /\ files[Upstream[stage]] = {}
           THEN Goes(c, [q EXCEPT !.todo = <<<<Upstream[stage], TRUE>>>> \o @])
           ELSE IF MayRun(q, stage) THEN Goes(c, [q EXCEPT !.made = {Made(q, stage)}])
           ELSE Ends(c)
        /\ UNCHANGED <<load, knowledgeDocs>>

\* What it made is written, and handed to the stage that asked for it.
WriteStage(c) ==
    LET q == client[c]
        stage == Head(q.todo)
    IN  /\ q.pc = "run" /\ q.made # {}
        /\ files' = [files EXCEPT ![stage[1]] = q.made]
        /\ IF Len(q.todo) = 1 THEN Ends(c)
           ELSE Goes(c, [q EXCEPT !.todo = Tail(@), !.made = {},
                                  !.given = IF stage[2] THEN q.made ELSE {}])
        /\ UNCHANGED <<load, index, imports>>

\* analyze_claims
StartAnalyze(c) ==
    /\ client[c] = Idle
    /\ Goes(c, Stages(<<<<"candidates", FALSE>>, <<"fusion", FALSE>>>>))
    /\ UNCHANGED <<load, knowledgeDocs>>

\* resolve_authority: 409 before an analysis, 400 for a document that is not current; what
\* is posted never has a hierarchy of its own.
StartResolve(c, posted) ==
    /\ client[c] = Idle
    /\ files.fusion # {}
    /\ {e.doc : e \in posted} \subseteq {d.id : d \in CurrentDocs(index)}
    /\ Goes(c, [Stages(<<<<"manifest", FALSE>>, <<"resolution", FALSE>>, <<"accepted", FALSE>>>>)
                 EXCEPT !.manifest = {[hierarchy |-> <<>>, documents |-> posted]}])
    /\ UNCHANGED <<load, knowledgeDocs>>

\* The commands of the command line run one stage: observe, claims, fuse, authority
\* discover, accepted build; and authority resolve, with the manifest discovered.
StartCommand(c, stage) ==
    /\ client[c] = Idle
    /\ stage = "resolution" => files.discovery # {}
    /\ Goes(c, Stages(<<<<stage, FALSE>>>>))
    /\ UNCHANGED <<load, knowledgeDocs>>

Commands == {"observations", "candidates", "fusion", "discovery", "resolution", "accepted"}

KnowledgeNext ==
    \/ \E c \in load.clients :
          \/ /\ load.part \in {"all", "documents"}
             /\ imports < load.bound
             /\ \E paths \in Batches : StartImport(c, paths)
          \/ /\ load.part = "all"
             /\ \/ StartAnalyze(c)
                \/ \E posted \in Authorities(index) : StartResolve(c, posted)
                \/ \E stage \in Commands : StartCommand(c, stage)
          \/ ReadPath(c) \/ SaveIndex(c) \/ RunStage(c) \/ WriteStage(c)
    \/ Restart /\ UNCHANGED <<load, knowledgeDocs>>

KnowledgeSpec == RequestsInit /\ KnowledgeInit /\ [][KnowledgeNext]_knowledgeVars

-----------------------------------------------------------------------------
(* Properties                                                              *)

\* However files come in, one at a time, in batches, in any order of their revisions,
\* again, broken, or while another import is saved: the current document of a number
\* is the newest there is of it, and no current document is without its pages unless
\* its import was reported as failed.  (import_documents)
IndexIsCurrent ==
    \A d \in index.docs :
      /\ \E e \in CurrentDocs(index) : e.number = d.number
      /\ ~d.superseded =>
           /\ \A e \in index.docs \ {d} :
                e.number = d.number => e.superseded /\ e.revision <= d.revision
           /\ \/ \E p \in index.pages : p.doc = d.id
              \/ \E r \in index.results :
                   r.outcome = "failed" /\ r.session = d.at /\ r.file = d.paper.file

\* Where a document stands in the hierarchy of a manifest.
RanksOf(manifest, doc) ==
    {i \in 1..Len(HierarchyOf(manifest)) :
       \E e \in manifest.documents : e.doc = doc /\ e.type = HierarchyOf(manifest)[i]}

\* What is accepted stands against every document that says otherwise: each other
\* value is said by a document that has a rank, and none of these ranks is better
\* than the best behind what was accepted; what is left pending is contested or was
\* not there to be resolved; and nothing that was said is missing.
Authoritative(fusion, resolution, accepted) ==
    LET said == UNION {k.members : k \in fusion}
        manifest == resolution.manifest
    IN  /\ \A m \in said :
             \/ \E a \in accepted.claims : a.key = m.key
             \/ \E p \in accepted.pending :
                  /\ p[1] = m.key
                  /\ \/ \E n \in said : n.key = m.key /\ n.value # m.value
                     \/ \A d \in resolution.decisions : d.cluster # p
        /\ \A a \in accepted.claims :
             LET others == {m \in said : m.key = a.key /\ m.value # a.value}
             IN  /\ \A m \in others :
                      \E n \in others : n.value = m.value /\ RanksOf(manifest, n.doc) # {}
                 /\ others # {} =>
                      \E d \in a.docs : \E i \in RanksOf(manifest, d) :
                         \A m \in others : \A j \in RanksOf(manifest, m.doc) : i <= j

\* The claims that are written as accepted are authoritative over the clusters and the
\* resolution on file, whatever stages were run again before, on the command line or
\* by a client.  (resolve_cluster, canonicalize_claims)
AcceptedIsAuthoritative ==
    [][ Alone /\ files'.accepted # files.accepted =>
          Authoritative(TheOnly(files.fusion), TheOnly(files.resolution),
                        TheOnly(files'.accepted)) ]_knowledgeVars

=============================================================================
