# Verification of the crow platform

TLA+ models of the core logic of this repository, TLC configurations that
model-check them on small instances, and theorems that TLAPS proves for every
instance. `PROJECT.json` lists the runs, the mutants that show each property can
fail, the source lines behind each definition, the findings and the hazards.

    tlc -workers 2 -config workbench.cfg WorkbenchMC.tla   # one run
    tlapm RegisterProofs.tla                               # one proof

## 1. The system

crow reads the documents of a building project (drawings, descriptions, IFC and
CAD files), extracts claims from them, and works the claims up into technical
decisions, priced consequences and an estimate, with people deciding at fixed
points. It is a FastAPI application (`crow_workbench/app.py`) over some forty
packages, with a command line that runs the same stages, and separate modules for
ventilation take-off, pressure tests and OVK inspections (the mandatory check of
ventilation), which have an offline client in the browser.

Three facts shape all of it:

* **State is in JSON files**, one directory for each project. A handler loads
  files, computes, and saves files. There is no database, and no file lock.
* **Plain handlers run on a pool of threads.** Two requests on one project
  interleave between any two file operations, and a restart may fall between them.
* **`async` handlers run in the event loop**, one at a time between awaits. Most
  of the OVK module is of this kind: what interleaves there are whole requests of
  clients that read, are edited for a while, and write back.

A file is saved in one of two ways: `Path.write_text` on the file itself
(truncate, then write), or `write_text` on a temporary file that `os.replace`
moves into place. The temporary file has one name for all savers.

### Inventory

| Component | State | Operations | What is hard | What makes it correct |
|---|---|---|---|---|
| Document intake (`crow_document_intelligence`) | document index, manifest | upload in batches, repeat, revise, fail, delete | repeats, orders and overlaps of uploads | the index says of each document the newest revision that was read |
| Claims, fusion, authority, accepted claims | one file for each stage | extract, fuse, discover types, resolve, accept | a stage run on an older file of the stage before | what is accepted is what the highest document says |
| Decision engine, technical validation, review and delta | decisions, issues, reviews, deltas | decide, validate, initialise, transition, compare | decisions made again under reviews of earlier ones | a delta is of a decision that was approved |
| Commercial chain (`crow_scope_impact`, `crow_commercial_*`, `crow_estimate_line`) | nine files beside the manifest | build, review, apply the example profile, rebuild the deltas, and each stage from the command line | requests that interleave, files half written, a review that outlives its calculation | the amounts of an estimate are of one calculation, on terms that were approved, with nothing unresolved |
| Estimate structure and revision | structured estimate, revision | group lines by rules, compare two estimates | gaps, duplicates, changes in position only | every line has one place; a revision says every change |
| Project aggregate (`crow_module_sdk`) | an immutable project; a JSON repository; a unit of work | documents, claims, policy, modules, ready, execute, save, load, commit | what a revision must invalidate | nothing invalidated is run or used; project, run and graphs are committed together |
| Building graph (`crow_building_graph`) | one JSON document of objects, relations, properties, evidence, history | create and update floors, spaces, systems, components; connect; trace; check | several saves to a request; the shared temporary file | nothing dangles, everything has its history; the document is always whole |
| Inference (`crow_inference`) | latest result, runs, reviews; relations of the graph | run, invalidate, review, promote | four documents saved one by one | only accepted facts are promoted; a promoted fact is in the graph |
| Reasoning findings (`crow_reasoning`) | register with history and revision | evaluate, synchronise, change status | a register that is replaced whole | an unbroken trail; people's decisions survive the rules |
| Audits and review registers (`crow_*_rules`, `crow_assurance`) | audit files, reviews, verifications | audit, review once, verify once, summarise | "once" asked of a copy | a decision rests on an audit that is kept; the summary is of the newest |
| Entitlements, sessions, users | users, customers, audit log | log in, manage users, grant, revoke | administrators who act on each other; sessions that outlive rights | an administrator remains; the log accounts for the records |
| OVK field work | draft in the browser; context, snapshot, photo bytes and receipts on the server | edit, photograph, synchronise, import an earlier inspection | edits during a synchronisation, lost answers, retries | what is called stored is stored; a draft is refused for few, known reasons |
| OVK protocols, certificates, re-inspections, watch list | records, certificates, cases | draft, edit, issue, open, remedy, verify, close | forms that stay open; issues out of order | a certificate loses no finding; no deadline is missed |
| OVK time | segments in the browser, ledger on the server | run the timer, send, adjust, report | answers lost, sends repeated | an hour is counted once |
| Geometry, graph search | none | topology, tracing, systems, labels, traversal | networks with loops, double edges and dangling ends | a search finds all there is |
| Ventilation take-off, pressure tests, quotes and offers | none | classify, consolidate, price, judge | what is left out of a sum; rounding | nothing is lost unsaid; prices add up |
| Extraction, explorers, regulations, deployment, module registry | none of their own, or none that a request changes | parse, read, install | file formats | out of scope, see section 8 |

The components meet in two places. The chain runs through the files of a project:
documents → claims → accepted claims → decisions → reviews → deltas → commercial
chain → estimate → structure. The building graph is written by imports, by people
and by promoted inferences, and read by findings and audits.

## 2. Plan

Done:

1. Commercial chain: `CommercialEngine`, `CommercialChain`, `ReviewLifecycle`, proofs.
2. Inference: `InferenceEngine`, `Inference`, proofs.
3. Saving a document: `AtomicDocument`, `SavedDocument`, refinement and proof.
4. Project aggregate: `DecisionServices`, `ProjectAggregate`, proofs.
5. Registers: `ReasoningRules`, `Findings`, `GraphRules`, `AuditTrail`, proofs.
6. From documents to deltas: `KnowledgeChain`, `TechnicalChain`, proofs.
7. The graph behind its services: `GraphStore`, proofs.
8. `Administration`, proofs.
9. OVK: `OvkField`, `OvkCases`, `OvkTime`, proofs.
10. Pure algorithms: `Geometry`, `GraphSearch`, `Takeoff`, `Offers`,
    `EstimateStructure`, `Rounding`.
11. Proofs of the algorithms: the sums of the working time, the inference engine, and the
    way from takeoffs, offers, tests and estimates to a price.

Left: module registry and migrations; row import of the OVK module; proofs of the searches
in drawings and graphs.

## 3. The modules

A service whose requests load, compute and save extends **Requests**: clients with
what their request holds, `Goes` and `Ends`, a `Restart` that loses every request
under way, and `load`, chosen once in the initial state: which service, which part
of it, which clients, whether the server restarts, and a bound.

**CommercialEngine** has one operator for each function of the five packages. A
fingerprint is the tuple of the fields it hashes. Amounts are integers; wording,
evidence and traces are left out.

**CommercialChain**: `files` maps a stage to the content of its file, which may be
`Absent`, `Empty` (truncated, not yet written) or `Torn` (a mixture of two writers).
A request goes `LoadInput`, ..., `Compute`, `OpenOutput`, `WriteOutput`, and
`AfterWrite` says which stage follows. `Fail` ends a request where the code raises;
`Crash` ends all; `EditInput` is a user who replaces an input file. **ReviewLifecycle**
is the life cycle a review promises, instantiated with the review saved last.

**InferenceEngine** is the breadth-first search of `_apply_transitive` and the loop
over rules. What the code keeps in a list is a sequence or a set with the place of each
element (`InOrder`), and what it repeats is a recursive function of the number of times. **Inference** has four documents and a thread for each client; each
action is one load or one save of a method of `InferenceService`. A run is asked for by rules and
a number of rounds that the client chooses, and may be forced or only answered (`Asks`). A
derived relation is identified by its rule and its chain, as in the engine, and what the rule
concludes is not part of it.

**AtomicDocument** is a document that entries are added to at once or not at all.
**SavedDocument** is `BuildingGraphRepository.add` and `save`: a saver holds an open
file, so what it writes goes where the file was moved in the meantime (`opened`).
`overlapped` is history: whether a save began while another was under way.

**DecisionServices** has conflicts, policy validation, authority and the batch.
**ProjectAggregate** has one action for each method of `CrowProject`, for the JSON
repository (which stores no runs) and for the transaction. Claims are
replaced at any time, which leaves a project that was ready marked as ready. **Optional**
declares `None` for both.

**ReasoningRules** and **GraphRules** are the rule engines over a graph, as operators.
**Findings** is the register they are synchronised with: evaluate, load and save are
three steps. **AuditTrail** has both trails of audits, graph and evidence, with reviews,
verifications and the assurance summary (`DomainStatus`, `AssuranceStatus`).

**GraphStore**: a request is a list of calls on the repository (`Calls`), each of which
loads and, if it writes, saves the document. A later call that refuses undoes nothing.
Identity candidates are reviewed in the same store.

**Administration**: a file for each user and customer, the audit log written after it,
and sessions as signed copies that are held against the user's file.

**KnowledgeChain**: the document index under batches of uploads, each read one path at
a time into a copy (`Opened`, `ReadPath`, `SaveIndex`), and the stages from observations
to accepted claims, as handlers and commands run them. **TechnicalChain** extends it with
decisions, validation, reviews and deltas; `TechnicalModeSpec` starts it with any claims
on file.

**OvkField**: the draft of the tablet, its edits, and a synchronisation of several
requests with the documents of the server. A measured value is nothing, a number or some
other text; a photo is taken in two steps, since `field.js` awaits its bytes between reading
the finding and adding the photo (`TakePhoto`, `AddPhoto`), and other edits come in between. **OvkCases** extends it with protocols,
forms, certificates, re-inspections and the watch list. A record is drafted from the
snapshot, saved from the form of the workbench (`Edited`, which is `build()` of `workflow.js`:
findings, actions and measurements as they were read, and no coverage) or sent whole by a
client (`SendRecord`), for any inspection. **OvkTime**: the timer, the
queue of segments and the ledgers.

**Geometry**, **GraphSearch**, **Takeoff**, **Offers**, **EstimateStructure** and
**Rounding** are functions, compared with what their answer should be. The lines and the
skipped rows of a takeoff are functions of the place they were read at, and a text is the
sequence of what it mentions.

The MC modules hold the small inputs: **WorkbenchMC** (findings, graph, audits,
administration, chain of documents, saved document), **OvkMC**, **QueriesMC** (with
**DrawingsMC**, **PricesMC**, **QuotesMC** and **InferenceEngineMC**),
**CommercialChainMC**, **ProjectAggregateMC** and **InferenceAndProjectMC**, which adds the
inputs of inference to those of the project: the two share nothing, and each behaviour of its
run is of one of them.

## 4. The runs

| Run | What it asks | Distinct states |
|---|---|---|
| `chain_restart` | One request at a time of all five kinds, restarts anywhere, input files edited: review life cycle (a refinement), legal history, no approval with unresolved items, approved terms, amounts of one calculation, a build repairs whatever it finds | 1 580 000 |
| `chain_progress` | Without restarts, with a price book whose currency stops a build halfway: does an approval get its estimate? (liveness) | 44 000 |
| `inference_and_project` | Inference: two clients at once; two that run by rules of their own; one client of every request with restarts; one without: promotions, facts, results and history of runs. The project aggregate: one project through every operation, both stores, up to two runs under one id | 852 000 |
| `workbench` | Six services, each under clients that meet or a server that restarts: thirteen properties of registers, graph, log, index, accepted claims, deltas and the saved document (a refinement) | 1 337 000 |
| `ovk` | Tablet and server of an inspection, protocols to cases, and the time ledger, each with two clients or one, with lost answers and restarts: five properties | 314 000 |
| `queries` | The pure functions over all inputs of small sets, each against a definition of what its answer should be | 19 000 |
| `chain_lost_update`, `chain_estimate`, `project_stale`, `technical_gate`, `ovk_closed`, `field_converges` | findings, see below | violation |

Every property of a passing run has a mutant: a definition changed the way a bug
would change it (the operators commented "A fault"), under which the same run
fails. They are used by nothing else.

### Findings
* `chain_lost_update`: a decided review is overwritten by a second decision made on
  an older copy (`crow_commercial_review/service.py:106`).
* `chain_estimate`: the lines of an approved estimate mix two calculations. Descriptions and
  cost types are of the commercial file, amounts of the adjusted one, and what is compared
  of the two covers neither (`crow_estimate_line/generator.py:118`,
  `crow_commercial_impact/engine.py:57`), though adjustments go by the cost type.
* `project_stale`: a revision does not find a run whose claims were replaced before
  (`crow_module_sdk/project.py:134`).
* `technical_gate`: a technical decision is approved while a blocking issue is open
  (`crow_technical_review/workflow.py:148`; nothing calls `can_approve_decision`).
* `ovk_closed`: a closed case is opened again under its id
  (`crow_ovk_module/ovk_reinspection_surface.py:72`).
* `field_converges`: a draft edited during a synchronisation is marked as synchronised
  (`assets/field.js:129`).

Known from the models without a run of their own: the shared temporary file may put a
truncated document into place once two saves overlap (`crow_building_graph/repository.py:25`;
theorem `WholeUnlessOverlapped` says that nothing else does); a review saved over a
promotion takes it back while its relation stays in the graph
(`crow_inference/service.py:277`); a document whose text could not be read stays in the
index (`intake.py:157`); a client's
rule that reuses the id of another can have a conclusion promoted that is not the one that was
accepted, since a review goes by an id that does not cover the conclusion
(`crow_inference/engine.py:193`, `service.py:304`); a project that is ready stays so when
its claims are replaced by none, and is run (`RunsWhenReady`; `crow_module_sdk/project.py:300`,
against rule 5 of `docs/PROJECT_AGGREGATE_RULES.md`); saving a drafted record in the
form of the workbench drops its coverage (`assets/workflow.js:62`), after which its
protocol is no longer ready; a photo whose finding was removed while its bytes were read, and
a measured value that is no number, keep a draft from being synchronised until they are
corrected (`assets/field.js:109` and `:66`), and nothing on the tablet removes such a photo;
a flat whose id comes again in another stairwell is dropped from a riser model unsaid
(`crow_riser_model/build.py:33`), which `NothingIsLost`, counting flats by id, does not see;
and the ids of estimate lines hash the estimate's id and the
event of its review (`crow_estimate_line/generator.py:49`), so that between two estimates
a revision says "removed" and "added" where
`docs/10_Passes/SPRINT_B11_3_ESTIMATE_REVISION.md` leads one to expect "modified".

## 5. Bounds, and why they are enough

* **Clients.** Two where requests meet: every property of concurrency here is about two
  requests that read and write the same files. The proofs hold for any number of
  clients, but for the properties that ask for one (`Alone`, `Sole`).
* **`load`.** A run chooses one of several loads in place of one product of all:
  `Together` (clients that meet), `ByOne` (one client, with restarts or a longer
  history) and `Part` (one client of a part that does not meet the others). Properties
  that only hold with one client, or without restarts, say so (`Alone`).
* **`load.bound`** limits revisions, saves, uploads, audits or segments, 1 to 4: one
  to be overtaken, one that overtakes, and where repeats matter one more.
* **Inputs of the chain.** Two delta sets, which give one total by different amounts, one
  with an unresolved item: the estimate binds a review by terms and total, so this is where
  it could be deceived. Three price books: one that books the same work as material, which
  is not adjusted, and one in a currency that the profile refuses, so that a build stops
  between two stages. `MaxDecisions` is 2.
* **`Calm`** (constraint of `chain_restart`): decisions are explored only while rules,
  price book and profile are whole; a file that a crash left empty stops a build the
  same way before and after a decision. The other price books are used with the deltas
  that are all resolved, and up to the first approval.
* **`Prepared`** (constraint of `inference_and_project` and `project_stale`): documents, policy and module come
  before the claims, and one of the two stores is used. `MaxRuns` is 2: one run to be
  invalidated, one to reuse its id.
* **Documents of the chain.** A drawing and its revision, a description that contradicts
  the first and changes the order of precedence, a contract known by its name only, and a
  revision without text, in three batches; authority by type, by dates in either order,
  with a document left out, and with one that has no date.
* **Drawings.** Up to a handful of lines on a small grid: enough for a loop, a junction,
  a double edge and two parts. Graphs of four objects and four relations: enough for
  a chain at the depth limit, a loop and two ways to one object.
* **Prices** are chosen off the rounding step, so that half an öre and half a thousand occur.
* **Field mode.** One photo is awaited at a time. A flat is restored from an imported
  protocol and another may be added. Edits that a synchronisation sends like any other (a
  flat or a measuring point more, keys, systems, vents, checkpoints, a number as value) are
  explored without one (`part = "draft"`), where drafts go furthest; the rest also between
  its steps.
* **Records of the cases**: those drafted and edited, and three that a client sends: one that
  passes for each of two buildings, one that does not.
* **Integers.** Python's are unbounded; nothing wraps.

## 6. Fairness

`chain_progress` assumes weak fairness of the steps of each request, and of nothing
else: a thread that has taken up a request runs its handler to the end, since
nothing in it waits. No request is assumed to arrive, no user to decide, no crash to
stay away except by the run's `MayCrash = FALSE`. The other runs are about safety.

## 7. What is proved

The theorems hold for every value of the constants. Most of the properties are not
inductive for one reason: a request holds a copy of a file, or something computed
from one, while the file changes under it. Their invariants say of every copy that
a request may still save what the property says of the file.

* **`CommercialChainProofs`**, for all inputs, any number of requests, with restarts:
  `TypeCorrect`; `EstimateGate` (an estimate on file is on approved terms),
  `NoUnresolvedApproval` and `LegalHistory`, by `ApprovalInv`: of every review and
  estimate, on file or held by a request, the history is legal and the approval is one
  of the recorded decisions, which only grow. `AmountsOfOneCalculation`: the three
  files an estimate is made from are loaded one by one, so the invariant traces each of
  them, and each copy, to one undisturbed calculation; that their terms agree then
  forces the amounts to be of the calculation that was approved. The descriptions and cost
  types are of one that priced the same impacts at the same amounts, and need not be of the
  same (`chain_estimate`).
  With one request at a time (`Sole`), wherever restarts fall: `ReviewIsLifecycle`
  (the review saved last implements `ReviewLifecycle`, every save a step or a stutter),
  `SoleDecisionStands` (which `chain_lost_update` refutes for two requests) and
  `BuildLinksChain`. `NoneIsNoReview` says that Python's `None` is not a review.
* **`InferenceProofs`**, for any engine, graphs, rules that clients ask for and number of clients:
  `PromotionsWereAccepted`, `FactsAreAccepted` and `ResultsAreReproducible`. Documents are
  written over by older copies here; the set of what was accepted only grows, so a copy
  that was sound stays sound. `FactsAreAccepted` speaks of the identifier that was accepted. `PromotedAreFacts` needs one request at a time (`Alone`,
  in the property) and an engine that derives nothing the graph has already
  (`DerivesNothingExplicit`: `explicit_keys` in `crow_inference/engine.py`; that the engine
  is of this kind is the theorem `NothingExplicitIsDerived`): the fact is saved before the
  review says so.
  `RunsReplay`, with one request at a time and no restart (in the property), for any
  engine: a run puts its result on file before its entry, so the invariant says what the
  log gives when replayed, which is the result on file, or the one before it while the
  entry is still to be written. What a replay gives depends on the last entry that names an identity
  (`Replayed`), so a longer log is one step and needs no induction. `NoResultIsNone` says
  that Python's `None` is not a result.
* **`RegisterProofs`**. The project aggregate, for any callers, documents, claims and runs:
  `ClaimsAreListed`, `KeptSourcesFollowed`, `NothingInvalidatedIsRun` and `Atomicity`, with claims
  replaced at any time. The invariant (`ProjectInvariant`) adds that claims which are not
  invalidated are of the present revisions and that a project that may be run has none
  that is invalidated. What it cannot say is that a valid run's claims are still the
  project's (`project_stale`), nor that a project that is run still has a claim.
  Findings, for any graphs, rules and number of clients: `TrailUnbroken` (that updates are
  lost does not break a trail: the trail is lost with them) and `DecisionsSurvive` (without overlap, what the rules raise takes no decision
  back). Audits: `RegistersSound`. A review rests on an audit whose file may be written
  over, and a verification on two; the invariant says that whatever is said of one graph,
  in a file or in a request under way, is the same, since a graph is judged again only
  while it is the present one. `AssuranceSpeaksOfNewest` (without overlap) adds that
  the newest audit is of the newest graph that was audited.
  Administration: `ServedWithRequirements` for any number of requests at once and any
  catalog whose modules list all they require, directly or through others
  (`RequirementsAreListed`). The hypothesis is needed: what is bought is closed under
  requirements (`_validate_update`), but modules run out one by one, and the guard
  (`_module_is_effectively_active`) looks only one step ahead; the loader of the catalog
  checks only that what is required exists. The catalog that is shipped is one step deep.
  `AdministratorAlwaysRemains` and `LogAccounts` without overlap, the second also without
  restarts, as the properties say: the log is written after the record.
* **`GraphProofs`**. The saved file, for any number of savers with restarts:
  `StoredTypeCorrect`, `StoredAtomically` (the document implements `AtomicDocument` until
  two saves overlap) and `WholeUnlessOverlapped`; at most one thread is saving, and the
  invariant says what its temporary file holds at each point. The graph, for any whole
  graphs to begin with and any orders, with one client (`Alone`, in the properties) and
  restarts: `GraphStaysWhole` and `IdentityStaysDecided`. An order is a list of calls that may stop after any of them.
  Each list is shown to be a `Block`: a call relies only on what the calls before it
  looked up or added (`Needs`, `Gives`), and what is added is recorded by a later call
  of the same list (`Records`). Since nothing takes away an entity, a graph in which the
  calls left over find all they need has no reference that dangles wherever the list
  stops. `GraphInv` joins this to the shape of the graph and, of a review of an identity
  candidate, to the relation that it resolved.
* **`KnowledgeProofs`**. `IndexStaysCurrent`, for any batches and any number of clients: a
  save replaces the index by what an import made of an older one, so the invariant says of
  every copy what it says of the index, after each path (`IngestKeeps`).
  `AcceptedStaysAuthoritative`, with one client (`Alone`, in the property): stages are run
  again in any order, so the resolution on file may be of other clusters than the ones on
  file. The invariant `Rests` finds a set of sets of claims, of which one always includes
  the other, that all files and requests are made of: pages are only added. Among such
  sets the identity of a cluster, which names values and their counts but no documents,
  tells the cluster (`SameCluster`), so a decision that `canonicalize_claims` takes was made
  on the very cluster it is applied to; then its rank prevails over all others.
  `DeltasSayWhatWasApproved`, with one client, whatever claims are on file: an identity
  tells the key of a decision, of every decision and issue there is one record, and its
  history ends with its status.
* **`OvkProofs`**. Field mode, for any answers, photos, imported protocols and drafts to
  begin with that the program can have left, any number of tabs: `DraftsAreAccepted`
  (identifiers tell records apart, references lead somewhere, every edit and import keeps
  them so, and so does a visit that leaves a notice while a photo is awaited, but for that
  photo) and `EvidenceAlwaysStored` (a snapshot travels through the requests that
  hold it; stored bytes and receipts only grow). Cases, for any snapshot and years:
  `WatchListIsComplete` (the newest certificate of a building exists since certificates
  are a finite set ordered by number) and `CertificatesFollowField`: forms are saved over
  newer records, and a form sends no coverage, so the invariant says of the record on file
  that it is one a client sent whole, has no coverage and cannot be certified, or is the draft
  of the snapshot as it was made. Of a draft, `Rows` is shown to have each finding with its
  class and flat, and an action in each row of class 2.
* **`AlgorithmProofs`**. The provers have no induction over data; what it is needed for is a
  set of numbers, or of finite sets, that contains the next one whenever it contains one
  (`Induct`, `InductSet`, from the well-foundedness of the naturals), and a recursive
  function is shown to exist before its equation is used. On these rest the sums
  (`SumOfKinds`, `SumOfImage` and so on), over any finite set.
  Working time, for any number of synchronisations and segments: `LedgersCountOnce`. It has
  `SegmentsAlwaysCountOnce`, also of ledgers saved over newer ones; that the report of a year
  counts every hour of the ledgers of it; and `NothingIsEverDropped`, with one synchronisation
  at a time and a timer that waits for it: a segment is pending or in the ledger, and what is
  pending is in the ledger or still carried by the synchronisation under way.
  Inference, for graphs of any size, any confidences, depth and factor. The search from one
  object is followed depth by depth: it goes on from chains that lead to what no shorter chain
  reached, and a chain it passes over leads where another one does (`SearchOK`). So a rule
  finds what chains of at most `MaxDepth` relations lead to, with an explanation for each
  (`ChainsAreWhatIsDerived`, `EveryExplanationHolds`), never what is explicit
  (`NothingExplicitIsDerived`), and two rules of which one uses what the other derives give
  the same in either order after two rounds (`RuleOrderNeverMatters`, `RuleOrderStaysFree`).
* **`PriceProofs`**, for documents of any size. Rounding: a number is at most half a step from
  what it is rounded to (`HalfUpIs`, `RoundedIs`), so a sum of n rounded amounts is at most n
  half steps from the rounded sum (`SumOfRounded`). Estimates: `EstimatesAddUp`,
  `RevisionsSayAll` (the code refuses a revision whose deltas do not make the difference of
  the totals; this never happens), `EstimatesAreInPlace`. The last is of a profile whose
  rules are told apart by priority and id (`IsProfile`), which the code does not enforce: it
  sorts by both, and of two equal ones takes the first. Quotes, takeoffs and offers:
  `QuotesOfPartsAddUp`, `TakeoffsAddUp`, `OfferedAddsUp`; a benchmark is of at least half a
  unit, since a smaller quantity may round the expected price to nought, by which
  `compare_detailed_total` divides. What is left out is told: `TakeoffsAreAlwaysWhole`,
  `RisersAreAlwaysWhole`, `ServicesAreAlwaysWhole`, `OffersAreAlwaysWhole`,
  `CandidatesAreAlwaysWhole`, `InputsAreAlwaysFounded`, `ConflictsAreAlwaysStrict`. Applied to
  what the run asks, they give `PricesAlwaysAddUp` and `NothingIsEverLost`.

**Assumptions on constants**, all evaluated in the runs: `TemplateAssumption`,
`InitialAssumption`, `BoundAssumption`, `LoadAssumption`, `RequestsAssumption` and
`ClientsAssumption` (finitely many of them at a time), `ContentAssumption`,
`CrashAssumption`, `ProjectAssumption`, `FindingsAssumption`, `InitialUsersAssumption` (an
administrator is made when the workbench is set up), `DefectTypesAssumption` and
`LegacyFactsAssumption` (the types that `field.js` writes are of `defect_types.json`; an old
protocol is finite), `DatesAssumption`, `GraphsAssumption` (a graph starts as the service leaves it),
`OrdersAssumption` (the kinds of order there are) and `BatchesAssumption` (revisions are
numbers, a page says finitely much), `HoursAssumption`, `FactorAssumption` and
`LinksAssumption` (objects are numbered, and a search goes one step at least),
`RulesAssumption` (a client may ask for the default rules). The MC modules check what their
inputs are claimed to be: `TableAssumption` (no tabulated result has what its graph has) and
`CatalogAssumption`.

**Only model-checked.**

* Liveness: `ApprovalGetsEstimate`.
* `SearchFindsAll`: the searches in drawings and building graphs, whose walks are recursive
  operators, which the provers cannot be used with.

## 8. What is not modelled

**Components.** Extraction of PDF, CAD, DWG and IFC, and the layout of protocols and
spreadsheets: parsing and formatting, no state. Explorers: read only. Regulations and
knowledge packs: tables. Deployment: installs packages. Module registry, trust and
migrations: pure, left in the plan.

**Abstractions of modelled components.**

* *Everywhere*: wording, evidence texts, the HTTP layer except for the refusals that
  guard a change, the temporary file of documents other than the one `SavedDocument` is
  about. In-place writes are looked into by `CommercialChain` only.
* *Documents to claims*: how text is parsed; a page says values of subjects. The asset
  manifests an upload leaves, and an upload under the name of another. Discovery report
  and manifest are one file. Quantities without a subject cluster by unit. An analysis
  from the web reuses the observations on file (`app.py:936`), also of superseded documents.
* *Technical chain*: values are numbers, so "2" and "2,0" are one value, while the code
  compares the texts; the power of the pressure class is given; confidences are hundredths;
  requests of the technical stages do not overlap in `AcceptedIsAuthoritative` and
  `DeltasAreWhatWasApproved`.
* *Project aggregate*: amounts and audit events. `JsonProjectRepository.save` writes in
  place, as the chain does.
* *Administration*: session mode only; users made on the command line are there from the start.
* *OVK field*: one inspection, a photo's bytes are its id, photos are sent in any order;
  identical records of an import collapse; the manifest the migration leaves is left out.
  `LoopIsFree` keeps handlers of the event loop from interleaving between awaits.
* *OVK cases*: the snapshot does not change while protocols, forms and certificates are made; one case id; dates are
  years; a room has one name; a system's id is its type.
* *OVK time*: one inspection; a segment is an hour; the timer of the desk, `PUT` of the
  ledger and the profile of the certificate are left out.
* *Geometry*: whole coordinates and lengths, squared distances; an object's id is its place
  in the file; the order in which a search visits is free.
* *Take-off and offers*: amounts are exact, where the code has binary floats at half an öre;
  the patterns that recognise a label are left out; a classified component has no length.
* *Estimate structure*: an amount stands for every field of a line but its position.
