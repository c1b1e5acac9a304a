------------------------------- MODULE WorkbenchMC -------------------------------
(***************************************************************************)
(* The services of the workbench on small instances.  The initial state    *)
(* chooses the service, its clients and whether the server is restarted;   *)
(* the documents of the other services stay as they are.                   *)
(***************************************************************************)
EXTENDS Findings, GraphStore, AuditTrail, Administration, TechnicalChain,
        SavedDocument

Rules == INSTANCE ReasoningRules

-----------------------------------------------------------------------------
(* Findings                                                                *)

Requirement ==
    [kind |-> "relation", relationType |-> "none", direction |-> "outgoing",
     targetType |-> "none", name |-> "none", operator |-> "exists", value |-> "none",
     evidenceRequired |-> FALSE]

Component == [type |-> "component", discipline |-> "none", metadata |-> <<>>]

\* default_rules.json, and a rule of the kind a client may post.
DefaultRules ==
    {[id |-> "system", version |-> 1, enabled |-> TRUE, severity |-> "warning",
      selector |-> Component,
      requirements |-> {[Requirement EXCEPT !.relationType = "belongs_to",
                                            !.targetType = "technical_system"]}],
     [id |-> "evidence", version |-> 1, enabled |-> TRUE, severity |-> "info",
      selector |-> Component,
      requirements |-> {[Requirement EXCEPT !.kind = "evidence"]}]}

Fan(evidence) ==
    [id |-> "fan", type |-> "component", discipline |-> "VENT", metadata |-> <<>>,
     evidence |-> evidence]
System == [id |-> "system", type |-> "technical_system", discipline |-> "VENT",
           metadata |-> <<>>, evidence |-> {}]
Belongs == [id |-> "r", source |-> "fan", target |-> "system", type |-> "belongs_to",
            evidence |-> {}]

MCRuleGraphs ==
    {[objects |-> {Fan(e), System}, relations |-> r, properties |-> {}] :
        e \in {{}, {"e"}}, r \in {{}, {Belongs}}}

\* And one that is refused, so that it is never asked.
Unanswerable ==
    [id |-> "anything", version |-> 1, enabled |-> TRUE, severity |-> "info",
     selector |-> Component, requirements |-> {}]

MCIncoming(g) ==
    {f.id : f \in Rules!Evaluate(g, {r \in DefaultRules \cup {Unanswerable} : Rules!ValidRule(r)})}

MCFindingIds == {<<r.id, r.version, "fan">> : r \in DefaultRules}

-----------------------------------------------------------------------------
(* The building graph                                                      *)

House == <<"building", "A">>
Plan == <<"floor", House, "1">>
Room == <<"space", Plan, "101">>
Air == <<"system", "mechanical", "LB01">>
Don1 == <<"ccm", "don1">>
Don2 == <<"ccm", "don2">>
Scan == <<"evidence", <<"scan">>>>
Lost == <<"evidence", <<"lost">>>>
Unit == <<"component", "mechanical", "FF1">>

EmptyGraph == [objects |-> {}, relations |-> {}, properties |-> {}, history |-> {},
               evidence |-> {[id |-> Scan]}]

\* A graph with an object as the service leaves it.
With(g, id, type, discipline) ==
    [g EXCEPT !.objects = @ \cup {[id |-> id, type |-> type, discipline |-> discipline,
                                   revision |-> 1, evidence |-> {}]},
              !.history = @ \cup {[id |-> <<id, 1>>, entity |-> id, revision |-> 1]}]

\* Two observations that may be one, from the ventilation drawings.
Twins ==
    [With(With(EmptyGraph, Don1, "air_terminal", "VENT"), Don2, "air_terminal", "VENT")
       EXCEPT !.relations = {[id |-> <<"ccm", "twins">>, source |-> Don1,
                              type |-> "same_as_candidate", target |-> Don2,
                              evidence |-> {Scan}]},
              !.history = @ \cup {[id |-> <<<<"ccm", "twins">>, 1>>,
                                  entity |-> <<"ccm", "twins">>, revision |-> 1]}]

MCGraphs ==
    {EmptyGraph, Twins,
     With(With(EmptyGraph, Room, "space", "building"), Air, "technical_system", "mechanical")}

MCOrders ==
    {[kind |-> "evidence", id |-> Lost],
     [kind |-> "relation", source |-> Room, type |-> "near", target |-> Air, evidence |-> {}],
     [kind |-> "object", id |-> Unit, type |-> "space", discipline |-> "generic",
      evidence |-> {}],
     [kind |-> "building", name |-> "A", evidence |-> {}],
     [kind |-> "floor", building |-> House, name |-> "1", evidence |-> {Scan}],
     [kind |-> "space", floor |-> Plan, name |-> "101", area |-> "some", evidence |-> {}],
     [kind |-> "zone", name |-> "Z", spaces |-> <<Room, Room>>, evidence |-> {}],
     [kind |-> "system", discipline |-> "mechanical", name |-> "LB02", parent |-> Air,
      location |-> Room, evidence |-> {}],
     [kind |-> "component", discipline |-> "mechanical", name |-> "FF1", parent |-> Air,
      location |-> "none", evidence |-> {Lost}],
     [kind |-> "component", discipline |-> "mechanical", name |-> "FF1", parent |-> Air,
      location |-> "none", evidence |-> {Scan}],
     [kind |-> "connect_components", source |-> Unit, target |-> Unit, type |-> "feeds",
      evidence |-> {}],
     [kind |-> "connect_systems", source |-> Air, target |-> Air, type |-> "serves",
      evidence |-> {}],
     [kind |-> "serve", source |-> Air, target |-> Room, type |-> "serves", evidence |-> {}],
     [kind |-> "property", owner |-> Unit, name |-> "flow", value |-> "1", evidence |-> {}]}

-----------------------------------------------------------------------------
(* Audits                                                                  *)

Rulesets == INSTANCE GraphRules

MCRaised(trail, g) ==
    LET rules == IF trail = "graph" THEN Rulesets!VentRules(g) ELSE Rulesets!EvidenceRules(g)
    IN  IF Rulesets!Acceptable(rules) THEN Rulesets!Evaluated(rules) ELSE {}

Terminal(evidence) == [id |-> "don", type |-> "air_terminal", evidence |-> evidence]
VentSystem == [id |-> "FF01", type |-> "ventilation_system", evidence |-> {}]
Edge(type, evidence) ==
    [id |-> type, type |-> type, source |-> IF type = "feeds" THEN "FF01" ELSE "don",
     target |-> IF type = "feeds" THEN "don" ELSE "FF01", evidence |-> evidence]
Drawing(id, checksum) == [id |-> id, source |-> "ritning", checksum |-> checksum]

Served(relations, evidence) ==
    [objects |-> {Terminal({"e1"}), VentSystem}, relations |-> relations,
     properties |-> {}, evidence |-> evidence]

\* A terminal that nothing feeds; then it is fed, without evidence, and a
\* second copy of the drawing is there that nothing refers to.
MCAuditGraphs ==
    {Served({Edge("belongs_to", {"e1"})}, <<Drawing("e1", "a")>>),
     Served({Edge("belongs_to", {"e1"}), Edge("feeds", {})},
            <<Drawing("e1", "a"), Drawing("e2", "a")>>)}

-----------------------------------------------------------------------------
(* Administration                                                          *)

User(name, roles, active) ==
    [name |-> name, customer |-> "acme", roles |-> roles, active |-> active]

Admin == {AdminRole}

MCInitialUsers == {{User("a", Admin, TRUE)}, {User("a", Admin, TRUE), User("b", Admin, TRUE)}}

\* An administrator takes the role from another or from itself, or closes an account.
MCUserForms ==
    {User("a", {}, TRUE), User("b", {}, TRUE), User("b", Admin, FALSE), User("b", Admin, TRUE)}

\* The modules of product_modules.json.
MCCatalog ==
    [m \in {"vent", "provtryckning", "injustering"} |->
       [status   |-> IF m = "injustering" THEN "planned" ELSE "active",
        requires |-> IF m = "provtryckning" THEN {"vent"} ELSE {}]]

ASSUME CatalogAssumption == RequirementsAreListed

Bought(id, until) == [id |-> id, active |-> TRUE, until |-> until]

\* The first is kept although ventilation runs out; the others are refused.
MCBundles == {{Bought("vent", 0), Bought("provtryckning", 9)}, {Bought("provtryckning", 9)},
              {Bought("injustering", 9)}}

-----------------------------------------------------------------------------
(* Documents and claims                                                    *)

Paper(file, number, revision, type, says) ==
    [file |-> file, sha |-> <<file, revision>>, number |-> number, revision |-> revision,
     type |-> type, named |-> "unknown", role |-> "primary", says |-> says, marks |-> {},
     state |-> "readable"]

Says(kind, subject, value, unit) ==
    [kind |-> kind, subject |-> subject, value |-> value, unit |-> unit]
Flow(value) == Says("key_value", "flow", value, "l/s")
Area(value) == Says("key_value", "area", value, "none")

\* A drawing and its revision, a description that says otherwise, a contract of the
\* two that says what neither does, and a revision that comes in without its text.
Plan1 == Paper(1, "V-1", 1, "drawing", {Flow(1), Area(2)})
Plan2 == Paper(2, "V-1", 2, "drawing", {Flow(2)})
Description == [Paper(3, "B-1", 1, "technical_specification", {Flow(2)})
                  EXCEPT !.marks = {"ab04", "drawing_first"}]
Contract == [Paper(4, "K-1", 1, "unknown", {Flow(1), Says("quantity", "none", 2, "l/s"),
                                            Says("reference", "none", 7, "none")})
               EXCEPT !.named = "contract"]
Blank == [Paper(5, "V-1", 3, "drawing", {}) EXCEPT !.state = "no_text"]

MCBatches == {{Plan1, Description}, {Plan1, Plan2}, {Contract, Blank}}

\* The documents that are current with their own types, and dates the client gives,
\* in the order of their numbers or the other way round; or one of them is left out.
MCAuthorities(ix) ==
    LET entry(d, date) == [doc |-> d.id, type |-> AuthorityType(d), date |-> date]
        all(date(_)) == {entry(d, date(d)) : d \in CurrentDocs(ix)}
    IN  {all(LAMBDA d : d.paper.file), all(LAMBDA d : 9 - d.paper.file),
         {entry(d, 0) : d \in {d \in CurrentDocs(ix) : d.type = "drawing"}},
         \* all of one type, so that dates decide; one without
         {[entry(d, IF d.type = "drawing" THEN 0 ELSE d.paper.file) EXCEPT !.type = "other"] :
            d \in CurrentDocs(ix)}}

-----------------------------------------------------------------------------
(* Technical decisions                                                     *)

Rule(id, key, conditions) ==
    [id |-> id, version |-> 1, enabled |-> TRUE, key |-> key, conditions |-> conditions]
Asks(field, operator, expected) ==
    [field |-> field, operator |-> operator, expected |-> expected]

FlowKey == <<"key_value", "flow", "l/s">>
AreaKey == <<"key_value", "area", "none">>

HighFlow == Rule("high", "vent|flow", {Asks("semantic_key", "equals", FlowKey),
                                       Asks("value", "greater_than", 1)})
AnyFlow == Rule("any", "vent|flow", {Asks("semantic_key", "contains", {FlowKey, AreaKey}),
                                     Asks("value", "exists", TRUE)})
Velocity ==
    [id |-> "velocity", version |-> 1, enabled |-> TRUE, key |-> "vent|velocity",
     selectors |-> [flow |-> [keys |-> {FlowKey}, minimum |-> 60],
                    area |-> [keys |-> {AreaKey}, minimum |-> 60]],
     expression |-> <<<<"name", "flow">>, <<"name", "area">>, <<"/", 1, 2>>>>,
     comparison |-> "less_than", expected |-> 5]

MCRuleSets == {[rules |-> {HighFlow}, multi |-> {Velocity}], [rules |-> {AnyFlow}, multi |-> {}]}

Required(alias, key, minimum) ==
    [alias |-> alias, keys |-> {key}, minimum |-> minimum, numeric |-> TRUE, allowed |-> {}]

MCProfiles ==
    {{[id |-> "sizing", severity |-> "blocking", enabled |-> TRUE,
       required |-> {Required("flow", FlowKey, 82), Required("area", AreaKey, 82),
                      Required("fire", <<"key_value", "fire", "none">>, 0)}]}}

MCBaselines ==
    {{[id |-> "b1", key |-> "vent|flow", value |-> 1, number |-> TRUE],
      [id |-> "b2", key |-> "vent|velocity", value |-> 1, number |-> TRUE]}}

\* A project whose claims were accepted when there was a drawing only, and resolved
\* again since, with the description.
Prepared ==
    LET imported(papers) == FoldLeft(Ingest, Opened(NoIndex, 1), papers)
        fusion(papers) == Fuse(ExtractClaims(Observe(imported(papers))))
        manifest(papers) ==
            [hierarchy |-> <<>>,
             documents |-> {[doc |-> d.id, type |-> AuthorityType(d), date |-> 0] :
                              d \in imported(papers).docs}]
        resolution(papers) == Resolve(fusion(papers), manifest(papers))
        both == <<Plan1, Description>>
    IN  [NoFiles EXCEPT !.fusion = {fusion(both)}, !.resolution = {resolution(both)},
                        !.accepted = {Accept(fusion(<<Plan1>>), resolution(<<Plan1>>))}]

-----------------------------------------------------------------------------

\* Clients whose requests meet.
Together(service, part, bound) ==
    {[service |-> service, part |-> part, clients |-> Clients, restarts |-> FALSE, bound |-> bound]}

\* One client, and a server that restarts or does not.
ByOne(service, bound) ==
    {[service |-> service, part |-> "all", clients |-> {CHOOSE c \in Clients : TRUE},
      restarts |-> r, bound |-> bound] : r \in BOOLEAN}

\* One client that uses a part of a service.
Part(service, part, bound) ==
    {[service |-> service, part |-> part, clients |-> {CHOOSE c \in Clients : TRUE},
      restarts |-> FALSE, bound |-> bound]}

InitWith(loads) ==
    /\ load \in loads
    /\ RequestsInit
    /\ IF load.service = "findings" THEN FindingsInit
       ELSE ruleGraph = (CHOOSE g \in RuleGraphs : TRUE) /\ register = EmptyRegister
    /\ IF load.service = "graph" THEN GraphInit
       ELSE store = EmptyGraph /\ identity = {} /\ taken = 0
    /\ IF load.service = "audits" THEN AuditInit
       ELSE /\ audited = [n |-> 1, graph |-> CHOOSE g \in AuditGraphs : TRUE]
            /\ audits = EmptyTrails /\ reviews = EmptyTrails
            /\ verifications = EmptyTrails /\ auditClock = 0
    /\ IF load.service = "admin" THEN AdminInit
       ELSE /\ users = (CHOOSE u \in InitialUsers : TRUE)
            /\ accounts = [k \in Customers |-> [folder |-> FALSE, modules |-> {}]]
            /\ tokens = {} /\ events = <<>> /\ clock = 0
    /\ IF load.service # "technical" THEN KnowledgeInit
       ELSE index = NoIndex /\ files = Prepared /\ imports = 0
    /\ DocumentInit

Init ==
    InitWith(Together("findings", "all", 2) \cup ByOne("findings", 3) \cup ByOne("graph", 3)
             \cup Together("audits", "graph", 2) \cup ByOne("audits", 2)
             \cup ByOne("admin", 2)
             \cup Together("knowledge", "documents", 3) \cup Part("knowledge", "all", 2)
             \cup Part("technical", "technical", 2)
             \cup Part("document", "all", 1))

findingDocs == <<ruleGraph, register>>
graphDocs == <<store, identity, taken>>

shared == <<client, findingDocs, graphDocs, auditDocs, adminDocs, knowledgeDocs>>

ServiceNext ==
    \/ Steps("findings") /\ FindingsNext /\ UNCHANGED <<graphDocs, auditDocs, adminDocs, knowledgeDocs>>
    \/ Steps("graph") /\ GraphNext /\ UNCHANGED <<findingDocs, auditDocs, adminDocs, knowledgeDocs>>
    \/ Steps("audits") /\ AuditNext /\ UNCHANGED <<findingDocs, graphDocs, adminDocs, knowledgeDocs>>
    \/ Steps("admin") /\ AdminNext /\ UNCHANGED <<findingDocs, graphDocs, auditDocs, knowledgeDocs>>
    \/ /\ Steps("knowledge") \/ Steps("technical")
       /\ TechnicalNext
       /\ UNCHANGED <<findingDocs, graphDocs, auditDocs, adminDocs>>

Next ==
    \/ ServiceNext /\ UNCHANGED documentVars
    \/ Steps("document") /\ DocumentNext /\ UNCHANGED <<load, shared>>

vars == <<load, shared, documentVars>>

Spec == Init /\ [][Next]_vars
=============================================================================
