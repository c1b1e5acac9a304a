------------------------------- MODULE GraphRules -------------------------------
(***************************************************************************)
(* What an audit of the building graph reports: the index of its evidence  *)
(* (crow_evidence_index), the four evidence rules (crow_evidence_rules),   *)
(* the four rules of the ventilation profile (crow_vent/graph_audit.py)    *)
(* and the engine that runs them (crow_graph_rules).                       *)
(*                                                                         *)
(* graph : objects, relations, properties are sets of records with an id   *)
(* and their evidence ids; evidence is a sequence of [id, source,          *)
(* checksum], in which an id may occur twice.                              *)
(***************************************************************************)
EXTENDS Naturals, FiniteSets, Sequences

\* Where an id occurs first is where the index reads its source and checksum.
FirstOf(graph, i) == \A j \in 1..i-1 : graph.evidence[j].id # graph.evidence[i].id

EvidenceIds(graph) == {graph.evidence[i].id : i \in DOMAIN graph.evidence}

\* What is referred to by an object, a relation or a property.
Referenced(graph) ==
    UNION {e.evidence : e \in graph.objects \cup graph.relations \cup graph.properties}

MissingIds(graph) == Referenced(graph) \ EvidenceIds(graph)
UnreferencedIds(graph) == EvidenceIds(graph) \ Referenced(graph)
DuplicateIds(graph) ==
    {graph.evidence[i].id : i \in {j \in DOMAIN graph.evidence : ~FirstOf(graph, j)}}

\* The sources that are named with more than one checksum.
ConflictingSources(graph) ==
    LET entries == {graph.evidence[i] :
                      i \in {j \in DOMAIN graph.evidence : FirstOf(graph, j)}}
        explicit == {e \in entries : e.source # "none" /\ e.checksum # "none"}
    IN  {e.source : e \in {x \in explicit :
                             \E y \in explicit : y.source = x.source /\ y.checksum # x.checksum}}

Of(rule, ids) == {<<rule, id>> : id \in ids}

EvidenceRules(graph) ==
    <<[id |-> "EVID-DQ-001", enabled |-> TRUE, raised |-> MissingIds(graph)],
      [id |-> "EVID-DQ-002", enabled |-> TRUE, raised |-> DuplicateIds(graph)],
      [id |-> "EVID-DQ-003", enabled |-> TRUE, raised |-> ConflictingSources(graph)],
      [id |-> "EVID-EVID-001", enabled |-> TRUE, raised |-> UnreferencedIds(graph)]>>

-----------------------------------------------------------------------------

ObjectIds(graph) == {o.id : o \in graph.objects}

Dangling(graph) == {r.id : r \in {x \in graph.relations :
                                    {x.source, x.target} \ ObjectIds(graph) # {}}}

WithoutEvidence(graph) ==
    {r.id : r \in {x \in graph.relations :
                     /\ x.type \in {"feeds", "returns_from", "passes_through", "belongs_to"}
                     /\ x.evidence = {}}}

Unfed(graph) ==
    {o.id : o \in {x \in graph.objects :
                     /\ x.type = "air_terminal"
                     /\ ~\E r \in graph.relations : r.type = "feeds" /\ r.target = x.id}}

SystemScopedTypes ==
    {"air_handling_unit", "fan", "duct", "damper", "silencer", "air_terminal",
     "heat_exchanger", "air_treatment_component", "accessory"}

Unassigned(graph) ==
    LET Assigned(x) == \E r \in graph.relations :
                          /\ r.type = "belongs_to" /\ r.source = x.id
                          /\ \E o \in graph.objects :
                                o.id = r.target /\ o.type = "ventilation_system"
    IN  {o.id : o \in {x \in graph.objects : x.type \in SystemScopedTypes /\ ~Assigned(x)}}

VentRules(graph) ==
    <<[id |-> "VENT-DQ-001", enabled |-> TRUE, raised |-> Dangling(graph)],
      [id |-> "VENT-DQ-002", enabled |-> TRUE, raised |-> WithoutEvidence(graph)],
      [id |-> "VENT-EVID-001", enabled |-> TRUE, raised |-> Unfed(graph)],
      [id |-> "VENT-EVID-002", enabled |-> TRUE, raised |-> Unassigned(graph)]>>

\* GraphRuleEngine.evaluate: two rules with one id are refused.
Acceptable(rules) == \A i, j \in DOMAIN rules : rules[i].id = rules[j].id => i = j

Evaluated(rules) ==
    UNION {Of(rules[i].id, rules[i].raised) : i \in {j \in DOMAIN rules : rules[j].enabled}}
=============================================================================
