----------------------------- MODULE ReasoningRules -----------------------------
(***************************************************************************)
(* The rule engine of crow_reasoning/rules.py over a snapshot of the       *)
(* building graph: which objects a rule selects, which of its requirements *)
(* they fail, and the finding that says so.                                *)
(*                                                                         *)
(* graph : [objects, relations, properties], sets of records with an id;   *)
(* "none" is a field that is not given.                                    *)
(***************************************************************************)
EXTENDS Naturals, FiniteSets

\* RuleSelector: every criterion that is given has to hold.
MatchesSelector(obj, selector) ==
    /\ selector.type \in {"none", obj.type}
    /\ selector.discipline \in {"none", obj.discipline}
    /\ \A k \in DOMAIN selector.metadata :
          k \in DOMAIN obj.metadata /\ obj.metadata[k] = selector.metadata[k]

\* _operator: what an operator says of the presence of something.
Holds(present, req) ==
    CASE req.operator = "exists"     -> present
      [] req.operator = "missing"    -> ~present
      [] req.operator = "equals"     -> present = req.value
      [] req.operator = "not_equals" -> present # req.value
      [] req.operator = "in"         -> present \in req.value

\* The other end of a relation; the target if both ends are the object.
OtherEnd(rel, obj) == IF rel.source = obj.id THEN rel.target ELSE rel.source

Touches(rel, obj, direction) ==
    \/ rel.source = obj.id /\ direction \in {"outgoing", "both"}
    \/ rel.target = obj.id /\ direction \in {"incoming", "both"}

RelationMatches(graph, obj, req) ==
    {rel \in graph.relations :
        /\ Touches(rel, obj, req.direction)
        /\ req.relationType \in {"none", rel.type}
        /\ \/ req.targetType = "none"
           \/ \E o \in graph.objects : o.id = OtherEnd(rel, obj) /\ o.type = req.targetType
        /\ req.evidenceRequired => rel.evidence # {}}

PropertyMatches(graph, obj, req) ==
    {p \in graph.properties :
        /\ p.owner = obj.id /\ p.name = req.name
        /\ req.evidenceRequired => p.evidence # {}}

\* A property is compared by its values; an absent one equals nothing, and is
\* not unequal to anything either.
PropertyHolds(matches, req) ==
    LET values == {p.value : p \in matches}
    IN  CASE req.operator \in {"exists", "missing"} -> Holds(matches # {}, req)
          [] req.operator = "equals"     -> req.value \in values
          [] req.operator = "not_equals" -> values # {} /\ req.value \notin values
          [] req.operator = "in"         -> values \cap req.value # {}

Satisfies(graph, obj, req) ==
    CASE req.kind = "relation" -> Holds(RelationMatches(graph, obj, req) # {}, req)
      [] req.kind = "property" -> PropertyHolds(PropertyMatches(graph, obj, req), req)
      [] req.kind = "evidence" -> Holds(obj.evidence # {}, req)

\* The evidence and the objects a finding points to come from every
\* requirement, those that hold too.
Finding(graph, rule, obj) ==
    LET related(req) == IF req.kind = "relation" THEN RelationMatches(graph, obj, req) ELSE {}
        owned(req) == IF req.kind = "property" THEN PropertyMatches(graph, obj, req) ELSE {}
        matches == UNION {related(req) \cup owned(req) : req \in rule.requirements}
        ends == UNION {{OtherEnd(rel, obj) : rel \in related(req)} : req \in rule.requirements}
    IN  [id |-> <<rule.id, rule.version, obj.id>>, severity |-> rule.severity,
         evidence |-> obj.evidence \cup UNION {m.evidence : m \in matches},
         related |-> ends,
         failed |-> {req \in rule.requirements : ~Satisfies(graph, obj, req)}]

\* RuleDefinition.validate
ValidRule(rule) ==
    /\ rule.severity \in {"info", "warning", "error", "critical"}
    /\ rule.requirements # {}
    /\ \A req \in rule.requirements :
          /\ req.kind \in {"relation", "property", "evidence"}
          /\ req.operator \in {"equals", "not_equals", "exists", "missing", "in"}
          /\ req.kind = "relation" => req.direction \in {"outgoing", "incoming", "both"}

Evaluate(graph, rules) ==
    UNION {{Finding(graph, rule, obj) :
               obj \in {o \in graph.objects :
                           /\ MatchesSelector(o, rule.selector)
                           /\ \E req \in rule.requirements : ~Satisfies(graph, o, req)}} :
           rule \in {r \in rules : r.enabled}}
=============================================================================
