------------------------------- MODULE GraphSearch -------------------------------
(***************************************************************************)
(* Search in a building graph [objects, relations]: the traversal engine   *)
(* (crow_reasoning/engine.py) and the three searches the graph services    *)
(* have of their own (crow_building_graph).  Relations are a sequence, in  *)
(* the order of the file; an object is [id, type, discipline].             *)
(***************************************************************************)
EXTENDS Integers, FiniteSets, FiniteSetsExt, SequencesExt

FlowRelations == {"feeds", "returns_to", "serves", "connects_to", "depends_on", "contains"}
ImpactRelations == FlowRelations \cup {"protects"}
TraceRelations == {"connects_to", "feeds", "returns_to", "depends_on", "protects"}

ObjectIds(g) == {o.id : o \in g.objects}

\* No types asked for are all types.
Allowed(types, r) == types = {} \/ r.type \in types

\* The relations of an object in the order they are looked at.
Candidates(g, id, direction, types) ==
    LET out == SelectSeq(g.relations, LAMBDA r : r.source = id /\ Allowed(types, r))
        in == SelectSeq(g.relations, LAMBDA r : r.target = id /\ Allowed(types, r))
    IN  (IF direction = "incoming" THEN <<>> ELSE [i \in DOMAIN out |-> [to |-> out[i].target, via |-> out[i]]])
        \o (IF direction = "outgoing" THEN <<>> ELSE [i \in DOMAIN in |-> [to |-> in[i].source, via |-> in[i]]])

Step(id, depth, from, via) == [id |-> id, depth |-> depth, from |-> from, via |-> via]

RECURSIVE Breadth(_, _, _, _, _, _)
\* The steps are the queue as well: the i-th one is followed unless it is deep enough.
Breadth(g, direction, types, maxDepth, steps, i) ==
    LET found(s, c) ==
            IF \E k \in DOMAIN s : s[k].id = c.to THEN s
            ELSE Append(s, Step(c.to, steps[i].depth + 1, steps[i].id, {c.via}))
    IN  CASE i > Len(steps) -> steps
          [] \E d \in maxDepth : steps[i].depth >= d ->
                Breadth(g, direction, types, maxDepth, steps, i + 1)
          [] OTHER ->
                Breadth(g, direction, types, maxDepth,
                        FoldLeft(found, steps, Candidates(g, steps[i].id, direction, types)), i + 1)

Traverse(g, start, direction, types, maxDepth) ==
    Breadth(g, direction, types, maxDepth, <<Step(start, 0, start, {})>>, 1)

UpstreamOf(g, start, types, maxDepth) == Traverse(g, start, "incoming", types, maxDepth)
DownstreamOf(g, start, types, maxDepth) == Traverse(g, start, "outgoing", types, maxDepth)

RECURSIVE Reconstruct(_, _)
\* From a step back to the start.
Reconstruct(steps, id) ==
    LET s == steps[CHOOSE k \in DOMAIN steps : steps[k].id = id]
    IN  IF s.via = {} THEN <<s>> ELSE Append(Reconstruct(steps, s.from), s)

\* <<>> if there is none.
PathIn(steps, target) ==
    IF \E k \in DOMAIN steps : steps[k].id = target THEN Reconstruct(steps, target) ELSE <<>>

ShortestPath(g, source, target, direction, types) ==
    PathIn(Traverse(g, source, direction, types, {}), target)

ImpactOf(g, steps) ==
    LET affected == {s.id : s \in Range(steps)}
        count(Field(_)) == [v \in {Field(o) : o \in g.objects} |->
                               Cardinality({o \in g.objects : o.id \in affected /\ Field(o) = v})]
    IN  [affected |-> affected, byType |-> count(LAMBDA o : o.type),
         byDiscipline |-> count(LAMBDA o : o.discipline),
         depth |-> Max({0} \cup {s.depth : s \in Range(steps)})]

Impact(g, start, types, maxDepth) ==
    ImpactOf(g, Tail(DownstreamOf(g, start, IF types = {} THEN FlowRelations ELSE types, maxDepth)))

IsolatedObjects(g) ==
    {id \in ObjectIds(g) : \A r \in Range(g.relations) : id \notin {r.source, r.target}}

DeadEnds(g, types) ==
    LET flows == {r \in Range(g.relations) : r.type \in IF types = {} THEN FlowRelations ELSE types}
    IN  {r.target : r \in flows} \ {r.source : r \in flows}

RECURSIVE Visit(_, _, _)
\* Depth first: a relation to an object on the stack closes a cycle, which is told
\* once for its set of objects.
Visit(flows, w, node) ==
    LET enter == [w EXCEPT !.stack = Append(@, node)]
        seen(x, id) == id \in x.done \/ id \in Range(x.stack)
        follow(x, r) ==
            IF ~ seen(x, r.target)
            THEN LET y == Visit(flows, [x EXCEPT !.edges = Append(@, r)], r.target)
                 IN  [y EXCEPT !.edges = Front(@)]
            ELSE IF r.target \in x.done THEN x
            ELSE LET at == CHOOSE k \in DOMAIN x.stack : x.stack[k] = r.target
                     nodes == SubSeq(x.stack, at, Len(x.stack))
                     known == \E c \in x.found : Range(c.nodes) = Range(nodes)
                 IN  IF known THEN x
                     ELSE [x EXCEPT !.found = @ \cup
                            {[nodes |-> nodes, edges |-> Append(SubSeq(x.edges, at, Len(x.edges)), r)]}]
        left == FoldLeft(follow, enter, SelectSeq(flows, LAMBDA r : r.source = node))
    IN  [left EXCEPT !.stack = Front(@), !.done = @ \cup {node}]

Cycles(g, types) ==
    LET flows == SelectSeq(g.relations,
                           LAMBDA r : r.type \in IF types = {} THEN FlowRelations ELSE types)
        start(w, id) == IF id \in w.done THEN w ELSE Visit(flows, w, id)
    IN  FoldLeft(start, [done |-> {}, stack |-> <<>>, edges |-> <<>>, found |-> {}],
                 SetToSeq(ObjectIds(g))).found

Diagnostics(g) ==
    [isolated |-> IsolatedObjects(g), deadEnds |-> DeadEnds(g, {}), cycles |-> Cycles(g, {})]

-----------------------------------------------------------------------------
(* The searches of the services: the objects reached, and every relation   *)
(* looked at                                                               *)

ReachOf(g, types, steps, maxDepth) ==
    LET followed == {s.id : s \in {x \in steps : x.depth < maxDepth}}
    IN  [objects |-> ObjectIds(g) \cap {s.id : s \in steps},
         relations |-> {r \in Range(g.relations) : r.source \in followed /\ Allowed(types, r)}]

Reach(g, start, types, maxDepth) ==
    ReachOf(g, types, Range(DownstreamOf(g, start, types, {maxDepth})), maxDepth)

Found(status, body) == [status |-> status, body |-> body]

Asked(g, start, maxDepth, answer) ==
    CASE start \notin ObjectIds(g) -> Found(404, {})
      [] maxDepth \notin 1..100 -> Found(400, {})
      [] OTHER -> Found(200, {answer})

IntegrityTraverse(g, start, types, maxDepth) ==
    Asked(g, start, maxDepth, Reach(g, start, types, maxDepth))

IsOfType(g, id, type) == \E o \in g.objects : o.id = id /\ o.type = type

\* 404 of an object there is not, 400 of one of another type.
SystemImpact(g, id, maxDepth) ==
    IF id \in ObjectIds(g) /\ ~ IsOfType(g, id, "technical_system") THEN Found(400, {})
    ELSE Asked(g, id, maxDepth, Reach(g, id, ImpactRelations, maxDepth))

ComponentTrace(g, id, maxDepth) ==
    IF id \in ObjectIds(g) /\ ~ IsOfType(g, id, "technical_component") THEN Found(400, {})
    ELSE Asked(g, id, maxDepth, Reach(g, id, TraceRelations, maxDepth))

TouchingOf(g, ids) == {r \in Range(g.relations) : {r.source, r.target} \cap ids # {}}

ListedSystems(g, discipline) ==
    LET systems == {o \in g.objects : o.type = "technical_system" /\ o.discipline \in discipline}
    IN  [items |-> systems, relations |-> TouchingOf(g, {o.id : o \in systems})]

\* The components of the disciplines asked for that belong to a system and are at a
\* place, when these are asked for.
ListedComponents(g, disciplines, system, place) ==
    LET related(o, type, target) ==
            \E r \in Range(g.relations) : r.source = o.id /\ r.type = type /\ r.target = target
        items == {o \in g.objects : /\ o.type = "technical_component"
                                    /\ o.discipline \in disciplines
                                    /\ \A s \in system : related(o, "belongs_to", s)
                                    /\ \A p \in place : related(o, "located_in", p)}
    IN  [items |-> items, relations |-> TouchingOf(g, {o.id : o \in items})]

\* What the workbench answers of a traversal and of a path.
ReasoningTraverse(g, start, direction, types, maxDepth) ==
    CASE start \notin ObjectIds(g) -> Found(404, <<>>)
      [] direction \notin {"outgoing", "incoming", "both"} -> Found(400, <<>>)
      [] OTHER -> Found(200, Traverse(g, start, direction, types, maxDepth))

ReasoningPath(g, source, target, direction, types) ==
    IF {source, target} \subseteq ObjectIds(g)
    THEN Found(200, ShortestPath(g, source, target, direction, types))
    ELSE Found(404, <<>>)
=============================================================================
