---------------------------------- MODULE DrawingsMC ----------------------------------
(***************************************************************************)
(* What is computed from a document and leaves nothing behind, on small    *)
(* documents: drawings and their networks.                                 *)
(***************************************************************************)
EXTENDS Geometry, GraphSearch, TLC

-----------------------------------------------------------------------------
(* Drawings                                                                *)

Entity(type, points) ==
    [type |-> type, layer |-> "pipes", points |-> points, closed |-> FALSE, r |-> 0, value |-> 0]
Pipe(a, b) == Entity("LINE", <<a, b>>)
Label(type, p, value) == [Entity(type, <<p>>) EXCEPT !.layer = "labels", !.value = value]

\* A main with a branch, a closed triangle at its end, a way round, a short line that a
\* wide tolerance closes upon itself, a line apart, and one a user has hidden.
Pipes ==
    <<Pipe(<<0, 0>>, <<4, 0>>), Pipe(<<4, 0>>, <<8, 0>>), Pipe(<<4, 0>>, <<4, 3>>),
      [Entity("LWPOLYLINE", <<<<8, 0>>, <<12, 0>>, <<12, 3>>>>) EXCEPT !.closed = TRUE],
      Entity("POLYLINE", <<<<4, 0>>, <<4, -4>>, <<0, -4>>>>), Pipe(<<0, 0>>, <<0, -4>>),
      [Pipe(<<20, 0>>, <<24, 0>>) EXCEPT !.layer = "old"],
      [Entity("LWPOLYLINE", <<<<20, 0>>, <<20, 4>>, <<24, 4>>, <<24, 0>>>>) EXCEPT !.closed = TRUE],
      Pipe(<<8, 0>>, <<9, 0>>)>>

\* Two spellings of one label, another label, a component, and a circle.
Marks == <<Label("TEXT", <<2, 0>>, 10), Label("MTEXT", <<4, 2>>, 11), Label("TEXT", <<6, 0>>, 20),
           Label("INSERT", <<22, 0>>, 30), [Label("CIRCLE", <<22, 2>>, 0) EXCEPT !.r = 2]>>

\* Every drawing of at most three of the lines, and the whole.
Drawings == {[about |-> "drawing", lines |-> l, tolerance |-> t] :
                l \in {k \in SUBSET (DOMAIN Pipes) : Cardinality(k) \in {0, 1, 2, 3, Len(Pipes)}},
                t \in {1, 2}}

\* A layer hidden and then locked: it is both.
Layers ==
    UpdateLayer(UpdateLayer(<<>>, "old", [visible |-> {FALSE}, locked |-> {}]),
                "old", [visible |-> {}, locked |-> {TRUE}])

DrawingOf(q) ==
    GeometryFromManifest(SelectSeq([i \in DOMAIN Pipes |-> [Pipes[i] EXCEPT !.value = i]],
                                   LAMBDA e : e.value \in q.lines) \o Marks,
                         {l \in DOMAIN Layers : Layers[l].locked /\ ~ Layers[l].visible})

\* What is asked of an object, on a plan of this tolerance.
About(id, tolerance) ==
    [tolerance |-> tolerance, filter |-> NoFilter, id |-> id, maxDepth |-> {},
     stopAtJunctions |-> FALSE, radius |-> 2, system |-> {}]

Visible == [NoFilter EXCEPT !.visibleOnly = TRUE]

\* The segments share the edges of a network between them, and each is a way from one
\* boundary to the next or a loop without one; a system is what the segments and the
\* objects of it say together. (segment_network, identify_systems)
SegmentsAreWhole(doc, g, segments) ==
    LET edges(s) == Range(s.edges)
    IN  /\ \A i \in DOMAIN g : Cardinality({k \in DOMAIN segments : i \in edges(segments[k])}) = 1
        /\ \A s \in Range(segments) :
              LET inner == {s.nodes[i] : i \in 2 .. Len(s.nodes) - 1}
              IN  /\ Len(s.nodes) = Len(s.edges) + 1
                  /\ \A i \in DOMAIN s.edges :
                        Range(g[s.edges[i]].ends) = {s.nodes[i], s.nodes[i + 1]}
                  /\ \A n \in inner : Degree(g, n) = 2
                  /\ IF s.closed THEN s.nodes[1] = Last(s.nodes) /\ Degree(g, s.nodes[1]) = 2
                     ELSE {Degree(g, s.nodes[1]), Degree(g, Last(s.nodes))} \cap {2} = {}
        /\ \A s \in Systems(g, segments) :
              /\ s.length = MapThenSumSet(LAMBDA k : LengthOf(g, edges(segments[k])), s.segments)
              /\ s.length = MapThenSumSet(LAMBDA id : ObjectMeasure(doc.objects[id]), s.id)
              /\ s.class = "looped" <=> \E k \in s.segments :
                    s.rank > 0 \/ segments[k].closed

\* The answers told of objects, to <<route, object, greatest depth, stop at junctions>>.
AnswersAgree(ids, told) ==
    LET answer(route, id) == told[route, id, {}, FALSE]
        trace(id, d, stop) == told["trace", id, d, stop].body
    IN  /\ \A id \in ids :
              LET whole == trace(id, {}, FALSE)
              IN  /\ {{f[1] : f \in whole}} = {s.id : s \in answer("system", id).body}
                  /\ \A d \in 0 .. 3 : trace(id, {d}, FALSE) = {f \in whole : f[2] <= d}
                  /\ {f[1] : f \in trace(id, {1}, FALSE)} = {id} \cup answer("connections", id).body
                  /\ \A f \in trace(id, {}, TRUE) : \E e \in whole : e[1] = f[1] /\ e[2] <= f[2]
                  /\ \A f \in whole : <<id, f[2]>> \in trace(f[1], {}, FALSE)
        /\ \A route \in {"system", "connections", "trace"} : answer(route, 0).status = 404

\* An object is in one system, which an unlimited trace finds whole; a limited one finds
\* what is so near, and the first step of it the objects that are connected; of an object
\* there is not nothing is told.
TracesAreSystems(doc, g, tolerance) ==
    LET ids == {e.object : e \in Range(g)}
        ask(id, d, stop) == [About(id, tolerance) EXCEPT !.maxDepth = d, !.stopAtJunctions = stop]
        told == [x \in {"system", "connections", "trace"} \X (ids \cup {0})
                         \X {{}, {0}, {1}, {2}, {3}} \X BOOLEAN |->
                    NetworkAnswer(doc, x[1], ask(x[2], x[3], x[4]))]
    IN  AnswersAgree(ids, told)

\* Every label near a system is in one group of candidates of it, and what is near none
\* is told; the groups that disagree are ranked without a gap.
LabelsAgree(doc, q, found, candidates) ==
    /\ {l.id : l \in Labels(doc, q.filter)}
         = Unassigned(doc, found, q.filter) \cup UNION {c.group.evidence : c \in candidates}
    /\ found = UNION {ObservationsAnswer(doc, "system", [q EXCEPT !.system = s]).body
                      : s \in {o.system : o \in found}}
    /\ \A o \in found :
          Cardinality({c \in candidates : c.group.key[1] = o.system /\ o.object \in c.group.evidence}) = 1
    /\ \A c \in candidates :
          LET rivals == {d \in candidates : d.group.key[1] = c.group.key[1] /\ d.group.key[2] = c.group.key[2]}
          IN  /\ {d.rank : d \in rivals} = 1 .. Cardinality(rivals)
              /\ c.conflict <=> \E d \in rivals : d.group.key[3] # c.group.key[3]

LabelsAreAccountedFor(doc, q) ==
    LET told == [x \in {"observations", "candidates"} |-> ObservationsAnswer(doc, x, q).body]
    IN  LabelsAgree(doc, q, told["observations"], told["candidates"])

\* What is searched for is found by every way that leads to it: the index, the box of the
\* whole drawing, the nearest objects without a limit; what is added to a selection and
\* taken out again is out of it, and the rest stays.
PlacesAgree(doc) ==
    LET ids(s) == {o.id : o \in Range(s)}
        ask == [box |-> <<>>, at |-> <<4, 0>>, within |-> {}, text |-> {}, limit |-> 1000, filter |-> NoFilter]
        place(route, q) == PlaceAnswer(doc, route, q).body
        ofKind(k) == place("search", [ask EXCEPT !.filter.kinds = {k}])
        bounded == {o.id : o \in {p \in Range(doc.objects) : ObjectBounds(p) # {}}}
        summary == SpatialSummary(doc)
        index == GeometryIndex(doc)
        select(old, mode, new) == UpdateSelection(doc, old, mode, new)
    IN  /\ \A b \in summary.bounds : ids(place("bbox", [ask EXCEPT !.box = b])) = bounded
        /\ {h[2] : h \in Range(place("nearest", ask))} = bounded
        /\ summary.indexed = Cardinality(bounded) /\ summary.unindexed = Len(doc.objects) - summary.indexed
        /\ \A k \in DOMAIN index.counts : index.counts[k] = Len(ofKind(k))
        /\ index.texts = ofKind("text") /\ index.blocks = ofKind("insert")
        /\ \A l \in doc.layers :
              Len(place("search", [ask EXCEPT !.filter.layers = {l.name}])) = l.objects
        /\ \A id \in bounded : \A r \in RelatedObjects(doc, id, 4, 25) :
              r.relation = "intersects" =>
                 \E q \in RelatedObjects(doc, r.id, 99, 25) : q.id = id /\ q.relation = "intersects"
        /\ \A n \in 1 .. Len(doc.objects) :
              LET added == select(<<1, 2>>, "add", <<n, 2, 0>>)
              IN  /\ Range(added) = {1, 2, n} /\ IsInjective(added)
                  /\ Range(select(added, "remove", <<n, 0>>)) = {1, 2} \ {n}

NetworkHolds(q) ==
    LET doc == DrawingOf(q)
        g(filter) == Topology(doc, q.tolerance, filter)
    IN  /\ \A filter \in {NoFilter, Visible} : SegmentsAreWhole(doc, g(filter), Segments(g(filter)))
        /\ TracesAreSystems(doc, g(NoFilter), q.tolerance)
        /\ q.tolerance = 1 => LabelsAreAccountedFor(doc, About(1, 1)) /\ PlacesAgree(doc)

-----------------------------------------------------------------------------
(* Building graphs                                                         *)

Related(s, type, t) == [source |-> s, type |-> type, target |-> t]

\* Two ways round, of which one has a relation that is no flow, and a way back.
Relation ==
    <<Related(1, "feeds", 2), Related(2, "serves", 3), Related(3, "feeds", 4), Related(4, "contains", 1),
      Related(1, "protects", 3), Related(3, "returns_to", 1), Related(2, "located_in", 4)>>

SearchGraphs == {[about |-> "graph", related |-> l] : l \in SUBSET (DOMAIN Relation)}

GraphOf(q) ==
    [objects |-> {[id |-> i, discipline |-> i % 2,
                   type |-> IF i < 3 THEN "technical_system" ELSE "technical_component"] : i \in 1 .. 4},
     relations |-> SelectSeq([i \in DOMAIN Relation |-> [id |-> i] @@ Relation[i]],
                             LAMBDA r : r.id \in q.related)]

\* The objects at most n relations away.
Nearby(g, start, direction, types, n) ==
    LET near[k \in 0 .. n] ==
            IF k = 0 THEN {start}
            ELSE near[k - 1] \cup {c.to : c \in UNION {Range(Candidates(g, o, direction, types)) : o \in near[k - 1]}}
    IN  near[n]

\* A traversal finds every object within its depth, once and at its least depth, and each
\* by a relation of the one before; a path is such steps from end to end.
StepsAreWhole(types, steps, near, depth) ==
    /\ {s.id : s \in Range(steps)} = near[depth]
    /\ Cardinality({s.id : s \in Range(steps)}) = Len(steps)
    /\ \A s \in Range(steps) :
          /\ s.id \in near[s.depth]
          /\ s.depth > 0 => s.id \notin near[s.depth - 1]
          /\ \A r \in s.via : {r.source, r.target} = {s.from, s.id} /\ Allowed(types, r)

IsPathTo(path, start, id) ==
    /\ path[1].id = start /\ Last(path).id = id
    /\ Last(path).depth = Len(path) - 1
    /\ \A i \in 2 .. Len(path) : path[i].from = path[i - 1].id

TraversalFindsAll(g, start, direction, types) ==
    \E near \in {[n \in 0 .. 4 |-> Nearby(g, start, direction, types, n)]} :
        /\ \A d \in {{}, {1}, {2}} :
              StepsAreWhole(types, ReasoningTraverse(g, start, direction, types, d).body, near, Min({4} \cup d))
        /\ \A id \in ObjectIds(g) :
              \E path \in {ReasoningPath(g, start, id, direction, types).body} :
                 IF id \in near[4] THEN IsPathTo(path, start, id) ELSE path = <<>>

\* Where objects lead back to themselves a cycle of them is told, and what is told is a
\* cycle. (TraversalEngine.cycles)
CyclesAreFound(g) ==
    LET told == Diagnostics(g)
        cycles == told.cycles
        after(o) == UNION {Nearby(g, c.to, "outgoing", FlowRelations, 4)
                           : c \in Range(Candidates(g, o, "outgoing", FlowRelations))}
    IN  /\ \A o \in {p \in ObjectIds(g) : p \in after(p)} :
              \E c \in cycles : Range(c.nodes) \subseteq {p \in after(o) : o \in after(p)}
        /\ \A c \in cycles :
              LET n == Len(c.nodes)
              IN  /\ Len(c.edges) = n /\ Cardinality(Range(c.nodes)) = n
                  /\ \A i \in 1 .. n : /\ c.edges[i].source = c.nodes[i]
                                       /\ c.edges[i].target = c.nodes[1 + (i % n)]
        /\ \A o \in told.deadEnds : after(o) = {}
        /\ \A o \in told.isolated : \A p \in ObjectIds(g) : o \notin after(p) \cup after(o)

\* The searches of the services find what the engine finds; what lies upstream of an
\* object has it downstream; a system or component listed comes with its relations.
ServicesAgree(g) ==
    \A o \in ObjectIds(g), d \in 0 .. 3 :
        LET answers == {IntegrityTraverse(g, o, {}, d), SystemImpact(g, o, d), ComponentTrace(g, o, d)}
            types == {{}, ImpactRelations, TraceRelations}
        IN  /\ \A a \in answers : a.status = 200 => \A b \in a.body :
                  /\ \E t \in types : b.objects = Nearby(g, o, "outgoing", t, d)
                  /\ \A r \in b.relations : r.target \in b.objects
            /\ \A s \in Range(UpstreamOf(g, o, {}, {d})) :
                  \E t \in Range(DownstreamOf(g, s.id, {}, {d})) : t.id = o /\ t.depth = s.depth
            /\ \A l \in {ListedSystems(g, {0, 1}), ListedComponents(g, {0, 1}, {}, {})} :
                  \A i \in l.items : i.id = o => {c.via : c \in Range(Candidates(g, o, "both", {}))} \subseteq l.relations
            /\ Impact(g, o, {}, {d}).affected = Nearby(g, o, "outgoing", FlowRelations, d) \ {o}
            /\ d > 0 => \E a \in {SystemImpact(g, o, d)} : a.status = 200 =>
                  \A b \in a.body : Impact(g, o, ImpactRelations, {d}).affected = b.objects \ {o}

SearchHolds(q) ==
    LET g == GraphOf(q)
    IN  /\ \A o \in ObjectIds(g), d \in {"outgoing", "incoming", "both"}, t \in {{}, {"feeds"}} :
              TraversalFindsAll(g, o, d, t)
        /\ CyclesAreFound(g) /\ ServicesAgree(g)
=============================================================================
