--------------------------------- MODULE Geometry ---------------------------------
(***************************************************************************)
(* The geometry framework of the workbench: the drawing an import manifest *)
(* describes, the search in it, the network its lines make, the segments   *)
(* and systems of the network, and the labels that lie near a system.      *)
(*                                                                         *)
(* A drawing is [objects, layers]; an object's id is where it stands in    *)
(* the file.  Coordinates are whole, and so are the lengths of an instance;*)
(* the distance between two objects is told by its square.  A tolerance is *)
(* the side of the grid the ends of lines are rounded to.                  *)
(***************************************************************************)
EXTENDS Rounding, FiniteSets, FiniteSetsExt, SequencesExt

Kinds == [LINE |-> "line", CIRCLE |-> "circle", ARC |-> "arc", LWPOLYLINE |-> "polyline",
          POLYLINE |-> "polyline", TEXT |-> "text", MTEXT |-> "text", INSERT |-> "insert"]

\* An entity of the file is [type, layer, points, closed, r, value]; the state of the
\* layers says which of them a user has hidden.
GeometryFromManifest(entities, hidden) ==
    [objects |-> [i \in DOMAIN entities |->
                     [id |-> i, layer |-> entities[i].layer, points |-> entities[i].points,
                      closed |-> entities[i].closed, r |-> entities[i].r, value |-> entities[i].value,
                      kind |-> IF entities[i].type \in DOMAIN Kinds THEN Kinds[entities[i].type]
                               ELSE "unknown"]],
     layers |-> {[name |-> n, visible |-> n \notin hidden,
                  objects |-> Cardinality({i \in DOMAIN entities : entities[i].layer = n})]
                 : n \in {entities[i].layer : i \in DOMAIN entities}}]

\* PATCH of a layer: what the request does not mention stays, of a new layer the default.
UpdateLayer(state, name, payload) ==
    LET current == IF name \in DOMAIN state THEN state[name] ELSE [visible |-> TRUE, locked |-> FALSE]
        changed == [f \in {"visible", "locked"} |->
                       IF payload[f] = {} THEN current[f] ELSE CHOOSE v \in payload[f] : TRUE]
    IN  [n \in DOMAIN state \cup {name} |-> IF n = name THEN changed ELSE state[n]]

\* PUT of the selection: only objects of the drawing, and of an earlier selection of it.
UpdateSelection(doc, existing, mode, ids) ==
    LET asked == SelectSeq(ids, LAMBDA i : i \in DOMAIN doc.objects) IN
    CASE mode = "add" ->
            existing \o SelectSeq(asked, LAMBDA i : i \notin Range(existing))
      [] mode = "remove" -> SelectSeq(existing, LAMBDA i : i \notin Range(asked))
      [] mode = "clear" -> <<>>
      [] OTHER -> asked

-----------------------------------------------------------------------------
(* Search                                                                  *)

NoFilter == [kinds |-> {}, layers |-> {}, visibleOnly |-> FALSE]

Chosen(doc, filter, o) ==
    /\ filter.kinds # {} => o.kind \in filter.kinds
    /\ filter.layers # {} => o.layer \in filter.layers
    /\ filter.visibleOnly => \E l \in doc.layers : l.name = o.layer /\ l.visible

AtMost(limit, cap, s) == SubSeq(s, 1, Min({Max({1, Min({limit, cap})}), Len(s)}))

SearchGeometry(doc, filter, text, limit) ==
    AtMost(limit, 5000,
           SelectSeq(doc.objects, LAMBDA o : /\ Chosen(doc, filter, o)
                                             /\ text # {} => o.value \in text))

GeometryIndex(doc) ==
    [counts |-> [k \in {o.kind : o \in Range(doc.objects)} |->
                    Cardinality({i \in DOMAIN doc.objects : doc.objects[i].kind = k})],
     texts |-> SelectSeq(doc.objects, LAMBDA o : o.kind = "text"),
     blocks |-> SelectSeq(doc.objects, LAMBDA o : o.kind = "insert")]

Box(xs, ys) == <<Min(xs), Min(ys), Max(xs), Max(ys)>>

\* {} of an object without an extent.
ObjectBounds(o) ==
    LET xs == {p[1] : p \in Range(o.points)}
        ys == {p[2] : p \in Range(o.points)}
    IN  CASE o.kind = "unknown" \/ xs = {} -> {}
          [] o.kind \in {"circle", "arc"} ->
                {Box(UNION {{x - o.r, x + o.r} : x \in xs}, UNION {{y - o.r, y + o.r} : y \in ys})}
          [] OTHER -> {Box(xs, ys)}

DocumentBounds(doc) ==
    LET boxes == UNION {ObjectBounds(o) : o \in Range(doc.objects)}
    IN  IF boxes = {} THEN {}
        ELSE {<<Min({b[1] : b \in boxes}), Min({b[2] : b \in boxes}),
                Max({b[3] : b \in boxes}), Max({b[4] : b \in boxes})>>}

Square(dx, dy) == dx * dx + dy * dy
Root(square) == CHOOSE d \in 0 .. square : d * d = square

Length(start, end) == Root(Square(end[1] - start[1], end[2] - start[2]))

BoxDistance(b, p) == Square(Max({b[1] - p[1], 0, p[1] - b[3]}), Max({b[2] - p[2], 0, p[2] - b[4]}))

Intersects(a, b) == ~ (a[3] < b[1] \/ a[1] > b[3] \/ a[4] < b[2] \/ a[2] > b[4])

Centre(b) == <<(b[1] + b[3]) \div 2, (b[2] + b[4]) \div 2>>

Before(m, n) == m[1] < n[1] \/ (m[1] = n[1] /\ m[2] < n[2])

ObjectsInBox(doc, box, filter, limit) ==
    AtMost(limit, 10000,
           SelectSeq(doc.objects, LAMBDA o : /\ Chosen(doc, filter, o)
                                             /\ \E b \in ObjectBounds(o) : Intersects(b, box)))

\* The nearest first, of equally near ones the lower id; no distance is asked for by {}.
NearestObjects(doc, p, within, filter, limit, excluded) ==
    LET hits == {<<BoxDistance(b, p), o.id>> : <<o, b>> \in
                    {x \in {o \in Range(doc.objects) : o.id \notin excluded /\ Chosen(doc, filter, o)}
                           \X UNION {ObjectBounds(o) : o \in Range(doc.objects)} :
                       x[2] \in ObjectBounds(x[1])}}
        near == {h \in hits : \A d \in within : h[1] <= d * d}
    IN  AtMost(limit, 1000,
               [i \in 1 .. Cardinality(near) |->
                   CHOOSE h \in near : Cardinality({k \in near : Before(k, h)}) = i - 1])

RelatedObjects(doc, id, radius, limit) ==
    LET source == doc.objects[id]
        relation(o) == CASE \E a \in ObjectBounds(source), b \in ObjectBounds(o) : Intersects(a, b)
                                -> "intersects"
                         [] <<source.kind, o.kind>> = <<"text", "insert">> -> "text-near-block"
                         [] <<source.kind, o.kind>> = <<"insert", "text">> -> "block-near-text"
                         [] OTHER -> "nearby"
    IN  UNION {{[id |-> h[2], distance |-> h[1], relation |-> relation(doc.objects[h[2]])]
                : h \in Range(NearestObjects(doc, Centre(b), {radius}, NoFilter, limit, {id}))}
               : b \in ObjectBounds(source)}

SpatialSummary(doc) ==
    LET centres == {Centre(b) : b \in UNION {ObjectBounds(o) : o \in Range(doc.objects)}}
        indexed == Cardinality({o \in Range(doc.objects) : ObjectBounds(o) # {}})
    IN  [indexed |-> indexed, unindexed |-> Len(doc.objects) - indexed, bounds |-> DocumentBounds(doc),
         extent |-> IF centres = {} THEN {}
                    ELSE {Box({c[1] : c \in centres}, {c[2] : c \in centres})}]

-----------------------------------------------------------------------------
(* The network                                                             *)

NodeAt(p, tolerance) == <<Rounded(p[1], tolerance), Rounded(p[2], tolerance)>>

\* The stretches between the points of a line; a closed one comes back to its start.
Stretches(o) ==
    LET n == Len(o.points)
        open == [i \in 1 .. n - 1 |-> <<o.points[i], o.points[i + 1]>>]
    IN  CASE o.kind \notin {"line", "polyline"} \/ n < 2 -> <<>>
          [] o.kind = "polyline" /\ o.closed /\ n > 2 -> Append(open, <<o.points[n], o.points[1]>>)
          [] OTHER -> open

ObjectMeasure(o) ==
    LET stretches == Stretches(o)
    IN  FoldLeft(LAMBDA sum, s : sum + Length(s[1], s[2]), 0, stretches)

\* The edges in the order of the file; an edge's id is its place.
Topology(doc, tolerance, filter) ==
    LET edgesOf(o) == [i \in DOMAIN Stretches(o) |->
                          [object |-> o.id, layer |-> o.layer,
                           ends |-> <<NodeAt(Stretches(o)[i][1], tolerance),
                                      NodeAt(Stretches(o)[i][2], tolerance)>>,
                           length |-> Length(Stretches(o)[i][1], Stretches(o)[i][2])]]
    IN  FoldLeft(LAMBDA edges, o : IF Chosen(doc, filter, o) THEN edges \o edgesOf(o) ELSE edges,
                 <<>>, doc.objects)

Nodes(g) == UNION {Range(e.ends) : e \in Range(g)}
ObjectsAt(g, n) == {e.object : e \in {f \in Range(g) : n \in Range(f.ends)}}
EndsAt(g, n) == {<<i, k>> \in (DOMAIN g) \X {1, 2} : g[i].ends[k] = n}
Degree(g, n) == Cardinality(EndsAt(g, n))

RECURSIVE Joined(_, _)
\* The nodes that edges join to the nodes seen so far.
Joined(g, seen) ==
    LET more == UNION {Range(e.ends) : e \in {f \in Range(g) : Range(f.ends) \cap seen # {}}}
    IN  IF more \subseteq seen THEN seen ELSE Joined(g, more \cup seen)

Components(g) == {Joined(g, {n}) : n \in Nodes(g)}

ConnectedObjects(g, id) ==
    (UNION {ObjectsAt(g, n) : n \in {m \in Nodes(g) : id \in ObjectsAt(g, m)}}) \ {id}

\* A fault: a segment ends at junctions only.
BoundaryJunctions(g) == {n \in Nodes(g) : Degree(g, n) > 2}

\* Where a segment ends: at a dangling end or at a junction.
Boundary(g) == {n \in Nodes(g) : Degree(g, n) # 2}

OtherEnd(e, n) == IF e.ends[1] = n THEN e.ends[2] ELSE e.ends[1]

RECURSIVE Walk(_, _, _, _)
\* From the last node of a walk along edge i, and on until a boundary or a used edge.
Walk(g, used, w, i) ==
    LET next == OtherEnd(g[i], Last(w.nodes))
        on == [w EXCEPT !.nodes = Append(@, next), !.edges = Append(@, i)]
        left == {k \in DOMAIN g : next \in Range(g[k].ends)} \ (used \cup {i})
    IN  IF next \in Boundary(g) \/ left = {} THEN on ELSE Walk(g, used \cup {i}, on, Min(left))

RECURSIVE SegmentsFrom(_, _)
\* First from every boundary; what is left then is loops without one.
SegmentsFrom(g, used) ==
    LET left == (DOMAIN g) \ used
        starts == {n \in Boundary(g) : \E i \in left : n \in Range(g[i].ends)}
        start == IF starts = {} THEN g[Min(left)].ends[1]
                 ELSE CHOOSE n \in starts : \A m \in starts \ {n} : Before(n, m)
        walk == Walk(g, used, [nodes |-> <<start>>, edges |-> <<>>, closed |-> starts = {}],
                     Min({i \in left : start \in Range(g[i].ends)}))
    IN  IF left = {} THEN <<>>
        ELSE <<[walk EXCEPT !.closed = @ /\ Last(walk.nodes) = start]>>
             \o SegmentsFrom(g, used \cup Range(walk.edges))

Segments(g) == SegmentsFrom(g, {})

ObjectsOf(g, s) == {g[i].object : i \in Range(s.edges)}
LengthOf(g, edges) == MapThenSumSet(LAMBDA i : g[i].length, edges)

Role(g, s) ==
    LET touches(Test(_)) == Cardinality({i \in DOMAIN s.nodes : Test(Degree(g, s.nodes[i]))})
        junctions == touches(LAMBDA d : d > 2)
        dangling == touches(LAMBDA d : d = 1)
    IN  CASE s.closed -> "loop"
          [] junctions >= 2 -> "trunk"
          [] junctions = 1 /\ dangling >= 1 -> "terminal_branch"
          [] junctions = 1 -> "branch"
          [] dangling >= 2 -> "run"
          [] OTHER -> "isolated"

\* A system is known by its objects.
Systems(g, segments) ==
    LET system(nodes) ==
            LET edges == {i \in DOMAIN g : g[i].ends[1] \in nodes}
                rank == Max({0, Cardinality(edges) - Cardinality(nodes) + 1})
                junctions == {n \in nodes : Degree(g, n) > 2}
            IN  [id |-> {g[i].object : i \in edges}, edges |-> edges, rank |-> rank,
                 segments |-> {k \in DOMAIN segments : segments[k].nodes[1] \in nodes},
                 length |-> LengthOf(g, edges), junctions |-> junctions,
                 dangling |-> {n \in nodes : Degree(g, n) = 1},
                 class |-> CASE rank > 0 -> "looped"
                             [] rank = 0 /\ junctions # {} -> "branched"
                             [] rank = 0 /\ junctions = {} /\ Cardinality(edges) = 1 -> "single"
                             [] OTHER -> "linear"]
    IN  {system(nodes) : nodes \in Components(g)}

\* Of an object of several segments the last one counts; {} of an object of none.
Membership(g, segments, systems, id) ==
    LET of == {<<s, k>> \in systems \X (DOMAIN segments) :
                  k \in s.segments /\ id \in ObjectsOf(g, segments[k])}
    IN  {[system |-> p[1].id, segment |-> p[2], role |-> Role(g, segments[p[2]])]
         : p \in {q \in of : \A r \in of : r[2] <= q[2]}}

ObjectSystem(g, segments, systems, id) ==
    {s \in systems : \E m \in Membership(g, segments, systems, id) : s.id = m.system}

-----------------------------------------------------------------------------
(* Tracing                                                                 *)

RECURSIVE TraceFrom(_, _, _, _, _)
\* Level by level: an object at the greatest depth is found and not followed, and with
\* stopAtJunctions only the source is followed through a junction.
TraceFrom(g, found, depth, maxDepth, stopAtJunctions) ==
    LET frontier == {f[1] : f \in {x \in found.objects : x[2] = depth}}
        nodes == {n \in Nodes(g) : ObjectsAt(g, n) \cap frontier # {}}
        closed == {n \in nodes : stopAtJunctions /\ depth > 0 /\ Degree(g, n) > 2}
        new == (UNION {ObjectsAt(g, n) : n \in nodes \ closed}) \ {f[1] : f \in found.objects}
        follow == \A d \in maxDepth : depth < d
    IN  IF frontier = {} THEN found
        ELSE TraceFrom(g, [objects |-> found.objects \cup IF follow THEN new \X {depth + 1} ELSE {},
                           nodes |-> found.nodes \cup nodes,
                           terminated |-> found.terminated \cup IF follow THEN closed ELSE {}],
                       depth + 1, maxDepth, stopAtJunctions)

TraceNetwork(g, id, maxDepth, stopAtJunctions) ==
    TraceFrom(g, [objects |-> {<<id, 0>>}, nodes |-> {}, terminated |-> {}], 0, maxDepth, stopAtJunctions)

-----------------------------------------------------------------------------
(* Labels near a system                                                    *)

LabelKinds == {"text", "insert", "block"}

\* The distance from the middle of a label to an object.
Distance(label, o) ==
    {BoxDistance(b, Centre(a)) : <<a, b>> \in ObjectBounds(label) \X ObjectBounds(o)}

\* In ten thousandths, to which the code rounds it.
LabelConfidence(distance, radius) ==
    IF radius <= 0 THEN 0 ELSE Max({0, Min({10000, Rounded(10000 * (radius - Root(distance)), radius)})})

Labels(doc, filter) ==
    {o \in Range(doc.objects) : o.kind \in LabelKinds
                                /\ Chosen(doc, [NoFilter EXCEPT !.visibleOnly = filter.visibleOnly], o)}

SystemObservations(doc, systems, radius, filter) ==
    LET near(s, label) == UNION {Distance(label, o) : o \in {p \in Range(doc.objects) : p.id \in s.id}}
        observation(s, label, distance) ==
            [system |-> s.id, object |-> label.id, distance |-> distance, value |-> label.value,
             type |-> IF label.kind = "text" THEN "label_candidate" ELSE "component_candidate",
             confidence |-> LabelConfidence(distance, radius)]
        hits == {<<s, label, near(s, label)>> : s \in systems, label \in Labels(doc, filter)}
    IN  {observation(h[1], h[2], Min(h[3])) :
            h \in {k \in hits : \E d \in k[3] : d <= radius * radius}}

Unassigned(doc, observations, filter) ==
    {l.id : l \in Labels(doc, filter)} \ {o.object : o \in observations}

\* The spellings of a value v are 10 * v, 10 * v + 1, ...: case and spaces do not count.
Normalised(value) == value \div 10

\* The observations of a system that say the same, ranked by score and then by number;
\* several values are a conflict.
ConsolidateObservations(observations) ==
    LET key(o) == <<o.system, o.type, Normalised(o.value)>>
        group(k) ==
            LET items == {o \in observations : key(o) = k} IN
            [key |-> k, evidence |-> {o.object : o \in items}, nearest |-> Min({o.distance : o \in items}),
             score |-> Rounded(MapThenSumSet(LAMBDA o : o.confidence, items), Cardinality(items))]
        groups == {group(key(o)) : o \in observations}
        rivals(c) == {d \in groups : d.key[1] = c.key[1] /\ d.key[2] = c.key[2]}
        ahead(d, c) ==
            \/ d.score > c.score
            \/ d.score = c.score /\ Cardinality(d.evidence) > Cardinality(c.evidence)
            \/ /\ d.score = c.score /\ Cardinality(d.evidence) = Cardinality(c.evidence)
               /\ d.key[3] < c.key[3]
    IN  {[group |-> c, rank |-> 1 + Cardinality({d \in rivals(c) : ahead(d, c)}),
          conflict |-> Cardinality(rivals(c)) > 1] : c \in groups}

-----------------------------------------------------------------------------
(* What the workbench answers to [tolerance, filter, id, maxDepth,         *)
(* stopAtJunctions, radius, system]                                        *)

Answered(status, body) == [status |-> status, body |-> body]

\* The trace and the lists are of what the filter lets through, what is told of one object
\* is of the whole drawing.
Shown(route, q) == IF route \in {"connections", "system"} THEN NoFilter ELSE q.filter

NetworkOf(doc, route, q, g) ==
    CASE q.tolerance <= 0 \/ (route = "trace" /\ \E d \in q.maxDepth : d < 0) -> Answered(400, {})
      [] route = "topology" -> Answered(200, Components(g))
      [] route = "segments" -> Answered(200, Range(Segments(g)))
      [] route = "systems" -> Answered(200, Systems(g, Segments(g)))
      [] q.id \notin DOMAIN doc.objects -> Answered(404, {})
      [] route = "connections" -> Answered(200, ConnectedObjects(g, q.id))
      [] route = "trace" ->
            Answered(200, TraceNetwork(g, q.id, q.maxDepth, q.stopAtJunctions).objects)
      [] route = "system" ->
            Answered(200, ObjectSystem(g, Segments(g), Systems(g, Segments(g)), q.id))

NetworkAnswer(doc, route, q) == NetworkOf(doc, route, q, Topology(doc, q.tolerance, Shown(route, q)))

ObservationsOf(route, q, systems, found) ==
    CASE q.tolerance <= 0 \/ q.radius < 0 -> Answered(400, {})
      [] route = "observations" -> Answered(200, found)
      [] route = "candidates" -> Answered(200, ConsolidateObservations(found))
      [] \A s \in systems : s.id # q.system -> Answered(404, {})
      [] OTHER -> Answered(200, {o \in found : o.system = q.system})

ObservationsAnswer(doc, route, q) ==
    LET filter == Shown(route, q)
        g == Topology(doc, q.tolerance, filter)
        systems == Systems(g, Segments(g))
    IN  ObservationsOf(route, q, systems, SystemObservations(doc, systems, q.radius, filter))

PlaceAnswer(doc, route, q) ==
    CASE route = "bbox" /\ (q.box[1] > q.box[3] \/ q.box[2] > q.box[4]) -> Answered(400, <<>>)
      [] route = "bbox" -> Answered(200, ObjectsInBox(doc, q.box, q.filter, q.limit))
      [] route = "search" -> Answered(200, SearchGeometry(doc, q.filter, q.text, q.limit))
      [] route = "nearest" -> Answered(200, NearestObjects(doc, q.at, q.within, q.filter, q.limit, {}))

=============================================================================
