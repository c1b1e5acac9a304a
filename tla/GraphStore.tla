------------------------------- MODULE GraphStore -------------------------------
(***************************************************************************)
(* The building graph behind its services (crow_building_graph): a request *)
(* to create a floor, a space, a system or a component is a list of calls  *)
(* on the repository, each of which loads the document and, if it writes,  *)
(* saves it.  Nothing is undone when a later call of the list refuses.     *)
(***************************************************************************)
EXTENDS Requests, Sequences

CONSTANTS
    Orders,        \* the requests that create something
    Graphs         \* the graphs to start from

VARIABLES
    store,     \* collection -> set of entities, each with an id
    identity,  \* the reviews of candidates for one identity
    taken      \* how many requests were taken

Disciplines ==
    {"mechanical", "electrical", "fire", "plumbing", "security", "automation", "generic"}
LocationTypes == {"building", "floor", "space", "zone"}
SystemRelations == {"connects_to", "feeds", "returns_to", "depends_on"}
ServiceRelations == {"serves", "feeds", "returns_to", "protects"}
AllowedRelations ==
    {"contains", "located_in", "belongs_to", "serves", "feeds", "returns_to", "returns_from",
     "passes_through", "connects_to", "references", "protects", "owns", "depends_on",
     "documents", "derived_from", "validated_by", "indirectly_served_by",
     "indirectly_located_in", "indirectly_depends_on", "same_as_candidate",
     "same_as_confirmed", "not_same_as"}
ComponentRelations == SystemRelations \cup {"protects"}

GraphInit ==
    /\ store \in Graphs
    /\ identity = {}
    /\ taken = 0

Ids(coll) == {e.id : e \in store[coll]}

-----------------------------------------------------------------------------
(* The calls a request makes                                               *)

NeedObject(id, types, disciplines) ==
    <<[op |-> "object", id |-> id, types |-> types, disciplines |-> disciplines]>>
NeedEvidence(evidence) == <<[op |-> "evidence", ids |-> evidence]>>
Add(coll, entity) == <<[op |-> "add", coll |-> coll, entity |-> entity]>>
Replace(entity) == <<[op |-> "replace", entity |-> entity]>>
Refuse == <<[op |-> "refuse"]>>

NeedKnown(id) == NeedObject(id, {}, {})
NeedSystem(id) == NeedObject(id, {"technical_system"}, {})
NeedLocation(id) == NeedObject(id, LocationTypes, {})
NeedComponent(id) == NeedObject(id, {"technical_component"}, {})

History(entity, revision) ==
    Add("history", [id |-> <<entity, revision>>, entity |-> entity, revision |-> revision])

\* An object whose history is written before it (a fault).
CreateObjectAfterHistory(id, type, discipline, evidence) ==
    NeedEvidence(evidence) \o History(id, 1)
    \o Add("objects", [id |-> id, type |-> type, discipline |-> discipline,
                       revision |-> 1, evidence |-> evidence])

CreateObject(id, type, discipline, evidence) ==
    NeedEvidence(evidence)
    \o Add("objects", [id |-> id, type |-> type, discipline |-> discipline,
                       revision |-> 1, evidence |-> evidence])
    \o History(id, 1)

\* create_relation: an unknown type and a relation to itself are refused before
\* anything is loaded.
RelateAs(id, source, type, target, evidence) ==
    IF source = target \/ type \notin AllowedRelations THEN Refuse
    ELSE NeedKnown(source) \o NeedKnown(target) \o NeedEvidence(evidence)
         \o Add("relations", [id |-> id, source |-> source, type |-> type,
                              target |-> target, evidence |-> evidence])
         \o History(id, 1)

CreateRelation(source, type, target, evidence) ==
    RelateAs(<<"relation", source, type, target>>, source, type, target, evidence)

\* create_evidence: evidence has no history.
CreateEvidence(id) == Add("evidence", [id |-> id])

CreateProperty(owner, name, value, evidence) ==
    LET id == <<"property", owner, name, value>>
    IN  NeedKnown(owner) \o NeedEvidence(evidence)
        \o Add("properties", [id |-> id, owner |-> owner, evidence |-> evidence])
        \o History(id, 1)

CreateBuilding(o) == CreateObject(<<"building", o.name>>, "building", "building", o.evidence)

CreateFloor(o) ==
    LET id == <<"floor", o.building, o.name>>
    IN  NeedObject(o.building, {"building"}, {})
        \o CreateObject(id, "floor", "building", o.evidence)
        \o CreateRelation(o.building, "contains", id, o.evidence)

CreateSpace(o) ==
    LET id == <<"space", o.floor, o.name>>
    IN  NeedObject(o.floor, {"floor"}, {})
        \o (IF o.area = "negative" THEN Refuse ELSE <<>>)
        \o CreateObject(id, "space", "building", o.evidence)
        \o CreateRelation(o.floor, "contains", id, o.evidence)
        \o CreateRelation(id, "located_in", o.floor, o.evidence)
        \o (IF o.area = "none" THEN <<>> ELSE CreateProperty(id, "area", o.area, o.evidence))

\* The relations of a zone, space by space, in the order of the request.
ZoneRelations(id, spaces, evidence) ==
    LET Of[i \in 0..Len(spaces)] ==
          IF i = 0 THEN <<>>
          ELSE Of[i-1] \o CreateRelation(id, "contains", spaces[i], evidence)
                       \o CreateRelation(spaces[i], "belongs_to", id, evidence)
    IN  Of[Len(spaces)]

NeedSpaces(spaces) ==
    [i \in 1..Len(spaces) |->
       [op |-> "object", id |-> spaces[i], types |-> {"space"}, disciplines |-> {}]]

\* The spaces in no order, as often as each is named.
Counted(spaces) ==
    [s \in {spaces[i] : i \in DOMAIN spaces} |->
       Cardinality({i \in DOMAIN spaces : spaces[i] = s})]

CreateZone(o) ==
    LET id == <<"zone", o.name, Counted(o.spaces)>>
    IN  (IF o.spaces = <<>> THEN Refuse ELSE NeedSpaces(o.spaces))
        \o CreateObject(id, "zone", "building", o.evidence)
        \o ZoneRelations(id, o.spaces, o.evidence)

\* The system a system or a component belongs to, and the place it is in.
Placed(id, parent, location, mirrored, evidence) ==
    (IF parent = "none" THEN <<>>
     ELSE LET up == CreateRelation(id, "belongs_to", parent, evidence)
              down == CreateRelation(parent, "contains", id, evidence)
          IN  IF mirrored THEN up \o down ELSE down \o up)
    \o (IF location = "none" THEN <<>>
        ELSE CreateRelation(id, "located_in", location, evidence))

CreateSystem(o) ==
    LET id == <<"system", o.discipline, o.name>>
    IN  (IF o.discipline \in Disciplines THEN <<>> ELSE Refuse)
        \o (IF o.parent = "none" THEN <<>>
            ELSE NeedObject(o.parent, {"technical_system"}, {o.discipline}))
        \o (IF o.location = "none" THEN <<>> ELSE NeedLocation(o.location))
        \o CreateObject(id, "technical_system", o.discipline, o.evidence)
        \o Placed(id, o.parent, o.location, FALSE, o.evidence)

CreateComponent(o) ==
    LET id == <<"component", o.discipline, o.name>>
    IN  (IF o.discipline \in Disciplines THEN <<>> ELSE Refuse)
        \o (IF o.parent = "none" THEN <<>>
            ELSE NeedObject(o.parent, {"technical_system"}, {o.discipline, "generic"}))
        \o (IF o.location = "none" THEN <<>> ELSE NeedLocation(o.location))
        \o CreateObject(id, "technical_component", o.discipline, o.evidence)
        \o Placed(id, o.parent, o.location, TRUE, o.evidence)

ConnectSystems(o) ==
    NeedSystem(o.source) \o NeedSystem(o.target)
    \o (IF o.type \in SystemRelations THEN <<>> ELSE Refuse)
    \o CreateRelation(o.source, o.type, o.target, o.evidence)

AssignService(o) ==
    NeedSystem(o.source) \o NeedLocation(o.target)
    \o (IF o.type \in ServiceRelations THEN <<>> ELSE Refuse)
    \o CreateRelation(o.source, o.type, o.target, o.evidence)

ConnectComponents(o) ==
    NeedComponent(o.source) \o NeedComponent(o.target)
    \o (IF o.type \in ComponentRelations THEN <<>> ELSE Refuse)
    \o CreateRelation(o.source, o.type, o.target, o.evidence)

AddProperty(o) ==
    NeedComponent(o.owner) \o CreateProperty(o.owner, o.name, o.value, o.evidence)

\* The relation a review of a candidate resolves it to, at a time of its own.
Resolution(candidate, decision, time) ==
    LET type == IF decision = "confirm_same" THEN "same_as_confirmed" ELSE "not_same_as"
        id == <<"resolved", candidate.id, type, time>>
    IN  CreateEvidence(<<"evidence", id>>)
        \o RelateAs(id, candidate.source, type, candidate.target, {<<"evidence", id>>})

Record(candidate, decision, time) ==
    <<[op |-> "review",
       held |-> identity \cup {[candidate |-> candidate.id, decision |-> decision,
                               time |-> time]}]>>

\* The review is saved before the relation it resolves to (a fault).
ReviewCallsRecordedFirst(candidate, decision, time) ==
    Record(candidate, decision, time) \o Resolution(candidate, decision, time)

\* review_identity_candidate
ReviewCalls(candidate, decision, time) ==
    Resolution(candidate, decision, time) \o Record(candidate, decision, time)

Calls(o) ==
    CASE o.kind = "evidence"           -> CreateEvidence(o.id)
      [] o.kind = "object"             -> CreateObject(o.id, o.type, o.discipline, o.evidence)
      [] o.kind = "relation"           -> CreateRelation(o.source, o.type, o.target, o.evidence)
      [] o.kind = "building"           -> CreateBuilding(o)
      [] o.kind = "floor"              -> CreateFloor(o)
      [] o.kind = "space"              -> CreateSpace(o)
      [] o.kind = "zone"               -> CreateZone(o)
      [] o.kind = "system"             -> CreateSystem(o)
      [] o.kind = "component"          -> CreateComponent(o)
      [] o.kind = "connect_systems"    -> ConnectSystems(o)
      [] o.kind = "serve"              -> AssignService(o)
      [] o.kind = "connect_components" -> ConnectComponents(o)
      [] o.kind = "property"           -> AddProperty(o)

-----------------------------------------------------------------------------
(* The steps of a request                                                  *)

\* The request goes on with the calls that are left, or is answered.
GoesOn(c, calls) ==
    IF calls = <<>> THEN Ends(c) ELSE Goes(c, [pc |-> "calling", calls |-> calls])

Calling(c, op) == client[c].pc = "calling" /\ Head(client[c].calls).op = op

StartOrder(c, o) ==
    /\ client[c] = Idle
    /\ taken < load.bound
    /\ taken' = taken + 1
    /\ GoesOn(c, Calls(o))
    /\ UNCHANGED <<load, store, identity>>

\* update_object: the object is read, and the revision that replaces it computed.
StartUpdate(c) ==
    /\ client[c] = Idle
    /\ taken < load.bound
    /\ taken' = taken + 1
    /\ \E obj \in store.objects :
          LET new == [obj EXCEPT !.revision = @ + 1]
          IN  GoesOn(c, Replace(new) \o History(new.id, new.revision))
    /\ UNCHANGED <<load, store, identity>>

\* review_identity_candidate: 404 unless there is the relation, 409 if it was
\* reviewed or has no evidence, 400 if it is not a candidate; the register of
\* reviews that is saved in the end is the one that was loaded here.
StartReviewIdentity(c) ==
    /\ client[c] = Idle
    /\ taken < load.bound
    /\ taken' = taken + 1
    /\ \E r \in store.relations, d \in {"confirm_same", "reject_same"} :
          /\ r.type = "same_as_candidate"
          /\ ~\E v \in identity : v.candidate = r.id
          /\ r.evidence \cap Ids("evidence") # {}
          /\ GoesOn(c, ReviewCalls(r, d, taken))
    /\ UNCHANGED <<load, store, identity>>

SaveIdentityReviews(c) ==
    /\ Calling(c, "review")
    /\ identity' = Head(client[c].calls).held
    /\ GoesOn(c, Tail(client[c].calls))
    /\ UNCHANGED <<load, store, taken>>

\* _require_object, _require_type, _require_system, ...: 404 or 400 ends the request.
CheckObject(c) ==
    /\ Calling(c, "object")
    /\ LET call == Head(client[c].calls)
       IN  IF \E e \in store.objects :
                /\ e.id = call.id
                /\ call.types = {} \/ e.type \in call.types
                /\ call.disciplines = {} \/ e.discipline \in call.disciplines
           THEN GoesOn(c, Tail(client[c].calls))
           ELSE Ends(c)
    /\ UNCHANGED <<load, store, identity, taken>>

CheckEvidence(c) ==
    /\ Calling(c, "evidence")
    /\ IF Head(client[c].calls).ids \subseteq Ids("evidence")
       THEN GoesOn(c, Tail(client[c].calls))
       ELSE Ends(c)
    /\ UNCHANGED <<load, store, identity, taken>>

RefuseRequest(c) ==
    /\ Calling(c, "refuse")
    /\ Ends(c)
    /\ UNCHANGED <<load, store, identity, taken>>

\* GraphRepository.add: the document is loaded; an id that is taken is refused ...
LoadToAdd(c) ==
    /\ Calling(c, "add")
    /\ LET call == Head(client[c].calls)
       IN  IF call.entity.id \in Ids(call.coll) THEN Ends(c)
           ELSE Goes(c, [pc |-> "graph",
                         held |-> [store EXCEPT ![call.coll] = @ \cup {call.entity}],
                         calls |-> Tail(client[c].calls)])
    /\ UNCHANGED <<load, store, identity, taken>>

\* GraphRepository.replace_object
LoadToReplace(c) ==
    /\ Calling(c, "replace")
    /\ LET new == Head(client[c].calls).entity
       IN  IF new.id \notin Ids("objects") THEN Ends(c)
           ELSE Goes(c, [pc |-> "graph",
                         held |-> [store EXCEPT !.objects =
                                     {IF e.id = new.id THEN new ELSE e : e \in @}],
                         calls |-> Tail(client[c].calls)])
    /\ UNCHANGED <<load, store, identity, taken>>

\* ... and the copy replaces it.
SaveGraph(c) ==
    /\ client[c].pc = "graph"
    /\ store' = client[c].held
    /\ GoesOn(c, client[c].calls)
    /\ UNCHANGED <<load, identity, taken>>

GraphNext ==
    \/ \E c \in load.clients :
          \/ \E o \in Orders : StartOrder(c, o)
          \/ StartUpdate(c) \/ StartReviewIdentity(c) \/ SaveIdentityReviews(c)
          \/ CheckObject(c) \/ CheckEvidence(c) \/ RefuseRequest(c)
          \/ LoadToAdd(c) \/ LoadToReplace(c) \/ SaveGraph(c)
    \/ Restart /\ UNCHANGED <<load, store, identity, taken>>

GraphSpec == RequestsInit /\ GraphInit /\ [][GraphNext]_<<load, client, store, identity, taken>>

-----------------------------------------------------------------------------
(* GraphIntegrityService.validate                                          *)

\* What an entity refers to that is not in the graph.
Errors(s) ==
    LET objects == {e.id : e \in s.objects}
        evidence == {e.id : e \in s.evidence}
    IN  {r \in s.relations : {r.source, r.target} \ objects # {}}
        \cup {p \in s.properties : p.owner \notin objects}
        \cup {e \in s.objects \cup s.relations \cup s.properties : e.evidence \ evidence # {}}

\* An entry of the history that speaks of a revision there was of what is there.
SpeaksOf(g, h) ==
    /\ h.id = <<h.entity, h.revision>> /\ h.revision \in Nat
    /\ \/ \E o \in g.objects : o.id = h.entity /\ h.revision <= o.revision
       \/ \E e \in g.relations \cup g.properties : e.id = h.entity /\ h.revision = 1

\* A document of the service: every reference is to something that is there, nothing is
\* related to itself, no two objects have one identifier, and the history speaks of what
\* is there.
IsGraph(g) ==
    /\ g = [coll \in {"objects", "relations", "properties", "evidence", "history"} |-> g[coll]]
    /\ Errors(g) = {}
    /\ \A r \in g.relations : r.source # r.target
    /\ \A o \in g.objects :
          /\ o = [k \in {"id", "type", "discipline", "revision", "evidence"} |-> o[k]]
          /\ o.revision \in Nat \ {0}
    /\ \A o, p \in g.objects : o.id = p.id => o = p
    /\ \A h \in g.history : SpeaksOf(g, h)

\* An identifier that the review of a candidate gave a relation.
IsResolution(id) == id[1] = "resolved"

\* The graphs to start from are as the service leaves them, and nothing is reviewed yet.
ASSUME GraphsAssumption ==
    \A g \in Graphs :
       /\ IsGraph(g)
       /\ \A o \in g.objects : \A n \in 1..o.revision :
             \E h \in g.history : h.entity = o.id /\ h.revision = n
       /\ \A e \in g.objects \cup g.relations \cup g.properties : ~IsResolution(e.id)

\* A zone names its spaces in an order; the identifiers that callers choose for objects are
\* none of a resolution, which the time of the review is part of.
ASSUME OrdersAssumption ==
    \A o \in Orders :
       /\ o.kind \in {"evidence", "object", "relation", "building", "floor", "space", "zone",
                     "system", "component", "connect_systems", "serve", "connect_components",
                     "property"}
       /\ o.kind = "zone" => /\ Len(o.spaces) \in Nat
                             /\ o.spaces = [i \in 1..Len(o.spaces) |-> o.spaces[i]]
       /\ o.kind = "object" => ~IsResolution(o.id)

-----------------------------------------------------------------------------
(* Properties                                                              *)

\* With one client the graph has no integrity error, wherever a request is cut
\* off by a refusal or by a restart; the history never speaks of an entity or
\* a revision that the graph does not have; and while the server runs, a
\* request that has ended leaves every revision of every object recorded.
\* (BuildingGraphService, GraphIntegrityService.validate)
GraphIsWhole ==
    Alone =>
      /\ Errors(store) = {}
      /\ \A h \in store.history :
           \E e \in store.objects \cup store.relations \cup store.properties :
              e.id = h.entity /\ (e \in store.objects => h.revision <= e.revision)
      /\ ~load.restarts /\ (\A c \in Clients : client[c] = Idle) =>
           \A obj \in store.objects : \A n \in 1..obj.revision :
              \E h \in store.history : h.entity = obj.id /\ h.revision = n

\* With one client every review of a candidate has the relation it resolved it
\* to in the graph, also after a restart; and while the server runs, a candidate
\* is never both confirmed and rejected, and what is resolved is reviewed.
\* (review_identity_candidate)
IdentityIsDecidedOnce ==
    LET resolved(id) == {r \in store.relations : r.id[1] = "resolved" /\ r.id[2] = id}
    IN  Alone =>
          /\ \A v \in identity : \E r \in resolved(v.candidate) : r.id[4] = v.time
          /\ ~load.restarts =>
               \A r \in store.relations :
                  /\ Cardinality(resolved(r.id)) <= 1
                  /\ (\A c \in Clients : client[c] = Idle) /\ resolved(r.id) # {} =>
                        \E v \in identity : v.candidate = r.id

=============================================================================
