------------------------------ MODULE GraphProofs ------------------------------
(***************************************************************************)
(* The building graph stays whole under one client, although its requests  *)
(* are lists of calls that may be cut off anywhere.  A list never relies   *)
(* on what it has not established: every reference that it writes was      *)
(* looked up by one of its own calls before, and no call takes anything    *)
(* away.  What is written is followed by its history at once.  And the     *)
(* file it is saved in: whatever is added, by however many threads, and    *)
(* wherever the server is restarted, as long as no two saves overlap the   *)
(* document is stored atomically.                                          *)
(***************************************************************************)
EXTENDS GraphStore, SavedDocument, FiniteSetTheorems, SequenceTheorems, WellFoundedInduction, TLAPS

-----------------------------------------------------------------------------
(* THE GRAPH.  What a call relies on, and what it establishes               *)

Obj(id) == <<"object", id>>
Ev(id) == <<"evidence", id>>

\* That the candidate was resolved by the review of that time.
Res(candidate, time) == <<"resolution", candidate, time>>

\* What a graph has.
Present(g) ==
    {Obj(o.id) : o \in g.objects} \cup {Ev(e.id) : e \in g.evidence}
    \cup {Res(r.id[2], r.id[4]) : r \in {r \in g.relations : IsResolution(r.id)}}

\* What an entity refers to.
Refs(coll, e) ==
    (IF coll = "relations" THEN {Obj(e.source), Obj(e.target)}
     ELSE IF coll = "properties" THEN {Obj(e.owner)} ELSE {})
    \cup (IF coll \in {"objects", "relations", "properties"} THEN {Ev(x) : x \in e.evidence} ELSE {})

\* An entity must not be written without what it refers to, nor a review without the
\* relation that it resolved to.
Needs(call) ==
    IF call.op = "add" THEN Refs(call.coll, call.entity)
    ELSE IF call.op = "review" THEN {Res(v.candidate, v.time) : v \in call.held}
    ELSE {}

Resolves(call) == call.op = "add" /\ call.coll = "relations" /\ IsResolution(call.entity.id)

\* What is there after the call.
Gives(call) ==
    IF call.op = "object" THEN {Obj(call.id)}
    ELSE IF call.op = "evidence" THEN {Ev(x) : x \in call.ids}
    ELSE IF Resolves(call) THEN {Res(call.entity.id[2], call.entity.id[4])}
    ELSE {}

\* Every call of the list finds what it relies on in P, or an earlier call has seen to it.
Follows(P, cs) ==
    \A i \in 1..Len(cs) : \A x \in Needs(cs[i]) :
       x \in P \/ \E j \in 1..(i-1) : x \in Gives(cs[j])

-----------------------------------------------------------------------------
(* Lists of calls                                                          *)

IsSeq(cs) == \E S : cs \in Seq(S)

\* The call that records the revision which the call w writes.
WritesObject(w) == w.op = "replace" \/ (w.op = "add" /\ w.coll = "objects")
Writes(w) ==
    w.op = "replace" \/ (w.op = "add" /\ w.coll \in {"objects", "relations", "properties"})
RevisionOf(w) == IF WritesObject(w) THEN w.entity.revision ELSE 1
IsHistory(h) == h.op = "add" /\ h.coll = "history"

Records(w, h) ==
    /\ Writes(w) /\ IsHistory(h)
    /\ h.entity = [id |-> <<w.entity.id, RevisionOf(w)>>, entity |-> w.entity.id,
                   revision |-> RevisionOf(w)]

\* Objects are created in their first revision; a relation that resolves a candidate is
\* the only thing with such an identifier.
IsObjectCall(call) ==
    /\ call.entity = [k \in {"id", "type", "discipline", "revision", "evidence"} |-> call.entity[k]]
    /\ call.entity.revision = 1

IsCall(call) ==
    /\ call.op \in {"object", "evidence", "refuse", "add", "replace", "review"}
    /\ call.op = "add" => call.coll \in {"objects", "relations", "properties", "evidence", "history"}
    /\ call.op = "add" /\ call.coll = "objects" => IsObjectCall(call)
    /\ call.op = "add" /\ call.coll = "relations" => call.entity.source # call.entity.target
    /\ call.op = "add" /\ call.coll \in {"objects", "properties"} => ~IsResolution(call.entity.id)

\* What is written is recorded next, and nothing else is.
Recording(cs) ==
    /\ \A i \in 1..Len(cs) : Writes(cs[i]) => i < Len(cs) /\ Records(cs[i], cs[i+1])
    /\ \A i \in 2..Len(cs) : IsHistory(cs[i]) => Records(cs[i-1], cs[i])

\* A list that may follow on any other.
Block(cs) ==
    /\ IsSeq(cs)
    /\ Follows({}, cs)
    /\ Recording(cs)
    /\ cs # <<>> => ~IsHistory(cs[1])
    /\ \A i \in 1..Len(cs) :
          /\ IsCall(cs[i]) /\ ~Resolves(cs[i])
          /\ cs[i].op # "replace" /\ cs[i].op # "review"

LEMMA SeqLength ==
  ASSUME NEW cs, IsSeq(cs)
  PROVE  Len(cs) \in Nat /\ (Len(cs) = 0 <=> cs = <<>>)
  BY DEF IsSeq

LEMMA Concatenated ==
  ASSUME NEW cs, NEW ds, IsSeq(cs), IsSeq(ds)
  PROVE  /\ IsSeq(cs \o ds)
         /\ Len(cs \o ds) = Len(cs) + Len(ds)
         /\ \A i \in 1..Len(cs) : (cs \o ds)[i] = cs[i]
         /\ \A i \in 1..Len(ds) : (cs \o ds)[Len(cs) + i] = ds[i]
  <1>1. PICK S : cs \in Seq(S)
    BY DEF IsSeq
  <1>2. PICK T : ds \in Seq(T)
    BY DEF IsSeq
  <1>3. cs \in Seq(S \cup T) /\ ds \in Seq(S \cup T)
    BY <1>1, <1>2
  <1>4. cs \o ds \in Seq(S \cup T)
    BY <1>3
  <1> QED
    BY <1>3, <1>4, ConcatProperties, SeqLength DEF IsSeq

LEMMA BlockConcat ==
  ASSUME NEW cs, NEW ds, Block(cs), Block(ds)
  PROVE  Block(cs \o ds)
  <1> DEFINE es == cs \o ds
             n == Len(cs)
             m == Len(ds)
  <1>1. /\ IsSeq(es) /\ Len(es) = n + m /\ n \in Nat /\ m \in Nat
        /\ \A i \in 1..n : es[i] = cs[i]
        /\ \A i \in 1..m : es[n + i] = ds[i]
    BY Concatenated, SeqLength DEF Block
  <1>2. \A i \in 1..(n + m) : i \in 1..n \/ (i - n \in 1..m /\ i = n + (i - n))
    BY <1>1
  <1> HIDE DEF es
  <1>a. \A i \in 1..(n + m) : i - n \in 1..m => es[i] = ds[i - n]
    <2> SUFFICES ASSUME NEW i \in 1..(n + m), i - n \in 1..m
                 PROVE  es[i] = ds[i - n]
      OBVIOUS
    <2> DEFINE k == i - n
    <2>1. k \in 1..m /\ n + k = i
      BY <1>1
    <2> HIDE DEF k
    <2>2. es[i] = ds[k]
      BY <1>1, <2>1
    <2> QED
      BY <2>2 DEF k
  <1>3. Follows({}, es)
    <2> SUFFICES ASSUME NEW i \in 1..Len(es), NEW x \in Needs(es[i])
                 PROVE  \E j \in 1..(i-1) : x \in Gives(es[j])
      BY DEF Follows
    <2>1. CASE i \in 1..n
      <3>1. PICK j \in 1..(i-1) : x \in Gives(cs[j])
        BY <1>1, <2>1 DEF Follows, Block
      <3> QED
        BY <1>1, <2>1, <3>1
    <2>2. CASE i - n \in 1..m
      <3>1. PICK j \in 1..(i-n-1) : x \in Gives(ds[j])
        BY <1>1, <1>a, <2>2 DEF Follows, Block
      <3>2. n + j \in 1..(i-1) /\ es[n + j] = ds[j]
        BY <1>1, <2>2, <3>1
      <3> QED
        BY <3>1, <3>2
    <2> QED
      BY <1>1, <1>2, <2>1, <2>2
  <1>4. ASSUME NEW i \in 1..Len(es), Writes(es[i])
        PROVE  i < Len(es) /\ Records(es[i], es[i+1])
    <2>1. CASE i \in 1..n
      <3>1. i < n /\ Records(cs[i], cs[i+1])
        BY <1>1, <1>4, <2>1 DEF Recording, Block
      <3> QED
        BY <1>1, <2>1, <3>1
    <2>2. CASE i - n \in 1..m
      <3>1. i - n < m /\ Records(ds[i - n], ds[i - n + 1])
        BY <1>1, <1>a, <1>4, <2>2 DEF Recording, Block
      <3>2. es[i+1] = ds[i - n + 1]
        BY <1>1, <2>2, <3>1
      <3> QED
        BY <1>1, <1>2, <2>2, <3>1, <3>2
    <2> QED
      BY <1>1, <1>2, <2>1, <2>2
  <1>5. ASSUME NEW i \in 2..Len(es), IsHistory(es[i])
        PROVE  Records(es[i-1], es[i])
    <2>1. CASE i \in 1..n
      <3>1. Records(cs[i-1], cs[i])
        BY <1>1, <1>5, <2>1 DEF Recording, Block
      <3> QED
        BY <1>1, <2>1, <3>1
    <2>2. CASE i - n \in 1..m
      <3>1. es[i] = ds[i - n]
        BY <1>1, <1>2, <2>2
      <3>2. i - n # 1
        BY <1>1, <1>5, <2>2, <3>1, SeqLength DEF Block
      <3>3. Records(ds[i - n - 1], ds[i - n])
        BY <1>1, <1>5, <2>2, <3>1, <3>2 DEF Recording, Block
      <3>4. es[i-1] = ds[i - n - 1]
        BY <1>1, <2>2, <3>2
      <3> QED
        BY <3>1, <3>3, <3>4
    <2> QED
      BY <1>1, <1>2, <2>1, <2>2
  <1>6. es # <<>> => ~IsHistory(es[1])
    <2>1. CASE n = 0
      BY <1>1, <2>1, SeqLength DEF Block
    <2>2. CASE n # 0
      BY <1>1, <2>2, SeqLength DEF Block
    <2> QED
      BY <2>1, <2>2
  <1>7. \A i \in 1..Len(es) : /\ IsCall(es[i]) /\ ~Resolves(es[i])
                              /\ es[i].op # "replace" /\ es[i].op # "review"
    BY <1>1, <1>2, <1>a DEF Block
  <1>8. Block(es)
    BY <1>1, <1>3, <1>4, <1>5, <1>6, <1>7 DEF Block, Recording
  <1> QED
    BY <1>8 DEF es

-----------------------------------------------------------------------------
(* The requests are such lists                                             *)

LEMMA EmptyBlock == Block(<<>>)
  <1>1. <<>> \in Seq({}) /\ Len(<<>>) = 0
    OBVIOUS
  <1> QED
    BY <1>1 DEF Block, IsSeq, Follows, Recording

\* A call by itself.
LEMMA OneCall ==
  ASSUME NEW call, IsCall(call),
         call.op \in {"object", "evidence", "refuse"} \/ (call.op = "add" /\ call.coll = "evidence")
  PROVE  Block(<<call>>)
  <1> DEFINE cs == <<call>>
  <1>1. cs \in Seq({call}) /\ Len(cs) = 1 /\ cs[1] = call
    OBVIOUS
  <1> HIDE DEF cs
  <1>2. Needs(call) = {}
    BY DEF Needs, Refs
  <1>3. ~Writes(call) /\ ~IsHistory(call) /\ ~Resolves(call)
    BY DEF Writes, IsHistory, Resolves
  <1>4. Block(cs)
    BY <1>1, <1>2, <1>3 DEF Block, IsSeq, Follows, Recording
  <1> QED
    BY <1>4 DEF cs

LEMMA LookupBlocks ==
  ASSUME NEW id, NEW types, NEW disciplines, NEW ids
  PROVE  /\ Block(NeedObject(id, types, disciplines)) /\ Block(NeedEvidence(ids))
         /\ Block(Refuse) /\ Block(CreateEvidence(id))
         /\ Block(NeedKnown(id)) /\ Block(NeedSystem(id)) /\ Block(NeedLocation(id))
         /\ Block(NeedComponent(id))
  <1>1. \A t, d : Block(NeedObject(id, t, d))
    <2> TAKE t, d
    <2> DEFINE call == [op |-> "object", id |-> id, types |-> t, disciplines |-> d]
    <2>1. IsCall(call) /\ call.op = "object"
      BY DEF IsCall
    <2> HIDE DEF call
    <2>2. Block(<<call>>)
      BY <2>1, OneCall
    <2> QED
      BY <2>2 DEF call, NeedObject
  <1>2. Block(NeedEvidence(ids))
    <2> DEFINE call == [op |-> "evidence", ids |-> ids]
    <2>1. IsCall(call) /\ call.op = "evidence"
      BY DEF IsCall
    <2> HIDE DEF call
    <2>2. Block(<<call>>)
      BY <2>1, OneCall
    <2> QED
      BY <2>2 DEF call, NeedEvidence
  <1>3. Block(Refuse)
    <2> DEFINE call == [op |-> "refuse"]
    <2>1. IsCall(call) /\ call.op = "refuse"
      BY DEF IsCall
    <2> HIDE DEF call
    <2>2. Block(<<call>>)
      BY <2>1, OneCall
    <2> QED
      BY <2>2 DEF call, Refuse
  <1>4. Block(CreateEvidence(id))
    <2> DEFINE call == [op |-> "add", coll |-> "evidence", entity |-> [id |-> id]]
    <2>1. IsCall(call) /\ call.op = "add" /\ call.coll = "evidence"
      BY DEF IsCall
    <2> HIDE DEF call
    <2>2. Block(<<call>>)
      BY <2>1, OneCall
    <2> QED
      BY <2>2 DEF call, CreateEvidence, Add
  <1> QED
    BY <1>1, <1>2, <1>3, <1>4 DEF NeedKnown, NeedSystem, NeedLocation, NeedComponent

\* What History(id, revision) records.
HistoryCall(id, revision) ==
    [op |-> "add", coll |-> "history",
     entity |-> [id |-> <<id, revision>>, entity |-> id, revision |-> revision]]

EvidenceCall(evidence) == [op |-> "evidence", ids |-> evidence]
ObjectCall(id) == [op |-> "object", id |-> id, types |-> {}, disciplines |-> {}]
AddCall(coll, entity) == [op |-> "add", coll |-> coll, entity |-> entity]

LEMMA OneMoreCall ==
  ASSUME NEW S, NEW cs \in Seq(S), NEW ds \in Seq(S), NEW call \in S, Len(ds) = Len(cs) + 1,
         \A i \in 1..Len(cs) : ds[i] = cs[i], ds[Len(cs) + 1] = call
  PROVE  cs \o <<call>> = ds
  <1>1. Append(cs, call) = cs \o <<call>>
    BY AppendIsConcat
  <1>2. /\ Append(cs, call) \in Seq(S) /\ Len(Append(cs, call)) = Len(ds)
        /\ \A i \in 1..Len(ds) : Append(cs, call)[i] = ds[i]
    BY AppendProperties
  <1>3. Append(cs, call) = ds
    BY <1>2, SeqEqual
  <1> QED
    BY <1>1, <1>3

LEMMA TwoCalls ==
  ASSUME NEW a, NEW b
  PROVE  <<a>> \o <<b>> = <<a, b>>
  <1> DEFINE S == {a, b}
             cs == <<a>>
             ds == <<a, b>>
  <1>1. cs \in Seq(S) /\ ds \in Seq(S) /\ b \in S /\ Len(cs) = 1 /\ Len(ds) = 2
    OBVIOUS
  <1>2. ds[1] = cs[1] /\ ds[2] = b
    OBVIOUS
  <1> HIDE DEF S, cs, ds
  <1>3. \A i \in 1..Len(cs) : ds[i] = cs[i]
    BY <1>1, <1>2
  <1>4. Len(ds) = Len(cs) + 1 /\ ds[Len(cs) + 1] = b
    BY <1>1, <1>2
  <1>5. cs \o <<b>> = ds
    BY <1>1, <1>3, <1>4, OneMoreCall, ZenonT(40)
  <1> QED
    BY <1>5, Zenon DEF cs, ds

LEMMA ThreeCalls ==
  ASSUME NEW a, NEW b, NEW c
  PROVE  <<a>> \o <<b>> \o <<c>> = <<a, b, c>>
  <1> DEFINE S == {a, b, c}
             cs == <<a, b>>
             ds == <<a, b, c>>
  <1>1. cs \in Seq(S) /\ ds \in Seq(S) /\ c \in S /\ Len(cs) = 2 /\ Len(ds) = 3
    OBVIOUS
  <1>2. ds[1] = cs[1] /\ ds[2] = cs[2] /\ ds[3] = c
    OBVIOUS
  <1> HIDE DEF S, cs, ds
  <1>3. \A i \in 1..Len(cs) : ds[i] = cs[i]
    BY <1>1, <1>2
  <1>4. Len(ds) = Len(cs) + 1 /\ ds[Len(cs) + 1] = c
    BY <1>1, <1>2
  <1>5. cs \o <<c>> = ds
    BY <1>1, <1>3, <1>4, OneMoreCall, ZenonT(40)
  <1> QED
    BY <1>5, TwoCalls, Zenon DEF cs, ds

LEMMA FourCalls ==
  ASSUME NEW a, NEW b, NEW c, NEW d
  PROVE  <<a>> \o <<b>> \o <<c>> \o <<d>> = <<a, b, c, d>>
  <1> DEFINE S == {a, b, c, d}
             cs == <<a, b, c>>
             ds == <<a, b, c, d>>
  <1>1. cs \in Seq(S) /\ ds \in Seq(S) /\ d \in S /\ Len(cs) = 3 /\ Len(ds) = 4
    OBVIOUS
  <1>2. ds[1] = cs[1] /\ ds[2] = cs[2] /\ ds[3] = cs[3] /\ ds[4] = d
    OBVIOUS
  <1> HIDE DEF S, cs, ds
  <1>3. \A i \in 1..Len(cs) : ds[i] = cs[i]
    BY <1>1, <1>2
  <1>4. Len(ds) = Len(cs) + 1 /\ ds[Len(cs) + 1] = d
    BY <1>1, <1>2
  <1>5. cs \o <<d>> = ds
    BY <1>1, <1>3, <1>4, OneMoreCall, ZenonT(40)
  <1> QED
    BY <1>5, ThreeCalls, Zenon DEF cs, ds

LEMMA FiveCalls ==
  ASSUME NEW a, NEW b, NEW c, NEW d, NEW e
  PROVE  <<a>> \o <<b>> \o <<c>> \o <<d>> \o <<e>> = <<a, b, c, d, e>>
  <1> DEFINE S == {a, b, c, d, e}
             cs == <<a, b, c, d>>
             ds == <<a, b, c, d, e>>
  <1>1. cs \in Seq(S) /\ ds \in Seq(S) /\ e \in S /\ Len(cs) = 4 /\ Len(ds) = 5
    OBVIOUS
  <1>2. ds[1] = cs[1] /\ ds[2] = cs[2] /\ ds[3] = cs[3] /\ ds[4] = cs[4] /\ ds[5] = e
    OBVIOUS
  <1> HIDE DEF S, cs, ds
  <1>3. \A i \in 1..Len(cs) : ds[i] = cs[i]
    BY <1>1, <1>2
  <1>4. Len(ds) = Len(cs) + 1 /\ ds[Len(cs) + 1] = e
    BY <1>1, <1>2
  <1>5. cs \o <<e>> = ds
    BY <1>1, <1>3, <1>4, OneMoreCall, ZenonT(40)
  <1> QED
    BY <1>5, FourCalls, Zenon DEF cs, ds

LEMMA CallNames ==
  ASSUME NEW id, NEW revision, NEW evidence, NEW coll, NEW entity
  PROVE  /\ NeedKnown(id) = <<ObjectCall(id)>>
         /\ NeedEvidence(evidence) = <<EvidenceCall(evidence)>>
         /\ Add(coll, entity) = <<AddCall(coll, entity)>>
         /\ History(id, revision) = <<HistoryCall(id, revision)>>
  BY DEF NeedKnown, NeedObject, NeedEvidence, Add, History, EvidenceCall, AddCall, HistoryCall, ObjectCall

LEMMA ObjectBlock ==
  ASSUME NEW id, NEW type, NEW discipline, NEW evidence, ~IsResolution(id)
  PROVE  Block(CreateObject(id, type, discipline, evidence))
  <1> DEFINE a == EvidenceCall(evidence)
             e == [id |-> id, type |-> type, discipline |-> discipline, revision |-> 1,
                   evidence |-> evidence]
             b == AddCall("objects", e)
             h == HistoryCall(id, 1)
             cs == <<a, b, h>>
  <1>1. CreateObject(id, type, discipline, evidence) = cs
    <2>1. CreateObject(id, type, discipline, evidence) = <<a>> \o <<b>> \o <<h>>
      <3>1. /\ NeedEvidence(evidence) = <<a>> /\ Add("objects", e) = <<b>> /\ History(id, 1) = <<h>>
        BY CallNames
      <3>2. CreateObject(id, type, discipline, evidence) =
              NeedEvidence(evidence) \o Add("objects", e) \o History(id, 1)
        BY Zenon DEF CreateObject
      <3> QED
        BY <3>1, <3>2, Zenon
    <2> HIDE DEF a, b, h
    <2> QED
      BY <2>1, ThreeCalls, Zenon
  <1>2. /\ a.op = "evidence" /\ Gives(a) = {Ev(x) : x \in evidence} /\ Needs(a) = {}
        /\ ~Writes(a) /\ ~IsHistory(a) /\ ~Resolves(a)
    BY DEF EvidenceCall, Gives, Needs, Writes, IsHistory, Resolves
  <1>3. /\ e = [k \in {"id", "type", "discipline", "revision", "evidence"} |-> e[k]]
        /\ e.revision = 1 /\ e.id = id /\ e.evidence = evidence
    OBVIOUS
  <1> HIDE DEF e
  <1>4. /\ b.op = "add" /\ b.coll = "objects" /\ b.entity = e
        /\ Needs(b) = {Ev(x) : x \in evidence} /\ WritesObject(b) /\ ~IsHistory(b) /\ ~Resolves(b)
    BY <1>3 DEF AddCall, Needs, Refs, WritesObject, IsHistory, Resolves
  <1>5. /\ h.op = "add" /\ h.coll = "history" /\ Needs(h) = {} /\ ~Writes(h) /\ ~Resolves(h)
    BY DEF HistoryCall, Needs, Refs, Writes, Resolves
  <1>6. Records(b, h)
    BY <1>3, <1>4, <1>5 DEF Records, Writes, IsHistory, RevisionOf, HistoryCall
  <1>7. IsCall(a) /\ IsCall(b) /\ IsCall(h)
    BY <1>2, <1>3, <1>4, <1>5 DEF IsCall, IsObjectCall
  <1> HIDE DEF a, b, h
  <1>8. cs \in Seq({a, b, h}) /\ Len(cs) = 3 /\ cs[1] = a /\ cs[2] = b /\ cs[3] = h
    OBVIOUS
  <1> HIDE DEF cs
  <1>9. Follows({}, cs)
    BY <1>2, <1>4, <1>5, <1>8 DEF Follows
  <1>10. Recording(cs)
    BY <1>2, <1>4, <1>5, <1>6, <1>8 DEF Recording
  <1>11. Block(cs)
    BY <1>2, <1>4, <1>5, <1>7, <1>8, <1>9, <1>10 DEF Block, IsSeq
  <1> QED
    BY <1>1, <1>11

LEMMA PropertyBlock ==
  ASSUME NEW owner, NEW name, NEW value, NEW evidence
  PROVE  Block(CreateProperty(owner, name, value, evidence))
  <1> DEFINE id == <<"property", owner, name, value>>
             o == ObjectCall(owner)
             a == EvidenceCall(evidence)
             e == [id |-> id, owner |-> owner, evidence |-> evidence]
             b == AddCall("properties", e)
             h == HistoryCall(id, 1)
             cs == <<o, a, b, h>>
  <1>1. CreateProperty(owner, name, value, evidence) = cs
    <2>1. CreateProperty(owner, name, value, evidence) = <<o>> \o <<a>> \o <<b>> \o <<h>>
      <3>1. /\ NeedKnown(owner) = <<o>> /\ NeedEvidence(evidence) = <<a>>
            /\ Add("properties", e) = <<b>> /\ History(id, 1) = <<h>>
        BY CallNames
      <3>2. CreateProperty(owner, name, value, evidence) =
              NeedKnown(owner) \o NeedEvidence(evidence) \o Add("properties", e) \o History(id, 1)
        BY Zenon DEF CreateProperty
      <3> QED
        BY <3>1, <3>2, Zenon
    <2> HIDE DEF o, a, b, h
    <2> QED
      BY <2>1, FourCalls, Zenon
  <1>2. /\ a.op = "evidence" /\ Gives(a) = {Ev(x) : x \in evidence} /\ Needs(a) = {}
        /\ ~Writes(a) /\ ~IsHistory(a) /\ ~Resolves(a)
    BY DEF EvidenceCall, Gives, Needs, Writes, IsHistory, Resolves
  <1>o. /\ o.op = "object" /\ Gives(o) = {Obj(owner)} /\ Needs(o) = {}
        /\ ~Writes(o) /\ ~IsHistory(o) /\ ~Resolves(o)
    BY DEF ObjectCall, Gives, Needs, Writes, IsHistory, Resolves
  <1>3. e.id = id /\ e.owner = owner /\ e.evidence = evidence /\ ~IsResolution(e.id)
    BY DEF IsResolution
  <1> HIDE DEF e, id
  <1>4. /\ b.op = "add" /\ b.coll = "properties" /\ b.entity = e
        /\ Needs(b) = {Obj(owner)} \cup {Ev(x) : x \in evidence}
        /\ Writes(b) /\ ~WritesObject(b) /\ ~IsHistory(b) /\ ~Resolves(b)
    BY <1>3 DEF AddCall, Needs, Refs, Writes, WritesObject, IsHistory, Resolves
  <1>5. /\ h.op = "add" /\ h.coll = "history" /\ Needs(h) = {} /\ ~Writes(h) /\ ~Resolves(h)
    BY DEF HistoryCall, Needs, Refs, Writes, Resolves
  <1>6. Records(b, h)
    BY <1>3, <1>4, <1>5 DEF Records, IsHistory, RevisionOf, HistoryCall
  <1>7. IsCall(o) /\ IsCall(a) /\ IsCall(b) /\ IsCall(h)
    BY <1>o, <1>2, <1>3, <1>4, <1>5 DEF IsCall
  <1> HIDE DEF o, a, b, h
  <1>8. cs \in Seq({o, a, b, h}) /\ Len(cs) = 4 /\ cs[1] = o /\ cs[2] = a /\ cs[3] = b /\ cs[4] = h
    OBVIOUS
  <1> HIDE DEF cs
  <1>9. Follows({}, cs)
    BY <1>o, <1>2, <1>4, <1>5, <1>8 DEF Follows
  <1>10. Recording(cs)
    BY <1>o, <1>2, <1>4, <1>5, <1>6, <1>8 DEF Recording
  <1>11. Block(cs)
    BY <1>o, <1>2, <1>4, <1>5, <1>7, <1>8, <1>9, <1>10 DEF Block, IsSeq
  <1> QED
    BY <1>1, <1>11

\* The calls that create a relation, resolving a candidate or not.
LEMMA RelateCalls ==
  ASSUME NEW id, NEW source, NEW type, NEW target, NEW evidence
  PROVE  \/ /\ source = target \/ type \notin AllowedRelations
            /\ RelateAs(id, source, type, target, evidence) = Refuse
         \/ \E o, p, a, b, h :
              /\ RelateAs(id, source, type, target, evidence) = <<o, p, a, b, h>>
              /\ IsCall(o) /\ IsCall(p) /\ IsCall(a) /\ IsCall(b) /\ IsCall(h)
              /\ o.op = "object" /\ p.op = "object" /\ a.op = "evidence"
              /\ b.op = "add" /\ b.coll = "relations" /\ b.entity.id = id
              /\ Needs(o) = {} /\ Needs(p) = {} /\ Needs(a) = {} /\ Needs(h) = {}
              /\ Needs(b) = Gives(o) \cup Gives(p) \cup Gives(a)
              /\ Records(b, h)
  <1> DEFINE o == ObjectCall(source)
             p == ObjectCall(target)
             a == EvidenceCall(evidence)
             e == [id |-> id, source |-> source, type |-> type, target |-> target,
                   evidence |-> evidence]
             b == AddCall("relations", e)
             h == HistoryCall(id, 1)
  <1>1. CASE source = target \/ type \notin AllowedRelations
    BY <1>1 DEF RelateAs
  <1>2. CASE ~(source = target \/ type \notin AllowedRelations)
    <2>1. RelateAs(id, source, type, target, evidence) = <<o, p, a, b, h>>
      <3>1. RelateAs(id, source, type, target, evidence) = <<o>> \o <<p>> \o <<a>> \o <<b>> \o <<h>>
        <4>1. /\ NeedKnown(source) = <<o>> /\ NeedKnown(target) = <<p>>
              /\ NeedEvidence(evidence) = <<a>> /\ Add("relations", e) = <<b>> /\ History(id, 1) = <<h>>
          BY CallNames
        <4>2. RelateAs(id, source, type, target, evidence) =
                NeedKnown(source) \o NeedKnown(target) \o NeedEvidence(evidence)
                \o Add("relations", e) \o History(id, 1)
          BY <1>2, Zenon DEF RelateAs
        <4> QED
          BY <4>1, <4>2, Zenon
      <3> HIDE DEF o, p, a, b, h
      <3>2. <<o>> \o <<p>> \o <<a>> \o <<b>> \o <<h>> = <<o, p, a, b, h>>
        BY FiveCalls, ZenonT(60)
      <3> QED
        BY <3>1, <3>2, Zenon
    <2>2. a.op = "evidence" /\ Gives(a) = {Ev(x) : x \in evidence} /\ Needs(a) = {}
      BY DEF EvidenceCall, Gives, Needs
    <2>3. o.op = "object" /\ Gives(o) = {Obj(source)} /\ Needs(o) = {}
      BY DEF ObjectCall, Gives, Needs
    <2>4. p.op = "object" /\ Gives(p) = {Obj(target)} /\ Needs(p) = {}
      BY DEF ObjectCall, Gives, Needs
    <2>5. e.id = id /\ e.source = source /\ e.target = target /\ e.evidence = evidence
      OBVIOUS
    <2> HIDE DEF e
    <2>6. /\ b.op = "add" /\ b.coll = "relations" /\ b.entity = e
          /\ Needs(b) = {Obj(source), Obj(target)} \cup {Ev(x) : x \in evidence}
          /\ Writes(b) /\ ~WritesObject(b)
      BY <2>5 DEF AddCall, Needs, Refs, Writes, WritesObject
    <2>7. h.op = "add" /\ h.coll = "history" /\ Needs(h) = {}
      BY DEF HistoryCall, Needs, Refs
    <2>8. Records(b, h)
      BY <2>5, <2>6, <2>7 DEF Records, IsHistory, RevisionOf, HistoryCall
    <2>9. IsCall(o) /\ IsCall(p) /\ IsCall(a) /\ IsCall(b) /\ IsCall(h)
      BY <1>2, <2>2, <2>3, <2>4, <2>5, <2>6, <2>7 DEF IsCall
    <2>10. Needs(b) = Gives(o) \cup Gives(p) \cup Gives(a)
      BY <2>2, <2>3, <2>4, <2>6
    <2> HIDE DEF o, p, a, b, h
    <2> QED
      BY <2>1, <2>2, <2>3, <2>4, <2>5, <2>6, <2>7, <2>8, <2>9, <2>10
  <1> QED
    BY <1>1, <1>2

LEMMA RelationBlock ==
  ASSUME NEW source, NEW type, NEW target, NEW evidence
  PROVE  Block(CreateRelation(source, type, target, evidence))
  <1> DEFINE id == <<"relation", source, type, target>>
  <1>1. CreateRelation(source, type, target, evidence) = RelateAs(id, source, type, target, evidence)
    BY DEF CreateRelation
  <1>2. ~IsResolution(id)
    BY DEF IsResolution
  <1> HIDE DEF id
  <1>3. CASE RelateAs(id, source, type, target, evidence) = Refuse
    BY <1>1, <1>3, LookupBlocks
  <1>4. ASSUME NEW o, NEW p, NEW a, NEW b, NEW h,
               RelateAs(id, source, type, target, evidence) = <<o, p, a, b, h>>,
               IsCall(o) /\ IsCall(p) /\ IsCall(a) /\ IsCall(b) /\ IsCall(h),
               o.op = "object" /\ p.op = "object" /\ a.op = "evidence",
               b.op = "add" /\ b.coll = "relations" /\ b.entity.id = id,
               Needs(o) = {} /\ Needs(p) = {} /\ Needs(a) = {} /\ Needs(h) = {},
               Needs(b) = Gives(o) \cup Gives(p) \cup Gives(a),
               Records(b, h)
        PROVE  Block(<<o, p, a, b, h>>)
    <2> DEFINE cs == <<o, p, a, b, h>>
    <2>1. /\ cs \in Seq({o, p, a, b, h}) /\ Len(cs) = 5
          /\ cs[1] = o /\ cs[2] = p /\ cs[3] = a /\ cs[4] = b /\ cs[5] = h
      OBVIOUS
    <2> HIDE DEF cs
    <2>2. \A c \in {o, p, a} : ~Writes(c) /\ ~IsHistory(c) /\ ~Resolves(c)
      BY <1>4 DEF Writes, IsHistory, Resolves
    <2>3. ~IsHistory(b) /\ ~Resolves(b)
      BY <1>2, <1>4 DEF IsHistory, Resolves
    <2>4. h.op = "add" /\ IsHistory(h) /\ ~Writes(h) /\ ~Resolves(h)
      BY <1>4 DEF Records, IsHistory, Writes, Resolves
    <2>5. Follows({}, cs)
      BY <1>4, <2>1 DEF Follows
    <2>6. Recording(cs)
      BY <1>4, <2>1, <2>2, <2>3, <2>4 DEF Recording
    <2>7. Block(cs)
      BY <1>4, <2>1, <2>2, <2>3, <2>4, <2>5, <2>6 DEF Block, IsSeq
    <2> QED
      BY <2>7 DEF cs
  <1> QED
    BY <1>1, <1>3, <1>4, RelateCalls

LEMMA FloorBlock == ASSUME NEW o PROVE Block(CreateFloor(o))
  <1> DEFINE id == <<"floor", o.building, o.name>>
  <1>1. ~IsResolution(id)
    BY DEF IsResolution
  <1>2. CreateFloor(o) = NeedObject(o.building, {"building"}, {})
                         \o CreateObject(id, "floor", "building", o.evidence)
                         \o CreateRelation(o.building, "contains", id, o.evidence)
    BY Zenon DEF CreateFloor
  <1> HIDE DEF id
  <1>3. Block(CreateObject(id, "floor", "building", o.evidence))
    BY <1>1, ObjectBlock
  <1>4. Block(NeedObject(o.building, {"building"}, {}))
    BY LookupBlocks
  <1> QED
    BY <1>2, <1>3, <1>4, RelationBlock, BlockConcat, Zenon

LEMMA SpaceBlock == ASSUME NEW o PROVE Block(CreateSpace(o))
  <1> DEFINE id == <<"space", o.floor, o.name>>
             need == NeedObject(o.floor, {"floor"}, {})
             area == IF o.area = "negative" THEN Refuse ELSE <<>>
             create == CreateObject(id, "space", "building", o.evidence)
             up == CreateRelation(o.floor, "contains", id, o.evidence)
             down == CreateRelation(id, "located_in", o.floor, o.evidence)
             size == IF o.area = "none" THEN <<>> ELSE CreateProperty(id, "area", o.area, o.evidence)
  <1>1. CreateSpace(o) = need \o area \o create \o up \o down \o size
    BY Zenon DEF CreateSpace
  <1>2. ~IsResolution(id)
    BY DEF IsResolution
  <1> HIDE DEF id
  <1>3. Block(need)
    BY LookupBlocks
  <1>4. Block(area)
    BY LookupBlocks, EmptyBlock
  <1>5. Block(create)
    BY <1>2, ObjectBlock
  <1>6. Block(up) /\ Block(down)
    BY RelationBlock
  <1>7. Block(size)
    BY PropertyBlock, EmptyBlock
  <1> HIDE DEF need, area, create, up, down, size
  <1>8. Block(need \o area \o create)
    BY <1>3, <1>4, <1>5, BlockConcat, Zenon
  <1> QED
    BY <1>1, <1>6, <1>7, <1>8, BlockConcat, Zenon

LEMMA PlacedBlock ==
  ASSUME NEW id, NEW parent, NEW location, NEW mirrored, NEW evidence
  PROVE  Block(Placed(id, parent, location, mirrored, evidence))
  <1> DEFINE up == CreateRelation(id, "belongs_to", parent, evidence)
             down == CreateRelation(parent, "contains", id, evidence)
             in == CreateRelation(id, "located_in", location, evidence)
             first == IF parent = "none" THEN <<>> ELSE IF mirrored THEN up \o down ELSE down \o up
             second == IF location = "none" THEN <<>> ELSE in
  <1>1. Placed(id, parent, location, mirrored, evidence) = first \o second
    BY Zenon DEF Placed
  <1>2. Block(up) /\ Block(down) /\ Block(in)
    BY RelationBlock
  <1> HIDE DEF up, down, in
  <1>3. Block(up \o down) /\ Block(down \o up)
    BY <1>2, BlockConcat
  <1>4. Block(first) /\ Block(second)
    BY <1>2, <1>3, EmptyBlock
  <1> QED
    BY <1>1, <1>4, BlockConcat, Zenon

LEMMA SystemBlock == ASSUME NEW o PROVE Block(CreateSystem(o))
  <1> DEFINE id == <<"system", o.discipline, o.name>>
             known == IF o.discipline \in Disciplines THEN <<>> ELSE Refuse
             parent == IF o.parent = "none" THEN <<>>
                       ELSE NeedObject(o.parent, {"technical_system"}, {o.discipline})
             location == IF o.location = "none" THEN <<>> ELSE NeedLocation(o.location)
             create == CreateObject(id, "technical_system", o.discipline, o.evidence)
             placed == Placed(id, o.parent, o.location, FALSE, o.evidence)
  <1>1. CreateSystem(o) = known \o parent \o location \o create \o placed
    BY Zenon DEF CreateSystem
  <1>2. ~IsResolution(id)
    BY DEF IsResolution
  <1> HIDE DEF id
  <1>3. Block(known) /\ Block(parent) /\ Block(location)
    BY LookupBlocks, EmptyBlock
  <1>4. Block(create) /\ Block(placed)
    BY <1>2, ObjectBlock, PlacedBlock
  <1> HIDE DEF known, parent, location, create, placed
  <1>5. Block(known \o parent \o location)
    BY <1>3, BlockConcat, Zenon
  <1> QED
    BY <1>1, <1>4, <1>5, BlockConcat, Zenon

LEMMA ComponentBlock == ASSUME NEW o PROVE Block(CreateComponent(o))
  <1> DEFINE id == <<"component", o.discipline, o.name>>
             known == IF o.discipline \in Disciplines THEN <<>> ELSE Refuse
             parent == IF o.parent = "none" THEN <<>>
                       ELSE NeedObject(o.parent, {"technical_system"}, {o.discipline, "generic"})
             location == IF o.location = "none" THEN <<>> ELSE NeedLocation(o.location)
             create == CreateObject(id, "technical_component", o.discipline, o.evidence)
             placed == Placed(id, o.parent, o.location, TRUE, o.evidence)
  <1>1. CreateComponent(o) = known \o parent \o location \o create \o placed
    BY Zenon DEF CreateComponent
  <1>2. ~IsResolution(id)
    BY DEF IsResolution
  <1> HIDE DEF id
  <1>3. Block(known) /\ Block(parent) /\ Block(location)
    BY LookupBlocks, EmptyBlock
  <1>4. Block(create) /\ Block(placed)
    BY <1>2, ObjectBlock, PlacedBlock
  <1> HIDE DEF known, parent, location, create, placed
  <1>5. Block(known \o parent \o location)
    BY <1>3, BlockConcat, Zenon
  <1> QED
    BY <1>1, <1>4, <1>5, BlockConcat, Zenon

LEMMA ConnectBlocks ==
  ASSUME NEW o
  PROVE  Block(ConnectSystems(o)) /\ Block(AssignService(o)) /\ Block(ConnectComponents(o))
  <1> DEFINE relation == CreateRelation(o.source, o.type, o.target, o.evidence)
             as(types) == IF o.type \in types THEN <<>> ELSE Refuse
  <1>1. \A types : Block(as(types))
    BY LookupBlocks, EmptyBlock
  <1>2. Block(relation)
    BY RelationBlock
  <1>3. /\ ConnectSystems(o) = NeedSystem(o.source) \o NeedSystem(o.target) \o as(SystemRelations) \o relation
        /\ AssignService(o) = NeedSystem(o.source) \o NeedLocation(o.target) \o as(ServiceRelations) \o relation
        /\ ConnectComponents(o) =
             NeedComponent(o.source) \o NeedComponent(o.target) \o as(ComponentRelations) \o relation
    BY Zenon DEF ConnectSystems, AssignService, ConnectComponents
  <1>4. \A id : Block(NeedSystem(id)) /\ Block(NeedLocation(id)) /\ Block(NeedComponent(id))
    BY LookupBlocks
  <1> HIDE DEF relation, as
  <1>5. \A cs, ds, es, fs : Block(cs) /\ Block(ds) /\ Block(es) /\ Block(fs) => Block(cs \o ds \o es \o fs)
    BY BlockConcat, Zenon
  <1> QED
    BY <1>1, <1>2, <1>3, <1>4, <1>5

LEMMA AddPropertyBlock == ASSUME NEW o PROVE Block(AddProperty(o))
  <1>1. Block(NeedComponent(o.owner)) /\ Block(CreateProperty(o.owner, o.name, o.value, o.evidence))
    BY LookupBlocks, PropertyBlock
  <1> QED
    BY <1>1, BlockConcat, Zenon DEF AddProperty

LEMMA FirstOf ==
  ASSUME NEW T \in SUBSET Nat, T # {}
  PROVE  \E i \in T : \A m \in T : i <= m
  <1>1. PICK i \in T : \A m \in T : ~(<<m, i>> \in OpToRel(<, Nat))
    BY NatLessThanWellFounded, WFMin, Zenon
  <1>2. \A m \in T : ~(m < i)
    BY <1>1 DEF OpToRel
  <1> QED
    BY <1>2

\* A sequence that is put together step by step is there, and each step is as it says.
Built(f, n, a, b) == f = [i \in 0..n |-> IF i = 0 THEN <<>> ELSE f[i-1] \o a[i] \o b[i]]

LEMMA PutTogether ==
  ASSUME NEW n \in Nat, NEW a, NEW b
  PROVE  \E f : Built(f, n, a, b)
  <1> DEFINE P(k) == \E f : f = [i \in 0..k |-> IF i = 0 THEN <<>> ELSE f[i-1] \o a[i] \o b[i]]
             T == {k \in Nat : ~P(k)}
  <1>1. P(0)
    <2> DEFINE f == [i \in 0..0 |-> <<>>]
    <2>1. f = [i \in 0..0 |-> IF i = 0 THEN <<>> ELSE f[i-1] \o a[i] \o b[i]]
      OBVIOUS
    <2> QED
      BY <2>1
  <1>2. ASSUME NEW k \in Nat, P(k)
        PROVE  P(k+1)
    <2>1. PICK f : f = [i \in 0..k |-> IF i = 0 THEN <<>> ELSE f[i-1] \o a[i] \o b[i]]
      BY <1>2
    <2> DEFINE g == [i \in 0..(k+1) |-> IF i = k + 1 THEN f[k] \o a[k+1] \o b[k+1] ELSE f[i]]
    <2>2. \A i \in 0..(k+1) : g[i] = IF i = 0 THEN <<>> ELSE g[i-1] \o a[i] \o b[i]
      <3> SUFFICES ASSUME NEW i \in 0..(k+1)
                   PROVE  g[i] = IF i = 0 THEN <<>> ELSE g[i-1] \o a[i] \o b[i]
        OBVIOUS
      <3>1. CASE i = k + 1
        <4>1. i - 1 = k /\ k \in 0..(k+1) /\ k # k + 1 /\ i # 0
          BY <3>1
        <4>2. g[i] = f[k] \o a[k+1] \o b[k+1]
          BY <3>1
        <4>3. g[i-1] = f[k]
          BY <4>1
        <4> HIDE DEF g
        <4> QED
          BY <3>1, <4>1, <4>2, <4>3
      <3>2. CASE i # k + 1
        <4>1. i \in 0..k /\ g[i] = f[i] /\ f[i] = IF i = 0 THEN <<>> ELSE f[i-1] \o a[i] \o b[i]
          BY <2>1, <3>2
        <4>2. i # 0 => g[i-1] = f[i-1]
          BY <3>2
        <4> QED
          BY <4>1, <4>2
      <3> QED
        BY <3>1, <3>2
    <2>3. g = [i \in 0..(k+1) |-> g[i]]
      OBVIOUS
    <2> HIDE DEF g
    <2>4. g = [i \in 0..(k+1) |-> IF i = 0 THEN <<>> ELSE g[i-1] \o a[i] \o b[i]]
      BY <2>2, <2>3
    <2> QED
      BY <2>4
  <1> HIDE DEF P
  <1>3. T = {}
    <2> SUFFICES ASSUME T # {}
                 PROVE  FALSE
      OBVIOUS
    <2>1. PICK k \in T : \A m \in T : k <= m
      <3> T \in SUBSET Nat
        OBVIOUS
      <3> HIDE DEF T
      <3> QED
        BY FirstOf
    <2>2. k \in Nat /\ ~P(k) /\ \A m \in Nat : ~P(m) => ~(m < k)
      BY <2>1
    <2>3. k # 0 /\ k - 1 \in Nat /\ k - 1 < k /\ (k - 1) + 1 = k
      BY <1>1, <2>2
    <2>4. P(k - 1)
      BY <2>2, <2>3
    <2> QED
      BY <1>2, <2>2, <2>3, <2>4
  <1>4. P(n)
    BY <1>3
  <1> QED
    BY <1>4 DEF P, Built

LEMMA ZoneRelationsBlock ==
  ASSUME NEW id, NEW spaces, NEW evidence, Len(spaces) \in Nat
  PROVE  Block(ZoneRelations(id, spaces, evidence))
  <1> DEFINE n == Len(spaces)
             a == [i \in 1..n |-> CreateRelation(id, "contains", spaces[i], evidence)]
             b == [i \in 1..n |-> CreateRelation(spaces[i], "belongs_to", id, evidence)]
             Of[i \in 0..n] == IF i = 0 THEN <<>>
                               ELSE Of[i-1] \o CreateRelation(id, "contains", spaces[i], evidence)
                                            \o CreateRelation(spaces[i], "belongs_to", id, evidence)
  <1>1. ZoneRelations(id, spaces, evidence) = Of[n]
    BY DEF ZoneRelations
  <1>2. \A i \in 1..n : a[i] = CreateRelation(id, "contains", spaces[i], evidence)
                        /\ b[i] = CreateRelation(spaces[i], "belongs_to", id, evidence)
    OBVIOUS
  <1> DEFINE Step(f) == f = [i \in 0..n |-> IF i = 0 THEN <<>>
                               ELSE f[i-1] \o CreateRelation(id, "contains", spaces[i], evidence)
                                           \o CreateRelation(spaces[i], "belongs_to", id, evidence)]
  <1>3. \E f : Step(f)
    <2>0. n \in Nat
      OBVIOUS
    <2> HIDE DEF a, b
    <2>a. PICK f : Built(f, n, a, b)
      <3> HIDE DEF n
      <3> QED
        BY <2>0, PutTogether, Zenon
    <2>1. f = [i \in 0..n |-> IF i = 0 THEN <<>> ELSE f[i-1] \o a[i] \o b[i]]
      BY <2>a DEF Built
    <2>2. \A i \in 0..n : i # 0 => i \in 1..n
      OBVIOUS
    <2>3. [i \in 0..n |-> IF i = 0 THEN <<>> ELSE f[i-1] \o a[i] \o b[i]] =
          [i \in 0..n |-> IF i = 0 THEN <<>>
                          ELSE f[i-1] \o CreateRelation(id, "contains", spaces[i], evidence)
                                      \o CreateRelation(spaces[i], "belongs_to", id, evidence)]
      BY <1>2, <2>2
    <2> QED
      BY <2>1, <2>3
  <1>4. Of = CHOOSE f : Step(f)
    BY DEF Of
  <1> HIDE DEF Of
  <1>5. Step(Of)
    <2> HIDE DEF Step
    <2> QED
      BY <1>3, <1>4, Zenon
  <1>6. ASSUME NEW i \in 0..n, i = 0 \/ Block(Of[i-1])
        PROVE  Block(Of[i])
    <2>1. CASE i = 0
      BY <1>5, <2>1, EmptyBlock
    <2>2. CASE i # 0
      <3>1. Of[i] = Of[i-1] \o CreateRelation(id, "contains", spaces[i], evidence)
                           \o CreateRelation(spaces[i], "belongs_to", id, evidence)
        BY <1>5, <2>2
      <3>2. Block(Of[i-1])
        BY <1>6, <2>2
      <3> QED
        BY <3>1, <3>2, RelationBlock, BlockConcat, Zenon
    <2> QED
      BY <2>1, <2>2
  <1> HIDE DEF Step
  <1> DEFINE T == {i \in 0..n : ~Block(Of[i])}
  <1>7. T = {}
    <2> SUFFICES ASSUME T # {}
                 PROVE  FALSE
      OBVIOUS
    <2>1. T \in SUBSET Nat
      OBVIOUS
    <2>2. PICK i \in T : \A m \in T : i <= m
      <3> HIDE DEF T
      <3> QED
        BY <2>1, FirstOf
    <2>3. i \in 0..n /\ ~Block(Of[i]) /\ \A m \in 0..n : ~Block(Of[m]) => ~(m < i)
      BY <2>2
    <2>4. i # 0 => i - 1 \in 0..n /\ i - 1 < i
      BY <2>3
    <2>5. i = 0 \/ Block(Of[i-1])
      BY <2>3, <2>4
    <2> QED
      BY <1>6, <2>3, <2>5
  <1>8. Block(Of[n])
    BY <1>7
  <1> QED
    BY <1>1, <1>8

LEMMA ZoneBlock ==
  ASSUME NEW o, Len(o.spaces) \in Nat
  PROVE  Block(CreateZone(o))
  <1> DEFINE id == <<"zone", o.name, Counted(o.spaces)>>
             need == IF o.spaces = <<>> THEN Refuse ELSE NeedSpaces(o.spaces)
             create == CreateObject(id, "zone", "building", o.evidence)
             relations == ZoneRelations(id, o.spaces, o.evidence)
  <1>1. CreateZone(o) = need \o create \o relations
    BY Zenon DEF CreateZone
  <1>2. Block(NeedSpaces(o.spaces))
    <2> DEFINE call(i) == [op |-> "object", id |-> o.spaces[i], types |-> {"space"}, disciplines |-> {}]
               n == Len(o.spaces)
               cs == [i \in 1..n |-> call(i)]
    <2>1. cs = NeedSpaces(o.spaces)
      BY Zenon DEF NeedSpaces
    <2>2. \A i \in 1..n : cs[i].op = "object"
      OBVIOUS
    <2>3. cs \in Seq({call(i) : i \in 1..n}) /\ Len(cs) = n
      <3> HIDE DEF call
      <3> QED
        OBVIOUS
    <2> HIDE DEF cs, call
    <2>4. \A i \in 1..n : /\ IsCall(cs[i]) /\ Needs(cs[i]) = {}
                          /\ ~Writes(cs[i]) /\ ~IsHistory(cs[i]) /\ ~Resolves(cs[i])
      BY <2>2 DEF IsCall, Needs, Writes, IsHistory, Resolves
    <2>5. IsSeq(cs) /\ (cs # <<>> => 1 \in 1..n)
      BY <2>3, SeqLength DEF IsSeq
    <2> HIDE DEF n
    <2>a. Follows({}, cs)
      BY <2>3, <2>4 DEF Follows
    <2>b. Recording(cs)
      BY <2>3, <2>4 DEF Recording
    <2>6. Block(cs)
      BY <2>2, <2>3, <2>4, <2>5, <2>a, <2>b DEF Block
    <2> QED
      BY <2>1, <2>6
  <1>3. Block(need)
    BY <1>2, LookupBlocks
  <1>4. ~IsResolution(id)
    BY DEF IsResolution
  <1>5. Block(create) /\ Block(relations)
    BY <1>4, ObjectBlock, ZoneRelationsBlock
  <1> HIDE DEF need, create, relations
  <1> QED
    BY <1>1, <1>3, <1>5, BlockConcat, Zenon

LEMMA OrderBlock ==
  ASSUME NEW o \in Orders
  PROVE  Block(Calls(o))
  <1>1. CASE o.kind = "evidence"
    BY <1>1, LookupBlocks DEF Calls
  <1>2. CASE o.kind = "object"
    BY <1>2, ObjectBlock, OrdersAssumption DEF Calls
  <1>3. CASE o.kind = "relation"
    BY <1>3, RelationBlock DEF Calls
  <1>4. CASE o.kind = "building"
    <2>1. ~IsResolution(<<"building", o.name>>)
      BY DEF IsResolution
    <2>2. Block(CreateBuilding(o))
      BY <2>1, ObjectBlock, Zenon DEF CreateBuilding
    <2> QED
      BY <1>4, <2>2 DEF Calls
  <1>5. CASE o.kind = "floor"
    BY <1>5, FloorBlock DEF Calls
  <1>6. CASE o.kind = "space"
    BY <1>6, SpaceBlock DEF Calls
  <1>7. CASE o.kind = "zone"
    BY <1>7, ZoneBlock, OrdersAssumption DEF Calls
  <1>8. CASE o.kind = "system"
    BY <1>8, SystemBlock DEF Calls
  <1>9. CASE o.kind = "component"
    BY <1>9, ComponentBlock DEF Calls
  <1>10. CASE o.kind = "connect_systems"
    BY <1>10, ConnectBlocks DEF Calls
  <1>11. CASE o.kind = "serve"
    BY <1>11, ConnectBlocks DEF Calls
  <1>12. CASE o.kind = "connect_components"
    BY <1>12, ConnectBlocks DEF Calls
  <1>13. CASE o.kind = "property"
    BY <1>13, AddPropertyBlock DEF Calls
  <1> QED
    BY <1>1, <1>2, <1>3, <1>4, <1>5, <1>6, <1>7, <1>8, <1>9, <1>10, <1>11, <1>12, <1>13, OrdersAssumption

-----------------------------------------------------------------------------
(* The inductive invariant                                                 *)

\* Nothing but a relation has the identifier of a resolution.
IsSound(g) == IsGraph(g) /\ \A e \in g.objects \cup g.properties : ~IsResolution(e.id)

\* A list of calls that is left of a request, when the graph is g and the reviews are ids.
CallsOK(g, ids, cs) ==
    /\ IsSeq(cs)
    /\ Follows(Present(g), cs)
    /\ Recording(cs)
    /\ cs # <<>> /\ IsHistory(cs[1]) => SpeaksOf(g, cs[1].entity)
    /\ \A i \in 1..Len(cs) :
          /\ IsCall(cs[i])
          /\ cs[i].op = "replace" =>
                i = 1 /\ \E o \in g.objects : cs[i].entity = [o EXCEPT !.revision = @ + 1]
          /\ cs[i].op = "review" => i = Len(cs) /\ ids \subseteq cs[i].held

\* Every revision is recorded, the last one perhaps by the next call.
IsRecordedNext(cs, o, n) ==
    cs # <<>> /\ IsHistory(cs[1]) /\ cs[1].entity.entity = o.id /\ cs[1].entity.revision = n

Full(g, cs) ==
    \A o \in g.objects : \A n \in 1..o.revision :
       (\E h \in g.history : h.entity = o.id /\ h.revision = n) \/ IsRecordedNext(cs, o, n)

\* The i-th call saves a review of the candidate.
Reviews(cs, i, candidate) ==
    i \in 1..Len(cs) /\ cs[i].op = "review" /\ \E v \in cs[i].held : v.candidate = candidate

\* What resolves the candidates is one relation for each, and it is reviewed or will be.
Decided(g, ids, cs) ==
    /\ \A r, s \in g.relations :
          IsResolution(r.id) /\ IsResolution(s.id) /\ r.id[2] = s.id[2] => r = s
    /\ \A r \in g.relations : IsResolution(r.id) =>
          \/ \E v \in ids : v.candidate = r.id[2]
          \/ Reviews(cs, 1, r.id[2])
          \/ /\ Reviews(cs, 2, r.id[2])
             /\ IsHistory(cs[1]) /\ \A h \in g.history : h.id # cs[1].entity.id

\* A relation that resolves a candidate is the first for it, and followed by its review.
Resolving(g, cs) ==
    \A i \in 1..Len(cs) : Resolves(cs[i]) =>
       /\ Reviews(cs, i + 2, cs[i].entity.id[2])
       /\ \A r \in g.relations : IsResolution(r.id) => r.id[2] # cs[i].entity.id[2]
       /\ \A k \in 1..Len(cs) : Resolves(cs[k]) => k = i

Working(g, ids, cs) ==
    /\ IsSound(g) /\ CallsOK(g, ids, cs)
    /\ ~load.restarts => Full(g, cs) /\ Decided(g, ids, cs) /\ Resolving(g, cs)

\* The graph that a request works on: the copy that it has loaded, which has what the
\* document has, or the document.
Within(g, h) == Present(g) \subseteq Present(h) /\ g.relations \subseteq h.relations

Ahead(g, q) == IF q.pc = "graph" THEN q.held ELSE g

IsRequest(g, q) ==
    \/ q = [pc |-> "calling", calls |-> q.calls] /\ q.calls # <<>>
    \/ q = [pc |-> "graph", held |-> q.held, calls |-> q.calls] /\ Within(g, q.held)

GraphShape == load.clients \subseteq Clients /\ client = [c \in Clients |-> client[c]]

GraphInv ==
    /\ GraphShape
    /\ Alone =>
          /\ IsSound(store)
          /\ \A v \in identity : Res(v.candidate, v.time) \in Present(store)
          /\ \A c \in Clients : client[c] # Idle =>
                /\ c \in load.clients /\ IsRequest(store, client[c])
                /\ Working(Ahead(store, client[c]), identity, client[c].calls)
          /\ (\A c \in Clients : client[c] = Idle) => Working(store, identity, <<>>)

-----------------------------------------------------------------------------
(* What a graph has                                                        *)

LEMMA InPresent ==
  ASSUME NEW g
  PROVE  /\ \A id : Obj(id) \in Present(g) <=> \E o \in g.objects : o.id = id
         /\ \A id : Ev(id) \in Present(g) <=> \E e \in g.evidence : e.id = id
         /\ \A id, time : Res(id, time) \in Present(g) <=>
               \E r \in g.relations : IsResolution(r.id) /\ r.id[2] = id /\ r.id[4] = time
  BY DEF Present, Obj, Ev, Res

LEMMA PresentIs ==
  ASSUME NEW g, NEW x \in Present(g)
  PROVE  \/ \E o \in g.objects : x = Obj(o.id)
         \/ \E e \in g.evidence : x = Ev(e.id)
         \/ \E r \in g.relations : IsResolution(r.id) /\ x = Res(r.id[2], r.id[4])
  BY DEF Present

\* A graph has more if nothing is taken away.
LEMMA PresentGrows ==
  ASSUME NEW g, NEW new,
         \A o \in g.objects : \E p \in new.objects : p.id = o.id,
         g.evidence \subseteq new.evidence, g.relations \subseteq new.relations
  PROVE  Present(g) \subseteq Present(new)
  <1> SUFFICES ASSUME NEW x \in Present(g)
               PROVE  x \in Present(new)
    OBVIOUS
  <1>1. CASE \E o \in g.objects : x = Obj(o.id)
    BY <1>1, InPresent
  <1>2. CASE \E e \in g.evidence : x = Ev(e.id)
    BY <1>2, InPresent
  <1>3. CASE \E r \in g.relations : IsResolution(r.id) /\ x = Res(r.id[2], r.id[4])
    BY <1>3, InPresent
  <1> QED
    BY <1>1, <1>2, <1>3, PresentIs, Zenon

\* The references of an entity are there.
LEMMA RefsPresent ==
  ASSUME NEW g, NEW e
  PROVE  LET evidence == \A x \in e.evidence : Ev(x) \in Present(g)
         IN  /\ Refs("objects", e) \subseteq Present(g) <=> evidence
             /\ Refs("properties", e) \subseteq Present(g) <=> Obj(e.owner) \in Present(g) /\ evidence
             /\ Refs("relations", e) \subseteq Present(g) <=>
                   Obj(e.source) \in Present(g) /\ Obj(e.target) \in Present(g) /\ evidence
  <1> DEFINE P == Present(g)
  <1> HIDE DEF P
  <1>1. /\ Refs("objects", e) = {Ev(x) : x \in e.evidence}
        /\ Refs("relations", e) = {Obj(e.source), Obj(e.target)} \cup {Ev(x) : x \in e.evidence}
        /\ Refs("properties", e) = {Obj(e.owner)} \cup {Ev(x) : x \in e.evidence}
    BY DEF Refs
  <1>2. {Ev(x) : x \in e.evidence} \subseteq P <=> \A x \in e.evidence : Ev(x) \in P
    OBVIOUS
  <1>3. /\ Refs("objects", e) \subseteq P <=> \A x \in e.evidence : Ev(x) \in P
        /\ Refs("properties", e) \subseteq P <=> Obj(e.owner) \in P /\ \A x \in e.evidence : Ev(x) \in P
        /\ Refs("relations", e) \subseteq P <=>
              Obj(e.source) \in P /\ Obj(e.target) \in P /\ \A x \in e.evidence : Ev(x) \in P
    BY <1>1, <1>2
  <1> QED
    BY <1>3, Zenon DEF P

LEMMA NoErrors ==
  ASSUME NEW g
  PROVE  Errors(g) = {} <=>
            /\ \A e \in g.objects : Refs("objects", e) \subseteq Present(g)
            /\ \A e \in g.relations : Refs("relations", e) \subseteq Present(g)
            /\ \A e \in g.properties : Refs("properties", e) \subseteq Present(g)
  <1> DEFINE objects == {o.id : o \in g.objects}
             evidence == {f.id : f \in g.evidence}
             P == Present(g)
  <1>1. /\ \A id : Obj(id) \in P <=> id \in objects
        /\ \A id : Ev(id) \in P <=> id \in evidence
    BY InPresent
  <1>2. Errors(g) = {} <=>
           /\ \A e \in g.relations : e.source \in objects /\ e.target \in objects
           /\ \A e \in g.properties : e.owner \in objects
           /\ \A e \in g.objects \cup g.relations \cup g.properties : \A x \in e.evidence : x \in evidence
    BY DEF Errors
  <1> HIDE DEF objects, evidence
  <1>3. Errors(g) = {} <=>
           /\ \A e \in g.relations : Obj(e.source) \in P /\ Obj(e.target) \in P
           /\ \A e \in g.properties : Obj(e.owner) \in P
           /\ \A e \in g.objects \cup g.relations \cup g.properties : \A x \in e.evidence : Ev(x) \in P
    BY <1>1, <1>2
  <1>4. \A e : /\ Refs("objects", e) \subseteq P <=> \A x \in e.evidence : Ev(x) \in P
               /\ Refs("properties", e) \subseteq P <=> Obj(e.owner) \in P /\ \A x \in e.evidence : Ev(x) \in P
               /\ Refs("relations", e) \subseteq P <=>
                     Obj(e.source) \in P /\ Obj(e.target) \in P /\ \A x \in e.evidence : Ev(x) \in P
    BY RefsPresent
  <1> HIDE DEF P
  <1>5. Errors(g) = {} <=>
           /\ \A e \in g.objects : Refs("objects", e) \subseteq P
           /\ \A e \in g.relations : Refs("relations", e) \subseteq P
           /\ \A e \in g.properties : Refs("properties", e) \subseteq P
    BY <1>3, <1>4
  <1> QED
    BY <1>5 DEF P

-----------------------------------------------------------------------------
(* A call is done, and the others are left                                 *)

LEMMA IsTail ==
  ASSUME NEW cs, IsSeq(cs), cs # <<>>
  PROVE  /\ IsSeq(Tail(cs)) /\ Head(cs) = cs[1]
         /\ Len(cs) \in Nat \ {0} /\ Len(Tail(cs)) = Len(cs) - 1
         /\ \A i \in 1..(Len(cs) - 1) : Tail(cs)[i] = cs[i+1]
  <1>1. PICK S : cs \in Seq(S)
    BY DEF IsSeq
  <1> QED
    BY <1>1, HeadTailProperties DEF IsSeq

\* What the call that is done relied on is not needed any more.
LEMMA TailLists ==
  ASSUME NEW cs, NEW P, NEW Q, IsSeq(cs), cs # <<>>, Follows(P, cs), Recording(cs),
         P \subseteq Q, Gives(cs[1]) \subseteq Q
  PROVE  Follows(Q, Tail(cs)) /\ Recording(Tail(cs))
  <1> DEFINE ts == Tail(cs)
             n == Len(cs)
  <1>1. n \in Nat \ {0} /\ Len(ts) = n - 1 /\ \A i \in 1..(n-1) : ts[i] = cs[i+1]
    BY IsTail
  <1> HIDE DEF ts
  <1>2. Follows(Q, ts)
    <2> SUFFICES ASSUME NEW i \in 1..(n-1), NEW x \in Needs(ts[i]), x \notin Q
                 PROVE  \E j \in 1..(i-1) : x \in Gives(ts[j])
      BY <1>1 DEF Follows
    <2>1. i + 1 \in 1..n /\ x \in Needs(cs[i+1])
      BY <1>1
    <2>2. PICK j \in 1..(i+1-1) : x \in Gives(cs[j])
      BY <2>1 DEF Follows
    <2>3. j # 1
      BY <2>2
    <2>4. j - 1 \in 1..(i-1) /\ j - 1 \in 1..(n-1)
      BY <1>1, <2>3
    <2>5. ts[j-1] = cs[j-1+1]
      BY <1>1, <2>4
    <2>6. ts[j-1] = cs[j]
      BY <2>5
    <2> QED
      BY <2>2, <2>4, <2>6
  <1>3. Recording(ts)
    <2>1. ASSUME NEW i \in 1..(n-1), Writes(ts[i])
          PROVE  i < n-1 /\ Records(ts[i], ts[i+1])
      <3>1. i + 1 \in 1..n /\ ts[i] = cs[i+1]
        BY <1>1
      <3>2. i + 1 < n /\ Records(cs[i+1], cs[i+1+1])
        BY <2>1, <3>1 DEF Recording
      <3>3. i + 1 \in 1..(n-1)
        BY <1>1, <3>2
      <3> QED
        BY <1>1, <3>1, <3>2, <3>3
    <2>2. ASSUME NEW i \in 2..(n-1), IsHistory(ts[i])
          PROVE  Records(ts[i-1], ts[i])
      <3>1. i + 1 \in 2..n /\ ts[i] = cs[i+1] /\ i - 1 \in 1..(n-1)
        BY <1>1
      <3>2. Records(cs[i+1-1], cs[i+1])
        BY <2>2, <3>1 DEF Recording
      <3>3. ts[i-1] = cs[i-1+1]
        BY <1>1, <3>1
      <3>4. i-1+1 = i+1-1
        BY <1>1
      <3> QED
        BY <3>1, <3>2, <3>3, <3>4
    <2> QED
      BY <1>1, <2>1, <2>2 DEF Recording
  <1> QED
    BY <1>2, <1>3 DEF ts

LEMMA TailOK ==
  ASSUME NEW g, NEW new, NEW ids, NEW cs, CallsOK(g, ids, cs), cs # <<>>,
         Present(g) \subseteq Present(new), Gives(cs[1]) \subseteq Present(new),
         \A h : Records(cs[1], h) => SpeaksOf(new, h.entity)
  PROVE  CallsOK(new, ids, Tail(cs))
  <1> DEFINE ts == Tail(cs)
             n == Len(cs)
             P == Present(g)
             Q == Present(new)
  <1>1. /\ n \in Nat \ {0} /\ Len(ts) = n - 1 /\ IsSeq(ts)
        /\ \A i \in 1..(n-1) : ts[i] = cs[i+1]
    BY IsTail DEF CallsOK
  <1>2. Follows(P, cs) /\ Recording(cs) /\ IsSeq(cs)
    BY DEF CallsOK
  <1>3. P \subseteq Q /\ Gives(cs[1]) \subseteq Q
    OBVIOUS
  <1> HIDE DEF ts, P, Q
  <1>4. Follows(Q, ts) /\ Recording(ts)
    BY <1>2, <1>3, TailLists DEF ts
  <1>5. ts # <<>> /\ IsHistory(ts[1]) => SpeaksOf(new, ts[1].entity)
    <2> SUFFICES ASSUME ts # <<>>, IsHistory(ts[1])
                 PROVE  SpeaksOf(new, ts[1].entity)
      OBVIOUS
    <2>1. n - 1 # 0
      BY <1>1, SeqLength
    <2>2. 2 \in 2..n /\ ts[1] = cs[2]
      BY <1>1, <2>1
    <2>3. Records(cs[2-1], cs[2])
      BY <1>2, <2>2 DEF Recording
    <2> QED
      BY <2>2, <2>3
  <1>6. \A i \in 1..Len(ts) :
          /\ IsCall(ts[i]) /\ ts[i].op # "replace"
          /\ ts[i].op = "review" => i = Len(ts) /\ ids \subseteq ts[i].held
    <2> TAKE i \in 1..Len(ts)
    <2>1. i + 1 \in 1..n /\ ts[i] = cs[i+1] /\ i + 1 # 1
      BY <1>1
    <2> QED
      BY <1>1, <2>1 DEF CallsOK
  <1> QED
    BY <1>1, <1>4, <1>5, <1>6 DEF CallsOK, ts, Q

-----------------------------------------------------------------------------
(* What a save does to the graph                                           *)

Collections == {"objects", "relations", "properties", "evidence", "history"}

LEMMA AddedFields ==
  ASSUME NEW g, g = [k \in Collections |-> g[k]], NEW coll \in Collections, NEW e
  PROVE  LET new == [g EXCEPT ![coll] = @ \cup {e}]
         IN  /\ new = [k \in Collections |-> new[k]]
             /\ \A k \in Collections : new[k] = IF k = coll THEN g[k] \cup {e} ELSE g[k]
  BY DEF Collections

\* The history speaks of a graph also when it has grown.
LEMMA SpeaksOn ==
  ASSUME NEW g, NEW new, NEW h, SpeaksOf(g, h),
         \A o \in g.objects : \E p \in new.objects :
            p.id = o.id /\ (h.revision <= o.revision => h.revision <= p.revision),
         g.relations \subseteq new.relations, g.properties \subseteq new.properties
  PROVE  SpeaksOf(new, h)
  <1>1. CASE \E o \in g.objects : o.id = h.entity /\ h.revision <= o.revision
    BY <1>1 DEF SpeaksOf
  <1>2. CASE \E e \in g.relations \cup g.properties : e.id = h.entity /\ h.revision = 1
    BY <1>2 DEF SpeaksOf
  <1> QED
    BY <1>1, <1>2 DEF SpeaksOf

LEMMA AddedGraph ==
  ASSUME NEW g, NEW coll \in Collections, NEW e, IsSound(g),
         e.id \notin {x.id : x \in g[coll]}, Refs(coll, e) \subseteq Present(g),
         coll = "objects" =>
            /\ e = [k \in {"id", "type", "discipline", "revision", "evidence"} |-> e[k]]
            /\ e.revision = 1,
         coll = "relations" => e.source # e.target,
         coll \in {"objects", "properties"} => ~IsResolution(e.id),
         coll = "history" => SpeaksOf(g, e)
  PROVE  LET new == [g EXCEPT ![coll] = @ \cup {e}]
         IN  IsSound(new) /\ Present(g) \subseteq Present(new)
  <1> DEFINE new == [g EXCEPT ![coll] = @ \cup {e}]
  <1>1. g = [k \in Collections |-> g[k]]
    BY DEF IsSound, IsGraph, Collections
  <1>2. /\ new = [k \in Collections |-> new[k]]
        /\ \A k \in Collections : new[k] = IF k = coll THEN g[k] \cup {e} ELSE g[k]
    BY <1>1, AddedFields
  <1> HIDE DEF new
  <1>3. /\ new.objects = IF coll = "objects" THEN g.objects \cup {e} ELSE g.objects
        /\ new.relations = IF coll = "relations" THEN g.relations \cup {e} ELSE g.relations
        /\ new.properties = IF coll = "properties" THEN g.properties \cup {e} ELSE g.properties
        /\ new.evidence = IF coll = "evidence" THEN g.evidence \cup {e} ELSE g.evidence
        /\ new.history = IF coll = "history" THEN g.history \cup {e} ELSE g.history
    BY <1>2 DEF Collections
  <1>4. Present(g) \subseteq Present(new)
    BY <1>3, PresentGrows
  <1>5. Errors(new) = {}
    <2>1. /\ \A x \in g.objects : Refs("objects", x) \subseteq Present(g)
          /\ \A x \in g.relations : Refs("relations", x) \subseteq Present(g)
          /\ \A x \in g.properties : Refs("properties", x) \subseteq Present(g)
      BY NoErrors DEF IsSound, IsGraph
    <2>2. /\ \A x \in new.objects : Refs("objects", x) \subseteq Present(new)
          /\ \A x \in new.relations : Refs("relations", x) \subseteq Present(new)
          /\ \A x \in new.properties : Refs("properties", x) \subseteq Present(new)
      BY <1>3, <1>4, <2>1
    <2> QED
      BY <2>2, NoErrors
  <1>6. \A h \in new.history : SpeaksOf(new, h)
    <2>1. \A h : SpeaksOf(g, h) => SpeaksOf(new, h)
      BY <1>3, SpeaksOn
    <2> QED
      BY <1>3, <2>1 DEF IsSound, IsGraph
  <1>7. \A o \in new.objects :
          /\ o = [k \in {"id", "type", "discipline", "revision", "evidence"} |-> o[k]]
          /\ o.revision \in Nat \ {0}
    BY <1>3 DEF IsSound, IsGraph
  <1>8. \A o, p \in new.objects : o.id = p.id => o = p
    BY <1>3 DEF IsSound, IsGraph
  <1>9. \A r \in new.relations : r.source # r.target
    BY <1>3 DEF IsSound, IsGraph
  <1>10. \A x \in new.objects \cup new.properties : ~IsResolution(x.id)
    BY <1>3 DEF IsSound
  <1>11. IsSound(new)
    BY <1>2, <1>5, <1>6, <1>7, <1>8, <1>9, <1>10 DEF IsSound, IsGraph, Collections
  <1> QED
    BY <1>4, <1>11 DEF new

\* An object is replaced by its next revision.
LEMMA ReplacedGraph ==
  ASSUME NEW g, IsSound(g), NEW o \in g.objects
  PROVE  LET e == [o EXCEPT !.revision = @ + 1]
             new == [g EXCEPT !.objects = {IF x.id = e.id THEN e ELSE x : x \in @}]
         IN  /\ IsSound(new) /\ Present(g) \subseteq Present(new)
             /\ e.id = o.id /\ e.revision = o.revision + 1
             /\ e \in new.objects /\ \A x \in new.objects : x = e \/ x \in g.objects
             /\ new.relations = g.relations /\ new.history = g.history
  <1> DEFINE e == [o EXCEPT !.revision = @ + 1]
             new == [g EXCEPT !.objects = {IF x.id = e.id THEN e ELSE x : x \in @}]
             Fields == {"id", "type", "discipline", "revision", "evidence"}
  <1>1. g = [k \in Collections |-> g[k]] /\ o = [k \in Fields |-> o[k]] /\ o.revision \in Nat \ {0}
    BY DEF IsSound, IsGraph, Collections
  <1>2. /\ e = [k \in Fields |-> e[k]]
        /\ e.id = o.id /\ e.revision = o.revision + 1 /\ e.evidence = o.evidence
    BY <1>1
  <1>3. /\ new = [k \in Collections |-> new[k]]
        /\ new.objects = {IF x.id = e.id THEN e ELSE x : x \in g.objects}
        /\ new.relations = g.relations /\ new.properties = g.properties
        /\ new.evidence = g.evidence /\ new.history = g.history
    BY <1>1 DEF Collections
  <1> HIDE DEF e, new
  <1>4. /\ e \in new.objects
        /\ \A x \in g.objects : x.id # o.id => x \in new.objects
        /\ \A x \in new.objects : x = e \/ (x \in g.objects /\ x.id # o.id)
    BY <1>2, <1>3
  <1>u. \A x \in g.objects : x.id = o.id => x = o
    BY DEF IsSound, IsGraph
  <1>5. \A x \in g.objects : x # o => x \in new.objects
    BY <1>4, <1>u
  <1>6. \A x \in g.objects : \E p \in new.objects : p.id = x.id
    BY <1>2, <1>4
  <1>7. Present(g) \subseteq Present(new)
    BY <1>3, <1>6, PresentGrows
  <1>8. Errors(new) = {}
    <2>1. /\ \A x \in g.objects : Refs("objects", x) \subseteq Present(g)
          /\ \A x \in g.relations : Refs("relations", x) \subseteq Present(g)
          /\ \A x \in g.properties : Refs("properties", x) \subseteq Present(g)
      BY NoErrors DEF IsSound, IsGraph
    <2>2. Refs("objects", e) = Refs("objects", o)
      BY <1>2 DEF Refs
    <2>3. /\ \A x \in new.objects : Refs("objects", x) \subseteq Present(new)
          /\ \A x \in new.relations : Refs("relations", x) \subseteq Present(new)
          /\ \A x \in new.properties : Refs("properties", x) \subseteq Present(new)
      BY <1>3, <1>4, <1>7, <2>1, <2>2
    <2> QED
      BY <2>3, NoErrors
  <1>9. \A h \in new.history : SpeaksOf(new, h)
    <2> SUFFICES ASSUME NEW h \in g.history
                 PROVE  SpeaksOf(new, h)
      BY <1>3
    <2>1. SpeaksOf(g, h) /\ h.revision \in Nat
      BY DEF IsSound, IsGraph, SpeaksOf
    <2>2. \A x \in g.objects : \E p \in new.objects :
             p.id = x.id /\ (h.revision <= x.revision => h.revision <= p.revision)
      <3> TAKE x \in g.objects
      <3>1. CASE x = o
        BY <1>1, <1>2, <1>4, <2>1, <3>1
      <3>2. CASE x # o
        BY <1>5, <3>2
      <3> QED
        BY <3>1, <3>2
    <2> QED
      BY <1>3, <2>1, <2>2, SpeaksOn
  <1>10. \A x \in new.objects : x = [k \in Fields |-> x[k]] /\ x.revision \in Nat \ {0}
    BY <1>1, <1>2, <1>4 DEF IsSound, IsGraph
  <1>11. \A x, p \in new.objects : x.id = p.id => x = p
    BY <1>2, <1>4 DEF IsSound, IsGraph
  <1>12. /\ \A r \in new.relations : r.source # r.target
         /\ \A x \in new.objects \cup new.properties : ~IsResolution(x.id)
    BY <1>2, <1>3, <1>4 DEF IsSound, IsGraph
  <1>13. IsSound(new)
    BY <1>3, <1>8, <1>9, <1>10, <1>11, <1>12 DEF IsSound, IsGraph, Collections
  <1>14. \A x \in new.objects : x = e \/ x \in g.objects
    BY <1>4
  <1> QED
    BY <1>2, <1>3, <1>4, <1>7, <1>13, <1>14 DEF e, new

-----------------------------------------------------------------------------
(* What the rest of a request has to do with the graph                     *)

LEMMA FirstCall ==
  ASSUME NEW g, NEW ids, NEW cs, CallsOK(g, ids, cs), cs # <<>>
  PROVE  /\ 1 \in 1..Len(cs) /\ Len(cs) \in Nat \ {0} /\ IsSeq(cs) /\ Head(cs) = cs[1]
         /\ IsCall(cs[1]) /\ Needs(cs[1]) \subseteq Present(g)
         /\ ~(IsHistory(cs[1]) /\ Writes(cs[1])) /\ ~(IsHistory(cs[1]) /\ Resolves(cs[1]))
  <1>1. 1 \in 1..Len(cs) /\ Len(cs) \in Nat \ {0} /\ IsSeq(cs) /\ Head(cs) = cs[1]
    BY IsTail DEF CallsOK
  <1>2. IsCall(cs[1]) /\ Follows(Present(g), cs)
    BY <1>1 DEF CallsOK
  <1>3. Needs(cs[1]) \subseteq Present(g)
    BY <1>1, <1>2 DEF Follows
  <1> QED
    BY <1>1, <1>2, <1>3 DEF IsHistory, Writes, Resolves

LEMMA EmptyRest ==
  ASSUME NEW g, NEW ids
  PROVE  CallsOK(g, ids, <<>>) /\ Resolving(g, <<>>)
  <1>1. Len(<<>>) = 0 /\ <<>> \in Seq({})
    OBVIOUS
  <1> QED
    BY <1>1 DEF CallsOK, IsSeq, Follows, Recording, Resolving

\* Unless the next call records it, every revision is recorded, whatever is left.
LEMMA FullAlready ==
  ASSUME NEW g, NEW cs, NEW ds, Full(g, cs),
         cs # <<>> /\ IsHistory(cs[1]) => \E h \in g.history :
            h.entity = cs[1].entity.entity /\ h.revision = cs[1].entity.revision
  PROVE  Full(g, ds)
  BY Zenon DEF Full, IsRecordedNext

\* Unless one of the next calls saves the review, what is resolved is reviewed.
LEMMA DecidedAlready ==
  ASSUME NEW g, NEW ids, NEW cs, NEW ds, Decided(g, ids, cs),
         cs # <<>> => cs[1].op # "review",
         cs # <<>> /\ IsHistory(cs[1]) => \E h \in g.history : h.id = cs[1].entity.id
  PROVE  Decided(g, ids, ds) /\ \A r \in g.relations : IsResolution(r.id) =>
                                   \E v \in ids : v.candidate = r.id[2]
  <1>1. \A i, x : Reviews(cs, i, x) => cs # <<>>
    BY DEF Reviews
  <1>2. \A r \in g.relations : IsResolution(r.id) => \E v \in ids : v.candidate = r.id[2]
    <2> SUFFICES ASSUME NEW r \in g.relations, IsResolution(r.id),
                        ~\E v \in ids : v.candidate = r.id[2]
                 PROVE  FALSE
      OBVIOUS
    <2>1. CASE Reviews(cs, 1, r.id[2])
      BY <1>1, <2>1 DEF Reviews
    <2>2. CASE /\ Reviews(cs, 2, r.id[2])
               /\ IsHistory(cs[1]) /\ \A h \in g.history : h.id # cs[1].entity.id
      BY <1>1, <2>2
    <2> QED
      BY <2>1, <2>2 DEF Decided
  <1> QED
    BY <1>2 DEF Decided

LEMMA Forgotten ==
  ASSUME NEW g, NEW ids, NEW cs, Working(g, ids, cs), cs # <<>>, cs[1].op # "review",
         IsHistory(cs[1]) => \E h \in g.history : h.id = cs[1].entity.id
  PROVE  Working(g, ids, <<>>)
  <1>1. IsSound(g) /\ CallsOK(g, ids, cs)
    BY DEF Working
  <1>2. ASSUME IsHistory(cs[1])
        PROVE  \E h \in g.history : /\ h.entity = cs[1].entity.entity
                                    /\ h.revision = cs[1].entity.revision
    <2>1. PICK h \in g.history : h.id = cs[1].entity.id
      BY <1>2
    <2>2. SpeaksOf(g, cs[1].entity) /\ SpeaksOf(g, h)
      BY <1>1, <1>2 DEF CallsOK, IsSound, IsGraph
    <2> QED
      BY <2>1, <2>2 DEF SpeaksOf
  <1>3. ~load.restarts => Full(g, <<>>) /\ Decided(g, ids, <<>>)
    BY <1>2, FullAlready, DecidedAlready DEF Working
  <1> QED
    BY <1>1, <1>3, EmptyRest DEF Working

LEMMA TailResolving ==
  ASSUME NEW g, NEW new, NEW cs, IsSeq(cs), cs # <<>>, Resolving(g, cs),
         \A r \in new.relations : r \in g.relations \/ (IsResolution(r.id) => Resolves(cs[1]))
  PROVE  Resolving(new, Tail(cs))
  <1> DEFINE ts == Tail(cs)
             n == Len(cs)
  <1>1. n \in Nat \ {0} /\ Len(ts) = n - 1 /\ \A i \in 1..(n-1) : ts[i] = cs[i+1]
    BY IsTail
  <1> HIDE DEF ts
  <1>2. SUFFICES ASSUME NEW i \in 1..(n-1), Resolves(ts[i])
                 PROVE  /\ Reviews(ts, i + 2, ts[i].entity.id[2])
                        /\ \A r \in new.relations : IsResolution(r.id) => r.id[2] # ts[i].entity.id[2]
                        /\ \A k \in 1..(n-1) : Resolves(ts[k]) => k = i
    BY <1>1 DEF Resolving, ts
  <1> DEFINE x == cs[i+1].entity.id[2]
  <1>3. i + 1 \in 1..n /\ ts[i] = cs[i+1] /\ Resolves(cs[i+1])
    BY <1>1, <1>2
  <1>4. /\ Reviews(cs, i + 1 + 2, x)
        /\ \A r \in g.relations : IsResolution(r.id) => r.id[2] # x
        /\ \A k \in 1..n : Resolves(cs[k]) => k = i + 1
    BY <1>3 DEF Resolving
  <1>5. ~Resolves(cs[1])
    BY <1>1, <1>4
  <1>6. Reviews(ts, i + 2, x)
    <2>1. i + 1 + 2 \in 1..n /\ cs[i+1+2].op = "review" /\ \E v \in cs[i+1+2].held : v.candidate = x
      BY <1>4 DEF Reviews
    <2>2. i + 2 \in 1..(n-1) /\ ts[i+2] = cs[i+1+2]
      <3>1. i + 2 \in 1..(n-1)
        BY <1>1, <2>1
      <3>2. ts[i+2] = cs[i+2+1] /\ i+2+1 = i+1+2
        BY <1>1, <3>1
      <3> QED
        BY <3>1, <3>2
    <2> QED
      BY <1>1, <2>1, <2>2 DEF Reviews
  <1>7. \A r \in new.relations : IsResolution(r.id) => r.id[2] # x
    BY <1>4, <1>5
  <1>8. \A k \in 1..(n-1) : Resolves(ts[k]) => k = i
    <2> SUFFICES ASSUME NEW k \in 1..(n-1), Resolves(ts[k])
                 PROVE  k = i
      OBVIOUS
    <2>1. k + 1 \in 1..n /\ Resolves(cs[k+1])
      BY <1>1
    <2> QED
      BY <1>4, <2>1
  <1> QED
    BY <1>3, <1>6, <1>7, <1>8

LEMMA LookedUp ==
  ASSUME NEW g, NEW ids, NEW cs, Working(g, ids, cs), cs # <<>>,
         cs[1].op \in {"object", "evidence"}, Gives(cs[1]) \subseteq Present(g)
  PROVE  Working(g, ids, Tail(cs))
  <1>1. IsSound(g) /\ CallsOK(g, ids, cs) /\ IsSeq(cs)
    BY DEF Working, CallsOK
  <1>2. ~IsHistory(cs[1]) /\ cs[1].op # "review" /\ \A h : ~Records(cs[1], h)
    BY DEF IsHistory, Records, Writes
  <1>3. CallsOK(g, ids, Tail(cs))
    BY <1>1, <1>2, TailOK
  <1>4. ASSUME ~load.restarts
        PROVE  Full(g, Tail(cs)) /\ Decided(g, ids, Tail(cs)) /\ Resolving(g, Tail(cs))
    <2>1. Full(g, cs) /\ Decided(g, ids, cs) /\ Resolving(g, cs)
      BY <1>4 DEF Working
    <2>2. Full(g, Tail(cs))
      BY <1>2, <2>1, FullAlready
    <2>3. Decided(g, ids, Tail(cs))
      BY <1>2, <2>1, DecidedAlready
    <2>4. Resolving(g, Tail(cs))
      BY <1>1, <2>1, TailResolving
    <2> QED
      BY <2>2, <2>3, <2>4
  <1> QED
    BY <1>1, <1>3, <1>4 DEF Working

-----------------------------------------------------------------------------
(* The steps on the graph                                                  *)

\* What records the entity that was written is left of the request.
LEMMA RecordIsNext ==
  ASSUME NEW g, NEW ids, NEW cs, CallsOK(g, ids, cs), cs # <<>>, Writes(cs[1])
  PROVE  /\ Tail(cs) # <<>> /\ Records(cs[1], Tail(cs)[1])
         /\ Tail(cs)[1] = cs[2] /\ 2 \in 1..Len(cs)
  <1>1. 1 \in 1..Len(cs) /\ IsSeq(cs) /\ Recording(cs)
    BY FirstCall DEF CallsOK
  <1>2. 1 < Len(cs) /\ Records(cs[1], cs[1+1])
    BY <1>1 DEF Recording
  <1>3. Len(cs) \in Nat /\ 2 \in 1..Len(cs) /\ cs[1+1] = cs[2]
    BY <1>1, <1>2, SeqLength
  <1>4. 1 \in 1..(Len(cs) - 1)
    BY <1>3
  <1>5. Tail(cs)[1] = cs[1+1] /\ Len(Tail(cs)) = Len(cs) - 1 /\ IsSeq(Tail(cs))
    BY <1>1, <1>4, IsTail
  <1>6. Tail(cs) # <<>>
    BY <1>3, <1>5, SeqLength
  <1> QED
    BY <1>2, <1>3, <1>5, <1>6

LEMMA Replaced ==
  ASSUME NEW g, NEW ids, NEW cs, Working(g, ids, cs), cs # <<>>, cs[1].op = "replace"
  PROVE  LET e == cs[1].entity
             new == [g EXCEPT !.objects = {IF x.id = e.id THEN e ELSE x : x \in @}]
         IN  Working(new, ids, Tail(cs)) /\ Within(g, new)
  <1> DEFINE e == cs[1].entity
             new == [g EXCEPT !.objects = {IF x.id = e.id THEN e ELSE x : x \in @}]
  <1>1. IsSound(g) /\ CallsOK(g, ids, cs) /\ IsSeq(cs) /\ 1 \in 1..Len(cs)
    BY FirstCall DEF Working
  <1>2. PICK o \in g.objects : e = [o EXCEPT !.revision = @ + 1]
    BY <1>1 DEF CallsOK
  <1>3. /\ IsSound(new) /\ Present(g) \subseteq Present(new)
        /\ e.id = o.id /\ e.revision = o.revision + 1
        /\ e \in new.objects /\ \A x \in new.objects : x = e \/ x \in g.objects
        /\ new.relations = g.relations /\ new.history = g.history
    BY <1>1, <1>2, ReplacedGraph
  <1> HIDE DEF e, new
  <1>4. /\ Writes(cs[1]) /\ ~IsHistory(cs[1]) /\ ~Resolves(cs[1]) /\ Gives(cs[1]) = {}
        /\ RevisionOf(cs[1]) = e.revision
    BY DEF Writes, IsHistory, Resolves, Gives, RevisionOf, WritesObject, e
  <1>5. o.revision \in Nat \ {0}
    BY <1>1 DEF IsSound, IsGraph
  <1>6. \A h : Records(cs[1], h) => SpeaksOf(new, h.entity)
    <2> SUFFICES ASSUME NEW h, Records(cs[1], h)
                 PROVE  SpeaksOf(new, h.entity)
      OBVIOUS
    <2>1. h.entity = [id |-> <<e.id, e.revision>>, entity |-> e.id, revision |-> e.revision]
      BY <1>4 DEF Records, e
    <2>2. /\ h.entity.id = <<h.entity.entity, h.entity.revision>>
          /\ h.entity.entity = e.id /\ h.entity.revision = e.revision
      BY <2>1
    <2>3. e.revision \in Nat /\ e.revision <= e.revision
      BY <1>3, <1>5
    <2> QED
      BY <1>3, <2>2, <2>3 DEF SpeaksOf
  <1>7. CallsOK(new, ids, Tail(cs))
    BY <1>1, <1>3, <1>4, <1>6, TailOK
  <1>8. ASSUME ~load.restarts
        PROVE  Full(new, Tail(cs)) /\ Decided(new, ids, Tail(cs)) /\ Resolving(new, Tail(cs))
    <2>1. Full(g, cs) /\ Decided(g, ids, cs) /\ Resolving(g, cs)
      BY <1>8 DEF Working
    <2>2. Full(g, <<>>)
      BY <1>4, <2>1, FullAlready
    <2>3. IsRecordedNext(Tail(cs), e, e.revision)
      <3>1. Tail(cs) # <<>> /\ Records(cs[1], Tail(cs)[1])
        BY <1>1, <1>4, RecordIsNext
      <3>2. ASSUME NEW h, Records(cs[1], h)
            PROVE  IsHistory(h) /\ h.entity.entity = e.id /\ h.entity.revision = e.revision
        <4>1. IsHistory(h) /\ h.entity =
                 [id |-> <<e.id, e.revision>>, entity |-> e.id, revision |-> e.revision]
          BY <1>4, <3>2 DEF Records, e
        <4> QED
          BY <4>1
      <3>3. /\ IsHistory(Tail(cs)[1])
            /\ Tail(cs)[1].entity.entity = e.id /\ Tail(cs)[1].entity.revision = e.revision
        BY <3>1, <3>2
      <3> QED
        BY <3>1, <3>2, <3>3 DEF IsRecordedNext
    <2>4. Full(new, Tail(cs))
      <3> SUFFICES ASSUME NEW x \in new.objects, NEW n \in 1..x.revision
                   PROVE  \/ \E h \in new.history : h.entity = x.id /\ h.revision = n
                          \/ IsRecordedNext(Tail(cs), x, n)
        BY DEF Full
      <3>1. CASE x = e
        <4>1. CASE n = e.revision
          BY <2>3, <3>1, <4>1
        <4>2. CASE n # e.revision
          <5>1. n \in 1..o.revision
            BY <1>3, <1>5, <3>1, <4>2
          <5> QED
            BY <1>3, <2>2, <3>1, <5>1 DEF Full, IsRecordedNext
        <4> QED
          BY <4>1, <4>2
      <3>2. CASE x \in g.objects
        BY <1>3, <2>2, <3>2 DEF Full, IsRecordedNext
      <3> QED
        BY <1>3, <3>1, <3>2
    <2>5. Decided(g, ids, Tail(cs)) /\ \A r \in g.relations : IsResolution(r.id) =>
                                          \E v \in ids : v.candidate = r.id[2]
      <3>1. cs[1].op # "review"
        OBVIOUS
      <3> QED
        BY <1>4, <2>1, <3>1, DecidedAlready
    <2>6. Decided(new, ids, Tail(cs))
      BY <1>3, <2>5 DEF Decided
    <2>7. Resolving(new, Tail(cs))
      BY <1>1, <1>3, <2>1, TailResolving
    <2> QED
      BY <2>4, <2>6, <2>7
  <1>9. Working(new, ids, Tail(cs)) /\ Within(g, new)
    BY <1>3, <1>7, <1>8 DEF Working, Within
  <1> QED
    BY <1>9 DEF e, new

\* The register of the reviews is saved last, and resolves nothing that is not in the graph.
LEMMA ReviewSaved ==
  ASSUME NEW g, NEW ids, NEW cs, Working(g, ids, cs), cs # <<>>, cs[1].op = "review"
  PROVE  /\ Tail(cs) = <<>> /\ Working(g, cs[1].held, <<>>)
         /\ \A v \in cs[1].held : Res(v.candidate, v.time) \in Present(g)
  <1>1. /\ IsSound(g) /\ CallsOK(g, ids, cs) /\ IsSeq(cs) /\ 1 \in 1..Len(cs)
        /\ Needs(cs[1]) \subseteq Present(g)
    BY FirstCall DEF Working
  <1>2. Len(cs) = 1 /\ ids \subseteq cs[1].held
    BY <1>1 DEF CallsOK
  <1>3. Tail(cs) = <<>>
    <2>1. IsSeq(Tail(cs)) /\ Len(Tail(cs)) = 0
      BY <1>1, <1>2, IsTail
    <2> QED
      BY <2>1, SeqLength
  <1>4. Needs(cs[1]) = {Res(v.candidate, v.time) : v \in cs[1].held} /\ ~IsHistory(cs[1])
    BY DEF Needs, IsHistory
  <1>5. \A v \in cs[1].held : Res(v.candidate, v.time) \in Present(g)
    BY <1>1, <1>4
  <1>6. ASSUME ~load.restarts
        PROVE  Full(g, <<>>) /\ Decided(g, cs[1].held, <<>>)
    <2>1. Full(g, cs) /\ Decided(g, ids, cs)
      BY <1>6 DEF Working
    <2>2. Full(g, <<>>)
      BY <1>4, <2>1, FullAlready
    <2>3. \A r \in g.relations : IsResolution(r.id) => \E v \in cs[1].held : v.candidate = r.id[2]
      <3> SUFFICES ASSUME NEW r \in g.relations, IsResolution(r.id)
                   PROVE  \E v \in cs[1].held : v.candidate = r.id[2]
        OBVIOUS
      <3>1. CASE \E v \in ids : v.candidate = r.id[2]
        BY <1>2, <3>1
      <3>2. CASE Reviews(cs, 1, r.id[2])
        BY <3>2 DEF Reviews
      <3> QED
        BY <1>4, <2>1, <3>1, <3>2 DEF Decided
    <2> QED
      BY <2>1, <2>2, <2>3 DEF Decided
  <1> QED
    BY <1>1, <1>3, <1>5, <1>6, EmptyRest DEF Working

\* What a call writes for the first time.
LEMMA FirstRevision ==
  ASSUME NEW call, IsCall(call), call.op = "add", NEW h, Records(call, h)
  PROVE  /\ IsHistory(h) /\ h.entity.id = <<h.entity.entity, h.entity.revision>>
         /\ h.entity.entity = call.entity.id /\ h.entity.revision = 1
         /\ call.coll \in {"objects", "relations", "properties"}
         /\ call.coll = "objects" => call.entity.revision = 1
  <1>1. RevisionOf(call) = 1
    BY DEF RevisionOf, WritesObject, IsCall, IsObjectCall
  <1>2. h.entity = [id |-> <<call.entity.id, 1>>, entity |-> call.entity.id, revision |-> 1]
    BY <1>1 DEF Records
  <1>3. IsHistory(h) /\ Writes(call)
    BY DEF Records
  <1> QED
    BY <1>2, <1>3 DEF Writes, IsCall, IsObjectCall

LEMMA Added ==
  ASSUME NEW g, NEW ids, NEW cs, Working(g, ids, cs), cs # <<>>, cs[1].op = "add",
         cs[1].entity.id \notin {x.id : x \in g[cs[1].coll]}
  PROVE  LET new == [g EXCEPT ![cs[1].coll] = @ \cup {cs[1].entity}]
         IN  Working(new, ids, Tail(cs)) /\ Within(g, new)
  <1> DEFINE coll == cs[1].coll
             e == cs[1].entity
             new == [g EXCEPT ![coll] = @ \cup {e}]
  <1>1. /\ IsSound(g) /\ CallsOK(g, ids, cs) /\ IsSeq(cs) /\ 1 \in 1..Len(cs)
        /\ IsCall(cs[1]) /\ Needs(cs[1]) \subseteq Present(g)
    BY FirstCall DEF Working
  <1>2. /\ coll \in Collections /\ Refs(coll, e) \subseteq Present(g)
        /\ coll = "objects" =>
              /\ e = [k \in {"id", "type", "discipline", "revision", "evidence"} |-> e[k]]
              /\ e.revision = 1
        /\ coll = "relations" => e.source # e.target
        /\ coll \in {"objects", "properties"} => ~IsResolution(e.id)
    BY <1>1 DEF IsCall, IsObjectCall, Needs, Collections
  <1>3. coll = "history" => SpeaksOf(g, e)
    BY <1>1 DEF CallsOK, IsHistory
  <1>4. IsSound(new) /\ Present(g) \subseteq Present(new)
    BY <1>1, <1>2, <1>3, AddedGraph
  <1>5. g = [k \in Collections |-> g[k]]
    BY <1>1 DEF IsSound, IsGraph, Collections
  <1>6. \A k \in Collections : new[k] = IF k = coll THEN g[k] \cup {e} ELSE g[k]
    BY <1>2, <1>5, AddedFields
  <1> HIDE DEF new
  <1>7. /\ new.objects = IF coll = "objects" THEN g.objects \cup {e} ELSE g.objects
        /\ new.relations = IF coll = "relations" THEN g.relations \cup {e} ELSE g.relations
        /\ new.properties = IF coll = "properties" THEN g.properties \cup {e} ELSE g.properties
        /\ new.history = IF coll = "history" THEN g.history \cup {e} ELSE g.history
    BY <1>6 DEF Collections
  <1>8. Gives(cs[1]) \subseteq Present(new)
    <2>1. CASE Resolves(cs[1])
      <3>1. IsResolution(e.id) /\ e \in new.relations
        BY <1>7, <2>1 DEF Resolves
      <3>2. Res(e.id[2], e.id[4]) \in Present(new)
        BY <3>1, InPresent
      <3> QED
        BY <2>1, <3>2 DEF Gives
    <2>2. CASE ~Resolves(cs[1])
      BY <2>2 DEF Gives
    <2> QED
      BY <2>1, <2>2
  <1>9. \A h : Records(cs[1], h) => SpeaksOf(new, h.entity)
    <2> SUFFICES ASSUME NEW h, Records(cs[1], h)
                 PROVE  SpeaksOf(new, h.entity)
      OBVIOUS
    <2>1. /\ h.entity.id = <<h.entity.entity, h.entity.revision>>
          /\ h.entity.entity = e.id /\ h.entity.revision = 1
          /\ coll \in {"objects", "relations", "properties"} /\ (coll = "objects" => e.revision = 1)
      BY <1>1, FirstRevision
    <2>2. CASE coll = "objects"
      BY <1>7, <2>1, <2>2 DEF SpeaksOf
    <2>3. CASE coll \in {"relations", "properties"}
      BY <1>7, <2>1, <2>3 DEF SpeaksOf
    <2> QED
      BY <2>1, <2>2, <2>3
  <1>10. CallsOK(new, ids, Tail(cs))
    BY <1>1, <1>4, <1>8, <1>9, TailOK
  <1>11. Resolves(cs[1]) <=> coll = "relations" /\ IsResolution(e.id)
    BY DEF Resolves
  <1>12. IsHistory(cs[1]) <=> coll = "history"
    BY DEF IsHistory
  <1> HIDE DEF e, coll
  <1>13. ASSUME ~load.restarts
         PROVE  Full(new, Tail(cs)) /\ Decided(new, ids, Tail(cs)) /\ Resolving(new, Tail(cs))
    <2>1. Full(g, cs) /\ Decided(g, ids, cs) /\ Resolving(g, cs)
      BY <1>13 DEF Working
    <2>2. Resolving(new, Tail(cs))
      BY <1>1, <1>7, <1>11, <2>1, TailResolving
    <2>3. coll # "history" => Full(g, <<>>)
      BY <1>12, <2>1, FullAlready
    <2>4. Full(new, Tail(cs))
      <3>1. CASE coll = "history"
        <4> SUFFICES ASSUME NEW o \in g.objects, NEW n \in 1..o.revision
                     PROVE  \E h \in new.history : h.entity = o.id /\ h.revision = n
          BY <1>7, <3>1 DEF Full
        <4>1. CASE \E h \in g.history : h.entity = o.id /\ h.revision = n
          BY <1>7, <4>1
        <4>2. CASE IsRecordedNext(cs, o, n)
          <5>1. e.entity = o.id /\ e.revision = n
            BY <4>2 DEF IsRecordedNext, e
          <5> QED
            BY <1>7, <3>1, <5>1
        <4> QED
          BY <2>1, <4>1, <4>2 DEF Full
      <3>2. CASE coll = "objects"
        <4>1. Writes(cs[1])
          BY <3>2 DEF Writes, coll
        <4>2. Tail(cs) # <<>> /\ Records(cs[1], Tail(cs)[1])
          BY <1>1, <4>1, RecordIsNext
        <4>3. /\ IsHistory(Tail(cs)[1]) /\ Tail(cs)[1].entity.entity = e.id
              /\ Tail(cs)[1].entity.revision = 1
          BY <1>1, <4>2, FirstRevision DEF e
        <4>4. \A n \in 1..e.revision : IsRecordedNext(Tail(cs), e, n)
          BY <1>2, <3>2, <4>2, <4>3 DEF IsRecordedNext
        <4> QED
          BY <1>7, <2>3, <3>2, <4>4 DEF Full, IsRecordedNext
      <3>3. CASE coll \notin {"history", "objects"}
        BY <1>7, <2>3, <3>3 DEF Full, IsRecordedNext
      <3> QED
        BY <3>1, <3>2, <3>3
    <2>5. Decided(new, ids, Tail(cs))
      <3>1. CASE coll = "history"
        <4>1. ASSUME NEW r \in g.relations, IsResolution(r.id)
              PROVE  \/ \E v \in ids : v.candidate = r.id[2]
                     \/ Reviews(Tail(cs), 1, r.id[2])
          <5>1. CASE \E v \in ids : v.candidate = r.id[2]
            BY <5>1
          <5>2. CASE Reviews(cs, 1, r.id[2])
            BY <5>2 DEF Reviews
          <5>3. CASE Reviews(cs, 2, r.id[2])
            <6>1. 2 \in 1..Len(cs) /\ Len(cs) \in Nat
              BY <1>1, <5>3, SeqLength DEF Reviews
            <6>2. 1 \in 1..(Len(cs) - 1) /\ Len(Tail(cs)) = Len(cs) - 1 /\ Tail(cs)[1] = cs[1+1]
              <7>1. 1 \in 1..(Len(cs) - 1)
                BY <6>1
              <7> QED
                BY <1>1, <7>1, IsTail
            <6> QED
              BY <5>3, <6>2 DEF Reviews
          <5> QED
            BY <2>1, <4>1, <5>1, <5>2, <5>3 DEF Decided
        <4> QED
          BY <1>7, <2>1, <3>1, <4>1 DEF Decided
      <3>2. CASE Resolves(cs[1])
        <4> DEFINE ts == Tail(cs)
        <4>1. /\ coll = "relations" /\ IsResolution(e.id)
              /\ new.relations = g.relations \cup {e} /\ new.history = g.history
          BY <1>7, <1>11, <3>2
        <4>2. /\ Decided(g, ids, <<>>)
              /\ \A r \in g.relations : IsResolution(r.id) => \E v \in ids : v.candidate = r.id[2]
          <5>1. ~IsHistory(cs[1]) /\ cs[1].op # "review"
            BY <1>12, <4>1
          <5> QED
            BY <2>1, <5>1, DecidedAlready
        <4>3. /\ Reviews(cs, 1 + 2, e.id[2])
              /\ \A r \in g.relations : IsResolution(r.id) => r.id[2] # e.id[2]
          BY <1>1, <2>1, <3>2 DEF Resolving, e
        <4>4. Writes(cs[1])
          BY <3>2 DEF Writes, Resolves
        <4>5. ts # <<>> /\ Records(cs[1], ts[1])
          BY <1>1, <4>4, RecordIsNext
        <4>6. /\ IsHistory(ts[1]) /\ ts[1].entity.entity = e.id
              /\ ts[1].entity.id = <<ts[1].entity.entity, ts[1].entity.revision>>
          BY <1>1, <4>5, FirstRevision DEF e
        <4>7. \A h \in g.history : h.id # ts[1].entity.id
          <5> SUFFICES ASSUME NEW h \in g.history, h.id = ts[1].entity.id
                       PROVE  FALSE
            OBVIOUS
          <5>1. SpeaksOf(g, h)
            BY <1>1 DEF IsSound, IsGraph
          <5>r. h.id = <<h.entity, h.revision>>
            BY <5>1, Zenon DEF SpeaksOf
          <5>t. \A a, b, c, d : <<a, b>> = <<c, d>> => a = c
            OBVIOUS
          <5>2. h.entity = e.id
            <6>1. <<h.entity, h.revision>> = <<ts[1].entity.entity, ts[1].entity.revision>>
              BY <4>6, <5>r
            <6>2. h.entity = ts[1].entity.entity
              BY <5>t, <6>1, Zenon
            <6> QED
              BY <4>6, <6>2
          <5>3. \E x \in g.objects \cup g.relations \cup g.properties : x.id = e.id
            BY <5>1, <5>2 DEF SpeaksOf
          <5>4. \A x \in g.objects \cup g.properties : ~IsResolution(x.id)
            BY <1>1 DEF IsSound
          <5>5. \A x \in g.relations : x.id # e.id
            BY <4>1, <4>3
          <5> QED
            BY <4>1, <5>3, <5>4, <5>5
        <4>8. Reviews(ts, 2, e.id[2])
          <5>1. 3 \in 1..Len(cs) /\ Len(cs) \in Nat /\ 1 + 2 = 3
            BY <1>1, <4>3, SeqLength DEF Reviews
          <5>2. 2 \in 1..(Len(cs) - 1)
            BY <5>1
          <5>3. Len(ts) = Len(cs) - 1 /\ ts[2] = cs[2+1] /\ 2 + 1 = 3
            BY <1>1, <5>2, IsTail
          <5> QED
            BY <4>3, <5>1, <5>2, <5>3 DEF Reviews
        <4> HIDE DEF ts
        <4>9. Decided(new, ids, ts)
          BY <4>1, <4>2, <4>3, <4>6, <4>7, <4>8 DEF Decided
        <4> QED
          BY <4>9 DEF ts
      <3>3. CASE coll # "history" /\ ~Resolves(cs[1])
        <4>1. cs[1].op # "review" /\ ~IsHistory(cs[1])
          BY <1>12, <3>3
        <4>2. /\ Decided(g, ids, Tail(cs))
              /\ \A r \in g.relations : IsResolution(r.id) => \E v \in ids : v.candidate = r.id[2]
          BY <2>1, <4>1, DecidedAlready
        <4>3. \A r \in new.relations : IsResolution(r.id) => r \in g.relations
          BY <1>7, <1>11, <3>3
        <4> QED
          BY <4>2, <4>3 DEF Decided
      <3> QED
        BY <3>1, <3>2, <3>3
    <2> QED
      BY <2>2, <2>4, <2>5
  <1>14. Working(new, ids, Tail(cs)) /\ Within(g, new)
    BY <1>4, <1>7, <1>10, <1>13 DEF Working, Within
  <1> QED
    BY <1>14 DEF new, e, coll

-----------------------------------------------------------------------------
(* The requests start                                                      *)

LEMMA RestFull ==
  ASSUME NEW g, NEW ids, NEW cs, Working(g, ids, <<>>), ~load.restarts
  PROVE  /\ Full(g, cs) /\ Decided(g, ids, cs)
         /\ \A r \in g.relations : IsResolution(r.id) => \E v \in ids : v.candidate = r.id[2]
  <1>1. Full(g, <<>>) /\ Decided(g, ids, <<>>)
    BY DEF Working
  <1> QED
    BY <1>1, FullAlready, DecidedAlready

LEMMA OrderStarted ==
  ASSUME NEW g, NEW ids, NEW cs, Working(g, ids, <<>>), Block(cs)
  PROVE  Working(g, ids, cs)
  <1>1. /\ IsSeq(cs) /\ Follows({}, cs) /\ Recording(cs) /\ (cs # <<>> => ~IsHistory(cs[1]))
        /\ \A i \in 1..Len(cs) : /\ IsCall(cs[i]) /\ ~Resolves(cs[i])
                                 /\ cs[i].op # "replace" /\ cs[i].op # "review"
    BY DEF Block
  <1>2. Follows(Present(g), cs)
    BY <1>1 DEF Follows
  <1>3. CallsOK(g, ids, cs)
    BY <1>1, <1>2 DEF CallsOK
  <1>4. Resolving(g, cs)
    BY <1>1 DEF Resolving
  <1>5. ~load.restarts => Full(g, cs) /\ Decided(g, ids, cs)
    BY RestFull
  <1>6. IsSound(g)
    BY DEF Working
  <1> QED
    BY <1>3, <1>4, <1>5, <1>6 DEF Working

LEMMA UpdateStarted ==
  ASSUME NEW g, NEW ids, Working(g, ids, <<>>), NEW o \in g.objects
  PROVE  LET new == [o EXCEPT !.revision = @ + 1]
             cs == Replace(new) \o History(new.id, new.revision)
         IN  cs # <<>> /\ Working(g, ids, cs)
  <1> DEFINE new == [o EXCEPT !.revision = @ + 1]
             cs == Replace(new) \o History(new.id, new.revision)
             w == [op |-> "replace", entity |-> new]
             h == HistoryCall(new.id, new.revision)
  <1>1. cs = <<w>> \o <<h>>
    BY Zenon DEF Replace, History, Add, HistoryCall
  <1>2. /\ w.op = "replace" /\ w.entity = new /\ Needs(w) = {}
        /\ Writes(w) /\ ~IsHistory(w) /\ ~Resolves(w) /\ IsCall(w) /\ RevisionOf(w) = new.revision
    BY DEF Needs, Writes, IsHistory, Resolves, IsCall, RevisionOf, WritesObject
  <1>3. /\ h.op = "add" /\ h.coll = "history" /\ Needs(h) = {}
        /\ ~Writes(h) /\ IsHistory(h) /\ ~Resolves(h) /\ IsCall(h)
    BY DEF HistoryCall, Needs, Refs, Writes, IsHistory, Resolves, IsCall
  <1>4. Records(w, h)
    BY <1>2, <1>3 DEF Records, HistoryCall
  <1>5. w.entity = [o EXCEPT !.revision = @ + 1]
    BY <1>2
  <1> HIDE DEF cs, w, h, new
  <1>6. cs = <<w, h>>
    BY <1>1, TwoCalls, Zenon
  <1>7. /\ cs \in Seq({w, h}) /\ Len(cs) = 2 /\ cs[1] = w /\ cs[2] = h /\ cs # <<>>
    BY <1>6
  <1>8. Follows(Present(g), cs)
    BY <1>2, <1>3, <1>7 DEF Follows
  <1>9. Recording(cs)
    BY <1>2, <1>3, <1>4, <1>7 DEF Recording
  <1>10. CallsOK(g, ids, cs)
    BY SMTT(30), <1>2, <1>3, <1>5, <1>7, <1>8, <1>9 DEF CallsOK, IsSeq
  <1>11. Resolving(g, cs)
    BY <1>2, <1>3, <1>7 DEF Resolving
  <1>12. ~load.restarts => Full(g, cs) /\ Decided(g, ids, cs)
    BY RestFull
  <1>13. Working(g, ids, cs)
    BY <1>10, <1>11, <1>12 DEF Working
  <1> QED
    BY <1>7, <1>13 DEF cs, new

\* The calls that review a candidate.
LEMMA ReviewStarted ==
  ASSUME NEW g, Working(g, identity, <<>>), NEW r \in g.relations, NEW d, NEW time,
         ~\E v \in identity : v.candidate = r.id,
         \A v \in identity : Res(v.candidate, v.time) \in Present(g)
  PROVE  LET cs == ReviewCalls(r, d, time)
         IN  cs # <<>> /\ Working(g, identity, cs)
  <1> DEFINE type == IF d = "confirm_same" THEN "same_as_confirmed" ELSE "not_same_as"
             id == <<"resolved", r.id, type, time>>
             ev == <<"evidence", id>>
             x == AddCall("evidence", [id |-> ev])
             A == CreateEvidence(ev)
             B == RelateAs(id, r.source, type, r.target, {ev})
             v0 == [candidate |-> r.id, decision |-> d, time |-> time]
             w == [op |-> "review", held |-> identity \cup {v0}]
             cs == ReviewCalls(r, d, time)
  <1>1. cs = (A \o B) \o <<w>>
    BY Zenon DEF ReviewCalls, Resolution, Record
  <1>2. A = <<x>>
    BY Zenon DEF CreateEvidence, Add, AddCall
  <1>3. /\ w.op = "review" /\ w.held = identity \cup {v0} /\ v0.candidate = r.id /\ v0.time = time
        /\ Needs(w) = {Res(v.candidate, v.time) : v \in w.held}
        /\ ~Writes(w) /\ ~IsHistory(w) /\ ~Resolves(w) /\ IsCall(w)
    BY DEF Needs, Writes, IsHistory, Resolves, IsCall
  <1>4. /\ x.op = "add" /\ x.coll = "evidence" /\ Needs(x) = {}
        /\ ~Writes(x) /\ ~IsHistory(x) /\ ~Resolves(x) /\ IsCall(x)
    BY DEF AddCall, Needs, Refs, Writes, IsHistory, Resolves, IsCall
  <1>5. type \in AllowedRelations
    BY DEF AllowedRelations
  <1>6. IsResolution(id) /\ id[2] = r.id /\ id[4] = time
    BY DEF IsResolution
  <1>7. r.source # r.target
    BY DEF Working, IsSound, IsGraph
  <1> HIDE DEF cs, x, A, B, w, v0, id, type, ev
  <1>8. PICK o, p, a, b, h :
              /\ B = <<o, p, a, b, h>>
              /\ IsCall(o) /\ IsCall(p) /\ IsCall(a) /\ IsCall(b) /\ IsCall(h)
              /\ o.op = "object" /\ p.op = "object" /\ a.op = "evidence"
              /\ b.op = "add" /\ b.coll = "relations" /\ b.entity.id = id
              /\ Needs(o) = {} /\ Needs(p) = {} /\ Needs(a) = {} /\ Needs(h) = {}
              /\ Needs(b) = Gives(o) \cup Gives(p) \cup Gives(a)
              /\ Records(b, h)
    <2> DEFINE Made(q) ==
          \E o, p, a, b, h :
              /\ q = <<o, p, a, b, h>>
              /\ IsCall(o) /\ IsCall(p) /\ IsCall(a) /\ IsCall(b) /\ IsCall(h)
              /\ o.op = "object" /\ p.op = "object" /\ a.op = "evidence"
              /\ b.op = "add" /\ b.coll = "relations" /\ b.entity.id = id
              /\ Needs(o) = {} /\ Needs(p) = {} /\ Needs(a) = {} /\ Needs(h) = {}
              /\ Needs(b) = Gives(o) \cup Gives(p) \cup Gives(a)
              /\ Records(b, h)
    <2>1. \A s, t, E : \/ /\ (s = t \/ type \notin AllowedRelations)
                          /\ RelateAs(id, s, type, t, E) = Refuse
                       \/ Made(RelateAs(id, s, type, t, E))
      <3> TAKE s, t, E
      <3> HIDE DEF Made
      <3>1. \/ /\ s = t \/ type \notin AllowedRelations
               /\ RelateAs(id, s, type, t, E) = Refuse
            \/ \E o, p, a, b, h :
                  /\ RelateAs(id, s, type, t, E) = <<o, p, a, b, h>>
                  /\ IsCall(o) /\ IsCall(p) /\ IsCall(a) /\ IsCall(b) /\ IsCall(h)
                  /\ o.op = "object" /\ p.op = "object" /\ a.op = "evidence"
                  /\ b.op = "add" /\ b.coll = "relations" /\ b.entity.id = id
                  /\ Needs(o) = {} /\ Needs(p) = {} /\ Needs(a) = {} /\ Needs(h) = {}
                  /\ Needs(b) = Gives(o) \cup Gives(p) \cup Gives(a)
                  /\ Records(b, h)
        BY RelateCalls
      <3> QED
        BY <3>1, Zenon DEF Made
    <2> HIDE DEF Made
    <2>2. Made(B)
      BY <1>5, <1>7, <2>1, Zenon DEF B
    <2> QED
      BY <2>2, Zenon DEF Made
  <1>9. /\ IsSeq(A) /\ Len(A) = 1 /\ A[1] = x
        /\ IsSeq(B) /\ Len(B) = 5
        /\ B[1] = o /\ B[2] = p /\ B[3] = a /\ B[4] = b /\ B[5] = h
        /\ IsSeq(<<w>>) /\ Len(<<w>>) = 1 /\ <<w>>[1] = w
    <2>1. <<x>> \in Seq({x}) /\ <<w>> \in Seq({w}) /\ <<o, p, a, b, h>> \in Seq({o, p, a, b, h})
      OBVIOUS
    <2> QED
      BY <1>2, <1>8, <2>1 DEF IsSeq
  <1>10. /\ IsSeq(A \o B) /\ Len(A \o B) = 6
         /\ (A \o B)[1] = x /\ (A \o B)[2] = o /\ (A \o B)[3] = p
         /\ (A \o B)[4] = a /\ (A \o B)[5] = b /\ (A \o B)[6] = h
    <2>1. /\ IsSeq(A \o B) /\ Len(A \o B) = 1 + 5
          /\ \A i \in 1..1 : (A \o B)[i] = A[i]
          /\ \A i \in 1..5 : (A \o B)[1 + i] = B[i]
      <3>1. /\ IsSeq(A \o B) /\ Len(A \o B) = Len(A) + Len(B)
            /\ \A i \in 1..Len(A) : (A \o B)[i] = A[i]
            /\ \A i \in 1..Len(B) : (A \o B)[Len(A) + i] = B[i]
        <4>1. IsSeq(A) /\ IsSeq(B)
          BY <1>9
        <4> QED
          BY <4>1, Concatenated
      <3> QED
        BY <1>9, <3>1, Zenon
    <2> QED
      BY <1>9, <2>1
  <1>11. /\ IsSeq(cs) /\ Len(cs) = 7
         /\ cs[1] = x /\ cs[2] = o /\ cs[3] = p /\ cs[4] = a /\ cs[5] = b /\ cs[6] = h /\ cs[7] = w
    <2>1. /\ IsSeq(cs) /\ Len(cs) = 6 + 1
          /\ \A i \in 1..6 : cs[i] = (A \o B)[i]
          /\ \A i \in 1..1 : cs[6 + i] = <<w>>[i]
      BY <1>1, <1>9, <1>10, Concatenated
    <2> QED
      BY <1>9, <1>10, <2>1
  <1>12. \A c \in {o, p, a} : ~Writes(c) /\ ~IsHistory(c) /\ ~Resolves(c) /\ c.op \notin {"replace", "review"}
    BY <1>8 DEF Writes, IsHistory, Resolves
  <1>13. /\ ~IsHistory(b) /\ Resolves(b) /\ b.op = "add"
         /\ Gives(b) = {Res(r.id, time)} /\ b.entity.id[2] = r.id
    BY <1>6, <1>8 DEF IsHistory, Resolves, Gives
  <1>14. h.op = "add" /\ IsHistory(h) /\ ~Writes(h) /\ ~Resolves(h)
    BY <1>8 DEF Records, IsHistory, Writes, Resolves
  <1>15. \A i \in 1..7 : i = 1 \/ i = 2 \/ i = 3 \/ i = 4 \/ i = 5 \/ i = 6 \/ i = 7
    OBVIOUS
  <1>16. Follows(Present(g), cs)
    <2>1. ASSUME NEW y \in Needs(b)
          PROVE  \E j \in 1..(5-1) : y \in Gives(cs[j])
      BY <1>8, <1>11, <2>1
    <2>2. ASSUME NEW y \in Needs(w)
          PROVE  y \in Present(g) \/ \E j \in 1..(7-1) : y \in Gives(cs[j])
      <3>1. PICK v \in identity \cup {v0} : y = Res(v.candidate, v.time)
        BY <1>3, <2>2
      <3>2. CASE v \in identity
        BY <3>1, <3>2
      <3>3. CASE v = v0
        BY <1>3, <1>11, <1>13, <3>1, <3>3
      <3> QED
        BY <3>1, <3>2, <3>3
    <2> QED
      BY <1>4, <1>8, <1>11, <1>15, <2>1, <2>2 DEF Follows
  <1>17. Recording(cs)
    BY <1>3, <1>4, <1>8, <1>11, <1>12, <1>13, <1>14, <1>15 DEF Recording
  <1>18. CallsOK(g, identity, cs)
    <2>1. \A i \in 1..7 : IsCall(cs[i]) /\ cs[i].op # "replace" /\ (cs[i].op = "review" => i = 7)
      BY <1>3, <1>4, <1>8, <1>11, <1>12, <1>13, <1>14, <1>15
    <2>2. identity \subseteq cs[7].held
      BY <1>3, <1>11
    <2> QED
      BY <1>4, <1>11, <1>16, <1>17, <2>1, <2>2 DEF CallsOK
  <1>19. ASSUME ~load.restarts
         PROVE  Full(g, cs) /\ Decided(g, identity, cs) /\ Resolving(g, cs)
    <2>1. /\ Full(g, cs) /\ Decided(g, identity, cs)
          /\ \A s \in g.relations : IsResolution(s.id) => \E v \in identity : v.candidate = s.id[2]
      BY <1>19, RestFull
    <2>2. \A s \in g.relations : IsResolution(s.id) => s.id[2] # r.id
      BY <2>1
    <2>3. \A i \in 1..7 : Resolves(cs[i]) => i = 5
      BY <1>3, <1>4, <1>11, <1>12, <1>14, <1>15
    <2>4. Reviews(cs, 7, r.id) /\ 5 + 2 = 7
      BY <1>3, <1>11 DEF Reviews
    <2>5. Resolving(g, cs)
      BY <1>11, <1>13, <2>2, <2>3, <2>4 DEF Resolving
    <2> QED
      BY <2>1, <2>5
  <1>20. IsSound(g)
    BY DEF Working
  <1>21. cs # <<>> /\ Working(g, identity, cs)
    BY <1>11, <1>18, <1>19, <1>20, SeqLength DEF Working
  <1> QED
    BY <1>21 DEF cs

-----------------------------------------------------------------------------
(* The requests of one client                                              *)

LEMMA OneClient ==
  ASSUME load.clients \subseteq Clients, Alone
  PROVE  \A c, d \in load.clients : c = d
  <1>1. IsFiniteSet(load.clients) /\ Cardinality(load.clients) \in Nat
    BY ClientsAssumption, FS_Subset, FS_CardinalityType
  <1>2. CASE Cardinality(load.clients) = 0
    BY <1>1, <1>2, FS_EmptySet
  <1>3. CASE Cardinality(load.clients) = 1
    BY <1>1, <1>3, FS_Singleton
  <1> QED
    BY <1>1, <1>2, <1>3 DEF Alone

\* With one client, the others are idle.
LEMMA GoesTo ==
  ASSUME GraphInv, NEW c \in load.clients, NEW q, Goes(c, q)
  PROVE  /\ client' = [d \in Clients |-> client'[d]] /\ client'[c] = q /\ c \in Clients
         /\ Alone => \A d \in Clients : d # c => client'[d] = Idle
  <1>1. /\ client' = [d \in Clients |-> client'[d]] /\ client'[c] = q
        /\ c \in Clients /\ \A d \in Clients : d # c => client'[d] = client[d]
    BY DEF GraphInv, GraphShape, Goes
  <1>2. ASSUME Alone, NEW d \in Clients, d # c
        PROVE  client[d] = Idle
    <2>1. d \notin load.clients
      BY <1>2, OneClient DEF GraphInv, GraphShape
    <2> QED
      BY <1>2, <2>1 DEF GraphInv
  <1> QED
    BY <1>1, <1>2

\* The request goes on to more calls, or is answered.
LEMMA GoesOnInv ==
  ASSUME GraphInv, NEW c \in load.clients, NEW cs, GoesOn(c, cs), UNCHANGED load,
         Alone => /\ Working(store', identity', cs)
                  /\ \A v \in identity' : Res(v.candidate, v.time) \in Present(store')
  PROVE  GraphInv'
  <1> DEFINE q == IF cs = <<>> THEN Idle ELSE [pc |-> "calling", calls |-> cs]
  <1>1. Goes(c, q)
    BY DEF GoesOn, Ends
  <1>2. /\ cs = <<>> => q = Idle
        /\ cs # <<>> => /\ q = [pc |-> "calling", calls |-> q.calls] /\ q.calls = cs
                        /\ q.pc = "calling" /\ q # Idle
    BY DEF Idle
  <1> HIDE DEF q
  <1>3. /\ client' = [d \in Clients |-> client'[d]] /\ client'[c] = q /\ c \in Clients
        /\ Alone => \A d \in Clients : d # c => client'[d] = Idle
    BY <1>1, GoesTo
  <1>4. GraphShape' /\ (Alone' <=> Alone)
    BY <1>3 DEF GraphShape, Alone, GraphInv
  <1>5. \A g, ids, ds : Working(g, ids, ds)' <=> Working(g, ids, ds)
    BY DEF Working
  <1>6. ASSUME Alone
        PROVE  /\ IsSound(store')
               /\ \A v \in identity' : Res(v.candidate, v.time) \in Present(store')
               /\ \A d \in Clients : client'[d] # Idle =>
                     /\ d \in load.clients /\ IsRequest(store', client'[d])
                     /\ Working(Ahead(store', client'[d]), identity', client'[d].calls)
               /\ (\A d \in Clients : client'[d] = Idle) => Working(store', identity', <<>>)
    <2>1. IsSound(store')
      BY <1>6 DEF Working
    <2>2. ASSUME NEW d \in Clients, client'[d] # Idle
          PROVE  /\ d \in load.clients /\ IsRequest(store', client'[d])
                 /\ Working(Ahead(store', client'[d]), identity', client'[d].calls)
      <3>1. d = c
        BY <1>3, <1>6, <2>2
      <3>2. cs # <<>> /\ client'[d] = q
        BY <1>2, <1>3, <2>2, <3>1
      <3>3. IsRequest(store', q) /\ Ahead(store', q) = store'
        BY <1>2, <3>2 DEF IsRequest, Ahead
      <3>4. Working(Ahead(store', q), identity', q.calls)
        BY <1>2, <1>6, <3>2, <3>3
      <3> QED
        BY <3>1, <3>2, <3>3, <3>4
    <2>3. (\A d \in Clients : client'[d] = Idle) => Working(store', identity', <<>>)
      BY <1>2, <1>3, <1>6
    <2> QED
      BY <1>6, <2>1, <2>2, <2>3
  <1> QED
    BY <1>4, <1>5, <1>6 DEF GraphInv, Working

\* The request holds a copy of the graph.
LEMMA HoldsInv ==
  ASSUME GraphInv, NEW c \in load.clients, NEW held, NEW cs,
         Goes(c, [pc |-> "graph", held |-> held, calls |-> cs]), UNCHANGED <<load, store, identity>>,
         Alone => Working(held, identity, cs) /\ Within(store, held)
  PROVE  GraphInv'
  <1> DEFINE q == [pc |-> "graph", held |-> held, calls |-> cs]
  <1>1. /\ q.pc = "graph" /\ q.held = held /\ q.calls = cs /\ q # Idle
        /\ q = [pc |-> "graph", held |-> q.held, calls |-> q.calls]
    BY DEF Idle
  <1> HIDE DEF q
  <1>2. Goes(c, q)
    BY DEF q
  <1>3. /\ client' = [d \in Clients |-> client'[d]] /\ client'[c] = q /\ c \in Clients
        /\ Alone => \A d \in Clients : d # c => client'[d] = Idle
    BY <1>2, GoesTo
  <1>4. GraphShape' /\ (Alone' <=> Alone)
    BY <1>3 DEF GraphShape, Alone, GraphInv
  <1>5. ASSUME Alone
        PROVE  /\ \A d \in Clients : client'[d] # Idle =>
                     /\ d \in load.clients /\ IsRequest(store, client'[d])
                     /\ Working(Ahead(store, client'[d]), identity, client'[d].calls)
               /\ ~\A d \in Clients : client'[d] = Idle
    <2>1. IsRequest(store, q) /\ Ahead(store, q) = held
      BY <1>1, <1>5 DEF IsRequest, Ahead
    <2>2. Working(Ahead(store, q), identity, q.calls)
      BY <1>1, <1>5, <2>1
    <2> QED
      BY <1>1, <1>3, <1>5, <2>1, <2>2
  <1> QED
    BY <1>4, <1>5 DEF GraphInv, Working

LEMMA AtRest ==
  ASSUME GraphInv, Alone, NEW c \in load.clients, client[c] = Idle
  PROVE  Working(store, identity, <<>>)
  <1>1. \A d \in Clients : client[d] = Idle
    <2> SUFFICES ASSUME NEW d \in Clients, client[d] # Idle
                 PROVE  FALSE
      OBVIOUS
    <2>1. d \in load.clients
      BY DEF GraphInv
    <2> QED
      BY <2>1, OneClient DEF GraphInv, GraphShape
  <1> QED
    BY <1>1 DEF GraphInv

LEMMA UnderWay ==
  ASSUME GraphInv, Alone, NEW c \in load.clients
  PROVE  /\ client[c].pc = "calling" =>
               /\ client[c].calls # <<>> /\ Head(client[c].calls) = client[c].calls[1]
               /\ Working(store, identity, client[c].calls)
         /\ client[c].pc = "graph" =>
               /\ Within(store, client[c].held)
               /\ Working(client[c].held, identity, client[c].calls)
  <1>1. c \in Clients /\ Idle.pc = "idle"
    BY DEF GraphInv, GraphShape, Idle
  <1>2. ASSUME client[c].pc = "calling"
        PROVE  /\ client[c].calls # <<>> /\ Head(client[c].calls) = client[c].calls[1]
               /\ Working(store, identity, client[c].calls)
    <2>1. /\ IsRequest(store, client[c])
          /\ Working(Ahead(store, client[c]), identity, client[c].calls)
      BY <1>1, <1>2 DEF GraphInv
    <2>2. client[c].calls # <<>> /\ Ahead(store, client[c]) = store
      BY <1>2, <2>1 DEF IsRequest, Ahead
    <2> QED
      BY <2>1, <2>2, FirstCall DEF Working
  <1>3. ASSUME client[c].pc = "graph"
        PROVE  /\ Within(store, client[c].held)
               /\ Working(client[c].held, identity, client[c].calls)
    <2>1. /\ IsRequest(store, client[c])
          /\ Working(Ahead(store, client[c]), identity, client[c].calls)
      BY <1>1, <1>3 DEF GraphInv
    <2> QED
      BY <1>3, <2>1 DEF IsRequest, Ahead
  <1> QED
    BY <1>2, <1>3

LEMMA EndsIsGoesOn == ASSUME NEW c, Ends(c) PROVE GoesOn(c, <<>>)
  BY DEF GoesOn

\* A graph to start from is whole, and at rest.
LEMMA GraphInvInit == RequestsInit /\ GraphInit => GraphInv
  <1> SUFFICES ASSUME RequestsInit, GraphInit
               PROVE  GraphInv
    OBVIOUS
  <1>1. /\ store \in Graphs /\ identity = {}
        /\ client = [c \in Clients |-> Idle] /\ load.clients \subseteq Clients
    BY DEF RequestsInit, GraphInit
  <1>2. /\ IsGraph(store)
        /\ \A o \in store.objects : \A n \in 1..o.revision :
              \E h \in store.history : h.entity = o.id /\ h.revision = n
        /\ \A e \in store.objects \cup store.relations \cup store.properties : ~IsResolution(e.id)
    BY <1>1, GraphsAssumption
  <1>3. IsSound(store)
    BY <1>2 DEF IsSound
  <1>4. Full(store, <<>>)
    BY <1>2 DEF Full
  <1>5. Decided(store, identity, <<>>)
    BY <1>2 DEF Decided
  <1>6. Working(store, identity, <<>>)
    BY <1>3, <1>4, <1>5, EmptyRest DEF Working
  <1>7. GraphShape /\ \A c \in Clients : client[c] = Idle
    BY <1>1 DEF GraphShape
  <1> QED
    BY <1>1, <1>3, <1>6, <1>7 DEF GraphInv

LEMMA GraphInvStep ==
    GraphInv /\ [GraphNext]_<<load, client, store, identity, taken>> => GraphInv'
  <1> SUFFICES ASSUME GraphInv, [GraphNext]_<<load, client, store, identity, taken>>
               PROVE  GraphInv'
    OBVIOUS
  <1>r. Alone => \A v \in identity : Res(v.candidate, v.time) \in Present(store)
    BY DEF GraphInv
  <1>1. ASSUME NEW c \in load.clients, NEW o \in Orders, StartOrder(c, o)
        PROVE  GraphInv'
    <2>1. GoesOn(c, Calls(o)) /\ UNCHANGED <<load, store, identity>> /\ client[c] = Idle
      BY <1>1 DEF StartOrder
    <2>2. Alone => Working(store, identity, Calls(o))
      BY <2>1, AtRest, OrderBlock, OrderStarted
    <2> QED
      BY <1>r, <2>1, <2>2, GoesOnInv
  <1>2. ASSUME NEW c \in load.clients, StartUpdate(c)
        PROVE  GraphInv'
    <2>1. UNCHANGED <<load, store, identity>> /\ client[c] = Idle
      BY <1>2 DEF StartUpdate
    <2>2. PICK o \in store.objects :
             LET new == [o EXCEPT !.revision = @ + 1]
             IN  GoesOn(c, Replace(new) \o History(new.id, new.revision))
      BY <1>2 DEF StartUpdate
    <2>3. PICK cs : /\ GoesOn(c, cs)
                    /\ cs = LET new == [o EXCEPT !.revision = @ + 1]
                            IN  Replace(new) \o History(new.id, new.revision)
      BY <2>2
    <2>4. Alone => Working(store, identity, cs)
      BY <2>1, <2>3, AtRest, UpdateStarted
    <2> QED
      BY <1>r, <2>1, <2>3, <2>4, GoesOnInv
  <1>3. ASSUME NEW c \in load.clients, StartReviewIdentity(c)
        PROVE  GraphInv'
    <2>1. UNCHANGED <<load, store, identity>> /\ client[c] = Idle
      BY <1>3 DEF StartReviewIdentity
    <2>2. PICK r \in store.relations, d \in {"confirm_same", "reject_same"} :
             /\ ~\E v \in identity : v.candidate = r.id
             /\ GoesOn(c, ReviewCalls(r, d, taken))
      BY <1>3 DEF StartReviewIdentity
    <2>3. PICK cs : GoesOn(c, cs) /\ cs = ReviewCalls(r, d, taken)
      BY <2>2
    <2>4. Alone => Working(store, identity, cs)
      BY <1>r, <2>1, <2>2, <2>3, AtRest, ReviewStarted
    <2> QED
      BY <1>r, <2>1, <2>3, <2>4, GoesOnInv
  <1>4. ASSUME NEW c \in load.clients, SaveIdentityReviews(c)
        PROVE  GraphInv'
    <2>1. PICK cs : cs = client[c].calls
      OBVIOUS
    <2>2. /\ client[c].pc = "calling" /\ Head(cs).op = "review"
          /\ identity' = Head(cs).held /\ GoesOn(c, Tail(cs)) /\ UNCHANGED <<load, store>>
      BY <1>4, <2>1 DEF SaveIdentityReviews, Calling
    <2>3. Alone => /\ Working(store, identity', Tail(cs))
                   /\ \A v \in identity' : Res(v.candidate, v.time) \in Present(store)
      <3> SUFFICES ASSUME Alone
                   PROVE  /\ Working(store, identity', Tail(cs))
                          /\ \A v \in identity' : Res(v.candidate, v.time) \in Present(store)
        OBVIOUS
      <3>1. cs # <<>> /\ Head(cs) = cs[1] /\ Working(store, identity, cs)
        BY <2>1, <2>2, UnderWay
      <3>2. /\ Tail(cs) = <<>> /\ Working(store, cs[1].held, <<>>)
            /\ \A v \in cs[1].held : Res(v.candidate, v.time) \in Present(store)
        BY <2>2, <3>1, ReviewSaved
      <3> QED
        BY <2>2, <3>1, <3>2
    <2> QED
      BY <2>2, <2>3, GoesOnInv
  <1>5. ASSUME NEW c \in load.clients, CheckObject(c) \/ CheckEvidence(c) \/ RefuseRequest(c)
        PROVE  GraphInv'
    <2>1. PICK cs : cs = client[c].calls
      OBVIOUS
    <2>2. /\ client[c].pc = "calling" /\ Head(cs).op \in {"object", "evidence", "refuse"}
          /\ UNCHANGED <<load, store, identity>>
      BY <1>5, <2>1 DEF CheckObject, CheckEvidence, RefuseRequest, Calling
    <2>3. \/ Ends(c)
          \/ /\ GoesOn(c, Tail(cs)) /\ Head(cs).op = "object"
             /\ \E e \in store.objects : e.id = Head(cs).id
          \/ /\ GoesOn(c, Tail(cs)) /\ Head(cs).op = "evidence"
             /\ Head(cs).ids \subseteq Ids("evidence")
      BY <1>5, <2>1 DEF CheckObject, CheckEvidence, RefuseRequest, Calling
    <2>4. CASE Ends(c)
      <3>1. ASSUME Alone
            PROVE  Working(store, identity, <<>>)
        <4>1. cs # <<>> /\ Head(cs) = cs[1] /\ Working(store, identity, cs)
          BY <2>1, <2>2, <3>1, UnderWay
        <4>2. cs[1].op # "review" /\ ~IsHistory(cs[1])
          BY <2>2, <4>1 DEF IsHistory
        <4> QED
          BY <4>1, <4>2, Forgotten
      <3> QED
        BY <1>r, <2>2, <2>4, <3>1, EndsIsGoesOn, GoesOnInv
    <2>5. CASE /\ GoesOn(c, Tail(cs))
               /\ \/ Head(cs).op = "object" /\ \E e \in store.objects : e.id = Head(cs).id
                  \/ Head(cs).op = "evidence" /\ Head(cs).ids \subseteq Ids("evidence")
      <3>1. ASSUME Alone
            PROVE  Working(store, identity, Tail(cs))
        <4>1. cs # <<>> /\ Head(cs) = cs[1] /\ Working(store, identity, cs)
          BY <2>1, <2>2, <3>1, UnderWay
        <4>2. cs[1].op \in {"object", "evidence"}
          BY <2>5, <4>1
        <4>3. Gives(cs[1]) \subseteq Present(store)
          <5>1. CASE cs[1].op = "object"
            <6>1. Obj(cs[1].id) \in Present(store)
              BY <2>5, <4>1, <5>1, InPresent
            <6> QED
              BY <5>1, <6>1 DEF Gives
          <5>2. CASE cs[1].op = "evidence"
            <6>1. \A x \in cs[1].ids : Ev(x) \in Present(store)
              BY <2>5, <4>1, <5>2, InPresent DEF Ids
            <6> QED
              BY <5>2, <6>1 DEF Gives
          <5> QED
            BY <4>2, <5>1, <5>2
        <4> QED
          BY <4>1, <4>2, <4>3, LookedUp
      <3> QED
        BY <1>r, <2>2, <2>5, <3>1, GoesOnInv
    <2> QED
      BY <2>3, <2>4, <2>5
  <1>6. ASSUME NEW c \in load.clients, LoadToAdd(c)
        PROVE  GraphInv'
    <2>1. PICK cs, coll, e, held :
             /\ cs = client[c].calls /\ coll = Head(cs).coll /\ e = Head(cs).entity
             /\ held = [store EXCEPT ![coll] = @ \cup {e}]
      OBVIOUS
    <2>2. /\ client[c].pc = "calling" /\ Head(cs).op = "add" /\ UNCHANGED <<load, store, identity>>
          /\ IF e.id \in Ids(coll) THEN Ends(c)
             ELSE Goes(c, [pc |-> "graph", held |-> held, calls |-> Tail(cs)])
      BY <1>6, <2>1 DEF LoadToAdd, Calling
    <2>3. Alone => /\ cs # <<>> /\ Head(cs) = cs[1] /\ Working(store, identity, cs)
                   /\ coll = cs[1].coll /\ e = cs[1].entity
      BY <2>1, <2>2, UnderWay
    <2>4. CASE e.id \in Ids(coll)
      <3>1. ASSUME Alone
            PROVE  Working(store, identity, <<>>)
        <4>1. cs[1].op # "review"
          BY <2>2, <2>3, <3>1
        <4>2. IsHistory(cs[1]) => \E h \in store.history : h.id = cs[1].entity.id
          BY <2>3, <2>4, <3>1 DEF IsHistory, Ids
        <4> QED
          BY <2>3, <3>1, <4>1, <4>2, Forgotten
      <3> QED
        BY <1>r, <2>2, <2>4, <3>1, EndsIsGoesOn, GoesOnInv
    <2>5. CASE e.id \notin Ids(coll)
      <3>1. ASSUME Alone
            PROVE  Working(held, identity, Tail(cs)) /\ Within(store, held)
        <4>1. cs[1].op = "add" /\ cs[1].entity.id \notin {x.id : x \in store[cs[1].coll]}
          BY <2>2, <2>3, <2>5, <3>1 DEF Ids
        <4> QED
          BY <2>1, <2>3, <3>1, <4>1, Added
      <3> QED
        BY <2>2, <2>5, <3>1, HoldsInv
    <2> QED
      BY <2>4, <2>5
  <1>7. ASSUME NEW c \in load.clients, LoadToReplace(c)
        PROVE  GraphInv'
    <2>1. PICK cs, new, held :
             /\ cs = client[c].calls /\ new = Head(cs).entity
             /\ held = [store EXCEPT !.objects = {IF e.id = new.id THEN new ELSE e : e \in @}]
      OBVIOUS
    <2>2. /\ client[c].pc = "calling" /\ Head(cs).op = "replace" /\ UNCHANGED <<load, store, identity>>
          /\ IF new.id \notin Ids("objects") THEN Ends(c)
             ELSE Goes(c, [pc |-> "graph", held |-> held, calls |-> Tail(cs)])
      BY <1>7, <2>1 DEF LoadToReplace, Calling
    <2>3. Alone => /\ cs # <<>> /\ Head(cs) = cs[1] /\ Working(store, identity, cs)
                   /\ new = cs[1].entity
      BY <2>1, <2>2, UnderWay
    <2>4. CASE Ends(c)
      <3>1. ASSUME Alone
            PROVE  Working(store, identity, <<>>)
        <4>1. cs[1].op # "review" /\ ~IsHistory(cs[1])
          BY <2>2, <2>3, <3>1 DEF IsHistory
        <4> QED
          BY <2>3, <3>1, <4>1, Forgotten
      <3> QED
        BY <1>r, <2>2, <2>4, <3>1, EndsIsGoesOn, GoesOnInv
    <2>5. CASE Goes(c, [pc |-> "graph", held |-> held, calls |-> Tail(cs)])
      <3>1. ASSUME Alone
            PROVE  Working(held, identity, Tail(cs)) /\ Within(store, held)
        <4>1. cs[1].op = "replace"
          BY <2>2, <2>3, <3>1
        <4>2. held = [store EXCEPT !.objects =
                        {IF x.id = cs[1].entity.id THEN cs[1].entity ELSE x : x \in @}]
          BY <2>1, <2>3, <3>1
        <4>3. cs # <<>> /\ Working(store, identity, cs)
          BY <2>3, <3>1
        <4>4. LET new1 == [store EXCEPT !.objects =
                        {IF x.id = cs[1].entity.id THEN cs[1].entity ELSE x : x \in @}]
              IN  Working(new1, identity, Tail(cs)) /\ Within(store, new1)
          BY <4>1, <4>3, Replaced
        <4> QED
          BY <4>2, <4>4
      <3> QED
        BY <2>2, <2>5, <3>1, HoldsInv
    <2> QED
      BY <2>2, <2>4, <2>5
  <1>8. ASSUME NEW c \in load.clients, SaveGraph(c)
        PROVE  GraphInv'
    <2>1. PICK cs : cs = client[c].calls
      OBVIOUS
    <2>2. /\ client[c].pc = "graph" /\ store' = client[c].held /\ GoesOn(c, cs)
          /\ UNCHANGED <<load, identity>>
      BY <1>8, <2>1 DEF SaveGraph
    <2>3. Alone => /\ Working(store', identity, cs)
                   /\ Within(store, store')
      BY <2>1, <2>2, UnderWay
    <2> QED
      BY <1>r, <2>2, <2>3, GoesOnInv DEF Within
  <1>9. ASSUME Restart, UNCHANGED <<load, store, identity>>
        PROVE  GraphInv'
    <2>1. client' = [c \in Clients |-> Idle] /\ load.restarts /\ (Alone' <=> Alone)
      BY <1>9 DEF Restart, Alone
    <2>2. Alone => Working(store, identity, <<>>)
      BY <2>1, EmptyRest DEF Working, GraphInv
    <2>3. GraphShape' /\ \A c \in Clients : client'[c] = Idle
      BY <1>9, <2>1 DEF GraphShape, GraphInv
    <2> QED
      BY <1>9, <2>1, <2>2, <2>3 DEF GraphInv, Working
  <1>10. ASSUME UNCHANGED <<load, client, store, identity, taken>>
         PROVE  GraphInv'
    BY <1>10 DEF GraphInv, GraphShape, Alone, Working
  <1> QED
    BY <1>1, <1>2, <1>3, <1>4, <1>5, <1>6, <1>7, <1>8, <1>9, <1>10 DEF GraphNext

-----------------------------------------------------------------------------
(* The theorems                                                            *)

\* One of at most one.
LEMMA AtMostOne ==
  ASSUME NEW S, \A x, y \in S : x = y
  PROVE  Cardinality(S) <= 1
  <1>1. CASE S = {}
    BY <1>1, FS_EmptySet
  <1>2. CASE S # {}
    <2>1. PICK x : x \in S
      BY <1>2
    <2>2. S = {x}
      BY <2>1
    <2> QED
      BY <2>2, FS_Singleton
  <1> QED
    BY <1>1, <1>2

\* With one client the building graph has no integrity error, wherever a request is cut off,
\* its history speaks only of what is there, and every revision is recorded when the requests
\* have ended. (BuildingGraphService, GraphIntegrityService.validate)
THEOREM GraphStaysWhole == GraphSpec => []GraphIsWhole
  <1>1. GraphInv => GraphIsWhole
    <2> SUFFICES ASSUME GraphInv, Alone
                 PROVE  /\ Errors(store) = {}
                        /\ \A h \in store.history :
                             \E e \in store.objects \cup store.relations \cup store.properties :
                                e.id = h.entity /\ (e \in store.objects => h.revision <= e.revision)
                        /\ ~load.restarts /\ (\A c \in Clients : client[c] = Idle) =>
                             \A obj \in store.objects : \A n \in 1..obj.revision :
                                \E h \in store.history : h.entity = obj.id /\ h.revision = n
      BY DEF GraphIsWhole
    <2>1. IsGraph(store)
      BY DEF GraphInv, IsSound
    <2>2. ASSUME NEW h \in store.history
          PROVE  \E e \in store.objects \cup store.relations \cup store.properties :
                    e.id = h.entity /\ (e \in store.objects => h.revision <= e.revision)
      <3>1. SpeaksOf(store, h) /\ h.revision \in Nat
        BY <2>1 DEF IsGraph, SpeaksOf
      <3>2. \A o \in store.objects : o.revision \in Nat \ {0}
        BY <2>1 DEF IsGraph
      <3>3. CASE \E o \in store.objects : o.id = h.entity /\ h.revision <= o.revision
        BY <3>3
      <3>4. CASE \E e \in store.relations \cup store.properties : e.id = h.entity /\ h.revision = 1
        BY <3>2, <3>4
      <3> QED
        BY <3>1, <3>3, <3>4 DEF SpeaksOf
    <2>3. ASSUME ~load.restarts, \A c \in Clients : client[c] = Idle
          PROVE  \A obj \in store.objects : \A n \in 1..obj.revision :
                    \E h \in store.history : h.entity = obj.id /\ h.revision = n
      <3>1. Full(store, <<>>)
        BY <2>3 DEF GraphInv, Working
      <3> QED
        BY <3>1 DEF Full, IsRecordedNext
    <2> QED
      BY <2>1, <2>2, <2>3 DEF IsGraph
  <1> QED
    BY <1>1, GraphInvInit, GraphInvStep, PTL DEF GraphSpec

\* With one client every review has the relation it resolved its candidate to, a candidate is
\* resolved at most once, and what is resolved is reviewed when the requests have ended, unless
\* the server was restarted. (review_identity_candidate)
THEOREM IdentityStaysDecided == GraphSpec => []IdentityIsDecidedOnce
  <1>1. GraphInv => IdentityIsDecidedOnce
    <2> DEFINE resolved(id) == {r \in store.relations : r.id[1] = "resolved" /\ r.id[2] = id}
    <2> SUFFICES ASSUME GraphInv, Alone
                 PROVE  /\ \A v \in identity : \E r \in resolved(v.candidate) : r.id[4] = v.time
                        /\ ~load.restarts =>
                             \A r \in store.relations :
                                /\ Cardinality(resolved(r.id)) <= 1
                                /\ (\A c \in Clients : client[c] = Idle) /\ resolved(r.id) # {} =>
                                      \E v \in identity : v.candidate = r.id
      BY DEF IdentityIsDecidedOnce
    <2>1. \A v \in identity : \E r \in resolved(v.candidate) : r.id[4] = v.time
      <3> TAKE v \in identity
      <3>1. Res(v.candidate, v.time) \in Present(store)
        BY DEF GraphInv
      <3>2. PICK r \in store.relations : IsResolution(r.id) /\ r.id[2] = v.candidate /\ r.id[4] = v.time
        BY <3>1, InPresent
      <3> QED
        BY <3>2 DEF IsResolution
    <2>2. ASSUME ~load.restarts, NEW r \in store.relations
          PROVE  Cardinality(resolved(r.id)) <= 1
      <3>1. \A x, y \in store.relations :
               IsResolution(x.id) /\ IsResolution(y.id) /\ x.id[2] = y.id[2] => x = y
        <4>1. CASE \A c \in Clients : client[c] = Idle
          BY <2>2, <4>1 DEF GraphInv, Working, Decided
        <4>2. ASSUME NEW c \in Clients, client[c] # Idle
              PROVE  \A x, y \in store.relations :
                        IsResolution(x.id) /\ IsResolution(y.id) /\ x.id[2] = y.id[2] => x = y
          <5>1. /\ IsRequest(store, client[c])
                /\ Decided(Ahead(store, client[c]), identity, client[c].calls)
            BY <2>2, <4>2 DEF GraphInv, Working
          <5>2. CASE client[c].pc = "graph"
            BY <5>1, <5>2 DEF IsRequest, Within, Ahead, Decided
          <5>3. CASE client[c].pc # "graph"
            BY <5>1, <5>3 DEF Ahead, Decided
          <5> QED
            BY <5>2, <5>3
        <4> QED
          BY <4>1, <4>2
      <3>2. \A x, y \in resolved(r.id) : x = y
        BY <3>1 DEF IsResolution
      <3> HIDE DEF resolved
      <3> QED
        BY <3>2, AtMostOne
    <2>3. ASSUME ~load.restarts, \A c \in Clients : client[c] = Idle,
                 NEW r \in store.relations, resolved(r.id) # {}
          PROVE  \E v \in identity : v.candidate = r.id
      <3>1. PICK x \in store.relations : IsResolution(x.id) /\ x.id[2] = r.id
        BY <2>3 DEF IsResolution
      <3>2. Working(store, identity, <<>>)
        BY <2>3 DEF GraphInv
      <3>3. \E v \in identity : v.candidate = x.id[2]
        BY <2>3, <3>1, <3>2, RestFull
      <3> QED
        BY <3>1, <3>3
    <2> QED
      BY <2>1, <2>2, <2>3
  <1> QED
    BY <1>1, GraphInvInit, GraphInvStep, PTL DEF GraphSpec

-----------------------------------------------------------------------------
(* THE DOCUMENT.  Saves that do not overlap                                *)

Save == [pc : {"idle", "save", "opened", "written"}, held : SUBSET Entries,
         opened : {"none", "temp", "live", "gone"}]

\* What the save of one thread has come to, while nobody else saves.
SaveOK(q) ==
    \/ q = NoSave
    \/ /\ q.pc \in {"save", "opened", "written"}
       /\ \E e \in Entries \ OnFile : q.held = OnFile \cup {e}
       /\ q.pc # "save" => q.opened = "temp"
       /\ q.pc = "opened" => temp = Empty
       /\ q.pc = "written" => temp = q.held

\* At most one thread is saving.
OneAtATime ==
    \A s, t \in Savers : s # t => saver[s] = NoSave \/ saver[t] = NoSave

\* The document is whole, one thread at most is saving and its save is
\* consistent with the document.
Solo ==
    /\ live = Absent \/ live \in SUBSET Entries
    /\ OneAtATime
    /\ \A s \in Savers : SaveOK(saver[s])

\* The inductive invariant.
SavedInv ==
    /\ TypeOK
    /\ ~overlapped => Solo

\* Nothing is on file at first and nobody saves.
LEMMA SavedInit == DocumentInit => SavedInv /\ Atomic!Init
  <1> SUFFICES ASSUME DocumentInit
               PROVE  SavedInv /\ Atomic!Init
    OBVIOUS
  <1>1. \A s \in Savers : saver[s] = NoSave
    BY DEF DocumentInit
  <1>2. Solo /\ Atomic!Init
    BY <1>1 DEF DocumentInit, Solo, OneAtATime, SaveOK, Atomic!Init
  <1>3. TypeOK
    BY <1>1 DEF DocumentInit, TypeOK, Contents, NoSave
  <1> QED
    BY <1>2, <1>3 DEF SavedInv

\* An idle save is well formed, and moving the temporary file is nothing to it.
LEMMA IdleSave ==
    /\ NoSave \in Save /\ NoSave.pc = "idle" /\ NoSave.opened = "none"
    /\ Moved(NoSave) = NoSave
  <1>1. NoSave \in Save /\ NoSave.pc = "idle" /\ NoSave.opened = "none"
    BY DEF NoSave, Save
  <1>2. Moved(NoSave) = [NoSave EXCEPT !.opened = "none"]
    BY <1>1 DEF Moved
  <1> QED
    BY <1>1, <1>2 DEF NoSave

\* Moving the temporary file leaves a save well formed and as far as it was.
LEMMA MovedSave ==
    \A q \in Save :
        /\ Moved(q) \in Save
        /\ Moved(q).pc = q.pc
        /\ Moved(q).opened = "none" <=> q.opened = "none"
  <1> TAKE q \in Save
  <1> DEFINE o == CASE q.opened = "temp" -> "live"
                    [] q.opened = "live" -> "gone"
                    [] OTHER -> q.opened
  <1>1. q.opened \in {"none", "temp", "live", "gone"}
    BY DEF Save
  <1>2. o \in {"none", "temp", "live", "gone"} /\ (o = "none" <=> q.opened = "none")
    BY <1>1
  <1>3. Moved(q) = [q EXCEPT !.opened = o]
    BY DEF Moved
  <1> HIDE DEF o
  <1>4. /\ [q EXCEPT !.opened = o] \in Save
        /\ [q EXCEPT !.opened = o].pc = q.pc
        /\ [q EXCEPT !.opened = o].opened = o
    BY <1>2 DEF Save
  <1> QED
    BY <1>2, <1>3, <1>4

\* A save is well formed: it has a file open from when it opens it.
OpenOK(q) == q \in Save /\ (q.opened = "none" <=> q.pc \in {"idle", "save"})

\* The type invariant in terms of single saves.
LEMMA TypeBySave ==
    TypeOK <=> /\ live \in Contents /\ temp \in Contents
               /\ saver = [s \in Savers |-> saver[s]]
               /\ \A s \in Savers : OpenOK(saver[s])
               /\ overlapped \in BOOLEAN /\ restarted \in BOOLEAN
  BY DEF TypeOK, OpenOK, Save

\* Changing one save for a well-formed one leaves them all well formed.
LEMMA OneSaveChanges ==
    ASSUME TypeOK, NEW s \in Savers, NEW q, OpenOK(q), saver' = [saver EXCEPT ![s] = q],
           live' \in Contents, temp' \in Contents,
           overlapped' \in BOOLEAN, restarted' \in BOOLEAN
    PROVE  TypeOK' /\ saver'[s] = q /\ \A t \in Savers \ {s} : saver'[t] = saver[t]
  BY DEF TypeOK, OpenOK, Save

\* Every step leaves the files and the saves well formed.
LEMMA TypeNext ==
    ASSUME TypeOK, [DocumentNext]_documentVars
    PROVE  TypeOK'
  <1>1. \A s \in Savers : OpenOK(saver[s])
    BY TypeBySave
  <1>2. /\ live \in Contents /\ temp \in Contents
        /\ overlapped \in BOOLEAN /\ restarted \in BOOLEAN
    BY DEF TypeOK
  <1>3. ASSUME NEW s \in Savers, NEW e \in Entries, Load(s, e)
        PROVE  TypeOK'
    <2> DEFINE q == [pc |-> "save", held |-> OnFile \cup {e}, opened |-> "none"]
    <2>1. OnFile \subseteq Entries
      BY <1>2, <1>3 DEF Load, OnFile, Contents
    <2>2. OpenOK(q)
      BY <2>1 DEF OpenOK, Save
    <2>3. /\ saver' = [saver EXCEPT ![s] = q]
          /\ overlapped' \in BOOLEAN
          /\ UNCHANGED <<live, temp, restarted>>
      BY <1>2, <1>3 DEF Load
    <2> HIDE DEF q
    <2> QED
      BY <1>2, <2>2, <2>3, OneSaveChanges
  <1>4. ASSUME NEW s \in Savers, OpenTemp(s)
        PROVE  TypeOK'
    <2> DEFINE q == [saver[s] EXCEPT !.pc = "opened", !.opened = "temp"]
    <2>1. OpenOK(q)
      BY <1>1 DEF OpenOK, Save
    <2>2. /\ saver' = [saver EXCEPT ![s] = q]
          /\ live' \in Contents /\ temp' \in Contents
          /\ UNCHANGED <<overlapped, restarted>>
      BY <1>2, <1>4 DEF OpenTemp, documentHistory, Contents, TypeOK
    <2> HIDE DEF q
    <2> QED
      BY <1>2, <2>1, <2>2, OneSaveChanges
  <1>5. ASSUME NEW s \in Savers, Write(s)
        PROVE  TypeOK'
    <2> DEFINE q == [saver[s] EXCEPT !.pc = "written"]
    <2>1. saver[s] \in Save /\ saver[s].opened \in {"temp", "live", "gone"}
      BY <1>1, <1>5 DEF OpenOK, Write, Save
    <2>2. OpenOK(q)
      BY <2>1 DEF OpenOK, Save
    <2>3. live' \in Contents /\ temp' \in Contents
      BY <1>2, <1>5, <2>1 DEF Write, Landed, Contents, Save
    <2>4. saver' = [saver EXCEPT ![s] = q] /\ UNCHANGED <<overlapped, restarted>>
      BY <1>5 DEF Write, documentHistory, TypeOK
    <2> HIDE DEF q
    <2> QED
      BY <1>2, <2>2, <2>3, <2>4, OneSaveChanges
  <1>6. ASSUME NEW s \in Savers, MoveTemp(s)
        PROVE  TypeOK'
    <2>1. saver' = [t \in Savers |-> IF t = s THEN NoSave ELSE Moved(saver[t])]
      BY <1>6 DEF MoveTemp
    <2>2. \A t \in Savers : OpenOK(saver'[t])
      BY <1>1, <2>1, IdleSave, MovedSave DEF OpenOK
    <2>3. /\ live' \in Contents /\ temp' \in Contents
          /\ UNCHANGED <<overlapped, restarted>>
      BY <1>2, <1>6 DEF MoveTemp, Contents, documentHistory
    <2> QED
      BY <1>2, <2>1, <2>2, <2>3 DEF TypeOK, OpenOK, Save
  <1>7. ASSUME NEW s \in Savers, ReplaceFails(s)
        PROVE  TypeOK'
    <2>1. OpenOK(NoSave)
      BY IdleSave DEF OpenOK
    <2> QED
      BY <1>2, <1>7, <2>1, OneSaveChanges DEF ReplaceFails, documentHistory
  <1>8. CASE Crash
    BY <1>2, <1>8, IdleSave DEF Crash, TypeOK, Save
  <1>9. CASE UNCHANGED documentVars
    BY <1>9 DEF documentVars, TypeOK, Contents
  <1> QED
    BY <1>3, <1>4, <1>5, <1>6, <1>7, <1>8, <1>9 DEF DocumentNext

\* One thread's save goes a step on while all the others are idle.
LEMMA SoloStep ==
    ASSUME Solo, NEW s \in Savers, saver[s] # NoSave,
           \A t \in Savers \ {s} : saver'[t] = saver[t],
           SaveOK(saver[s])', UNCHANGED live
    PROVE  Solo'
  <1>1. \A t \in Savers \ {s} : saver'[t] = NoSave
    BY DEF Solo, OneAtATime
  <1> QED
    BY <1>1 DEF Solo, OneAtATime, SaveOK

\* While no two saves overlap, every step changes the document as an
\* AtomicDocument changes or not at all.
LEMMA SavedNext ==
    ASSUME SavedInv, [DocumentNext]_documentVars
    PROVE  SavedInv' /\ (~overlapped' => [Atomic!Next]_live)
  <1>0. TypeOK' /\ TypeOK
    BY TypeNext DEF SavedInv
  <1> SUFFICES ASSUME ~overlapped'
               PROVE  Solo' /\ [Atomic!Next]_live
    BY <1>0 DEF SavedInv
  <1>1. ~overlapped
    BY <1>0 DEF DocumentNext, Load, OpenTemp, Write, MoveTemp, ReplaceFails, Crash, documentHistory,
                documentVars, TypeOK
  <1>2. Solo /\ \A s \in Savers : SaveOK(saver[s]) /\ OpenOK(saver[s])
    BY <1>0, <1>1, TypeBySave DEF SavedInv, Solo
  <1>3. ASSUME NEW s \in Savers, NEW e \in Entries, Load(s, e)
        PROVE  Solo' /\ UNCHANGED live
    <2>1. /\ saver'[s] = [pc |-> "save", held |-> OnFile \cup {e}, opened |-> "none"]
          /\ UNCHANGED <<live, temp>>
          /\ e \notin OnFile
          /\ \A t \in Savers \ {s} : saver'[t] = NoSave
      BY <1>0, <1>3 DEF Load, TypeOK
    <2>2. SaveOK(saver[s])'
      BY <2>1 DEF SaveOK, OnFile
    <2> QED
      BY <1>2, <2>1, <2>2 DEF Solo, OneAtATime, SaveOK
  <1>4. ASSUME NEW s \in Savers, OpenTemp(s)
        PROVE  Solo' /\ UNCHANGED live
    <2>1. /\ saver[s].pc = "save" /\ saver[s] # NoSave
          /\ UNCHANGED live /\ temp' = Empty
          /\ saver'[s] = [saver[s] EXCEPT !.pc = "opened", !.opened = "temp"]
          /\ \A t \in Savers \ {s} : saver'[t] = saver[t]
      BY <1>0, <1>4, IdleSave DEF OpenTemp, TypeOK
    <2>2. /\ saver'[s].pc = "opened" /\ saver'[s].opened = "temp"
          /\ saver'[s].held = saver[s].held
      BY <1>2, <2>1 DEF OpenOK, Save
    <2>3. SaveOK(saver[s])'
      BY <1>2, <2>1, <2>2 DEF SaveOK, OnFile
    <2> QED
      BY <1>2, <2>1, <2>3, SoloStep
  <1>5. ASSUME NEW s \in Savers, Write(s)
        PROVE  Solo' /\ UNCHANGED live
    <2>1. /\ saver[s].pc = "opened" /\ saver[s] # NoSave
          /\ saver[s].opened = "temp" /\ temp = Empty
      BY <1>2, <1>5, IdleSave DEF Write, SaveOK
    <2>2. /\ UNCHANGED live /\ temp' = saver[s].held
          /\ saver'[s] = [saver[s] EXCEPT !.pc = "written"]
          /\ \A t \in Savers \ {s} : saver'[t] = saver[t]
      BY <1>0, <1>5, <2>1 DEF Write, Landed, TypeOK
    <2>3. /\ saver'[s].pc = "written" /\ saver'[s].opened = "temp"
          /\ saver'[s].held = saver[s].held
      BY <1>2, <2>1, <2>2 DEF OpenOK, Save
    <2>4. SaveOK(saver[s])'
      BY <1>2, <2>1, <2>2, <2>3 DEF SaveOK, OnFile
    <2> QED
      BY <1>2, <2>1, <2>2, <2>4, SoloStep
  <1>6. ASSUME NEW s \in Savers, MoveTemp(s)
        PROVE  Solo' /\ Atomic!Next
    <2>1. /\ saver[s].pc = "written" /\ saver[s] # NoSave
          /\ live' = saver[s].held /\ saver[s].held \in SUBSET Entries
          /\ \E e \in Entries \ OnFile : saver[s].held = OnFile \cup {e}
      BY <1>2, <1>6, IdleSave DEF MoveTemp, SaveOK, OpenOK, Save
    <2>2. \A t \in Savers : saver'[t] = NoSave
      BY <1>2, <1>6, <2>1, IdleSave DEF MoveTemp, Solo, OneAtATime
    <2>3. Atomic!Next
      BY <2>1 DEF Atomic!Next, Atomic!Add, Atomic!Known, OnFile
    <2> QED
      BY <2>1, <2>2, <2>3 DEF Solo, OneAtATime, SaveOK
  <1>7. ASSUME NEW s \in Savers, ReplaceFails(s)
        PROVE  Solo' /\ UNCHANGED live
    <2>1. /\ UNCHANGED live /\ saver[s] # NoSave /\ saver'[s] = NoSave
          /\ \A t \in Savers \ {s} : saver'[t] = saver[t]
      BY <1>0, <1>7, IdleSave DEF ReplaceFails, TypeOK
    <2>2. SaveOK(saver[s])'
      BY <2>1 DEF SaveOK
    <2> QED
      BY <1>2, <2>1, <2>2, SoloStep
  <1>8. CASE Crash
    BY <1>2, <1>8 DEF Crash, Solo, OneAtATime, SaveOK
  <1>9. CASE UNCHANGED documentVars
    BY <1>2, <1>9 DEF documentVars, Solo, OneAtATime, SaveOK, OnFile
  <1> QED
    BY <1>3, <1>4, <1>5, <1>6, <1>7, <1>8, <1>9 DEF DocumentNext

\* The files hold possible contents and every save is well formed, for any
\* number of threads.
THEOREM StoredTypeCorrect == DocumentSpec => []TypeOK
  <1>1. DocumentInit => TypeOK
    BY SavedInit DEF SavedInv
  <1> QED
    BY <1>1, TypeNext, PTL DEF DocumentSpec

\* However many threads save, and with a restart between any two file
\* operations, the document is stored atomically as long as no save begins
\* while another is under way.
THEOREM StoredAtomically == DocumentSpec => ImplementsAtomic
  <1>1. DocumentSpec => []SavedInv
    BY SavedInit, SavedNext, PTL DEF DocumentSpec
  <1>2. SavedInv /\ [DocumentNext]_documentVars => [~overlapped' => Atomic!Next]_live
    BY SavedNext
  <1> QED
    BY <1>1, <1>2, SavedInit, PTL DEF DocumentSpec, ImplementsAtomic

\* Until two saves have overlapped, whoever reads the document finds it whole.
THEOREM WholeUnlessOverlapped == DocumentSpec => [](~overlapped => DocumentIsWhole)
  <1>1. SavedInv => (~overlapped => DocumentIsWhole)
    BY ContentAssumption DEF SavedInv, Solo, DocumentIsWhole
  <1>2. DocumentSpec => []SavedInv
    BY SavedInit, SavedNext, PTL DEF DocumentSpec
  <1> QED
    BY <1>1, <1>2, PTL
================================================================================
