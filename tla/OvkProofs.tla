-------------------------------- MODULE OvkProofs --------------------------------
(***************************************************************************)
(* Theorems about the OVK module.  Field mode: however synchronisations,   *)
(* failures, edits and imports of old protocols interleave, what is said   *)
(* to be synchronised is stored.  A snapshot travels through the requests  *)
(* that hold it, so what is true of the server's has to be true of every   *)
(* copy that may still be written back.  Cases: certificates, the watch    *)
(* list, and records that open forms write back.                           *)
(***************************************************************************)
EXTENDS OvkCases, FiniteSetTheorems, WellFoundedInduction, TLAPS

-----------------------------------------------------------------------------
(* The shape of field data                                                 *)

\* FieldUnit: a unit that was visited says how.
IsUnit(u) ==
    /\ u = [k \in {"id", "number", "status", "stamp", "system", "key"} |-> u[k]]
    /\ u.status \in Closed => u.stamp = "checked"
    /\ u.status = "bom" => u.stamp = "bom"
    /\ u.status \in Closed \cup {"bom", "ej_paborjad"}

\* OvkPhotoEvidence
IsPhoto(p) ==
    /\ p = [k \in {"id", "unit", "number", "space", "room", "finding", "type", "sync", "late"} |-> p[k]]
    /\ p.late \in BOOLEAN

\* OvkFieldData
HasFields(d) ==
    d = [f \in {"units", "rooms", "findings", "photos", "measurements", "vents", "spaces",
               "checkpoints", "legacy"} |-> d[f]]

IsFieldData(d) ==
    /\ HasFields(d)
    /\ \A u \in d.units : IsUnit(u)
    /\ \A p \in d.photos : IsPhoto(p)
    /\ IsFiniteSet(d.photos)

-----------------------------------------------------------------------------
(* Evidence: the inductive invariant                                       *)

\* What field data says to be synchronised is there, in the media m.
IsHonest(d, m) ==
    /\ IsFieldData(d)
    /\ \A p \in d.photos : p.sync = "synced" => p.id \in m.receipts

\* What a synchronisation holds is honest, and it has stored what it will say.
RequestIsHonest(q, m) ==
    /\ q.pc \in {"put", "body", "bytes", "receipt"} => IsHonest(q.held, m)
    /\ q.pc \in {"body", "bytes"} =>
          q = [pc |-> q.pc, photo |-> q.photo, held |-> q.held, left |-> q.left]
    /\ q.pc = "bytes" => q.photo \in m.bytes
    /\ q.pc \in {"receipt", "answered"} => q.photo \in m.receipts

\* No photo has a receipt without its bytes, and the
\* draft, the snapshot and every copy that is under way are honest.
EvidenceInv ==
    /\ load.clients \subseteq Clients
    /\ DOMAIN client = Clients
    /\ media = [bytes |-> media.bytes, receipts |-> media.receipts]
    /\ media.receipts \subseteq media.bytes
    /\ \A d \in snapshot \cup {draft.data} : IsHonest(d, media)
    /\ \A c \in Clients : RequestIsHonest(client[c], media)

-----------------------------------------------------------------------------
(* The draft: the inductive invariant                                      *)

\* The identifier that edit k gives a record of its kind.
NewId(kind, k) == <<kind, k>>

\* The records of one kind in a draft of n edits: as many as there are identifiers, and
\* the identifiers of later edits are free.
IsNumbered(rs, kind, n) ==
    /\ IsFiniteSet(rs)
    /\ \A r, s \in rs : r.id = s.id => r = s
    /\ NoId \notin Ids(rs)
    /\ \A k \in Nat : k > n => NewId(kind, k) \notin Ids(rs)

IsKey(key) ==
    /\ key = [k \in {"received", "received_at", "returned", "returned_at", "master", "note"} |-> key[k]]
    /\ KeyIsValid(key)

IsMeasurement(m) ==
    /\ m = [k \in {"id", "unit", "room", "measurable", "value", "reason", "finding"} |-> m[k]]
    /\ m.measurable \/ (m.reason /\ m.value = "none")

IsFinding(f) ==
    /\ f = [k \in {"id", "unit", "room", "type", "severity", "class"} |-> f[k]]
    /\ f.type \in DefectTypes /\ f.class \in {NoClass, 0, 1, 2}

IsCheckpoint(k) ==
    /\ k = [f \in {"id", "space", "status", "note"} |-> k[f]]
    /\ k.status = "fail" => k.note

\* The number of every unit, and the unit of every finding.
Flats(units) == {<<u.id, u.number>> : u \in units}
Marks(findings) == {<<f.id, f.unit>> : f \in findings}

UnitsOK(units, n) ==
    /\ IsNumbered(units, "unit", n)
    /\ \A u \in units : IsUnit(u) /\ UnitIsValid(u) /\ \A key \in u.key : IsKey(key)

RoomsOK(rooms, units, n) ==
    IsNumbered(rooms, "room", n) /\ \A r \in rooms : r.unit \in Ids(units)

FindingsOK(findings, units, rooms, n) ==
    /\ IsNumbered(findings, "finding", n)
    /\ \A f \in findings : IsFinding(f) /\ f.unit \in Ids(units) /\ Refers(f.room, rooms)

\* A measurement has the finding that says why it could not be made, of its own unit.
MeasurementsOK(ms, units, rooms, findings, n) ==
    /\ IsNumbered(ms, "meas", n)
    /\ \A m \in ms :
          /\ IsMeasurement(m) /\ m.unit \in Ids(units) /\ Refers(m.room, rooms)
          /\ m.measurable \/ m.finding # NoId
          /\ m.finding # NoId => <<m.finding, m.unit>> \in Marks(findings)

PhotosOK(photos, units, rooms, findings, spaces, n) ==
    /\ IsNumbered(photos, "photo", n)
    /\ \A p \in photos :
          /\ IsPhoto(p) /\ PhotoIsBound(p) /\ p.type \in DefectTypes
          /\ IF p.space # NoId THEN p.space \in Ids(spaces)
             ELSE <<p.unit, p.number>> \in Flats(units)
          /\ Refers(p.room, rooms) /\ (p.late \/ Refers(p.finding, findings))

VentsOK(vents, units, rooms, n) ==
    /\ IsNumbered(vents, "wv", n)
    /\ \A v \in vents : v.unit \in Ids(units) /\ Refers(v.room, rooms)

CheckpointsOK(checkpoints, spaces, n) ==
    /\ IsNumbered(checkpoints, "cp", n)
    /\ \A k \in checkpoints : IsCheckpoint(k) /\ k.space \in Ids(spaces)

IsDraft(d, n) ==
    /\ n \in Nat
    /\ HasFields(d)
    /\ UnitsOK(d.units, n)
    /\ RoomsOK(d.rooms, d.units, n)
    /\ FindingsOK(d.findings, d.units, d.rooms, n)
    /\ MeasurementsOK(d.measurements, d.units, d.rooms, d.findings, n)
    /\ PhotosOK(d.photos, d.units, d.rooms, d.findings, d.spaces, n)
    /\ VentsOK(d.vents, d.units, d.rooms, n)
    /\ IsNumbered(d.spaces, "space", n)
    /\ CheckpointsOK(d.checkpoints, d.spaces, n)

\* A photo whose bytes are awaited: what it is of is there, but for the finding, which
\* may be gone by now.
IsTaken(p, d) ==
    /\ p = [k \in {"unit", "number", "space", "room", "finding", "type"} |-> p[k]]
    /\ PhotoIsBound(p) /\ p.type \in DefectTypes
    /\ IF p.space # NoId THEN p.space \in Ids(d.spaces)
       ELSE <<p.unit, p.number>> \in Flats(d.units)
    /\ Refers(p.room, d.rooms)

DraftInv ==
    /\ draft = [data |-> draft.data, dirty |-> draft.dirty, edits |-> draft.edits,
                taking |-> draft.taking]
    /\ IsDraft(draft.data, draft.edits)
    /\ \A p \in draft.taking : IsTaken(p, draft.data)

-----------------------------------------------------------------------------
(* Records with identifiers                                                *)

\* Records that their identifiers tell apart are as many as the identifiers.
LEMMA ToldApart ==
  ASSUME NEW S, IsFiniteSet(S), \A r, s \in S : r.id = s.id => r = s
  PROVE  AreUnique(S)
  <1> DEFINE f == [r \in S |-> r.id]
  <1>1. f \in Bijection(S, Ids(S))
    BY DEF Bijection, Injection, Surjection, IsInjective, Ids
  <1> QED
    BY <1>1, FS_Bijection DEF AreUnique, ExistsBijection

\* Fewer records, or more edits.
LEMMA FewerAreNumbered ==
  ASSUME NEW S, NEW kind, NEW n \in Nat, IsNumbered(S, kind, n),
         NEW T, T \subseteq S, NEW m \in Nat, m >= n
  PROVE  IsNumbered(T, kind, m) /\ Ids(T) \subseteq Ids(S)
  <1>1. IsFiniteSet(T)
    BY FS_Subset DEF IsNumbered
  <1>2. Ids(T) \subseteq Ids(S)
    BY DEF Ids
  <1>3. \A k \in Nat : k > m => k > n
    OBVIOUS
  <1> QED
    BY <1>1, <1>2, <1>3 DEF IsNumbered

LEMMA RestIsNumbered ==
  ASSUME NEW S, NEW kind, NEW n \in Nat, IsNumbered(S, kind, n), NEW gone
  PROVE  IsNumbered(S \ gone, kind, n)
  BY FewerAreNumbered

\* A record of the next edit.
LEMMA OneMoreIsNumbered ==
  ASSUME NEW S, NEW kind, NEW n \in Nat, IsNumbered(S, kind, n),
         NEW r, r.id = NewId(kind, n + 1)
  PROVE  IsNumbered(S \cup {r}, kind, n + 1)
  <1>1. IsFiniteSet(S \cup {r})
    BY FS_AddElement DEF IsNumbered
  <1>2. Ids(S \cup {r}) = Ids(S) \cup {r.id}
    BY DEF Ids
  <1>3. r.id # NoId
    BY DEF NoId, NewId
  <1>4. \A k \in Nat : k > n + 1 => k > n /\ NewId(kind, k) # r.id
    BY DEF NewId
  <1>5. n + 1 \in Nat /\ n + 1 > n
    OBVIOUS
  <1>6. r.id \notin Ids(S)
    BY <1>5 DEF IsNumbered
  <1>7. \A s, t \in S \cup {r} : s.id = t.id => s = t
    BY <1>6 DEF IsNumbered, Ids
  <1> QED
    BY <1>1, <1>2, <1>3, <1>4, <1>7 DEF IsNumbered

\* Every record is changed, or not, and keeps its identifier.
LEMMA ChangedAreNumbered ==
  ASSUME NEW S, NEW kind, NEW n \in Nat, IsNumbered(S, kind, n), NEW m \in Nat, m >= n,
         NEW h, DOMAIN h = S, \A r \in S : h[r].id = r.id,
         NEW T, T = {h[r] : r \in S}
  PROVE  IsNumbered(T, kind, m) /\ Ids(T) = Ids(S)
  <1>1. IsFiniteSet(T)
    <2> DEFINE g == [r \in S |-> h[r]]
    <2>1. g \in Surjection(S, T)
      BY DEF Surjection
    <2> QED
      BY <2>1, FS_Surjection DEF IsNumbered
  <1>2. Ids(T) = Ids(S)
    BY DEF Ids
  <1>3. \A k \in Nat : k > m => k > n
    OBVIOUS
  <1>4. ASSUME NEW r \in T, NEW s \in T, r.id = s.id
        PROVE  r = s
    BY <1>4 DEF IsNumbered
  <1> QED
    BY <1>1, <1>2, <1>3, <1>4 DEF IsNumbered

\* One record is replaced by one of the same identifier.
LEMMA ReplacedAreNumbered ==
  ASSUME NEW S, NEW kind, NEW n \in Nat, IsNumbered(S, kind, n), NEW m \in Nat, m >= n,
         NEW old \in S, NEW new, new.id = old.id
  PROVE  /\ IsNumbered(Replaced(S, old, new), kind, m)
         /\ Ids(Replaced(S, old, new)) = Ids(S)
  <1> DEFINE h == [r \in S |-> IF r = old THEN new ELSE r]
  <1>1. DOMAIN h = S /\ \A r \in S : h[r].id = r.id
    OBVIOUS
  <1>2. Replaced(S, old, new) = {h[r] : r \in S}
    BY DEF Replaced
  <1> HIDE DEF h
  <1> QED
    BY <1>1, <1>2, ChangedAreNumbered

-----------------------------------------------------------------------------
(* Edits                                                                   *)

\* What the records of d refer to is in e as well.
KeepsPlaces(d, e) ==
    /\ Ids(d.units) \subseteq Ids(e.units) /\ Flats(d.units) \subseteq Flats(e.units)
    /\ Ids(d.rooms) \subseteq Ids(e.rooms) /\ Ids(d.spaces) \subseteq Ids(e.spaces)

KeepsReferences(d, e) ==
    /\ KeepsPlaces(d, e)
    /\ Ids(d.findings) \subseteq Ids(e.findings) /\ Marks(d.findings) \subseteq Marks(e.findings)

\* Records that an edit leaves alone are in order as long as what they refer to is there.
LEMMA LeftAlone ==
  ASSUME NEW d, NEW n, IsDraft(d, n), NEW e, KeepsReferences(d, e), NEW m \in Nat, m >= n
  PROVE  /\ UnitsOK(d.units, m) /\ RoomsOK(d.rooms, e.units, m)
         /\ FindingsOK(d.findings, e.units, e.rooms, m)
         /\ MeasurementsOK(d.measurements, e.units, e.rooms, e.findings, m)
         /\ PhotosOK(d.photos, e.units, e.rooms, e.findings, e.spaces, m)
         /\ VentsOK(d.vents, e.units, e.rooms, m)
         /\ IsNumbered(d.spaces, "space", m)
         /\ CheckpointsOK(d.checkpoints, e.spaces, m)
  <1>1. n \in Nat
    BY DEF IsDraft
  <1>2. ASSUME NEW S, NEW kind, IsNumbered(S, kind, n)
        PROVE  IsNumbered(S, kind, m)
    BY <1>1, <1>2, FewerAreNumbered
  <1>3. /\ \A id : Refers(id, d.rooms) => Refers(id, e.rooms)
        /\ \A id : Refers(id, d.findings) => Refers(id, e.findings)
    BY DEF Refers, KeepsReferences, KeepsPlaces
  <1>4. RoomsOK(d.rooms, e.units, m)
    BY <1>2 DEF IsDraft, RoomsOK, KeepsReferences, KeepsPlaces
  <1>5. FindingsOK(d.findings, e.units, e.rooms, m)
    BY <1>2, <1>3 DEF IsDraft, FindingsOK, KeepsReferences, KeepsPlaces
  <1>6. MeasurementsOK(d.measurements, e.units, e.rooms, e.findings, m)
    BY <1>2, <1>3 DEF IsDraft, MeasurementsOK, KeepsReferences, KeepsPlaces
  <1>7. PhotosOK(d.photos, e.units, e.rooms, e.findings, e.spaces, m)
    BY <1>2, <1>3 DEF IsDraft, PhotosOK, KeepsReferences, KeepsPlaces
  <1>8. VentsOK(d.vents, e.units, e.rooms, m)
    BY <1>2, <1>3 DEF IsDraft, VentsOK, KeepsReferences, KeepsPlaces
  <1>9. IsNumbered(d.spaces, "space", m) /\ CheckpointsOK(d.checkpoints, e.spaces, m)
    BY <1>2 DEF IsDraft, CheckpointsOK, KeepsReferences, KeepsPlaces
  <1>10. UnitsOK(d.units, m)
    BY <1>2 DEF IsDraft, UnitsOK
  <1> QED
    BY <1>4, <1>5, <1>6, <1>7, <1>8, <1>9, <1>10

\* What e says to be synchronised, d said.
SaysNoMore(e, d) ==
    \A p \in e.photos : p.sync = "synced" => \E q \in d.photos : q.id = p.id /\ q.sync = "synced"

\* The draft becomes e.
LEMMA DraftBecomes ==
  ASSUME DraftInv, NEW e, Edits(e), IsDraft(e, draft.edits + 1), KeepsPlaces(draft.data, e),
         SaysNoMore(e, draft.data)
  PROVE  DraftInv' /\ SaysNoMore(draft'.data, draft.data)
  <1>1. draft' = [data |-> e, dirty |-> TRUE, edits |-> draft.edits + 1, taking |-> draft.taking]
    BY DEF Edits, DraftInv
  <1>2. draft'.data = e /\ draft'.edits = draft.edits + 1 /\ draft'.taking = draft.taking
    BY <1>1
  <1>3. draft' = [data |-> draft'.data, dirty |-> draft'.dirty, edits |-> draft'.edits,
                 taking |-> draft'.taking]
    BY <1>1
  <1>4. \A p \in draft'.taking : IsTaken(p, e)
    BY <1>2 DEF DraftInv, IsTaken, KeepsPlaces, Refers
  <1> QED
    BY <1>2, <1>3, <1>4 DEF DraftInv

LEMMA DraftOf ==
  ASSUME DraftInv
  PROVE  /\ IsDraft(draft.data, draft.edits) /\ draft.edits \in Nat
         /\ draft.edits + 1 \in Nat /\ draft.edits + 1 >= draft.edits
  BY DEF DraftInv, IsDraft

\* A unit is replaced by itself in another state.
LEMMA UnitReplaced ==
  ASSUME NEW units, NEW n \in Nat, UnitsOK(units, n), NEW m \in Nat, m >= n,
         NEW u \in units, NEW v, v.id = u.id, v.number = u.number,
         IsUnit(v), UnitIsValid(v), \A key \in v.key : IsKey(key)
  PROVE  /\ UnitsOK(Replaced(units, u, v), m)
         /\ Ids(Replaced(units, u, v)) = Ids(units)
         /\ Flats(Replaced(units, u, v)) = Flats(units)
  <1>1. /\ IsNumbered(Replaced(units, u, v), "unit", m)
        /\ Ids(Replaced(units, u, v)) = Ids(units)
    BY ReplacedAreNumbered DEF UnitsOK
  <1>2. Flats(Replaced(units, u, v)) = Flats(units)
    BY DEF Replaced, Flats
  <1> QED
    BY <1>1, <1>2 DEF UnitsOK, Replaced

\* A finding, photo, measurement or other record is added.
LEMMA FindingAdded ==
  ASSUME NEW d, NEW n, IsDraft(d, n), NEW f, f.id = NewId("finding", n + 1), IsFinding(f),
         f.unit \in Ids(d.units), Refers(f.room, d.rooms)
  PROVE  /\ FindingsOK(d.findings \cup {f}, d.units, d.rooms, n + 1)
         /\ Ids(d.findings) \subseteq Ids(d.findings \cup {f})
         /\ Marks(d.findings) \subseteq Marks(d.findings \cup {f})
         /\ <<f.id, f.unit>> \in Marks(d.findings \cup {f})
  <1>1. n \in Nat /\ IsNumbered(d.findings, "finding", n)
    BY DEF IsDraft, FindingsOK
  <1>2. IsNumbered(d.findings \cup {f}, "finding", n + 1)
    BY <1>1, OneMoreIsNumbered
  <1>3. FindingsOK(d.findings \cup {f}, d.units, d.rooms, n + 1)
    BY <1>2 DEF IsDraft, FindingsOK
  <1> QED
    BY <1>3 DEF Ids, Marks

LEMMA PhotoAdded ==
  ASSUME NEW d, NEW n, IsDraft(d, n), NEW p, p.id = NewId("photo", n + 1), IsPhoto(p),
         PhotoIsBound(p), p.type \in DefectTypes,
         IF p.space # NoId THEN p.space \in Ids(d.spaces) ELSE <<p.unit, p.number>> \in Flats(d.units),
         Refers(p.room, d.rooms), p.late \/ Refers(p.finding, d.findings)
  PROVE  PhotosOK(d.photos \cup {p}, d.units, d.rooms, d.findings, d.spaces, n + 1)
  <1>1. n \in Nat /\ IsNumbered(d.photos, "photo", n)
    BY DEF IsDraft, PhotosOK
  <1>2. IsNumbered(d.photos \cup {p}, "photo", n + 1)
    BY <1>1, OneMoreIsNumbered
  <1> QED
    BY <1>2 DEF IsDraft, PhotosOK

\* EnterRoom
LEMMA EnterRoomOK ==
  ASSUME DraftInv, NEW u \in draft.data.units, EnterRoom(u)
  PROVE  DraftInv' /\ SaysNoMore(draft'.data, draft.data)
  <1> DEFINE d == draft.data
             n == draft.edits
             r == [id |-> New("room"), unit |-> u.id]
             m == Measurement(u, New("room"))
             e == [d EXCEPT !.rooms = @ \cup {r}, !.measurements = @ \cup {m}]
  <1>1. Edits(e)
    BY DEF EnterRoom
  <1>2. r.id = NewId("room", n + 1) /\ r.unit = u.id
    BY DEF New, NewId
  <1>3. /\ m.id = NewId("meas", n + 1) /\ IsMeasurement(m) /\ m.measurable
        /\ m.unit = u.id /\ m.room = r.id /\ m.finding = NoId
    BY DEF New, NewId, IsMeasurement, Measurement
  <1> HIDE DEF r, m
  <1>4. /\ HasFields(e) /\ e.rooms = d.rooms \cup {r} /\ e.measurements = d.measurements \cup {m}
        /\ e.units = d.units /\ e.findings = d.findings /\ e.photos = d.photos
        /\ e.vents = d.vents /\ e.spaces = d.spaces /\ e.checkpoints = d.checkpoints
    BY DraftOf DEF IsDraft, HasFields
  <1> HIDE DEF e
  <1>5. /\ IsNumbered(d.rooms, "room", n) /\ IsNumbered(d.measurements, "meas", n)
        /\ u.id \in Ids(d.units)
    BY DraftOf DEF IsDraft, RoomsOK, MeasurementsOK, Ids
  <1>6. /\ IsNumbered(d.rooms \cup {r}, "room", n + 1)
        /\ IsNumbered(d.measurements \cup {m}, "meas", n + 1)
    BY <1>2, <1>3, <1>5, DraftOf, OneMoreIsNumbered
  <1>7. Ids(e.rooms) = Ids(d.rooms) \cup {r.id}
    BY <1>4 DEF Ids
  <1>8. KeepsReferences(d, e)
    BY <1>4, <1>7 DEF KeepsReferences, KeepsPlaces
  <1>9. RoomsOK(e.rooms, e.units, n + 1)
    BY <1>2, <1>4, <1>5, <1>6, DraftOf DEF IsDraft, RoomsOK
  <1>10. MeasurementsOK(e.measurements, e.units, e.rooms, e.findings, n + 1)
    <2>1. MeasurementsOK(d.measurements, e.units, e.rooms, e.findings, n + 1)
      BY <1>8, DraftOf, LeftAlone
    <2> QED
      BY <1>3, <1>4, <1>5, <1>6, <1>7, <2>1 DEF MeasurementsOK, Refers
  <1>11. IsDraft(e, n + 1)
    BY <1>4, <1>8, <1>9, <1>10, DraftOf, LeftAlone DEF IsDraft
  <1> QED
    BY <1>1, <1>4, <1>11, <1>8, DraftBecomes DEF SaysNoMore, KeepsReferences

\* A measurement is added, or replaced by itself in another state.
LEMMA MeasurementsEdited ==
  ASSUME DraftInv, NEW ms, Edits([draft.data EXCEPT !.measurements = ms]),
         MeasurementsOK(ms, draft.data.units, draft.data.rooms, draft.data.findings, draft.edits + 1)
  PROVE  DraftInv' /\ SaysNoMore(draft'.data, draft.data)
  <1> DEFINE d == draft.data
             n == draft.edits
             e == [d EXCEPT !.measurements = ms]
  <1>1. Edits(e)
    OBVIOUS
  <1>2. /\ HasFields(e) /\ e.measurements = ms /\ e.rooms = d.rooms
        /\ e.units = d.units /\ e.findings = d.findings /\ e.photos = d.photos
        /\ e.vents = d.vents /\ e.spaces = d.spaces /\ e.checkpoints = d.checkpoints
    BY DraftOf DEF IsDraft, HasFields
  <1> HIDE DEF e
  <1>3. KeepsReferences(d, e)
    BY <1>2 DEF KeepsReferences, KeepsPlaces
  <1>4. IsDraft(e, n + 1)
    BY <1>2, <1>3, DraftOf, LeftAlone DEF IsDraft
  <1> QED
    BY <1>1, <1>2, <1>3, <1>4, DraftBecomes DEF SaysNoMore, KeepsReferences

\* AddPoint
LEMMA AddPointOK ==
  ASSUME DraftInv, NEW u \in draft.data.units, NEW room, Refers(room, draft.data.rooms),
         AddPoint(u, room)
  PROVE  DraftInv' /\ SaysNoMore(draft'.data, draft.data)
  <1> DEFINE d == draft.data
             n == draft.edits
             m == Measurement(u, room)
             ms == d.measurements \cup {m}
  <1>1. Edits([d EXCEPT !.measurements = ms])
    BY DEF AddPoint
  <1>2. /\ m.id = NewId("meas", n + 1) /\ IsMeasurement(m) /\ m.measurable
        /\ m.unit = u.id /\ m.room = room /\ m.finding = NoId
    BY DEF New, NewId, IsMeasurement, Measurement
  <1> HIDE DEF m
  <1>3. /\ MeasurementsOK(d.measurements, d.units, d.rooms, d.findings, n)
        /\ IsNumbered(d.measurements, "meas", n) /\ u.id \in Ids(d.units)
    BY DraftOf DEF IsDraft, MeasurementsOK, Ids
  <1>4. IsNumbered(ms, "meas", n + 1)
    BY <1>2, <1>3, DraftOf, OneMoreIsNumbered
  <1>5. MeasurementsOK(ms, d.units, d.rooms, d.findings, n + 1)
    BY <1>2, <1>3, <1>4 DEF MeasurementsOK
  <1> HIDE DEF ms
  <1> QED
    BY <1>1, <1>5, MeasurementsEdited

\* EnterValue: of a measurement that can be made.
LEMMA EnterValueOK ==
  ASSUME DraftInv, NEW m \in draft.data.measurements, NEW value, EnterValue(m, value)
  PROVE  DraftInv' /\ SaysNoMore(draft'.data, draft.data)
  <1> DEFINE d == draft.data
             n == draft.edits
             w == [m EXCEPT !.value = value]
             ms == Replaced(d.measurements, m, w)
  <1>1. Edits([d EXCEPT !.measurements = ms]) /\ m.measurable
    BY DEF EnterValue
  <1>2. /\ MeasurementsOK(d.measurements, d.units, d.rooms, d.findings, n)
        /\ IsNumbered(d.measurements, "meas", n) /\ IsMeasurement(m)
    BY DraftOf DEF IsDraft, MeasurementsOK
  <1>3. /\ w.id = m.id /\ w.unit = m.unit /\ w.room = m.room /\ w.finding = m.finding
        /\ w.measurable = m.measurable /\ IsMeasurement(w)
    BY <1>1, <1>2 DEF IsMeasurement
  <1> HIDE DEF w
  <1>4. IsNumbered(ms, "meas", n + 1)
    BY <1>2, <1>3, DraftOf, ReplacedAreNumbered
  <1>5. \A x \in ms : x \in d.measurements \/ x = w
    BY DEF Replaced
  <1> HIDE DEF ms
  <1>6. MeasurementsOK(ms, d.units, d.rooms, d.findings, n + 1)
    BY <1>2, <1>3, <1>4, <1>5 DEF MeasurementsOK
  <1> QED
    BY <1>1, <1>6, MeasurementsEdited

\* AddUnit
LEMMA AddUnitOK ==
  ASSUME DraftInv, NEW number, AddUnit(number)
  PROVE  DraftInv' /\ SaysNoMore(draft'.data, draft.data)
  <1> DEFINE d == draft.data
             n == draft.edits
             u == [id |-> New("unit"), number |-> number, status |-> "ej_paborjad", stamp |-> "none",
                   system |-> "building", key |-> {}]
             e == [d EXCEPT !.units = @ \cup {u}]
  <1>1. Edits(e)
    BY DEF AddUnit
  <1>2. /\ u.id = NewId("unit", n + 1) /\ IsUnit(u) /\ UnitIsValid(u)
        /\ \A key \in u.key : IsKey(key)
    BY DEF New, NewId, IsUnit, UnitIsValid, Closed
  <1> HIDE DEF u
  <1>3. /\ HasFields(e) /\ e.units = d.units \cup {u} /\ e.rooms = d.rooms
        /\ e.findings = d.findings /\ e.photos = d.photos /\ e.measurements = d.measurements
        /\ e.vents = d.vents /\ e.spaces = d.spaces /\ e.checkpoints = d.checkpoints
    BY DraftOf DEF IsDraft, HasFields
  <1> HIDE DEF e
  <1>4. UnitsOK(d.units, n) /\ IsNumbered(d.units, "unit", n)
    BY DraftOf DEF IsDraft, UnitsOK
  <1>5. IsNumbered(e.units, "unit", n + 1)
    BY <1>2, <1>3, <1>4, DraftOf, OneMoreIsNumbered
  <1>6. UnitsOK(e.units, n + 1)
    BY <1>2, <1>3, <1>4, <1>5 DEF UnitsOK
  <1>7. KeepsReferences(d, e)
    BY <1>3 DEF KeepsReferences, KeepsPlaces, Ids, Flats
  <1>8. IsDraft(e, n + 1)
    BY <1>3, <1>6, <1>7, DraftOf, LeftAlone DEF IsDraft
  <1> QED
    BY <1>1, <1>3, <1>7, <1>8, DraftBecomes DEF SaysNoMore, KeepsReferences

\* AddFinding
LEMMA AddFindingOK ==
  ASSUME DraftInv, NEW u \in draft.data.units, NEW room, Refers(room, draft.data.rooms),
         AddFinding(u, room, "minor")
  PROVE  DraftInv' /\ SaysNoMore(draft'.data, draft.data)
  <1> DEFINE d == draft.data
             n == draft.edits
             f == Finding(u, room, "missing_terminal", "minor")
             e == [d EXCEPT !.findings = @ \cup {f}]
  <1>1. Edits(e)
    BY DEF AddFinding
  <1>2. f.id = NewId("finding", n + 1) /\ IsFinding(f) /\ f.unit = u.id /\ f.room = room
    BY DefectTypesAssumption DEF Finding, New, NewId, IsFinding
  <1> HIDE DEF f
  <1>3. /\ HasFields(e) /\ e.findings = d.findings \cup {f}
        /\ e.units = d.units /\ e.rooms = d.rooms /\ e.measurements = d.measurements
        /\ e.photos = d.photos /\ e.vents = d.vents /\ e.spaces = d.spaces
        /\ e.checkpoints = d.checkpoints
    BY DraftOf DEF IsDraft, HasFields
  <1> HIDE DEF e
  <1>4. u.id \in Ids(d.units)
    BY DEF Ids
  <1>5. /\ FindingsOK(d.findings \cup {f}, d.units, d.rooms, n + 1)
        /\ Ids(d.findings) \subseteq Ids(d.findings \cup {f})
        /\ Marks(d.findings) \subseteq Marks(d.findings \cup {f})
    BY <1>2, <1>4, DraftOf, FindingAdded
  <1>6. KeepsReferences(d, e)
    BY <1>3, <1>5 DEF KeepsReferences, KeepsPlaces
  <1>7. IsDraft(e, n + 1)
    BY <1>3, <1>5, <1>6, DraftOf, LeftAlone DEF IsDraft
  <1> QED
    BY <1>1, <1>3, <1>7, <1>6, DraftBecomes DEF SaysNoMore, KeepsReferences

\* MarkNotMeasurable: the measurement and the finding that says why.
LEMMA MarkNotMeasurableOK ==
  ASSUME DraftInv, NEW m \in draft.data.measurements, MarkNotMeasurable(m)
  PROVE  DraftInv' /\ SaysNoMore(draft'.data, draft.data)
  <1> DEFINE d == draft.data
             n == draft.edits
             u == CHOOSE u \in d.units : u.id = m.unit
             f == Finding(u, m.room, "terminal_not_measurable", "minor")
             w == [m EXCEPT !.measurable = FALSE, !.value = "none", !.reason = TRUE, !.finding = f.id]
             e == [d EXCEPT !.measurements = Replaced(@, m, w), !.findings = @ \cup {f}]
  <1>1. Edits(e)
    BY DEF MarkNotMeasurable
  <1>2. /\ MeasurementsOK(d.measurements, d.units, d.rooms, d.findings, n)
        /\ IsNumbered(d.measurements, "meas", n)
        /\ IsMeasurement(m) /\ m.unit \in Ids(d.units) /\ Refers(m.room, d.rooms)
    BY DraftOf DEF IsDraft, MeasurementsOK
  <1>3. u.id = m.unit
    BY <1>2 DEF Ids
  <1>4. f.id = NewId("finding", n + 1) /\ IsFinding(f) /\ f.unit = m.unit /\ f.room = m.room
    BY <1>3, DefectTypesAssumption DEF Finding, New, NewId, IsFinding
  <1>5. f.id # NoId
    BY <1>4, DraftOf DEF NewId, NoId
  <1> HIDE DEF u, f
  <1>6. /\ w.id = m.id /\ w.unit = m.unit /\ w.room = m.room /\ w.finding = f.id
        /\ IsMeasurement(w)
    BY <1>2 DEF IsMeasurement
  <1> HIDE DEF w
  <1>7. /\ HasFields(e) /\ e.findings = d.findings \cup {f}
        /\ e.measurements = Replaced(d.measurements, m, w)
        /\ e.units = d.units /\ e.rooms = d.rooms /\ e.photos = d.photos
        /\ e.vents = d.vents /\ e.spaces = d.spaces /\ e.checkpoints = d.checkpoints
    BY DraftOf DEF IsDraft, HasFields
  <1> HIDE DEF e
  <1>8. /\ FindingsOK(d.findings \cup {f}, d.units, d.rooms, n + 1)
        /\ Ids(d.findings) \subseteq Ids(d.findings \cup {f})
        /\ Marks(d.findings) \subseteq Marks(d.findings \cup {f})
        /\ <<f.id, f.unit>> \in Marks(d.findings \cup {f})
    BY <1>2, <1>4, DraftOf, FindingAdded
  <1>9. KeepsReferences(d, e)
    BY <1>7, <1>8 DEF KeepsReferences, KeepsPlaces
  <1>10. MeasurementsOK(e.measurements, e.units, e.rooms, e.findings, n + 1)
    <2>1. MeasurementsOK(d.measurements, e.units, e.rooms, e.findings, n + 1)
      BY <1>9, DraftOf, LeftAlone
    <2>2. IsNumbered(e.measurements, "meas", n + 1)
      BY <1>2, <1>6, <1>7, DraftOf, ReplacedAreNumbered
    <2>3. \A x \in e.measurements : x \in d.measurements \/ x = w
      BY <1>7 DEF Replaced
    <2> QED
      BY <1>2, <1>4, <1>5, <1>6, <1>7, <1>8, <2>1, <2>2, <2>3 DEF MeasurementsOK
  <1>11. IsDraft(e, n + 1)
    BY <1>7, <1>8, <1>9, <1>10, DraftOf, LeftAlone DEF IsDraft
  <1> QED
    BY <1>1, <1>7, <1>11, <1>9, DraftBecomes DEF SaysNoMore, KeepsReferences

\* Classify
LEMMA ClassifyOK ==
  ASSUME DraftInv, NEW f \in draft.data.findings, Classify(f, 0)
  PROVE  DraftInv' /\ SaysNoMore(draft'.data, draft.data)
  <1> DEFINE d == draft.data
             n == draft.edits
             severity == CASE 0 = 2 -> "major" [] 0 = 1 -> "minor" [] OTHER -> "info"
             g == [f EXCEPT !.class = 0, !.severity = severity]
             e == [d EXCEPT !.findings = Replaced(@, f, g)]
  <1>1. Edits(e)
    BY DEF Classify
  <1>2. /\ FindingsOK(d.findings, d.units, d.rooms, n)
        /\ IsNumbered(d.findings, "finding", n) /\ IsFinding(f)
    BY DraftOf DEF IsDraft, FindingsOK
  <1> HIDE DEF severity
  <1>3. g.id = f.id /\ g.unit = f.unit /\ g.room = f.room /\ IsFinding(g)
    BY <1>2 DEF IsFinding
  <1> HIDE DEF g
  <1>4. /\ HasFields(e) /\ e.findings = Replaced(d.findings, f, g)
        /\ e.units = d.units /\ e.rooms = d.rooms /\ e.measurements = d.measurements
        /\ e.photos = d.photos /\ e.vents = d.vents /\ e.spaces = d.spaces
        /\ e.checkpoints = d.checkpoints
    BY DraftOf DEF IsDraft, HasFields
  <1> HIDE DEF e
  <1>5. IsNumbered(e.findings, "finding", n + 1) /\ Ids(e.findings) = Ids(d.findings)
    BY <1>2, <1>3, <1>4, DraftOf, ReplacedAreNumbered
  <1>6. Marks(d.findings) \subseteq Marks(e.findings)
    BY <1>3, <1>4 DEF Marks, Replaced
  <1>7. KeepsReferences(d, e)
    BY <1>4, <1>5, <1>6 DEF KeepsReferences, KeepsPlaces
  <1>8. FindingsOK(e.findings, e.units, e.rooms, n + 1)
    <2>1. \A x \in e.findings : x \in d.findings \/ x = g
      BY <1>4 DEF Replaced
    <2> QED
      BY <1>2, <1>3, <1>4, <1>5, <2>1 DEF FindingsOK
  <1>9. IsDraft(e, n + 1)
    BY <1>4, <1>7, <1>8, DraftOf, LeftAlone DEF IsDraft
  <1> QED
    BY <1>1, <1>4, <1>9, <1>7, DraftBecomes DEF SaysNoMore, KeepsReferences

\* A photo is taken: the draft is as it was.
LEMMA TakesOK ==
  ASSUME DraftInv, NEW p, Takes(p), IsTaken(p, draft.data)
  PROVE  DraftInv' /\ SaysNoMore(draft'.data, draft.data)
  <1>1. draft' = [data |-> draft.data, dirty |-> draft.dirty, edits |-> draft.edits, taking |-> {p}]
    BY DEF Takes, DraftInv
  <1>2. /\ draft'.data = draft.data /\ draft'.edits = draft.edits /\ draft'.taking = {p}
        /\ draft' = [data |-> draft'.data, dirty |-> draft'.dirty, edits |-> draft'.edits,
                     taking |-> draft'.taking]
    BY <1>1
  <1> QED
    BY <1>2 DEF DraftInv, SaysNoMore

\* TakePhoto: of a finding, in its unit.
LEMMA TakePhotoOK ==
  ASSUME DraftInv, NEW f \in draft.data.findings, TakePhoto(f)
  PROVE  DraftInv' /\ SaysNoMore(draft'.data, draft.data)
  <1> DEFINE d == draft.data
             u == CHOOSE u \in d.units : u.id = f.unit
             p == [unit |-> u.id, number |-> u.number, space |-> NoId, room |-> f.room,
                   finding |-> f.id, type |-> f.type]
  <1>1. Takes(p)
    BY DEF TakePhoto
  <1>2. f.unit \in Ids(d.units) /\ Refers(f.room, d.rooms) /\ f.type \in DefectTypes
    BY DraftOf DEF IsDraft, FindingsOK, IsFinding
  <1>3. u \in d.units /\ u.id = f.unit
    BY <1>2 DEF Ids
  <1>4. u.id # NoId
    BY <1>3, DraftOf DEF IsDraft, UnitsOK, IsNumbered, Ids
  <1>5. <<u.id, u.number>> \in Flats(d.units)
    BY <1>3 DEF Flats
  <1> HIDE DEF u
  <1>6. /\ p = [k \in {"unit", "number", "space", "room", "finding", "type"} |-> p[k]]
        /\ p.unit = u.id /\ p.number = u.number /\ p.space = NoId /\ p.room = f.room /\ p.type = f.type
    OBVIOUS
  <1> HIDE DEF p
  <1>7. IsTaken(p, d)
    BY <1>2, <1>4, <1>5, <1>6 DEF IsTaken, PhotoIsBound
  <1> QED
    BY <1>1, <1>7, TakesOK

\* TakeNameplate: of a technical space.
LEMMA TakeNameplateOK ==
  ASSUME DraftInv, NEW s \in draft.data.spaces, TakeNameplate(s)
  PROVE  DraftInv' /\ SaysNoMore(draft'.data, draft.data)
  <1> DEFINE p == [unit |-> NoId, number |-> 0, space |-> s.id, room |-> NoId, finding |-> NoId,
                   type |-> "equipment_nameplate"]
  <1>1. Takes(p)
    BY DEF TakeNameplate
  <1>2. s.id \in Ids(draft.data.spaces) /\ s.id # NoId
    BY DraftOf DEF IsDraft, IsNumbered, Ids
  <1>3. /\ p = [k \in {"unit", "number", "space", "room", "finding", "type"} |-> p[k]]
        /\ p.space = s.id /\ p.room = NoId /\ p.type \in DefectTypes
    BY DefectTypesAssumption
  <1> HIDE DEF p
  <1>4. IsTaken(p, draft.data)
    BY <1>2, <1>3 DEF IsTaken, PhotoIsBound, Refers
  <1> QED
    BY <1>1, <1>4, TakesOK

\* AddPhoto: as it was taken, late if its finding is gone.
LEMMA AddPhotoOK ==
  ASSUME DraftInv, AddPhoto
  PROVE  DraftInv' /\ SaysNoMore(draft'.data, draft.data)
  <1> DEFINE d == draft.data
             n == draft.edits
             photo(t) == [id |-> New("photo"), unit |-> t.unit, number |-> t.number,
                          space |-> t.space, room |-> t.room, finding |-> t.finding,
                          type |-> t.type, sync |-> "local", late |-> ~Refers(t.finding, d.findings)]
  <1>1. PICK t \in draft.taking :
           draft' = [draft EXCEPT !.data.photos = @ \cup {photo(t)},
                                  !.dirty = TRUE, !.edits = @ + 1, !.taking = {}]
    BY DEF AddPhoto
  <1> DEFINE p == photo(t)
             e == [d EXCEPT !.photos = @ \cup {p}]
  <1>2. IsTaken(t, d)
    BY DEF DraftInv
  <1>3. /\ p.id = NewId("photo", n + 1) /\ IsPhoto(p) /\ p.type = t.type /\ p.space = t.space
        /\ p.unit = t.unit /\ p.number = t.number /\ p.room = t.room /\ p.finding = t.finding
        /\ p.sync = "local" /\ p.late = ~Refers(t.finding, d.findings)
    BY DEF New, NewId, IsPhoto
  <1>4. draft' = [draft EXCEPT !.data = e, !.dirty = TRUE, !.edits = @ + 1, !.taking = {}]
    BY <1>1
  <1> HIDE DEF p, photo
  <1>5. /\ HasFields(e) /\ e.photos = d.photos \cup {p}
        /\ e.units = d.units /\ e.rooms = d.rooms /\ e.findings = d.findings
        /\ e.measurements = d.measurements /\ e.vents = d.vents /\ e.spaces = d.spaces
        /\ e.checkpoints = d.checkpoints
    BY DraftOf DEF IsDraft, HasFields
  <1> HIDE DEF e
  <1>6. PhotosOK(e.photos, e.units, e.rooms, e.findings, e.spaces, n + 1)
    <2>1. PhotoIsBound(p) /\ (p.late \/ Refers(p.finding, d.findings))
      BY <1>2, <1>3 DEF PhotoIsBound, IsTaken
    <2> QED
      BY <1>2, <1>3, <1>5, <2>1, DraftOf, PhotoAdded DEF IsTaken
  <1>7. KeepsReferences(d, e)
    BY <1>5 DEF KeepsReferences, KeepsPlaces
  <1>8. IsDraft(e, n + 1)
    BY <1>5, <1>6, <1>7, DraftOf, LeftAlone DEF IsDraft
  <1>9. draft' = [data |-> e, dirty |-> TRUE, edits |-> n + 1, taking |-> {}]
    BY <1>4 DEF DraftInv
  <1>10. /\ draft'.data = e /\ draft'.edits = n + 1 /\ draft'.taking = {}
         /\ draft' = [data |-> draft'.data, dirty |-> draft'.dirty, edits |-> draft'.edits,
                      taking |-> draft'.taking]
    BY <1>9
  <1> QED
    BY <1>3, <1>5, <1>8, <1>10 DEF DraftInv, SaysNoMore

\* AddSpace: with its checklist.
LEMMA AddSpaceOK ==
  ASSUME DraftInv, AddSpace
  PROVE  DraftInv' /\ SaysNoMore(draft'.data, draft.data)
  <1> DEFINE d == draft.data
             n == draft.edits
             s == [id |-> New("space")]
             k == [id |-> New("cp"), space |-> New("space"), status |-> "pass", note |-> FALSE]
             e == [d EXCEPT !.spaces = @ \cup {s}, !.checkpoints = @ \cup {k}]
  <1>1. Edits(e)
    BY DEF AddSpace
  <1>2. s.id = NewId("space", n + 1)
    BY DEF New, NewId
  <1>3. k.id = NewId("cp", n + 1) /\ k.space = s.id /\ IsCheckpoint(k)
    BY DEF New, NewId, IsCheckpoint
  <1> HIDE DEF s, k
  <1>4. /\ HasFields(e) /\ e.spaces = d.spaces \cup {s} /\ e.checkpoints = d.checkpoints \cup {k}
        /\ e.units = d.units /\ e.rooms = d.rooms /\ e.findings = d.findings
        /\ e.measurements = d.measurements /\ e.vents = d.vents /\ e.photos = d.photos
    BY DraftOf DEF IsDraft, HasFields
  <1> HIDE DEF e
  <1>5. IsNumbered(d.spaces, "space", n) /\ IsNumbered(d.checkpoints, "cp", n)
    BY DraftOf DEF IsDraft, CheckpointsOK
  <1>6. IsNumbered(d.spaces \cup {s}, "space", n + 1) /\ IsNumbered(d.checkpoints \cup {k}, "cp", n + 1)
    BY <1>2, <1>3, <1>5, DraftOf, OneMoreIsNumbered
  <1>7. Ids(e.spaces) = Ids(d.spaces) \cup {s.id}
    BY <1>4 DEF Ids
  <1>8. KeepsReferences(d, e)
    BY <1>4, <1>7 DEF KeepsReferences, KeepsPlaces
  <1>9. CheckpointsOK(e.checkpoints, e.spaces, n + 1)
    BY <1>3, <1>4, <1>6, <1>7, DraftOf DEF IsDraft, CheckpointsOK
  <1>10. IsDraft(e, n + 1)
    BY <1>4, <1>6, <1>8, <1>9, DraftOf, LeftAlone DEF IsDraft
  <1> QED
    BY <1>1, <1>4, <1>10, <1>8, DraftBecomes DEF SaysNoMore, KeepsReferences

\* ToggleCheckpoint: a point that fails has its comment.
LEMMA ToggleCheckpointOK ==
  ASSUME DraftInv, NEW k \in draft.data.checkpoints, ToggleCheckpoint(k)
  PROVE  DraftInv' /\ SaysNoMore(draft'.data, draft.data)
  <1> DEFINE d == draft.data
             n == draft.edits
             j == [k EXCEPT !.status = IF k.status = "fail" THEN "pass" ELSE "fail",
                            !.note = ~(k.status = "fail")]
             e == [d EXCEPT !.checkpoints = Replaced(@, k, j)]
  <1>1. Edits(e)
    BY DEF ToggleCheckpoint
  <1>2. /\ CheckpointsOK(d.checkpoints, d.spaces, n)
        /\ IsNumbered(d.checkpoints, "cp", n) /\ IsCheckpoint(k)
    BY DraftOf DEF IsDraft, CheckpointsOK
  <1>3. j.id = k.id /\ j.space = k.space /\ IsCheckpoint(j)
    BY <1>2 DEF IsCheckpoint
  <1> HIDE DEF j
  <1>4. /\ HasFields(e) /\ e.checkpoints = Replaced(d.checkpoints, k, j)
        /\ e.units = d.units /\ e.rooms = d.rooms /\ e.findings = d.findings
        /\ e.measurements = d.measurements /\ e.vents = d.vents /\ e.photos = d.photos
        /\ e.spaces = d.spaces
    BY DraftOf DEF IsDraft, HasFields
  <1> HIDE DEF e
  <1>5. IsNumbered(e.checkpoints, "cp", n + 1)
    BY <1>2, <1>3, <1>4, DraftOf, ReplacedAreNumbered
  <1>6. CheckpointsOK(e.checkpoints, e.spaces, n + 1)
    <2>1. \A x \in e.checkpoints : x \in d.checkpoints \/ x = j
      BY <1>4 DEF Replaced
    <2> QED
      BY <1>2, <1>3, <1>4, <1>5, <2>1 DEF CheckpointsOK
  <1>7. KeepsReferences(d, e)
    BY <1>4 DEF KeepsReferences, KeepsPlaces
  <1>8. IsDraft(e, n + 1)
    BY <1>4, <1>6, <1>7, DraftOf, LeftAlone DEF IsDraft
  <1> QED
    BY <1>1, <1>4, <1>8, <1>7, DraftBecomes DEF SaysNoMore, KeepsReferences

\* An edit of one unit, which keeps its identifier and number.
LEMMA UnitEdited ==
  ASSUME DraftInv, NEW u \in draft.data.units, NEW v, v.id = u.id, v.number = u.number,
         IsUnit(v), UnitIsValid(v), \A key \in v.key : IsKey(key),
         Edits([draft.data EXCEPT !.units = Replaced(@, u, v)])
  PROVE  DraftInv' /\ SaysNoMore(draft'.data, draft.data)
  <1> DEFINE d == draft.data
             n == draft.edits
             e == [d EXCEPT !.units = Replaced(@, u, v)]
  <1>1. Edits(e)
    OBVIOUS
  <1>2. /\ HasFields(e) /\ e.units = Replaced(d.units, u, v)
        /\ e.rooms = d.rooms /\ e.findings = d.findings /\ e.measurements = d.measurements
        /\ e.vents = d.vents /\ e.photos = d.photos /\ e.spaces = d.spaces
        /\ e.checkpoints = d.checkpoints
    BY DraftOf DEF IsDraft, HasFields
  <1> HIDE DEF e
  <1>3. UnitsOK(d.units, n)
    BY DraftOf DEF IsDraft
  <1>4. UnitsOK(e.units, n + 1) /\ Ids(e.units) = Ids(d.units) /\ Flats(e.units) = Flats(d.units)
    BY <1>2, <1>3, DraftOf, UnitReplaced
  <1>5. KeepsReferences(d, e)
    BY <1>2, <1>4 DEF KeepsReferences, KeepsPlaces
  <1>6. IsDraft(e, n + 1)
    BY <1>2, <1>4, <1>5, DraftOf, LeftAlone DEF IsDraft
  <1> QED
    BY <1>1, <1>2, <1>6, <1>5, DraftBecomes DEF SaysNoMore, KeepsReferences

\* A unit of the draft is in order.
LEMMA UnitOfDraft ==
  ASSUME DraftInv, NEW u \in draft.data.units
  PROVE  IsUnit(u) /\ UnitIsValid(u) /\ \A key \in u.key : IsKey(key)
  BY DraftOf DEF IsDraft, UnitsOK

\* CloseUnit
LEMMA CloseUnitOK ==
  ASSUME DraftInv, NEW u \in draft.data.units, CloseUnit(u)
  PROVE  DraftInv' /\ SaysNoMore(draft'.data, draft.data)
  <1> DEFINE status == IF u.id \in Remarked(draft.data) THEN "anmarkning" ELSE "ua"
             v == [u EXCEPT !.stamp = "checked", !.status = status]
  <1>1. Edits([draft.data EXCEPT !.units = Replaced(@, u, v)])
    BY DEF CloseUnit
  <1>2. status \in Closed /\ status # "bom"
    BY DEF Closed
  <1> HIDE DEF status
  <1>3. /\ v.id = u.id /\ v.number = u.number /\ v.status = status /\ v.stamp = "checked"
        /\ v.system = u.system /\ v.key = u.key
    BY UnitOfDraft DEF IsUnit
  <1>4. IsUnit(v)
    BY <1>2, UnitOfDraft DEF IsUnit
  <1> HIDE DEF v
  <1>5. UnitIsValid(v) /\ \A key \in v.key : IsKey(key)
    BY <1>2, <1>3, UnitOfDraft DEF UnitIsValid
  <1> QED
    BY <1>1, <1>3, <1>4, <1>5, UnitEdited

\* SetSystem
LEMMA SetSystemOK ==
  ASSUME DraftInv, NEW u \in draft.data.units, NEW system \in SystemTypes \cup {"building"},
         SetSystem(u, system)
  PROVE  DraftInv' /\ SaysNoMore(draft'.data, draft.data)
  <1> DEFINE v == [u EXCEPT !.system = system]
  <1>1. Edits([draft.data EXCEPT !.units = Replaced(@, u, v)])
    BY DEF SetSystem
  <1>2. /\ v.id = u.id /\ v.number = u.number /\ v.status = u.status /\ v.stamp = u.stamp
        /\ v.system = system /\ v.key = u.key /\ IsUnit(v)
    BY UnitOfDraft DEF IsUnit
  <1> HIDE DEF v
  <1>3. UnitIsValid(v) /\ \A key \in v.key : IsKey(key)
    BY <1>2, UnitOfDraft DEF UnitIsValid
  <1> QED
    BY <1>1, <1>2, <1>3, UnitEdited

\* KeyStamps: no key comes back that never came.
LEMMA KeyStampsAreValid ==
  ASSUME NEW key, IsKey(key) \/ key = NoKey, NEW k \in KeyStamps(key)
  PROVE  IsKey(k)
  <1>1. IsKey(key)
    BY DEF IsKey, NoKey, KeyIsValid
  <1> QED
    BY <1>1 DEF IsKey, KeyIsValid, KeyStamps

\* StampKey
LEMMA StampKeyOK ==
  ASSUME DraftInv, NEW u \in draft.data.units, NEW k, IsKey(k), StampKey(u, k)
  PROVE  DraftInv' /\ SaysNoMore(draft'.data, draft.data)
  <1> DEFINE v == [u EXCEPT !.key = {k}]
  <1>1. Edits([draft.data EXCEPT !.units = Replaced(@, u, v)])
    BY DEF StampKey
  <1>2. /\ v.id = u.id /\ v.number = u.number /\ v.status = u.status /\ v.stamp = u.stamp
        /\ v.system = u.system /\ v.key = {k} /\ IsUnit(v)
    BY UnitOfDraft DEF IsUnit
  <1> HIDE DEF v
  <1>3. UnitIsValid(v) /\ \A key \in v.key : IsKey(key)
    BY <1>2, UnitOfDraft DEF UnitIsValid, IsKey
  <1> QED
    BY <1>1, <1>2, <1>3, UnitEdited

\* The answer about a vent replaces the one that is there.
LEMMA VentAnswered ==
  ASSUME DraftInv, NEW u \in draft.data.units, NEW room, Refers(room, draft.data.rooms), NEW present
  PROVE  VentsOK(Vents(u, room, present), draft.data.units, draft.data.rooms, draft.edits + 1)
  <1> DEFINE d == draft.data
             n == draft.edits
             old == {v \in d.vents : v.room = room}
             x == [id |-> IF old = {} THEN New("wv") ELSE (CHOOSE v \in old : TRUE).id,
                   unit |-> u.id, room |-> room, present |-> present]
             vents == (d.vents \ old) \cup {x}
  <1>1. Vents(u, room, present) = vents
    BY DEF Vents
  <1>2. x.unit = u.id /\ x.room = room
    OBVIOUS
  <1>3. IsNumbered(d.vents, "wv", n) /\ VentsOK(d.vents, d.units, d.rooms, n)
    BY DraftOf DEF IsDraft, VentsOK
  <1>4. IsNumbered(vents, "wv", n + 1)
    <2>1. CASE old # {}
      <3> DEFINE v == CHOOSE v \in old : TRUE
      <3>1. v \in old /\ v \in d.vents /\ x.id = v.id
        BY <2>1
      <3> HIDE DEF v, x
      <3>2. IsNumbered(Replaced(d.vents, v, x), "wv", n + 1)
        BY <1>3, <3>1, DraftOf, ReplacedAreNumbered
      <3>3. vents \subseteq Replaced(d.vents, v, x)
        BY <3>1 DEF Replaced
      <3> HIDE DEF vents
      <3> QED
        BY <3>2, <3>3, DraftOf, FewerAreNumbered
    <2>2. CASE old = {}
      <3>1. vents = d.vents \cup {x} /\ x.id = NewId("wv", n + 1)
        BY <2>2 DEF New, NewId
      <3> HIDE DEF vents, x
      <3> QED
        BY <1>3, <3>1, DraftOf, OneMoreIsNumbered
    <2> QED
      BY <2>1, <2>2
  <1>5. u.id \in Ids(d.units)
    BY DEF Ids
  <1>6. \A v \in vents : v \in d.vents \/ v = x
    OBVIOUS
  <1> HIDE DEF vents, x
  <1> QED
    BY <1>1, <1>2, <1>3, <1>4, <1>5, <1>6 DEF VentsOK

\* CheckVent
LEMMA CheckVentOK ==
  ASSUME DraftInv, NEW u \in draft.data.units, NEW room, Refers(room, draft.data.rooms),
         CheckVent(u, room)
  PROVE  DraftInv' /\ SaysNoMore(draft'.data, draft.data)
  <1> DEFINE d == draft.data
             n == draft.edits
             e == [d EXCEPT !.vents = Vents(u, room, TRUE)]
  <1>1. Edits(e)
    BY DEF CheckVent
  <1>2. /\ HasFields(e) /\ e.vents = Vents(u, room, TRUE)
        /\ e.units = d.units /\ e.rooms = d.rooms /\ e.findings = d.findings
        /\ e.measurements = d.measurements /\ e.photos = d.photos /\ e.spaces = d.spaces
        /\ e.checkpoints = d.checkpoints
    BY DraftOf DEF IsDraft, HasFields
  <1> HIDE DEF e
  <1>3. VentsOK(e.vents, e.units, e.rooms, n + 1)
    BY <1>2, VentAnswered
  <1>4. KeepsReferences(d, e)
    BY <1>2 DEF KeepsReferences, KeepsPlaces
  <1>5. IsDraft(e, n + 1)
    BY <1>2, <1>3, <1>4, DraftOf, LeftAlone DEF IsDraft
  <1> QED
    BY <1>1, <1>2, <1>4, <1>5, DraftBecomes DEF SaysNoMore, KeepsReferences

\* MissVent: the answer and the finding.
LEMMA MissVentOK ==
  ASSUME DraftInv, NEW u \in draft.data.units, NEW room, Refers(room, draft.data.rooms),
         MissVent(u, room)
  PROVE  DraftInv' /\ SaysNoMore(draft'.data, draft.data)
  <1> DEFINE d == draft.data
             n == draft.edits
             f == Finding(u, room, "window_vent_missing", "minor")
             e == [d EXCEPT !.vents = Vents(u, room, FALSE), !.findings = @ \cup {f}]
  <1>1. Edits(e)
    BY DEF MissVent
  <1>2. f.id = NewId("finding", n + 1) /\ IsFinding(f) /\ f.unit = u.id /\ f.room = room
    BY DefectTypesAssumption DEF Finding, New, NewId, IsFinding
  <1> HIDE DEF f
  <1>3. /\ HasFields(e) /\ e.vents = Vents(u, room, FALSE) /\ e.findings = d.findings \cup {f}
        /\ e.units = d.units /\ e.rooms = d.rooms
        /\ e.measurements = d.measurements /\ e.photos = d.photos /\ e.spaces = d.spaces
        /\ e.checkpoints = d.checkpoints
    BY DraftOf DEF IsDraft, HasFields
  <1> HIDE DEF e
  <1>4. u.id \in Ids(d.units)
    BY DEF Ids
  <1>5. /\ FindingsOK(d.findings \cup {f}, d.units, d.rooms, n + 1)
        /\ Ids(d.findings) \subseteq Ids(d.findings \cup {f})
        /\ Marks(d.findings) \subseteq Marks(d.findings \cup {f})
    BY <1>2, <1>4, DraftOf, FindingAdded
  <1>6. VentsOK(e.vents, e.units, e.rooms, n + 1)
    BY <1>3, VentAnswered
  <1>7. KeepsReferences(d, e)
    BY <1>3, <1>5 DEF KeepsReferences, KeepsPlaces
  <1>8. IsDraft(e, n + 1)
    BY <1>3, <1>5, <1>6, <1>7, DraftOf, LeftAlone DEF IsDraft
  <1> QED
    BY <1>1, <1>3, <1>7, <1>8, DraftBecomes DEF SaysNoMore, KeepsReferences

\* LeaveNotice: the unit's measurements and findings go, and what referred to them.
LEMMA LeaveNoticeOK ==
  ASSUME DraftInv, NEW u \in draft.data.units, LeaveNotice(u)
  PROVE  DraftInv' /\ SaysNoMore(draft'.data, draft.data)
  <1> DEFINE d == draft.data
             n == draft.edits
             v == [u EXCEPT !.status = "bom", !.stamp = "bom"]
             goneM == {m \in d.measurements : m.unit = u.id}
             goneF == {f \in d.findings : f.unit = u.id}
             h == [p \in d.photos |-> IF p.finding \in Ids(goneF) THEN [p EXCEPT !.finding = NoId] ELSE p]
             photos == {h[p] : p \in d.photos}
             b == [d EXCEPT !.units = Replaced(@, u, v)]
             e == [d EXCEPT !.measurements = @ \ goneM, !.findings = @ \ goneF, !.photos = photos,
                            !.units = Replaced(@, u, v)]
  <1>1. Edits(e)
    <2>1. photos = {IF p.finding \in Ids(goneF) THEN [p EXCEPT !.finding = NoId] ELSE p : p \in d.photos}
      OBVIOUS
    <2> HIDE DEF photos
    <2> QED
      BY <2>1 DEF LeaveNotice
  <1>2. /\ v.id = u.id /\ v.number = u.number /\ v.status = "bom" /\ v.stamp = "bom"
        /\ v.system = u.system /\ v.key = u.key
    BY UnitOfDraft DEF IsUnit
  <1>3. IsUnit(v)
    BY UnitOfDraft DEF IsUnit, Closed
  <1> HIDE DEF v
  <1>4. UnitIsValid(v) /\ \A key \in v.key : IsKey(key)
    BY <1>2, UnitOfDraft DEF UnitIsValid, Closed
  <1>5. /\ HasFields(b) /\ b.units = Replaced(d.units, u, v)
        /\ b.rooms = d.rooms /\ b.findings = d.findings /\ b.spaces = d.spaces
    BY DraftOf DEF IsDraft, HasFields
  <1> HIDE DEF b
  <1>6. HasFields(d)
    BY DraftOf DEF IsDraft
  <1> HIDE DEF photos
  <1>7. /\ HasFields(e) /\ e.units = b.units /\ e.measurements = d.measurements \ goneM
        /\ e.findings = d.findings \ goneF /\ e.photos = photos
        /\ e.rooms = d.rooms /\ e.vents = d.vents /\ e.spaces = d.spaces
        /\ e.checkpoints = d.checkpoints
    BY <1>5, <1>6 DEF HasFields
  <1> HIDE DEF e
  <1>8. UnitsOK(d.units, n)
    BY DraftOf DEF IsDraft
  <1>9. UnitsOK(e.units, n + 1) /\ Ids(b.units) = Ids(d.units) /\ Flats(b.units) = Flats(d.units)
    BY <1>2, <1>3, <1>4, <1>5, <1>7, <1>8, DraftOf, UnitReplaced
  <1>10. KeepsReferences(d, b)
    BY <1>5, <1>9 DEF KeepsReferences, KeepsPlaces
  <1>11. /\ RoomsOK(e.rooms, e.units, n + 1) /\ VentsOK(e.vents, e.units, e.rooms, n + 1)
         /\ CheckpointsOK(e.checkpoints, e.spaces, n + 1) /\ IsNumbered(e.spaces, "space", n + 1)
         /\ FindingsOK(d.findings, e.units, e.rooms, n + 1)
         /\ MeasurementsOK(d.measurements, e.units, e.rooms, d.findings, n + 1)
         /\ PhotosOK(d.photos, e.units, e.rooms, d.findings, e.spaces, n + 1)
    BY <1>5, <1>7, <1>10, DraftOf, LeftAlone
  <1>12. FindingsOK(e.findings, e.units, e.rooms, n + 1)
    <2>1. IsNumbered(d.findings, "finding", n + 1) /\ e.findings \subseteq d.findings
      BY <1>7, <1>11 DEF FindingsOK
    <2>2. IsNumbered(d.findings \ goneF, "finding", n + 1)
      BY <2>1, DraftOf, RestIsNumbered
    <2> QED
      BY <1>7, <1>11, <2>1, <2>2 DEF FindingsOK
  <1>13. MeasurementsOK(e.measurements, e.units, e.rooms, e.findings, n + 1)
    <2>1. IsNumbered(d.measurements, "meas", n + 1) /\ e.measurements \subseteq d.measurements
      BY <1>7, <1>11 DEF MeasurementsOK
    <2>2. IsNumbered(d.measurements \ goneM, "meas", n + 1)
      BY <2>1, DraftOf, RestIsNumbered
    <2>3. ASSUME NEW m \in e.measurements, <<m.finding, m.unit>> \in Marks(d.findings)
          PROVE  <<m.finding, m.unit>> \in Marks(e.findings)
      <3>1. m.unit # u.id
        BY <1>7
      <3>2. PICK f \in d.findings : <<m.finding, m.unit>> = <<f.id, f.unit>>
        BY <2>3 DEF Marks
      <3>3. f \in e.findings
        BY <1>7, <3>1, <3>2
      <3> QED
        BY <3>2, <3>3 DEF Marks
    <2> QED
      BY <1>7, <1>11, <2>1, <2>2, <2>3 DEF MeasurementsOK
  <1>14. /\ IsNumbered(d.photos, "photo", n + 1) /\ IsNumbered(d.findings, "finding", n + 1)
         /\ DOMAIN h = d.photos
    BY <1>11 DEF PhotosOK, FindingsOK
  <1>15. ASSUME NEW p \in d.photos
         PROVE  /\ IsPhoto(h[p]) /\ h[p].id = p.id /\ h[p].unit = p.unit /\ h[p].number = p.number
                /\ h[p].space = p.space /\ h[p].room = p.room /\ h[p].type = p.type
                /\ h[p].sync = p.sync /\ (h[p].late \/ Refers(h[p].finding, e.findings))
    <2>1. IsPhoto(p) /\ (p.late \/ Refers(p.finding, d.findings))
      BY <1>11 DEF PhotosOK
    <2>2. CASE p.finding \in Ids(goneF)
      <3>1. h[p] = [p EXCEPT !.finding = NoId]
        BY <2>2
      <3> HIDE DEF h
      <3> QED
        BY <2>1, <3>1 DEF IsPhoto, Refers
    <2>3. CASE p.finding \notin Ids(goneF)
      <3>1. h[p] = p
        BY <2>3
      <3>2. p.finding \in Ids(d.findings) => p.finding \in Ids(e.findings)
        BY <1>7, <2>3 DEF Ids
      <3> HIDE DEF h
      <3> QED
        BY <2>1, <3>1, <3>2 DEF Refers
    <2> QED
      BY <2>2, <2>3
  <1>16. photos = {h[p] : p \in d.photos}
    BY DEF photos
  <1> HIDE DEF h, goneF, goneM
  <1>17. PhotosOK(e.photos, e.units, e.rooms, e.findings, e.spaces, n + 1)
    <2>1. IsNumbered(photos, "photo", n + 1)
      <3>1. \A p \in d.photos : h[p].id = p.id
        BY <1>15
      <3> QED
        BY <1>14, <1>16, <3>1, DraftOf, ChangedAreNumbered
    <2>2. ASSUME NEW p \in d.photos
          PROVE  /\ IsPhoto(h[p]) /\ PhotoIsBound(h[p]) /\ h[p].type \in DefectTypes
                 /\ IF h[p].space # NoId THEN h[p].space \in Ids(e.spaces)
                    ELSE <<h[p].unit, h[p].number>> \in Flats(e.units)
                 /\ Refers(h[p].room, e.rooms) /\ (h[p].late \/ Refers(h[p].finding, e.findings))
      BY <1>11, <1>15 DEF PhotosOK, PhotoIsBound
    <2>3. \A x \in e.photos : \E p \in d.photos : x = h[p]
      BY <1>7, <1>16
    <2> QED
      BY <1>7, <2>1, <2>2, <2>3 DEF PhotosOK
  <1>18. IsDraft(e, n + 1)
    BY <1>7, <1>9, <1>11, <1>12, <1>13, <1>17, DraftOf DEF IsDraft
  <1>19. SaysNoMore(e, d)
    BY <1>7, <1>15, <1>16 DEF SaysNoMore
  <1>20. KeepsPlaces(d, e)
    BY <1>5, <1>7, <1>10 DEF KeepsReferences, KeepsPlaces
  <1> QED
    BY <1>1, <1>18, <1>19, <1>20, DraftBecomes

\* Whatever the inspector does.
LEMMA EditOK ==
  ASSUME DraftInv, Edit
  PROVE  DraftInv' /\ SaysNoMore(draft'.data, draft.data)
  <1> DEFINE d == draft.data
  <1>1. ASSUME NEW u \in d.units,
               NEW room \in {NoId} \cup {r.id : r \in {r \in d.rooms : r.unit = u.id}}
        PROVE  Refers(room, d.rooms)
    BY DEF Refers, Ids
  <1>2. CASE \E u \in d.units : EnterRoom(u) \/ LeaveNotice(u) \/ CloseUnit(u)
    BY <1>2, EnterRoomOK, LeaveNoticeOK, CloseUnitOK
  <1>3. CASE \E u \in d.units :
               \E room \in {NoId} \cup {r.id : r \in {r \in d.rooms : r.unit = u.id}} :
                  AddFinding(u, room, "minor")
    BY <1>1, <1>3, AddFindingOK
  <1>4. CASE \E m \in d.measurements :
               MarkNotMeasurable(m) \/ EnterValue(m, "text") \/ EnterValue(m, "number")
    BY <1>4, MarkNotMeasurableOK, EnterValueOK
  <1>5. CASE \E f \in d.findings : TakePhoto(f) \/ (f.class # 0 /\ Classify(f, 0))
    BY <1>5, TakePhotoOK, ClassifyOK
  <1>6. CASE AddSpace \/ (\E s \in d.spaces : TakeNameplate(s)) \/ AddPhoto \/ AddUnit(1)
    BY <1>6, AddSpaceOK, TakeNameplateOK, AddPhotoOK, AddUnitOK
  <1>7. CASE \E k \in d.checkpoints : ToggleCheckpoint(k)
    BY <1>7, ToggleCheckpointOK
  <1>8. CASE \E u \in d.units :
               \E key \in UNION {KeyStamps(k) : k \in IF u.key = {} THEN {NoKey} ELSE u.key} :
                  StampKey(u, key)
    <2>1. PICK u \in d.units :
               \E key \in UNION {KeyStamps(k) : k \in IF u.key = {} THEN {NoKey} ELSE u.key} :
                  StampKey(u, key)
      BY <1>8
    <2>2. PICK key \in UNION {KeyStamps(k) : k \in IF u.key = {} THEN {NoKey} ELSE u.key} :
               StampKey(u, key)
      BY <2>1
    <2>3. PICK k \in IF u.key = {} THEN {NoKey} ELSE u.key : key \in KeyStamps(k)
      OBVIOUS
    <2>4. IsKey(k) \/ k = NoKey
      BY UnitOfDraft
    <2> QED
      BY <2>2, <2>3, <2>4, KeyStampsAreValid, StampKeyOK
  <1>9. CASE \E u \in d.units : \E room \in {r.id : r \in {r \in d.rooms : r.unit = u.id}} :
               AddPoint(u, room) \/ CheckVent(u, room) \/ MissVent(u, room)
    BY <1>1, <1>9, AddPointOK, CheckVentOK, MissVentOK
  <1>10. CASE \E u \in d.units :
                \E system \in (SystemTypes \cup {"building"}) \ {u.system} : SetSystem(u, system)
    BY <1>10, SetSystemOK
  <1> QED
    BY <1>2, <1>3, <1>4, <1>5, <1>6, <1>7, <1>8, <1>9, <1>10, Zenon DEF Edit

\* The answer to an upload marks a photo of the draft.
LEMMA SyncedFields ==
  ASSUME NEW d, HasFields(d), NEW id
  PROVE  LET e == Synced(d, id)
         IN  /\ HasFields(e) /\ e.units = d.units /\ e.rooms = d.rooms /\ e.findings = d.findings
             /\ e.measurements = d.measurements /\ e.vents = d.vents /\ e.spaces = d.spaces
             /\ e.checkpoints = d.checkpoints /\ e.legacy = d.legacy
             /\ e.photos = {IF p.id = id THEN [p EXCEPT !.sync = "synced"] ELSE p : p \in d.photos}
  <1> DEFINE photos == {IF p.id = id THEN [p EXCEPT !.sync = "synced"] ELSE p : p \in d.photos}
  <1>1. Synced(d, id) = [d EXCEPT !.photos = photos]
    BY DEF Synced
  <1> HIDE DEF photos
  <1> QED
    BY <1>1 DEF HasFields, photos

LEMMA SyncedPhotos ==
  ASSUME NEW d, IsFieldData(d), NEW id
  PROVE  \A q \in Synced(d, id).photos : \E p \in d.photos :
            /\ IsPhoto(q) /\ q.id = p.id /\ q.unit = p.unit /\ q.number = p.number
            /\ q.space = p.space /\ q.room = p.room /\ q.finding = p.finding /\ q.type = p.type
            /\ q.late = p.late
            /\ IF p.id = id THEN q.sync = "synced" ELSE q.sync = p.sync
  <1>1. \A p \in d.photos : IsPhoto(p)
    BY DEF IsFieldData
  <1>2. ASSUME NEW p, IsPhoto(p)
        PROVE  LET q == [p EXCEPT !.sync = "synced"]
               IN  /\ IsPhoto(q) /\ q.id = p.id /\ q.unit = p.unit /\ q.number = p.number
                   /\ q.space = p.space /\ q.room = p.room /\ q.finding = p.finding
                   /\ q.type = p.type /\ q.late = p.late /\ q.sync = "synced"
    BY <1>2 DEF IsPhoto
  <1>3. ASSUME NEW q \in Synced(d, id).photos
        PROVE  \E p \in d.photos :
            /\ IsPhoto(q) /\ q.id = p.id /\ q.unit = p.unit /\ q.number = p.number
            /\ q.space = p.space /\ q.room = p.room /\ q.finding = p.finding /\ q.type = p.type
            /\ q.late = p.late
            /\ IF p.id = id THEN q.sync = "synced" ELSE q.sync = p.sync
    <2>1. HasFields(d)
      BY DEF IsFieldData
    <2>2. Synced(d, id).photos = {IF p.id = id THEN [p EXCEPT !.sync = "synced"] ELSE p : p \in d.photos}
      BY <2>1, SyncedFields
    <2>3. PICK p \in d.photos : q = IF p.id = id THEN [p EXCEPT !.sync = "synced"] ELSE p
      BY <2>2
    <2>4. CASE p.id = id
      BY <1>1, <1>2, <2>3, <2>4
    <2>5. CASE p.id # id
      BY <1>1, <2>3, <2>5
    <2> QED
      BY <2>4, <2>5
  <1> QED
    BY <1>3

LEMMA SyncedIsDraft ==
  ASSUME NEW d, NEW n, IsDraft(d, n), NEW id
  PROVE  IsDraft(Synced(d, id), n)
  <1> DEFINE e == Synced(d, id)
             h == [p \in d.photos |-> IF p.id = id THEN [p EXCEPT !.sync = "synced"] ELSE p]
  <1>1. n \in Nat /\ HasFields(d) /\ IsFieldData(d)
    BY DEF IsDraft, IsFieldData, UnitsOK, PhotosOK, IsNumbered
  <1>2. /\ HasFields(e) /\ e.units = d.units /\ e.rooms = d.rooms /\ e.findings = d.findings
        /\ e.measurements = d.measurements /\ e.vents = d.vents /\ e.spaces = d.spaces
        /\ e.checkpoints = d.checkpoints
        /\ e.photos = {IF p.id = id THEN [p EXCEPT !.sync = "synced"] ELSE p : p \in d.photos}
    BY <1>1, SyncedFields
  <1>3. PhotosOK(d.photos, d.units, d.rooms, d.findings, d.spaces, n) /\ IsNumbered(d.photos, "photo", n)
    BY DEF IsDraft, PhotosOK
  <1>4. IsNumbered(e.photos, "photo", n)
    <2>1. DOMAIN h = d.photos /\ \A p \in d.photos : h[p].id = p.id
      BY <1>3 DEF PhotosOK, IsPhoto
    <2>2. e.photos = {h[p] : p \in d.photos}
      BY <1>2
    <2> HIDE DEF h, e
    <2> QED
      BY <1>1, <1>3, <2>1, <2>2, ChangedAreNumbered
  <1>5. PhotosOK(e.photos, e.units, e.rooms, e.findings, e.spaces, n)
    <2>1. \A q \in e.photos : \E p \in d.photos :
             /\ IsPhoto(q) /\ q.id = p.id /\ q.unit = p.unit /\ q.number = p.number
             /\ q.space = p.space /\ q.room = p.room /\ q.finding = p.finding /\ q.type = p.type
             /\ q.late = p.late
      BY <1>1, SyncedPhotos
    <2> HIDE DEF e
    <2> QED
      BY <1>2, <1>3, <1>4, <2>1 DEF PhotosOK, PhotoIsBound
  <1> HIDE DEF e
  <1>6. IsDraft(e, n)
    BY <1>2, <1>5 DEF IsDraft
  <1> QED
    BY <1>6 DEF e

-----------------------------------------------------------------------------
(* The draft is acceptable                                                 *)

LEMMA ImageIsFinite ==
  ASSUME NEW S, IsFiniteSet(S), NEW f, DOMAIN f = S
  PROVE  IsFiniteSet({f[x] : x \in S})
  <1> DEFINE g == [x \in S |-> f[x]]
             T == {f[x] : x \in S}
  <1>1. g \in Surjection(S, T)
    BY DEF Surjection
  <1> QED
    BY <1>1, FS_Surjection

\* A draft that is restored has the units of what it is restored from, and no records.
LEMMA RestoredIsDraft ==
  ASSUME NEW d, HasFields(d), d.rooms = {}, IsNumbered(d.units, "unit", 0),
         \A u \in d.units : IsUnit(u) /\ u.system = "building"
  PROVE  IsDraft(Restored(d), 0)
  <1> DEFINE h == [u \in d.units |->
                     [u EXCEPT !.status = "ej_paborjad", !.stamp = "none", !.key = {}]]
             units == {h[u] : u \in d.units}
             e == Restored(d)
  <1>1. ASSUME NEW u \in d.units
        PROVE  /\ IsUnit(h[u]) /\ h[u].id = u.id /\ h[u].status = "ej_paborjad" /\ h[u].key = {}
               /\ h[u].system = "building"
    BY DEF IsUnit, Closed
  <1>2. units = {[u EXCEPT !.status = "ej_paborjad", !.stamp = "none", !.key = {}] : u \in d.units}
    OBVIOUS
  <1> HIDE DEF units
  <1>3. /\ HasFields(e) /\ e.units = units /\ e.rooms = {} /\ e.findings = {} /\ e.photos = {}
        /\ e.measurements = {} /\ e.vents = {} /\ e.spaces = {} /\ e.checkpoints = {}
    BY <1>2 DEF Restored, NoFieldData, HasFields
  <1> HIDE DEF e
  <1>4. \A kind : IsNumbered({}, kind, 0)
    BY FS_EmptySet DEF IsNumbered, Ids
  <1>6. IsNumbered(units, "unit", 0)
    <2>1. DOMAIN h = d.units /\ \A u \in d.units : h[u].id = u.id
      BY <1>1
    <2>2. units = {h[u] : u \in d.units}
      BY DEF units
    <2> HIDE DEF h
    <2>3. 0 \in Nat /\ \A n \in Nat : n >= n
      OBVIOUS
    <2> QED
      BY <2>1, <2>2, <2>3, ChangedAreNumbered
  <1>7. UnitsOK(units, 0)
    <2>1. \A v \in units : \E u \in d.units : v = h[u]
      BY DEF units
    <2> HIDE DEF h
    <2> QED
      <3>1. \A u \in d.units : UnitIsValid(h[u]) /\ \A key \in h[u].key : IsKey(key)
        BY <1>1 DEF UnitIsValid, Closed
      <3> QED
        BY <1>1, <1>6, <2>1, <3>1 DEF UnitsOK
  <1>8. IsDraft(e, 0)
    BY <1>3, <1>4, <1>7
    DEF IsDraft, RoomsOK, FindingsOK, MeasurementsOK, PhotosOK, VentsOK, CheckpointsOK
  <1> QED
    BY <1>8 DEF e

\* The identifier of a unit of an imported protocol.
LegacyId(x) == <<"legacy-unit", x>>

LEMMA LegacyIds ==
  /\ \A x : LegacyId(x) # NoId
  /\ \A x : \A k \in Nat : LegacyId(x) # NewId("unit", k)
  /\ \A x, y : LegacyId(x) = LegacyId(y) => x = y
  BY DEF LegacyId, NoId, NewId

\* The draft the inspector begins with.
LEMMA FirstDraftOK ==
  ASSUME NEW d \in {NoFieldData} \cup {LegacySnapshot(facts) : facts \in LegacyFacts}
  PROVE  IsDraft(Restored(d), 0)
  <1>1. CASE d = NoFieldData
    <2>1. HasFields(d) /\ d.rooms = {} /\ d.units = {}
      BY <1>1 DEF NoFieldData, HasFields
    <2>2. IsNumbered({}, "unit", 0)
      BY FS_EmptySet DEF IsNumbered, Ids
    <2> QED
      BY <2>1, <2>2, RestoredIsDraft
  <1>2. CASE \E facts \in LegacyFacts : d = LegacySnapshot(facts)
    <2>1. PICK facts \in LegacyFacts : d = LegacySnapshot(facts)
      BY <1>2
    <2> DEFINE numbered == {f \in facts : f.field = "apartment_number"}
               value == [f \in numbered |-> f.value]
               numbers == {value[f] : f \in numbered}
               unit == [x \in numbers |->
                          [id |-> <<"legacy-unit", x>>, number |-> x, status |-> "ej_paborjad",
                           stamp |-> "none", system |-> "building", key |-> {}]]
               units == {unit[x] : x \in numbers}
    <2>2. IsFiniteSet(numbered)
      BY LegacyFactsAssumption, FS_Subset
    <2>3. IsFiniteSet(numbers)
      BY <2>2, ImageIsFinite
    <2>4. numbers = {f.value : f \in {f \in facts : f.field = "apartment_number"}}
      OBVIOUS
    <2> HIDE DEF numbers
    <2>5. IsFiniteSet(units)
      BY <2>3, ImageIsFinite
    <2>6. units = {[id |-> <<"legacy-unit", x>>, number |-> x, status |-> "ej_paborjad",
                    stamp |-> "none", system |-> "building", key |-> {}] : x \in numbers}
      OBVIOUS
    <2>7. \A x \in numbers : /\ IsUnit(unit[x]) /\ unit[x].system = "building"
                             /\ unit[x].id = LegacyId(x)
      BY DEF IsUnit, Closed, LegacyId
    <2>8. \A u \in units : \E x \in numbers : u = unit[x]
      OBVIOUS
    <2> HIDE DEF units
    <2>9. HasFields(d) /\ d.rooms = {} /\ d.units = units
      BY <2>1, <2>4, <2>6 DEF LegacySnapshot, NoFieldData, HasFields
    <2> HIDE DEF unit
    <2>11. NoId \notin Ids(units) /\ \A k \in Nat : NewId("unit", k) \notin Ids(units)
      BY <2>7, <2>8, LegacyIds DEF Ids
    <2>12. \A u, v \in units : u.id = v.id => u = v
      BY <2>7, <2>8, LegacyIds
    <2>13. IsNumbered(units, "unit", 0) /\ \A u \in units : IsUnit(u) /\ u.system = "building"
      BY <2>5, <2>7, <2>8, <2>11, <2>12 DEF IsNumbered
    <2> QED
      BY <2>9, <2>13, RestoredIsDraft
  <1> QED
    BY <1>1, <1>2

\* A step of a synchronisation marks a photo, or that something was (not) synchronised.
LEMMA SyncKeepsDraft ==
  ASSUME DraftInv,
         \/ UNCHANGED draft
         \/ \E b : draft' = [draft EXCEPT !.dirty = b]
         \/ \E id : draft' = [draft EXCEPT !.data = Synced(@, id)]
  PROVE  DraftInv'
  <1>1. CASE UNCHANGED draft
    BY <1>1 DEF DraftInv
  <1>2. CASE \E b : draft' = [draft EXCEPT !.dirty = b]
    <2>1. draft' = [data |-> draft.data, dirty |-> draft'.dirty, edits |-> draft.edits,
                   taking |-> draft.taking]
      BY <1>2 DEF DraftInv
    <2> QED
      BY <2>1 DEF DraftInv
  <1>3. CASE \E id : draft' = [draft EXCEPT !.data = Synced(@, id)]
    <2>1. PICK id : draft' = [draft EXCEPT !.data = Synced(@, id)]
      BY <1>3
    <2>2. draft' = [data |-> Synced(draft.data, id), dirty |-> draft.dirty, edits |-> draft.edits,
                   taking |-> draft.taking]
      BY <2>1 DEF DraftInv
    <2>3. IsDraft(Synced(draft.data, id), draft.edits)
      BY SyncedIsDraft DEF DraftInv
    <2>4. \A p \in draft.taking : IsTaken(p, Synced(draft.data, id))
      <3>1. HasFields(draft.data)
        BY DEF DraftInv, IsDraft
      <3> DEFINE e == Synced(draft.data, id)
      <3>2. e.units = draft.data.units /\ e.rooms = draft.data.rooms /\ e.spaces = draft.data.spaces
        BY <3>1, SyncedFields
      <3> HIDE DEF e
      <3>3. \A p \in draft.taking : IsTaken(p, e)
        BY <3>2 DEF DraftInv, IsTaken
      <3> QED
        BY <3>3 DEF e
    <2> QED
      BY <2>2, <2>3, <2>4 DEF DraftInv
  <1> QED
    BY <1>1, <1>2, <1>3

\* Every step but an edit is of that kind.
LEMMA StepsOfOthers ==
  ASSUME [FieldNext]_<<load, client, fieldDocs>>
  PROVE  \/ Edit
         \/ UNCHANGED draft
         \/ \E b : draft' = [draft EXCEPT !.dirty = b]
         \/ \E id : draft' = [draft EXCEPT !.data = Synced(@, id)]
  <1>1. ASSUME NEW c \in load.clients, FinishSync(c) \/ FailSync(c)
        PROVE  \E b : draft' = [draft EXCEPT !.dirty = b]
    BY <1>1 DEF FinishSync, FailSync
  <1>2. ASSUME NEW c \in load.clients, MarkLocally(c)
        PROVE  \E id : draft' = [draft EXCEPT !.data = Synced(@, id)]
    BY <1>2 DEF MarkLocally
  <1>3. ASSUME NEW c \in load.clients,
               \/ StartSync(c) \/ SendSnapshot(c) \/ PutSnapshot(c) \/ StartMedia(c) \/ StartUpload(c)
               \/ StoreBytes(c) \/ StoreReceipt(c) \/ MarkPhotoSynced(c) \/ FinishMedia(c)
               \/ \E facts \in LegacyFacts : StartCommit(c, facts)
               \/ CommitContext(c)
        PROVE  UNCHANGED draft
    BY <1>3 DEF StartSync, SendSnapshot, PutSnapshot, StartMedia, StartUpload, StoreBytes, StoreReceipt,
                MarkPhotoSynced, FinishMedia, StartCommit, CommitContext, fieldDocs
  <1>4. CASE UNCHANGED <<load, client, fieldDocs>>
    BY <1>4 DEF fieldDocs
  <1>5. CASE FieldNext
    BY <1>1, <1>2, <1>3, <1>5, Zenon DEF FieldNext
  <1> QED
    BY <1>4, <1>5

\* Without its faults a draft in order is in order: every value is a number, and every
\* photo has its finding.
LEMMA FaultsRemoved ==
  ASSUME NEW d, NEW n, IsDraft(d, n)
  PROVE  LET e == WithoutFaults(d)
         IN  /\ IsDraft(e, n)
             /\ \A m \in e.measurements : IsFlowValue(m.value)
             /\ \A p \in e.photos : Refers(p.finding, e.findings)
  <1> DEFINE e == WithoutFaults(d)
             value == [m \in d.measurements |->
                         IF IsFlowValue(m.value) THEN m ELSE [m EXCEPT !.value = "none"]]
             photo == [p \in d.photos |-> IF p.late THEN [p EXCEPT !.finding = NoId] ELSE p]
             ms == {value[m] : m \in d.measurements}
             photos == {photo[p] : p \in d.photos}
  <1>1. n \in Nat /\ n >= n /\ HasFields(d)
    BY DEF IsDraft
  <1>2. /\ MeasurementsOK(d.measurements, d.units, d.rooms, d.findings, n)
        /\ PhotosOK(d.photos, d.units, d.rooms, d.findings, d.spaces, n)
        /\ IsNumbered(d.measurements, "meas", n) /\ IsNumbered(d.photos, "photo", n)
    BY DEF IsDraft, MeasurementsOK, PhotosOK
  <1>3. /\ ms = {IF IsFlowValue(m.value) THEN m ELSE [m EXCEPT !.value = "none"] : m \in d.measurements}
        /\ photos = {IF p.late THEN [p EXCEPT !.finding = NoId] ELSE p : p \in d.photos}
    OBVIOUS
  <1> HIDE DEF ms, photos
  <1>4. /\ HasFields(e) /\ e.measurements = ms /\ e.photos = photos
        /\ e.units = d.units /\ e.rooms = d.rooms /\ e.findings = d.findings
        /\ e.vents = d.vents /\ e.spaces = d.spaces /\ e.checkpoints = d.checkpoints
    BY <1>1, <1>3 DEF WithoutFaults, HasFields
  <1> HIDE DEF e
  <1>5. ASSUME NEW m \in d.measurements
        PROVE  /\ value[m].id = m.id /\ value[m].unit = m.unit /\ value[m].room = m.room
               /\ value[m].finding = m.finding /\ value[m].measurable = m.measurable
               /\ IsMeasurement(value[m]) /\ IsFlowValue(value[m].value)
    <2>1. IsMeasurement(m)
      BY <1>2 DEF MeasurementsOK
    <2>2. IsFlowValue("none")
      BY DEF IsFlowValue
    <2>3. CASE IsFlowValue(m.value)
      BY <2>1, <2>3
    <2>4. CASE ~IsFlowValue(m.value)
      <3>1. value[m] = [m EXCEPT !.value = "none"]
        BY <2>4
      <3> HIDE DEF value
      <3>2. /\ value[m] = [k \in {"id", "unit", "room", "measurable", "value", "reason", "finding"}
                             |-> value[m][k]]
            /\ value[m].id = m.id /\ value[m].unit = m.unit /\ value[m].room = m.room
            /\ value[m].finding = m.finding /\ value[m].measurable = m.measurable
            /\ value[m].reason = m.reason /\ value[m].value = "none"
        BY <2>1, <3>1 DEF IsMeasurement
      <3> QED
        BY <2>1, <2>2, <3>2 DEF IsMeasurement
    <2> QED
      BY <2>3, <2>4
  <1>6. ASSUME NEW p \in d.photos
        PROVE  /\ IsPhoto(photo[p]) /\ photo[p].id = p.id /\ photo[p].unit = p.unit
               /\ photo[p].number = p.number /\ photo[p].space = p.space /\ photo[p].room = p.room
               /\ photo[p].type = p.type /\ Refers(photo[p].finding, d.findings)
    <2>1. IsPhoto(p) /\ (p.late \/ Refers(p.finding, d.findings))
      BY <1>2 DEF PhotosOK
    <2>2. CASE p.late
      <3>1. photo[p] = [p EXCEPT !.finding = NoId]
        BY <2>2
      <3> HIDE DEF photo
      <3> QED
        BY <2>1, <3>1 DEF IsPhoto, Refers
    <2>3. CASE ~p.late
      <3>1. photo[p] = p
        BY <2>3
      <3> HIDE DEF photo
      <3> QED
        BY <2>1, <2>3, <3>1
    <2> QED
      BY <2>2, <2>3
  <1>7. /\ DOMAIN value = d.measurements /\ DOMAIN photo = d.photos
        /\ \A x \in ms : \E m \in d.measurements : x = value[m]
        /\ \A x \in photos : \E p \in d.photos : x = photo[p]
    BY DEF ms, photos
  <1>8. IsNumbered(ms, "meas", n) /\ IsNumbered(photos, "photo", n)
    <2>1. ms = {value[m] : m \in d.measurements} /\ photos = {photo[p] : p \in d.photos}
      BY DEF ms, photos
    <2> HIDE DEF value, photo
    <2>2. IsNumbered(ms, "meas", n)
      BY <1>1, <1>2, <1>5, <1>7, <2>1, ChangedAreNumbered
    <2>3. IsNumbered(photos, "photo", n)
      BY <1>1, <1>2, <1>6, <1>7, <2>1, ChangedAreNumbered
    <2> QED
      BY <2>2, <2>3
  <1> HIDE DEF value, photo
  <1>9. MeasurementsOK(ms, d.units, d.rooms, d.findings, n)
    BY <1>2, <1>5, <1>7, <1>8 DEF MeasurementsOK
  <1>10. PhotosOK(photos, d.units, d.rooms, d.findings, d.spaces, n)
    <2>1. ASSUME NEW p \in d.photos
          PROVE  /\ IsPhoto(photo[p]) /\ PhotoIsBound(photo[p]) /\ photo[p].type \in DefectTypes
                 /\ IF photo[p].space # NoId THEN photo[p].space \in Ids(d.spaces)
                    ELSE <<photo[p].unit, photo[p].number>> \in Flats(d.units)
                 /\ Refers(photo[p].room, d.rooms)
                 /\ (photo[p].late \/ Refers(photo[p].finding, d.findings))
      BY <1>2, <1>6 DEF PhotosOK, PhotoIsBound
    <2> QED
      BY <1>7, <1>8, <2>1 DEF PhotosOK
  <1>11. IsDraft(e, n)
    BY <1>4, <1>9, <1>10 DEF IsDraft
  <1>12. /\ \A m \in e.measurements : IsFlowValue(m.value)
         /\ \A p \in e.photos : Refers(p.finding, e.findings)
    BY <1>4, <1>5, <1>6, <1>7
  <1> QED
    BY <1>11, <1>12 DEF e

\* What is in order, and without the faults of the inspector, is accepted, but for the
\* statuses.
LEMMA DraftsAreAcceptable ==
  ASSUME DraftInv
  PROVE  DraftIsAcceptable
  <1> DEFINE d == WithoutFaults(draft.data)
             n == draft.edits
  <1>1. /\ IsDraft(d, n)
        /\ \A m \in d.measurements : IsFlowValue(m.value)
        /\ \A p \in d.photos : Refers(p.finding, d.findings)
    BY FaultsRemoved DEF DraftInv
  <1> HIDE DEF d
  <1>2. ConstructionIsValid(d)
    BY <1>1 DEF IsDraft, ConstructionIsValid, UnitsOK, FindingsOK, IsFinding, PhotosOK, MeasurementsOK,
                IsMeasurement, MeasurementIsValid, CheckpointsOK, IsCheckpoint
  <1>3. /\ AreUnique(d.units) /\ AreUnique(d.rooms) /\ AreUnique(d.findings) /\ AreUnique(d.photos)
        /\ AreUnique(d.measurements) /\ AreUnique(d.vents) /\ AreUnique(d.spaces)
        /\ AreUnique(d.checkpoints)
    <2>1. \A S, kind, k : IsNumbered(S, kind, k) => AreUnique(S)
      BY ToldApart DEF IsNumbered
    <2> QED
      BY <1>1, <2>1 DEF IsDraft, UnitsOK, RoomsOK, FindingsOK, MeasurementsOK, PhotosOK, VentsOK,
                        CheckpointsOK
  <1>4. \A p \in d.photos : PhotoReferences(d, p)
    BY <1>1 DEF IsDraft, PhotosOK, PhotoReferences, Flats
  <1>5. \A m \in d.measurements : MeasurementReferences(d, m)
    <2>1. ASSUME NEW m \in d.measurements
          PROVE  Refers(m.finding, d.findings)
      BY <1>1 DEF IsDraft, MeasurementsOK, Refers, Marks, Ids
    <2> QED
      BY <1>1, <2>1 DEF IsDraft, MeasurementsOK, MeasurementReferences
  <1>6. \A v \in d.vents : VentReferences(d, v)
    BY <1>1 DEF IsDraft, VentsOK, VentReferences
  <1>7. /\ \A r \in d.rooms : r.unit \in Ids(d.units)
        /\ \A f \in d.findings :
              f.unit \in Ids(d.units) /\ Refers(f.room, d.rooms) /\ f.type \in DefectTypes
        /\ \A k \in d.checkpoints : k.space \in Ids(d.spaces)
    BY <1>1 DEF IsDraft, RoomsOK, FindingsOK, IsFinding, CheckpointsOK
  <1>8. ReferencesAreValid(d)
    BY <1>3, <1>4, <1>5, <1>6, <1>7 DEF ReferencesAreValid, SpacesAreConsistent
  <1> QED
    BY <1>2, <1>8 DEF DraftIsAcceptable, d

LEMMA DraftStep ==
  ASSUME DraftInv, [FieldNext]_<<load, client, fieldDocs>>
  PROVE  DraftInv'
  BY EditOK, SyncKeepsDraft, StepsOfOthers

LEMMA DraftInit ==
  ASSUME FieldInit({NoFieldData} \cup {LegacySnapshot(facts) : facts \in LegacyFacts}, {{}})
  PROVE  DraftInv
  <1> DEFINE from == {NoFieldData} \cup {LegacySnapshot(facts) : facts \in LegacyFacts}
  <1>1. PICK d \in from : draft = [data |-> Restored(d), dirty |-> TRUE, edits |-> 0, taking |-> {}]
    BY DEF FieldInit
  <1>2. IsDraft(Restored(d), 0)
    BY FirstDraftOK
  <1> HIDE DEF from
  <1> QED
    BY <1>1, <1>2 DEF DraftInv

\* Whatever the inspector does in field mode, in an empty draft or one restored from any
\* imported protocol, while photos are taken and uploads mark others, the server has three
\* reasons to refuse the draft and no other: a value that is no number, a photo whose finding
\* went while its bytes were awaited, and the one about statuses.
\* (field.js, validate_field_data)
THEOREM DraftsAreAccepted == FieldModeSpec => []DraftIsAcceptable
  <1>1. FieldInit({NoFieldData} \cup {LegacySnapshot(facts) : facts \in LegacyFacts}, {{}}) => DraftInv
    BY DraftInit
  <1>2. DraftInv /\ [FieldNext]_<<load, client, fieldDocs>> => DraftInv'
    BY DraftStep
  <1>3. DraftInv => DraftIsAcceptable
    BY DraftsAreAcceptable
  <1> QED
    BY <1>1, <1>2, <1>3, PTL DEF FieldModeSpec

-----------------------------------------------------------------------------
(* Evidence is stored                                                      *)

\* Media only grow, so what was honest stays so.
LEMMA StaysHonest ==
  ASSUME NEW m, NEW k, m.bytes \subseteq k.bytes, m.receipts \subseteq k.receipts
  PROVE  /\ \A d : IsHonest(d, m) => IsHonest(d, k)
         /\ \A q : RequestIsHonest(q, m) => RequestIsHonest(q, k)
  BY DEF IsHonest, RequestIsHonest

\* A request of c goes on to q.
LEMMA SyncStep ==
  ASSUME EvidenceInv, NEW c \in load.clients, NEW q, Goes(c, q), load' = load,
         media' = [bytes |-> media'.bytes, receipts |-> media'.receipts],
         media.bytes \subseteq media'.bytes, media.receipts \subseteq media'.receipts,
         media'.receipts \subseteq media'.bytes,
         RequestIsHonest(q, media'),
         \A d \in snapshot' : d \in snapshot \/ IsHonest(d, media'),
         draft'.data = draft.data \/ IsHonest(draft'.data, media')
  PROVE  EvidenceInv'
  <1>1. /\ DOMAIN client' = Clients
        /\ \A k \in Clients : client'[k] = q \/ client'[k] = client[k]
    BY DEF EvidenceInv, Goes
  <1>2. /\ \A d \in snapshot \cup {draft.data} : IsHonest(d, media')
        /\ \A k \in Clients : RequestIsHonest(client[k], media')
    BY StaysHonest DEF EvidenceInv
  <1>3. \A k \in Clients : RequestIsHonest(client'[k], media')
    BY <1>1, <1>2
  <1>4. \A d \in snapshot' \cup {draft'.data} : IsHonest(d, media')
    BY <1>2
  <1>5. load'.clients \subseteq Clients
    BY DEF EvidenceInv
  <1> QED
    BY <1>1, <1>3, <1>4, <1>5 DEF EvidenceInv

\* The media as they are.
LEMMA MediaUnchanged ==
  ASSUME EvidenceInv, media' = media
  PROVE  /\ media' = [bytes |-> media'.bytes, receipts |-> media'.receipts]
         /\ media.bytes \subseteq media'.bytes /\ media.receipts \subseteq media'.receipts
         /\ media'.receipts \subseteq media'.bytes
  BY DEF EvidenceInv

\* Requests that hold no data.
LEMMA HoldsNothing ==
  ASSUME NEW q, NEW m, q.pc \notin {"put", "body", "bytes", "receipt", "answered"}
  PROVE  RequestIsHonest(q, m)
  BY DEF RequestIsHonest

LEMMA NormalizedIsHonest ==
  ASSUME NEW d, NEW m, IsHonest(d, m)
  PROVE  IsHonest(Normalized(d), m)
  <1>1. HasFields(d)
    BY DEF IsHonest, IsFieldData
  <1> DEFINE e == Normalized(d)
  <1>2. HasFields(e) /\ e.units = d.units /\ e.photos = d.photos
    BY <1>1 DEF Normalized, HasFields
  <1> HIDE DEF e
  <1>3. IsHonest(e, m)
    BY <1>2 DEF IsHonest, IsFieldData
  <1> QED
    BY <1>3 DEF e

\* A photo is marked that has its receipt.
LEMMA SyncedIsHonest ==
  ASSUME NEW d, NEW m, IsHonest(d, m), NEW id \in m.receipts
  PROVE  IsHonest(Synced(d, id), m)
  <1> DEFINE e == Synced(d, id)
             h == [p \in d.photos |-> IF p.id = id THEN [p EXCEPT !.sync = "synced"] ELSE p]
  <1>1. HasFields(d) /\ IsFieldData(d) /\ IsFiniteSet(d.photos)
    BY DEF IsHonest, IsFieldData
  <1>2. /\ HasFields(e) /\ e.units = d.units
        /\ e.photos = {IF p.id = id THEN [p EXCEPT !.sync = "synced"] ELSE p : p \in d.photos}
    BY <1>1, SyncedFields
  <1>3. \A q \in e.photos : \E p \in d.photos :
           IsPhoto(q) /\ q.id = p.id /\ IF p.id = id THEN q.sync = "synced" ELSE q.sync = p.sync
    BY <1>1, SyncedPhotos
  <1>4. IsFiniteSet(e.photos)
    <2>1. e.photos = {h[p] : p \in d.photos} /\ DOMAIN h = d.photos
      BY <1>2
    <2> HIDE DEF e, h
    <2> QED
      BY <1>1, <2>1, ImageIsFinite
  <1> HIDE DEF e
  <1>5. IsHonest(e, m)
    BY <1>2, <1>3, <1>4 DEF IsHonest, IsFieldData
  <1> QED
    BY <1>5 DEF e

\* A protocol that is imported has no photos.
LEMMA LegacyIsHonest ==
  ASSUME NEW facts, NEW m
  PROVE  IsHonest(LegacySnapshot(facts), m)
  <1> DEFINE numbers == {f.value : f \in {f \in facts : f.field = "apartment_number"}}
             units == {[id |-> <<"legacy-unit", x>>, number |-> x, status |-> "ej_paborjad",
                        stamp |-> "none", system |-> "building", key |-> {}] : x \in numbers}
             e == LegacySnapshot(facts)
  <1>1. \A u \in units : IsUnit(u)
    BY DEF IsUnit, Closed
  <1>2. HasFields(e) /\ e.units = units /\ e.photos = {}
    BY DEF LegacySnapshot, NoFieldData, HasFields
  <1> HIDE DEF e, units
  <1>3. IsHonest(e, m)
    BY <1>1, <1>2, FS_EmptySet DEF IsHonest, IsFieldData
  <1> QED
    BY <1>3 DEF e

\* Sending: the draft as it is, which the server keeps.
LEMMA SendingIsHonest ==
  ASSUME EvidenceInv, NEW c \in load.clients,
         StartSync(c) \/ SendSnapshot(c) \/ PutSnapshot(c) \/ StartMedia(c)
  PROVE  EvidenceInv'
  <1>1. media' = media /\ load' = load /\ draft' = draft
    BY DEF StartSync, SendSnapshot, PutSnapshot, StartMedia, fieldDocs
  <1>2. CASE StartSync(c)
    <2> DEFINE q == [pc |-> "send", again |-> FALSE]
    <2>1. Goes(c, q) /\ snapshot' = snapshot
      BY <1>2 DEF StartSync
    <2>2. RequestIsHonest(q, media')
      BY HoldsNothing
    <2> HIDE DEF q
    <2> QED
      BY <1>1, <2>1, <2>2, MediaUnchanged, SyncStep
  <1>3. CASE SendSnapshot(c)
    <2> DEFINE q == [pc |-> "put", again |-> client[c].again, held |-> draft.data]
    <2>1. Goes(c, q) /\ snapshot' = snapshot
      BY <1>3 DEF SendSnapshot, fieldDocs
    <2>2. q.pc = "put" /\ q.held = draft.data
      OBVIOUS
    <2> HIDE DEF q
    <2>3. RequestIsHonest(q, media')
      BY <1>1, <2>2 DEF RequestIsHonest, EvidenceInv
    <2> QED
      BY <1>1, <2>1, <2>3, MediaUnchanged, SyncStep
  <1>4. CASE PutSnapshot(c)
    <2> DEFINE q == IF client[c].again THEN [pc |-> "done"] ELSE [pc |-> "accepted"]
    <2>1. Goes(c, q) /\ snapshot' = {Normalized(client[c].held)} /\ client[c].pc = "put"
      BY <1>4 DEF PutSnapshot, Saved
    <2>2. q.pc \in {"done", "accepted"}
      OBVIOUS
    <2> HIDE DEF q
    <2>3. RequestIsHonest(q, media')
      BY <2>2, HoldsNothing
    <2>4. IsHonest(client[c].held, media')
      BY <1>1, <2>1 DEF EvidenceInv, RequestIsHonest
    <2>5. IsHonest(Normalized(client[c].held), media')
      BY <2>4, NormalizedIsHonest
    <2> QED
      BY <1>1, <2>1, <2>3, <2>5, MediaUnchanged, SyncStep
  <1>5. CASE StartMedia(c)
    <2> DEFINE q == [pc |-> "pending", uploaded |-> FALSE,
                     left |-> {p.id : p \in {p \in draft.data.photos : p.sync # "synced"}}]
    <2>1. Goes(c, q) /\ snapshot' = snapshot
      BY <1>5 DEF StartMedia, fieldDocs
    <2>2. q.pc = "pending"
      OBVIOUS
    <2> HIDE DEF q
    <2>3. RequestIsHonest(q, media')
      BY <2>2, HoldsNothing
    <2> QED
      BY <1>1, <2>1, <2>3, MediaUnchanged, SyncStep
  <1> QED
    BY <1>2, <1>3, <1>4, <1>5

\* Uploading: the bytes, then the receipt, then the snapshot that was loaded says so.
LEMMA UploadIsHonest ==
  ASSUME EvidenceInv, NEW c \in load.clients,
         StartUpload(c) \/ StoreBytes(c) \/ StoreReceipt(c) \/ MarkPhotoSynced(c)
  PROVE  EvidenceInv'
  <1> DEFINE r == client[c]
  <1>1. load' = load /\ draft' = draft
    BY DEF StartUpload, StoreBytes, StoreReceipt, MarkPhotoSynced, fieldDocs
  <1>2. RequestIsHonest(r, media) /\ media.receipts \subseteq media.bytes
    BY DEF EvidenceInv
  <1>3. CASE StartUpload(c)
    <2>1. PICK id \in r.left : \E d \in snapshot :
             /\ Goes(c, [pc |-> "body", photo |-> id, held |-> d, left |-> r.left \ {id}])
             /\ media' = media /\ snapshot' = snapshot
      BY <1>3 DEF StartUpload, fieldDocs
    <2>2. PICK d \in snapshot :
             /\ Goes(c, [pc |-> "body", photo |-> id, held |-> d, left |-> r.left \ {id}])
             /\ media' = media /\ snapshot' = snapshot
      BY <2>1
    <2> DEFINE q == [pc |-> "body", photo |-> id, held |-> d, left |-> r.left \ {id}]
    <2>3. IsHonest(d, media')
      BY <2>2 DEF EvidenceInv
    <2>4. RequestIsHonest(q, media')
      BY <2>3 DEF RequestIsHonest
    <2>5. Goes(c, q)
      BY <2>2
    <2> HIDE DEF q
    <2> QED
      BY <1>1, <2>2, <2>4, <2>5, MediaUnchanged, SyncStep
  <1>4. CASE StoreBytes(c)
    <2> DEFINE q == [r EXCEPT !.pc = "bytes"]
    <2>1. /\ Goes(c, q) /\ r.pc = "body" /\ snapshot' = snapshot
          /\ media' = [media EXCEPT !.bytes = @ \cup {r.photo}]
      BY <1>4 DEF StoreBytes
    <2>2. media' = [bytes |-> media.bytes \cup {r.photo}, receipts |-> media.receipts]
      BY <2>1 DEF EvidenceInv
    <2>3. r = [pc |-> r.pc, photo |-> r.photo, held |-> r.held, left |-> r.left]
      BY <1>2, <2>1 DEF RequestIsHonest
    <2>4. q = [pc |-> "bytes", photo |-> r.photo, held |-> r.held, left |-> r.left]
      BY <2>3
    <2> HIDE DEF q, r
    <2>5. q.pc = "bytes" /\ q.photo = r.photo /\ q.held = r.held /\ q.left = r.left
      BY <2>4
    <2>6. IsHonest(r.held, media')
      <3>1. IsHonest(r.held, media)
        BY <1>2, <2>1 DEF RequestIsHonest
      <3>2. media.bytes \subseteq media'.bytes /\ media.receipts \subseteq media'.receipts
        BY <2>2
      <3> QED
        BY <3>1, <3>2, StaysHonest
    <2>7. RequestIsHonest(q, media')
      BY <2>2, <2>4, <2>5, <2>6 DEF RequestIsHonest
    <2>8. /\ media' = [bytes |-> media'.bytes, receipts |-> media'.receipts]
          /\ media.bytes \subseteq media'.bytes /\ media.receipts \subseteq media'.receipts
          /\ media'.receipts \subseteq media'.bytes
      BY <1>2, <2>2
    <2> QED
      BY <1>1, <2>1, <2>7, <2>8, SyncStep
  <1>5. CASE StoreReceipt(c)
    <2> DEFINE q == [r EXCEPT !.pc = "receipt"]
    <2>1. /\ Goes(c, q) /\ r.pc = "bytes" /\ snapshot' = snapshot
          /\ media' = [media EXCEPT !.receipts = @ \cup {r.photo}]
      BY <1>5 DEF StoreReceipt
    <2>2. media' = [bytes |-> media.bytes, receipts |-> media.receipts \cup {r.photo}]
      BY <2>1 DEF EvidenceInv
    <2>3. /\ r = [pc |-> r.pc, photo |-> r.photo, held |-> r.held, left |-> r.left]
          /\ r.photo \in media.bytes
      BY <1>2, <2>1 DEF RequestIsHonest
    <2>4. q = [pc |-> "receipt", photo |-> r.photo, held |-> r.held, left |-> r.left]
      BY <2>3
    <2> HIDE DEF q, r
    <2>5. q.pc = "receipt" /\ q.photo = r.photo /\ q.held = r.held
      BY <2>4
    <2>6. IsHonest(r.held, media')
      <3>1. IsHonest(r.held, media)
        BY <1>2, <2>1 DEF RequestIsHonest
      <3>2. media.bytes \subseteq media'.bytes /\ media.receipts \subseteq media'.receipts
        BY <2>2
      <3> QED
        BY <3>1, <3>2, StaysHonest
    <2>7. RequestIsHonest(q, media')
      BY <2>2, <2>5, <2>6 DEF RequestIsHonest
    <2>8. /\ media' = [bytes |-> media'.bytes, receipts |-> media'.receipts]
          /\ media.bytes \subseteq media'.bytes /\ media.receipts \subseteq media'.receipts
          /\ media'.receipts \subseteq media'.bytes
      BY <1>2, <2>2, <2>3
    <2> QED
      BY <1>1, <2>1, <2>7, <2>8, SyncStep
  <1>6. CASE MarkPhotoSynced(c)
    <2> DEFINE q == [pc |-> "answered", photo |-> r.photo, left |-> r.left]
    <2>1. Goes(c, q) /\ r.pc = "receipt" /\ snapshot' = {Synced(r.held, r.photo)} /\ media' = media
      BY <1>6 DEF MarkPhotoSynced
    <2>2. r.photo \in media'.receipts /\ IsHonest(r.held, media')
      BY <1>2, <2>1 DEF RequestIsHonest
    <2>3. q.pc = "answered" /\ q.photo = r.photo
      OBVIOUS
    <2> HIDE DEF q, r
    <2>4. RequestIsHonest(q, media')
      BY <2>2, <2>3 DEF RequestIsHonest
    <2>5. IsHonest(Synced(r.held, r.photo), media')
      BY <2>2, SyncedIsHonest
    <2> QED
      BY <1>1, <2>1, <2>4, <2>5, MediaUnchanged, SyncStep
  <1> QED
    BY <1>3, <1>4, <1>5, <1>6

\* Ending: the draft is marked, the next photo sent, the synchronisation ended.
LEMMA EndingIsHonest ==
  ASSUME EvidenceInv, DraftInv, NEW c \in load.clients,
         MarkLocally(c) \/ FinishMedia(c) \/ FinishSync(c) \/ FailSync(c)
  PROVE  EvidenceInv'
  <1>1. media' = media /\ load' = load /\ snapshot' = snapshot
    BY DEF MarkLocally, FinishMedia, FinishSync, FailSync, fieldDocs
  <1>2. draft = [data |-> draft.data, dirty |-> draft.dirty, edits |-> draft.edits,
                 taking |-> draft.taking]
    BY DEF DraftInv
  <1>3. CASE MarkLocally(c)
    <2> DEFINE r == client[c]
               q == [pc |-> "pending", uploaded |-> TRUE, left |-> r.left]
    <2>1. Goes(c, q) /\ r.pc = "answered" /\ draft' = [draft EXCEPT !.data = Synced(@, r.photo)]
      BY <1>3 DEF MarkLocally
    <2>2. q.pc = "pending"
      OBVIOUS
    <2> HIDE DEF q
    <2>3. RequestIsHonest(q, media')
      BY <2>2, HoldsNothing
    <2>4. r.photo \in media'.receipts /\ IsHonest(draft.data, media')
      BY <1>1, <2>1 DEF EvidenceInv, RequestIsHonest
    <2> HIDE DEF r
    <2>5. draft'.data = Synced(draft.data, r.photo)
      BY <1>2, <2>1
    <2>6. IsHonest(draft'.data, media')
      BY <2>4, <2>5, SyncedIsHonest
    <2> QED
      BY <1>1, <2>1, <2>3, <2>6, MediaUnchanged, SyncStep
  <1>4. CASE FinishMedia(c)
    <2> DEFINE q == IF client[c].uploaded THEN [pc |-> "send", again |-> TRUE] ELSE [pc |-> "done"]
    <2>1. Goes(c, q) /\ draft' = draft
      BY <1>4 DEF FinishMedia, fieldDocs
    <2>2. q.pc \in {"send", "done"}
      OBVIOUS
    <2> HIDE DEF q
    <2>3. RequestIsHonest(q, media')
      BY <2>2, HoldsNothing
    <2> QED
      BY <1>1, <2>1, <2>3, MediaUnchanged, SyncStep
  <1>5. CASE FinishSync(c) \/ FailSync(c)
    <2>1. Goes(c, Idle) /\ \E b : draft' = [draft EXCEPT !.dirty = b]
      BY <1>5 DEF FinishSync, FailSync, Ends
    <2>2. draft'.data = draft.data
      BY <1>2, <2>1
    <2>3. RequestIsHonest(Idle, media')
      BY HoldsNothing DEF Idle
    <2> QED
      BY <1>1, <2>1, <2>2, <2>3, MediaUnchanged, SyncStep
  <1> QED
    BY <1>3, <1>4, <1>5

\* commit_legacy
LEMMA CommitIsHonest ==
  ASSUME EvidenceInv, NEW c \in load.clients,
         CommitContext(c) \/ \E facts \in LegacyFacts : StartCommit(c, facts)
  PROVE  EvidenceInv'
  <1>1. media' = media /\ load' = load /\ draft' = draft
    BY DEF CommitContext, StartCommit
  <1>2. CASE CommitContext(c)
    <2>1. Goes(c, Idle) /\ snapshot' = snapshot
      BY <1>2 DEF CommitContext, Ends
    <2>2. RequestIsHonest(Idle, media')
      BY HoldsNothing DEF Idle
    <2> QED
      BY <1>1, <2>1, <2>2, MediaUnchanged, SyncStep
  <1>3. CASE \E facts \in LegacyFacts : StartCommit(c, facts)
    <2> DEFINE q == [pc |-> "commit"]
    <2>1. PICK facts \in LegacyFacts : StartCommit(c, facts)
      BY <1>3
    <2>2. Goes(c, q) /\ snapshot' = {LegacySnapshot(facts)}
      BY <2>1 DEF StartCommit
    <2>3. RequestIsHonest(q, media')
      BY HoldsNothing
    <2>4. IsHonest(LegacySnapshot(facts), media')
      BY LegacyIsHonest
    <2> HIDE DEF q
    <2> QED
      BY <1>1, <2>2, <2>3, <2>4, MediaUnchanged, SyncStep
  <1> QED
    BY <1>2, <1>3

\* An edit says nothing to be synchronised that the draft did not say.
LEMMA EditIsHonest ==
  ASSUME EvidenceInv, DraftInv, Edit
  PROVE  EvidenceInv'
  <1>1. /\ load' = load /\ client' = client /\ snapshot' = snapshot /\ media' = media
    BY DEF Edit, EnterRoom, LeaveNotice, CloseUnit, AddFinding, MarkNotMeasurable, EnterValue, AddPoint,
           AddUnit, TakePhoto, TakeNameplate, Takes, AddPhoto, Classify, AddSpace, ToggleCheckpoint,
           StampKey, CheckVent, MissVent, SetSystem, Edits
  <1>2. DraftInv' /\ SaysNoMore(draft'.data, draft.data)
    BY EditOK
  <1>3. IsFieldData(draft'.data)
    BY <1>2 DEF DraftInv, IsDraft, IsFieldData, UnitsOK, PhotosOK, IsNumbered
  <1>4. IsHonest(draft'.data, media')
    BY <1>1, <1>2, <1>3 DEF EvidenceInv, IsHonest, SaysNoMore
  <1> QED
    BY SMTT(30), <1>1, <1>4 DEF EvidenceInv

LEMMA EvidenceStep ==
  ASSUME EvidenceInv, DraftInv, [FieldNext]_<<load, client, fieldDocs>>
  PROVE  EvidenceInv'
  <1>1. CASE UNCHANGED <<load, client, fieldDocs>>
    BY <1>1 DEF EvidenceInv, fieldDocs
  <1>2. CASE FieldNext
    BY <1>2, EditIsHonest, SendingIsHonest, UploadIsHonest, EndingIsHonest, CommitIsHonest, Zenon
    DEF FieldNext
  <1> QED
    BY <1>1, <1>2

\* Nothing is said to be synchronised before anything was sent.
LEMMA EvidenceInit ==
  ASSUME RequestsInit, DraftInv,
         FieldInit({NoFieldData} \cup {LegacySnapshot(facts) : facts \in LegacyFacts}, {{}})
  PROVE  EvidenceInv
  <1>1. snapshot = {} /\ media = [bytes |-> {}, receipts |-> {}]
    BY DEF FieldInit
  <1>2. IsHonest(draft.data, media)
    <2>1. IsFieldData(draft.data)
      BY DEF DraftInv, IsDraft, IsFieldData, UnitsOK, PhotosOK, IsNumbered
    <2>2. draft.data.photos = {}
      <3>1. PICK d \in {NoFieldData} \cup {LegacySnapshot(facts) : facts \in LegacyFacts} :
                 draft = [data |-> Restored(d), dirty |-> TRUE, edits |-> 0, taking |-> {}]
        BY DEF FieldInit
      <3>2. Restored(d).photos = {}
        BY DEF Restored, NoFieldData
      <3> QED
        BY <3>1, <3>2
    <2> QED
      BY <2>1, <2>2 DEF IsHonest
  <1>3. RequestIsHonest(Idle, media)
    BY HoldsNothing DEF Idle
  <1> QED
    BY <1>1, <1>2, <1>3 DEF EvidenceInv, RequestsInit

\* Honest data is shown as it is: every photo, and as verified only what can be downloaded.
LEMMA HonestIsShown ==
  ASSUME NEW d, IsHonest(d, media), media.receipts \subseteq media.bytes
  PROVE  LET view == WorkbenchOf(d)
             shown == view.orphans \cup UNION {f.photos : f \in view.findings}
             historical == UNION {f.photos : f \in HistoricalFindings(d)}
         IN  /\ Ids(shown) = Ids(d.photos)
             /\ \A p \in shown \cup historical : p.verified => Downloads(p.id) # {}
             /\ MediaPending(d) = 0 => view.verified = view.photos
             /\ Summary(d).complete => \A u \in d.units : u.stamp # "none"
  <1> DEFINE view == WorkbenchOf(d)
             orphans == {Shown(p) : p \in {p \in d.photos : p.finding \notin Ids(d.findings)}}
             under(f) == {Shown(p) : p \in {p \in d.photos : p.finding = f.id}}
             rows == {[id |-> f.id, photos |-> under(f)] : f \in d.findings}
             shown == view.orphans \cup UNION {f.photos : f \in view.findings}
             historical == UNION {f.photos : f \in HistoricalFindings(d)}
  <1>1. /\ view.orphans = orphans /\ view.findings = rows /\ view.photos = Cardinality(d.photos)
        /\ view.verified = Cardinality({p \in d.photos : Shown(p).verified})
    BY DEF WorkbenchOf
  <1>2. \A p : Shown(p).id = p.id /\ Shown(p).verified = (p.id \in media.receipts)
    BY DEF Shown
  <1>3. \A x \in shown : \E p \in d.photos : x = Shown(p)
    BY <1>1
  <1>4. ASSUME NEW p \in d.photos
        PROVE  Shown(p) \in shown
    <2>1. CASE p.finding \in Ids(d.findings)
      <3>1. PICK f \in d.findings : p.finding = f.id
        BY <2>1 DEF Ids
      <3>2. Shown(p) \in under(f)
        BY <3>1
      <3>3. [id |-> f.id, photos |-> under(f)] \in view.findings
        BY <1>1
      <3> QED
        BY <3>2, <3>3
    <2>2. CASE p.finding \notin Ids(d.findings)
      BY <1>1, <2>2
    <2> QED
      BY <2>1, <2>2
  <1>5. \A x \in historical : \E p \in d.photos : x = Historical(p)
    BY DEF HistoricalFindings
  <1> HIDE DEF view, shown, historical
  <1>6. Ids(shown) = Ids(d.photos)
    BY <1>2, <1>3, <1>4 DEF Ids
  <1>7. \A p \in shown \cup historical : p.verified => Downloads(p.id) # {}
    <2>1. \A p : Historical(p).id = p.id /\ Historical(p).verified = (p.id \in media.receipts)
      BY DEF Historical
    <2>2. \A id \in media.receipts : Downloads(id) # {}
      BY DEF Downloads, Content
    <2>3. ASSUME NEW x \in shown \cup historical, x.verified
          PROVE  x.id \in media.receipts
      <3>1. CASE x \in shown
        <4>1. PICK p \in d.photos : x = Shown(p)
          BY <1>3, <3>1
        <4> QED
          BY <1>2, <2>3, <4>1, Zenon
      <3>2. CASE x \in historical
        <4>1. PICK p \in d.photos : x = Historical(p)
          BY <1>5, <3>2
        <4> QED
          BY <2>1, <2>3, <4>1, Zenon
      <3> QED
        BY <3>1, <3>2
    <2> QED
      BY <2>2, <2>3
  <1>8. ASSUME MediaPending(d) = 0
        PROVE  view.verified = view.photos
    <2> DEFINE pending == {p \in d.photos : p.sync # "synced"}
    <2>1. IsFiniteSet(pending) /\ Cardinality(pending) = 0
      BY <1>8, FS_Subset DEF MediaPending, IsHonest, IsFieldData
    <2>2. pending = {}
      BY <2>1, FS_EmptySet
    <2>3. \A p \in d.photos : p.id \in media.receipts
      BY <2>2 DEF IsHonest
    <2>4. {p \in d.photos : Shown(p).verified} = d.photos
      BY <1>2, <2>3
    <2> QED
      BY <1>1, <2>4
  <1>9. ASSUME Summary(d).complete
        PROVE  \A u \in d.units : u.stamp # "none"
    <2>1. \A u \in d.units : u.status # "ej_paborjad"
      BY <1>9 DEF Summary
    <2> QED
      BY <2>1 DEF IsHonest, IsFieldData, IsUnit
  <1> QED
    BY <1>6, <1>7, <1>8, <1>9 DEF view, shown, historical

LEMMA EvidenceHolds ==
  ASSUME EvidenceInv
  PROVE  EvidenceIsStored
  <1>1. \A p \in (UNION {d.photos : d \in snapshot}) \cup draft.data.photos :
           p.sync = "synced" => p.id \in media.bytes /\ p.id \in media.receipts
    <2>1. ASSUME NEW d \in snapshot \cup {draft.data}, NEW p \in d.photos, p.sync = "synced"
          PROVE  p.id \in media.bytes /\ p.id \in media.receipts
      <3>1. IsHonest(d, media) /\ media.receipts \subseteq media.bytes
        BY DEF EvidenceInv
      <3> QED
        BY <2>1, <3>1 DEF IsHonest
    <2>2. \A p \in UNION {d.photos : d \in snapshot} : \E d \in snapshot : p \in d.photos
      BY Zenon
    <2>3. ASSUME NEW p \in (UNION {d.photos : d \in snapshot}) \cup draft.data.photos, p.sync = "synced"
          PROVE  p.id \in media.bytes /\ p.id \in media.receipts
      <3>1. CASE p \in UNION {d.photos : d \in snapshot}
        <4>1. PICK d \in snapshot : p \in d.photos
          BY <2>2, <3>1, Zenon
        <4> QED
          BY <2>1, <2>3, <4>1
      <3>2. CASE p \in draft.data.photos
        BY <2>1, <2>3, <3>2, Zenon
      <3> QED
        BY <3>1, <3>2
    <2> QED
      BY <2>3
  <1>2. \A d \in snapshot : IsHonest(d, media)
    BY DEF EvidenceInv
  <1>3. media.receipts \subseteq media.bytes
    BY DEF EvidenceInv
  <1> QED
    BY <1>1, <1>2, <1>3, HonestIsShown DEF EvidenceIsStored

\* However the synchronisations of any number of tabs, edits, failures and imports of old
\* protocols interleave, neither the server nor the draft says that a photo is synchronised
\* unless its bytes and receipt are there; what is shown as verified can be downloaded,
\* nothing is verified less when nothing is pending, and no photo is missing from the
\* workbench.  (upload_media, mark_photo_synced, _project_snapshot)
THEOREM EvidenceAlwaysStored == FieldModeSpec => []EvidenceIsStored
  <1>1. RequestsInit /\ FieldInit({NoFieldData} \cup {LegacySnapshot(facts) : facts \in LegacyFacts}, {{}})
        => DraftInv /\ EvidenceInv
    BY DraftInit, EvidenceInit
  <1>2. DraftInv /\ EvidenceInv /\ [FieldNext]_<<load, client, fieldDocs>> => (DraftInv /\ EvidenceInv)'
    BY DraftStep, EvidenceStep
  <1>3. EvidenceInv => EvidenceIsStored
    BY EvidenceHolds
  <1> QED
    BY <1>1, <1>2, <1>3, PTL DEF FieldModeSpec

-----------------------------------------------------------------------------
(* Certificates and cases: the inductive invariant                         *)

IntervalOf(cert, s) == Interval(cert.category, s.type, cert.school)

\* What a certificate says of the next inspection: the shortest interval of its systems,
\* if it passed.
IsCertificate(cert) ==
    /\ cert.id \in Nat /\ cert.issued \in Nat /\ cert.inspected \in Nat
    /\ cert.due = {} \/ \E due \in Nat : cert.due = {due}
    /\ cert.result # "ej_godkand" =>
          \A s \in cert.systems : IntervalOf(cert, s) # 0 =>
             \E due \in cert.due : due <= cert.inspected + IntervalOf(cert, s)

CertificatesOK(certs) ==
    /\ IsFiniteSet(certs)
    /\ \A cert \in certs : IsCertificate(cert)
    /\ \A cert, other \in certs : cert.id = other.id => cert = other

\* The state of its items is the status a case is stored with, and it was closed against
\* another inspection in which every item was verified.
IsCase(case) ==
    /\ case = [k \in {"source", "building", "deadline", "result", "status", "items"} |-> case[k]]
    /\ case.status = CaseStatus(case)
    /\ IsClosed(case) =>
          /\ case.result # case.source /\ AllVerified(case)
          /\ \A item \in case.items : item.verified_in = case.result

CasesInv ==
    /\ load.bound \in Nat
    /\ CertificatesOK(certificates)
    /\ DOMAIN cases = {1}
    /\ \A k \in DOMAIN cases : \A case \in cases[k] : IsCase(case)

-----------------------------------------------------------------------------
(* Certificates                                                            *)

LEMMA LeastYear ==
  ASSUME NEW S \in SUBSET Nat, S # {}
  PROVE  LeastOf(S) \in S /\ \A m \in S : LeastOf(S) <= m
  <1>1. \E n \in S : \A m \in S : ~(<<m, n>> \in OpToRel(<, Nat))
    BY NatLessThanWellFounded, WFMin, Zenon
  <1>2. PICK n \in S : \A m \in S : ~(m < n)
    BY <1>1 DEF OpToRel
  <1>3. n \in S /\ \A m \in S : n <= m
    BY <1>2
  <1> QED
    BY <1>3 DEF LeastOf

LEMMA IntervalYears ==
  ASSUME NEW category, NEW system, NEW school
  PROVE  Interval(category, system, school) \in Nat
  BY DEF Interval

LEMMA NextInspection ==
  ASSUME NEW result, NEW r, NEW category, NEW school, NEW inspected \in Nat
  PROVE  LET due == DueDate(result, r, category, school, inspected)
         IN  /\ due = {} \/ \E year \in Nat : due = {year}
             /\ result # "ej_godkand" =>
                   \A s \in r.systems : Interval(category, s, school) # 0 =>
                      \E year \in due : year <= inspected + Interval(category, s, school)
  <1> DEFINE intervals == {Interval(category, s, school) : s \in r.systems} \ {0}
             due == DueDate(result, r, category, school, inspected)
  <1>1. intervals \subseteq Nat
    BY IntervalYears
  <1>2. due = IF result = "ej_godkand" \/ intervals = {} THEN {} ELSE {inspected + LeastOf(intervals)}
    BY DEF DueDate
  <1>3. CASE result = "ej_godkand" \/ intervals = {}
    <2>1. \A s \in r.systems : Interval(category, s, school) # 0 => Interval(category, s, school) \in intervals
      OBVIOUS
    <2>2. due = {}
      BY <1>2, <1>3
    <2> HIDE DEF due, intervals
    <2> QED
      BY <1>3, <2>1, <2>2 DEF due
  <1>4. CASE ~(result = "ej_godkand" \/ intervals = {})
    <2>1. LeastOf(intervals) \in Nat /\ \A m \in intervals : LeastOf(intervals) <= m
      <3> HIDE DEF intervals
      <3> QED
        BY <1>1, <1>4, LeastYear
    <2>2. \A s \in r.systems : Interval(category, s, school) # 0 => Interval(category, s, school) \in intervals
      OBVIOUS
    <2>3. due = {inspected + LeastOf(intervals)} /\ inspected + LeastOf(intervals) \in Nat
      BY <1>2, <1>4, <2>1
    <2>4. \A s \in r.systems : Interval(category, s, school) # 0 =>
             inspected + LeastOf(intervals) <= inspected + Interval(category, s, school)
      <3> HIDE DEF intervals
      <3> QED
        BY <2>1, <2>2, IntervalYears
    <2> HIDE DEF due, intervals
    <2> QED
      BY <2>3, <2>4 DEF due
  <1> QED
    BY <1>3, <1>4

LEMMA IssuedIsCertificate ==
  ASSUME NEW id \in Nat, NEW i, NEW r, NEW category, NEW school, NEW inspected \in Nat,
         NEW issued \in Nat, NEW owner, NEW inspector
  PROVE  LET cert == Certificate(id, i, r, category, school, inspected, issued, owner, inspector)
         IN  IsCertificate(cert) /\ cert.id = id
  <1> DEFINE cert == Certificate(id, i, r, category, school, inspected, issued, owner, inspector)
             due == DueDate(cert.result, r, category, school, inspected)
  <1>1. /\ cert.id = id /\ cert.issued = issued /\ cert.inspected = inspected
        /\ cert.category = category /\ cert.school = school
    BY DEF Certificate
  <1>2. cert.due = due
    BY DEF Certificate
  <1>3. \A s \in cert.systems : s.type \in r.systems
    BY DEF Certificate
  <1>4. /\ due = {} \/ \E year \in Nat : due = {year}
        /\ cert.result # "ej_godkand" =>
              \A s \in r.systems : Interval(category, s, school) # 0 =>
                 \E year \in due : year <= inspected + Interval(category, s, school)
    <2> HIDE DEF cert
    <2> QED
      BY NextInspection
  <1> HIDE DEF cert, due
  <1>5. IsCertificate(cert)
    BY <1>1, <1>2, <1>3, <1>4 DEF IsCertificate, IntervalOf
  <1> QED
    BY <1>1, <1>5 DEF cert

\* A certificate replaces the one of its identifier.
LEMMA StoredIsOK ==
  ASSUME CertificatesOK(certificates), NEW cert, IsCertificate(cert)
  PROVE  CertificatesOK(StoredCertificates(cert))
  <1>1. IsFiniteSet({other \in certificates : other.id # cert.id})
    BY FS_Subset DEF CertificatesOK
  <1>2. IsFiniteSet(StoredCertificates(cert))
    BY <1>1, FS_AddElement DEF StoredCertificates
  <1> QED
    BY <1>2 DEF CertificatesOK, StoredCertificates

LEMMA IssueKeepsCases ==
  ASSUME CasesInv, NEW id \in Nat, NEW i, NEW category, NEW inspected \in Dates,
         NEW issued \in Dates, NEW named, IssueCertificate(id, i, category, inspected, issued, named)
  PROVE  CasesInv'
  <1>1. PICK r \in records[i], owner \in Owner(named), inspector \in Inspector(named) :
           certificates' = StoredCertificates(
               Certificate(id, i, r, category, FALSE, inspected, issued, owner, inspector))
    BY DEF IssueCertificate
  <1> DEFINE cert == Certificate(id, i, r, category, FALSE, inspected, issued, owner, inspector)
  <1>2. IsCertificate(cert)
    BY IssuedIsCertificate, DatesAssumption
  <1>3. certificates' = StoredCertificates(cert)
    BY <1>1
  <1> HIDE DEF cert
  <1>4. CertificatesOK(certificates')
    BY <1>2, <1>3, StoredIsOK DEF CasesInv
  <1>5. UNCHANGED <<load, cases>>
    BY DEF IssueCertificate
  <1> QED
    BY <1>4, <1>5 DEF CasesInv

-----------------------------------------------------------------------------
(* Cases                                                                   *)

\* A case is stored with the status that it has.
LEMMA StoredCaseOK ==
  ASSUME CasesInv, NEW k \in DOMAIN cases, NEW case,
         case = [f \in {"source", "building", "deadline", "result", "status", "items"} |-> case[f]],
         IsClosed(case) => /\ case.result # case.source /\ AllVerified(case)
                           /\ \A item \in case.items : item.verified_in = case.result,
         cases' = [cases EXCEPT ![k] = {CasePayload(case)}],
         UNCHANGED <<load, certificates>>
  PROVE  CasesInv'
  <1> DEFINE stored == CasePayload(case)
  <1>1. /\ stored = [f \in {"source", "building", "deadline", "result", "status", "items"} |-> stored[f]]
        /\ stored.source = case.source /\ stored.result = case.result /\ stored.items = case.items
        /\ stored.status = CaseStatus(case)
    BY DEF CasePayload
  <1> HIDE DEF stored
  <1>2. IsCase(stored)
    BY <1>1 DEF IsCase, CaseStatus, IsClosed, AllVerified
  <1>3. cases' = [cases EXCEPT ![k] = {stored}]
    BY DEF stored
  <1>4. DOMAIN cases' = {1} /\ \A j \in DOMAIN cases' : \A c \in cases'[j] : IsCase(c)
    BY <1>2, <1>3 DEF CasesInv
  <1> QED
    BY <1>4 DEF CasesInv

LEMMA OpenKeepsCases ==
  ASSUME CasesInv, NEW k \in DOMAIN cases, NEW i, NEW deadline, OpenCase(k, i, deadline)
  PROVE  CasesInv'
  <1>1. PICK r \in records[i] : cases' = [cases EXCEPT ![k] = {CasePayload(OpenedCase(i, r, deadline))}]
    BY DEF OpenCase
  <1> DEFINE case == OpenedCase(i, r, deadline)
  <1>2. /\ case = [f \in {"source", "building", "deadline", "result", "status", "items"} |-> case[f]]
        /\ ~IsClosed(case)
    BY DEF OpenedCase, IsClosed
  <1>3. cases' = [cases EXCEPT ![k] = {CasePayload(case)}]
    BY <1>1
  <1> HIDE DEF case
  <1>4. UNCHANGED <<load, certificates>>
    BY DEF OpenCase
  <1> QED
    BY <1>2, <1>3, <1>4, StoredCaseOK

LEMMA ItemKeepsCases ==
  ASSUME CasesInv, NEW k \in DOMAIN cases, NEW item, NEW new, Item(k, item, new)
  PROVE  CasesInv'
  <1>1. PICK old \in cases[k] :
           /\ ~IsClosed(old)
           /\ cases' = [cases EXCEPT ![k] = {CasePayload([old EXCEPT !.items = Replaced(@, item, new)])}]
    BY DEF Item
  <1> DEFINE case == [old EXCEPT !.items = Replaced(@, item, new)]
  <1>2. IsCase(old)
    BY DEF CasesInv
  <1>3. /\ case = [f \in {"source", "building", "deadline", "result", "status", "items"} |-> case[f]]
        /\ case.result = old.result
    BY <1>2 DEF IsCase
  <1>4. ~IsClosed(case)
    BY <1>1, <1>3 DEF IsClosed
  <1>5. cases' = [cases EXCEPT ![k] = {CasePayload(case)}]
    BY <1>1
  <1> HIDE DEF case
  <1>6. UNCHANGED <<load, certificates>>
    BY DEF Item
  <1> QED
    BY <1>3, <1>4, <1>5, <1>6, StoredCaseOK

LEMMA CloseKeepsCases ==
  ASSUME CasesInv, NEW k \in DOMAIN cases, NEW i, CloseCase(k, i)
  PROVE  CasesInv'
  <1>1. PICK old \in cases[k], r \in records[i] :
           /\ MayClose(old, i, r)
           /\ cases' = [cases EXCEPT ![k] = {CasePayload([old EXCEPT !.result = i])}]
    BY DEF CloseCase
  <1> DEFINE case == [old EXCEPT !.result = i]
  <1>2. IsCase(old)
    BY DEF CasesInv
  <1>3. /\ case = [f \in {"source", "building", "deadline", "result", "status", "items"} |-> case[f]]
        /\ case.result = i /\ case.source = old.source /\ case.items = old.items
    BY <1>2 DEF IsCase
  <1>4. cases' = [cases EXCEPT ![k] = {CasePayload(case)}]
    BY <1>1
  <1> HIDE DEF case
  <1>5. /\ case.result # case.source /\ AllVerified(case)
        /\ \A item \in case.items : item.verified_in = case.result
    BY <1>1, <1>3 DEF MayClose, AllVerified
  <1>6. UNCHANGED <<load, certificates>>
    BY DEF CloseCase
  <1> QED
    BY <1>3, <1>4, <1>5, <1>6, StoredCaseOK

LEMMA CasesStep == CasesInv /\ [CasesNext]_<<load, client, fieldDocs, caseDocs>> => CasesInv'
  <1> SUFFICES ASSUME CasesInv, [CasesNext]_<<load, client, fieldDocs, caseDocs>>
               PROVE  CasesInv'
    OBVIOUS
  <1>1. CASE UNCHANGED <<load, certificates, cases>>
    BY <1>1 DEF CasesInv
  <1>2. ASSUME NEW c, NEW i, OpenForm(c, i) \/ SaveForm(c) \/ SendRecord(i) \/ DraftProtocol
        PROVE  CasesInv'
    BY <1>1, <1>2 DEF OpenForm, SaveForm, SendRecord, DraftProtocol, caseDocs
  <1>3. ASSUME NEW property, NEW until, SaveProperty(property) \/ SaveInspector(until)
        PROVE  CasesInv'
    BY <1>1, <1>3 DEF SaveProperty, SaveInspector
  <1>4. ASSUME NEW year, year = LeastOf(Dates),
               IssueCertificate(1, FieldInspection, "flerbostadshus", year, year, TRUE)
        PROVE  CasesInv'
    BY <1>4, LeastYear, DatesAssumption, IssueKeepsCases
  <1>5. ASSUME NEW category, NEW inspected \in Dates, NEW issued \in Dates, NEW id \in 1..load.bound,
               NEW i, IssueCertificate(id, i, category, inspected, issued, FALSE)
        PROVE  CasesInv'
    <2>1. id \in Nat
      BY <1>5 DEF CasesInv
    <2> QED
      BY <1>5, <2>1, IssueKeepsCases
  <1>6. ASSUME NEW k \in DOMAIN cases, NEW i, NEW deadline, OpenCase(k, i, deadline) \/ CloseCase(k, i)
        PROVE  CasesInv'
    BY <1>6, OpenKeepsCases, CloseKeepsCases
  <1>7. ASSUME NEW k \in DOMAIN cases, NEW i, NEW item, NEW verified,
               ClaimRemedy(k, item) \/ VerifyItem(k, item, verified, i)
        PROVE  CasesInv'
    BY <1>7, ItemKeepsCases DEF ClaimRemedy, VerifyItem
  <1>8. CASE CasesNext
    <2>1. CASE DraftProtocol \/ \E c \in load.clients : SaveForm(c) \/ \E i \in Inspections : OpenForm(c, i)
      BY <2>1, <1>2
    <2>2. CASE LET year == LeastOf(Dates)
               IN  IssueCertificate(1, FieldInspection, "flerbostadshus", year, year, TRUE)
      BY <2>2, <1>4
    <2>3. CASE \E i \in Inspections : (load.part = "protocol" => i = FieldInspection) /\ SendRecord(i)
      BY <2>3, <1>2
    <2>4. CASE \/ \E property \in Properties : registry.property = {} /\ SaveProperty(property)
               \/ registry.inspector = {} /\ SaveInspector(LeastOf(Dates))
      BY <2>4, <1>3
    <2>5. CASE \E category \in {"flerbostadshus", "smahus"}, inspected, issued \in Dates,
                  id \in 1..load.bound, i \in Inspections :
                  IssueCertificate(id, i, category, inspected, issued, FALSE)
      BY <2>5, <1>5
    <2>6. CASE \E k \in DOMAIN cases, i \in Inspections :
                  \/ \E deadline \in {{}, {LeastOf(Dates)}} : OpenCase(k, i, deadline)
                  \/ CloseCase(k, i)
                  \/ \E item \in UNION {case.items : case \in cases[k]} :
                        \/ ClaimRemedy(k, item)
                        \/ \E verified \in BOOLEAN : VerifyItem(k, item, verified, i)
      BY <2>6, <1>6, <1>7
    <2> QED
      BY <1>8, <2>1, <2>2, <2>3, <2>4, <2>5, <2>6, Zenon DEF CasesNext
  <1> QED
    BY <1>1, <1>8 DEF caseDocs

-----------------------------------------------------------------------------
(* The watch list                                                          *)

\* Of finitely many things that a strict order compares one is the newest.
LEMMA HasNewest ==
  ASSUME NEW S, IsFiniteSet(S), S # {}, NEW R,
         \A x \in S : <<x, x>> \notin R,
         \A x, y, z \in S : <<x, y>> \in R /\ <<y, z>> \in R => <<x, z>> \in R
  PROVE  \E x \in S : \A y \in S : <<x, y>> \notin R
  <1> DEFINE after(x) == {y \in S : <<x, y>> \in R}
             counts == {Cardinality(after(x)) : x \in S}
  <1>1. \A x \in S : IsFiniteSet(after(x)) /\ Cardinality(after(x)) \in Nat
    BY FS_Subset, FS_CardinalityType
  <1>2. counts \in SUBSET Nat /\ counts # {}
    <2> HIDE DEF after
    <2> QED
      BY <1>1
  <1>3. PICK x \in S : \A y \in S : Cardinality(after(x)) <= Cardinality(after(y))
    <2>1. LeastOf(counts) \in counts /\ \A m \in counts : LeastOf(counts) <= m
      <3> HIDE DEF counts
      <3> QED
        BY <1>2, LeastYear
    <2>2. PICK x \in S : Cardinality(after(x)) = LeastOf(counts)
      BY <2>1
    <2>3. \A y \in S : Cardinality(after(y)) \in counts
      OBVIOUS
    <2> HIDE DEF counts, after
    <2> QED
      BY <2>1, <2>2, <2>3
  <1>4. ASSUME NEW y \in S, <<x, y>> \in R
        PROVE  FALSE
    <2>1. after(y) \in SUBSET after(x) /\ y \in after(x) /\ y \notin after(y)
      BY <1>4
    <2>2. Cardinality(after(y)) <= Cardinality(after(x)) /\ Cardinality(after(x)) # Cardinality(after(y))
      <3> HIDE DEF after
      <3> QED
        BY <1>1, <2>1, FS_Subset
    <2> HIDE DEF after
    <2> QED
      BY <1>1, <1>3, <2>2
  <1> QED
    BY <1>4

LEMMA NewestIsListed ==
  ASSUME CertificatesOK(certificates), NEW cert \in certificates
  PROVE  \E listed \in LatestPerBuilding : listed.building = cert.building /\ listed.issued >= cert.issued
  <1> DEFINE S == {other \in certificates : other.building = cert.building}
             Older(x, y) == x.issued < y.issued \/ (x.issued = y.issued /\ x.id < y.id)
             R == {p \in S \X S : Older(p[1], p[2])}
  <1>1. \A x \in S : x.id \in Nat /\ x.issued \in Nat
    BY DEF CertificatesOK, IsCertificate
  <1>2. IsFiniteSet(S) /\ cert \in S
    BY FS_Subset DEF CertificatesOK
  <1>3. \A x, y \in S : <<x, y>> \in R <=> Older(x, y)
    OBVIOUS
  <1> HIDE DEF R
  <1>4. \A x \in S : <<x, x>> \notin R
    BY <1>1, <1>3
  <1>5. \A x, y, z \in S : <<x, y>> \in R /\ <<y, z>> \in R => <<x, z>> \in R
    BY <1>1, <1>3
  <1>6. PICK x \in S : \A y \in S : <<x, y>> \notin R
    <2> HIDE DEF S, Older
    <2> S # {}
      BY <1>2
    <2> QED
      BY <1>2, <1>4, <1>5, HasNewest
  <1>7. \A y \in S : y.issued < x.issued \/ (y.issued = x.issued /\ y.id <= x.id)
    <2>1. \A y \in S : ~Older(x, y)
      <3> HIDE DEF Older, S
      <3> QED
        BY <1>3, <1>6
    <2> QED
      BY <1>1, <2>1
  <1>8. x \in LatestPerBuilding
    BY <1>7 DEF LatestPerBuilding
  <1>9. x.issued >= cert.issued
    BY <1>1, <1>2, <1>7
  <1> QED
    BY <1>8, <1>9

\* What a certificate on the list shows.
LEMMA ListedSays ==
  ASSUME NEW cert, IsCertificate(cert), NEW today \in Nat
  PROVE  LET item == CertificateItem(cert, today)
         IN  /\ item.source = "intyg" /\ item.building = cert.building /\ item.ref = cert.id
             /\ cert.result = "ej_godkand" <=> item.status = "ombesiktning_kravs"
             /\ \A s \in cert.systems :
                   IntervalOf(cert, s) # 0 /\ cert.inspected + IntervalOf(cert, s) < today
                   => item.status \in {"forsenad", "ombesiktning_kravs"}
  <1> DEFINE item == CertificateItem(cert, today)
  <1>1. /\ item.source = "intyg" /\ item.building = cert.building /\ item.ref = cert.id
        /\ item.status = IF cert.result = "ej_godkand" THEN "ombesiktning_kravs"
                         ELSE IF cert.due = {} THEN "ingen_frist"
                         ELSE DeadlineStatus(CHOOSE due \in cert.due : TRUE, today)
    BY DEF CertificateItem
  <1> HIDE DEF item
  <1>2. CASE cert.result = "ej_godkand"
    BY <1>1, <1>2 DEF item
  <1>3. CASE cert.result # "ej_godkand" /\ cert.due = {}
    <2>1. \A s \in cert.systems : IntervalOf(cert, s) = 0
      BY <1>3 DEF IsCertificate
    <2> QED
      BY <1>1, <1>3, <2>1 DEF item
  <1>4. CASE cert.result # "ej_godkand" /\ cert.due # {}
    <2>1. PICK due \in Nat : cert.due = {due}
      BY <1>4 DEF IsCertificate
    <2>2. item.status = DeadlineStatus(due, today)
      BY <1>1, <1>4, <2>1
    <2>3. /\ DeadlineStatus(due, today) # "ombesiktning_kravs"
          /\ due < today => DeadlineStatus(due, today) = "forsenad"
      BY DEF DeadlineStatus
    <2>4. \A s \in cert.systems : IntervalOf(cert, s) # 0 => due <= cert.inspected + IntervalOf(cert, s)
      BY <1>4, <2>1 DEF IsCertificate
    <2>5. \A s \in cert.systems : IntervalOf(cert, s) \in Nat
      BY IntervalYears DEF IntervalOf
    <2>6. \A s \in cert.systems :
             IntervalOf(cert, s) # 0 /\ cert.inspected + IntervalOf(cert, s) < today => due < today
      BY <2>4, <2>5 DEF IsCertificate
    <2> QED
      BY <1>1, <1>4, <2>2, <2>3, <2>6 DEF item
  <1> QED
    BY <1>2, <1>3, <1>4

LEMMA CertificateIsWatched ==
  ASSUME CasesInv, NEW today \in Dates, NEW cert \in certificates
  PROVE  \E item \in Watched(today).items :
            /\ item.source = "intyg" /\ item.building = cert.building
            /\ \E listed \in certificates :
                  /\ listed.id = item.ref /\ listed.issued >= cert.issued
                  /\ listed.result = "ej_godkand" <=> item.status = "ombesiktning_kravs"
                  /\ \A s \in listed.systems :
                        LET years == Interval(listed.category, s.type, listed.school)
                        IN  years # 0 /\ listed.inspected + years < today
                            => item \in Overdue(Watched(today).items)
  <1>1. PICK listed \in LatestPerBuilding : listed.building = cert.building /\ listed.issued >= cert.issued
    BY NewestIsListed DEF CasesInv
  <1>2. listed \in certificates /\ IsCertificate(listed)
    BY DEF LatestPerBuilding, CasesInv, CertificatesOK
  <1> DEFINE item == CertificateItem(listed, today)
  <1>3. item \in Watched(today).items
    BY DEF Watched, WatchList
  <1>4. /\ item.source = "intyg" /\ item.building = listed.building /\ item.ref = listed.id
        /\ listed.result = "ej_godkand" <=> item.status = "ombesiktning_kravs"
        /\ \A s \in listed.systems :
              IntervalOf(listed, s) # 0 /\ listed.inspected + IntervalOf(listed, s) < today
              => item.status \in {"forsenad", "ombesiktning_kravs"}
    BY <1>2, ListedSays, DatesAssumption
  <1> HIDE DEF item
  <1>5. item.status \in {"forsenad", "ombesiktning_kravs"} => item \in Overdue(Watched(today).items)
    BY <1>3 DEF Overdue
  <1> QED
    BY <1>1, <1>2, <1>3, <1>4, <1>5 DEF IntervalOf

LEMMA CaseIsWatched ==
  ASSUME CasesInv, NEW today \in Dates, NEW k \in DOMAIN cases, NEW case \in cases[k]
  PROVE  /\ case.status = CaseRow(k, case).status
         /\ CaseRow(k, case).open > 0 => case.status = "open"
         /\ IF IsClosed(case)
            THEN /\ case.result # case.source
                 /\ \A item \in case.items : item.verified_in = case.result
            ELSE case.deadline # {} =>
                   \E item \in Watched(today).items : item.source = "ombesiktning" /\ item.ref = k
  <1>1. IsCase(case)
    BY DEF CasesInv
  <1>2. case.status = CaseRow(k, case).status
    BY <1>1 DEF IsCase, CaseRow
  <1>3. ASSUME CaseRow(k, case).open > 0
        PROVE  case.status = "open"
    <2> DEFINE open == {item \in case.items : item.state # "verified"}
    <2>1. Cardinality(open) > 0
      BY <1>3 DEF CaseRow
    <2>2. open # {}
      <3> HIDE DEF open
      <3> QED
        BY <2>1, FS_EmptySet
    <2>3. ~AllVerified(case)
      BY <2>2 DEF AllVerified
    <2> QED
      BY <1>1, <2>3 DEF IsCase, CaseStatus
  <1>4. ASSUME ~IsClosed(case), case.deadline # {}
        PROVE  \E item \in Watched(today).items : item.source = "ombesiktning" /\ item.ref = k
    <2>1. CaseItem(k, case, today) \in Watched(today).items
      BY <1>4 DEF Watched, WatchList
    <2>2. CaseItem(k, case, today).source = "ombesiktning" /\ CaseItem(k, case, today).ref = k
      BY DEF CaseItem
    <2> QED
      BY <2>1, <2>2
  <1> QED
    BY <1>1, <1>2, <1>3, <1>4 DEF IsCase

\* For any records, certificates and years: whatever has to be inspected again is on the
\* watch list, the newest certificate of every building counted as overdue once the interval
\* of one of its systems has passed, and every case until it is closed.
\* (build_watchlist, _derive_next_inspection, close_case)
THEOREM WatchListIsComplete == CasesModeSpec => []WatchListMissesNothing
  <1>1. RequestsInit /\ load.bound \in Nat /\ CasesInit => CasesInv
    BY FS_EmptySet DEF CasesInit, CasesInv, CertificatesOK, NoCase
  <1>2. CasesInv /\ [CasesNext]_<<load, client, fieldDocs, caseDocs>> => CasesInv'
    BY CasesStep
  <1>3. CasesInv => WatchListMissesNothing
    BY CertificateIsWatched, CaseIsWatched DEF WatchListMissesNothing
  <1> QED
    BY <1>1, <1>2, <1>3, PTL DEF CasesModeSpec

-----------------------------------------------------------------------------
(* The protocol of the inspection in field mode: the inductive invariant   *)

\* A record that is ready and was not sent whole is the draft of the snapshot as it was
\* made: a form that puts a draft back leaves it without a coverage.
IsDraftedOrBare(r) ==
    \/ r \in Records \/ ~IsCovered(r)
    \/ \E d \in snapshot, system \in SystemTypes : r = Drafted(d, 1, system)

FollowInv ==
    /\ \A d, e \in snapshot : d = e
    /\ records = [i \in Inspections |-> records[i]]
    /\ \A r, s \in records[FieldInspection] : r = s
    /\ \A r \in records[FieldInspection] : IsDraftedOrBare(r)

\* A record without a coverage stays unready.
LEMMA EditedIsBare ==
  ASSUME NEW r, NEW edited \in Edited(r)
  PROVE  ~IsCovered(edited)
  BY DEF Edited, IsCovered

\* One record is put in the place of another.
LEMMA RecordPut ==
  ASSUME FollowInv, snapshot' = snapshot, NEW i \in Inspections, NEW r,
         records' = [records EXCEPT ![i] = {r}], i = FieldInspection => IsDraftedOrBare(r)
  PROVE  FollowInv'
  <1>1. records' = [j \in Inspections |-> records'[j]]
    BY DEF FollowInv
  <1>2. FieldInspection \in Inspections
    BY DEF FieldInspection, Inspections
  <1>3. IF i = FieldInspection THEN records'[FieldInspection] = {r}
        ELSE records'[FieldInspection] = records[FieldInspection]
    BY <1>2 DEF FollowInv
  <1>4. \A x : IsDraftedOrBare(x) => IsDraftedOrBare(x)'
    BY DEF IsDraftedOrBare
  <1> QED
    BY <1>1, <1>3, <1>4 DEF FollowInv

LEMMA FollowStep == FollowInv /\ [CasesNext]_<<load, client, fieldDocs, caseDocs>> => FollowInv'
  <1> SUFFICES ASSUME FollowInv, [CasesNext]_<<load, client, fieldDocs, caseDocs>>
               PROVE  FollowInv'
    OBVIOUS
  <1>1. CASE UNCHANGED <<fieldDocs, records>>
    BY <1>1 DEF fieldDocs, FollowInv, IsDraftedOrBare
  <1>2. CASE UNCHANGED <<load, client, fieldDocs, caseDocs>>
    BY <1>1, <1>2 DEF caseDocs
  <1>3. CASE DraftProtocol
    <2>1. PICK d \in snapshot, system \in SystemTypes :
             records' = [records EXCEPT ![FieldInspection] = {Drafted(d, 1, system)}]
      BY <1>3 DEF DraftProtocol
    <2>2. snapshot' = snapshot /\ FieldInspection \in Inspections
      BY <1>3 DEF DraftProtocol, fieldDocs, FieldInspection, Inspections
    <2>3. IsDraftedOrBare(Drafted(d, 1, system))
      BY DEF IsDraftedOrBare
    <2> QED
      BY <2>1, <2>2, <2>3, RecordPut
  <1>4. ASSUME NEW c, SaveForm(c)
        PROVE  FollowInv'
    <2>1. PICK payload \in client[c].held : \E edited \in Edited(RecordFrom(payload)) :
             records' = [records EXCEPT ![client[c].inspection] = {edited}]
      BY <1>4 DEF SaveForm
    <2>2. PICK edited \in Edited(RecordFrom(payload)) :
             records' = [records EXCEPT ![client[c].inspection] = {edited}]
      BY <2>1
    <2>3. IsDraftedOrBare(edited)
      BY EditedIsBare DEF IsDraftedOrBare
    <2>4. snapshot' = snapshot
      BY <1>4 DEF SaveForm, fieldDocs
    <2>5. CASE client[c].inspection \in Inspections
      <3> DEFINE i == client[c].inspection
      <3>1. i \in Inspections /\ records' = [records EXCEPT ![i] = {edited}]
        BY <2>2, <2>5
      <3> HIDE DEF i
      <3> QED
        BY <2>3, <2>4, <3>1, RecordPut
    <2>6. CASE client[c].inspection \notin Inspections
      <3>1. records' = records
        BY <2>2, <2>6 DEF FollowInv
      <3> QED
        BY <1>4, <3>1, <1>1 DEF SaveForm
    <2> QED
      BY <2>5, <2>6
  <1>5. ASSUME NEW i \in Inspections, SendRecord(i)
        PROVE  FollowInv'
    <2>1. PICK r \in Records : records' = [records EXCEPT ![i] = {r}]
      BY <1>5 DEF SendRecord
    <2>2. IsDraftedOrBare(r) /\ snapshot' = snapshot
      BY <1>5 DEF IsDraftedOrBare, SendRecord, fieldDocs
    <2> QED
      BY <2>1, <2>2, RecordPut
  <1>6. ASSUME NEW c, NEW i, OpenForm(c, i)
        PROVE  FollowInv'
    BY <1>1, <1>6 DEF OpenForm, caseDocs
  <1>7. ASSUME NEW id, NEW i, NEW category, NEW inspected, NEW issued, NEW named,
               IssueCertificate(id, i, category, inspected, issued, named)
        PROVE  FollowInv'
    BY <1>1, <1>7 DEF IssueCertificate
  <1>8. ASSUME NEW k, NEW i, NEW deadline, OpenCase(k, i, deadline) \/ CloseCase(k, i)
        PROVE  FollowInv'
    BY <1>1, <1>8 DEF OpenCase, CloseCase
  <1>9. ASSUME NEW k, NEW i, NEW item, NEW verified, ClaimRemedy(k, item) \/ VerifyItem(k, item, verified, i)
        PROVE  FollowInv'
    BY <1>1, <1>9 DEF ClaimRemedy, VerifyItem, Item
  <1>10. ASSUME NEW property, NEW until, SaveProperty(property) \/ SaveInspector(until)
         PROVE  FollowInv'
    BY <1>1, <1>10 DEF SaveProperty, SaveInspector
  <1>11. CASE CasesNext
    <2>1. CASE DraftProtocol \/ \E c \in load.clients : SaveForm(c) \/ \E i \in Inspections : OpenForm(c, i)
      BY <2>1, <1>3, <1>4, <1>6
    <2>2. CASE \E i \in Inspections : (load.part = "protocol" => i = FieldInspection) /\ SendRecord(i)
      BY <2>2, <1>5
    <2>3. CASE LET year == LeastOf(Dates)
               IN  IssueCertificate(1, FieldInspection, "flerbostadshus", year, year, TRUE)
      BY <2>3, <1>7
    <2>4. CASE \/ \E property \in Properties : registry.property = {} /\ SaveProperty(property)
               \/ registry.inspector = {} /\ SaveInspector(LeastOf(Dates))
      BY <2>4, <1>10
    <2>5. CASE \E category \in {"flerbostadshus", "smahus"}, inspected, issued \in Dates,
                  id \in 1..load.bound, i \in Inspections :
                  IssueCertificate(id, i, category, inspected, issued, FALSE)
      BY <2>5, <1>7
    <2>6. CASE \E k \in DOMAIN cases, i \in Inspections :
                  \/ \E deadline \in {{}, {LeastOf(Dates)}} : OpenCase(k, i, deadline)
                  \/ CloseCase(k, i)
                  \/ \E item \in UNION {case.items : case \in cases[k]} :
                        \/ ClaimRemedy(k, item)
                        \/ \E verified \in BOOLEAN : VerifyItem(k, item, verified, i)
      BY <2>6, <1>8, <1>9
    <2> QED
      BY <1>11, <2>1, <2>2, <2>3, <2>4, <2>5, <2>6, Zenon DEF CasesNext
  <1> QED
    BY <1>2, <1>11

-----------------------------------------------------------------------------
(* Certificates follow the field                                           *)

\* The protocol's draft has a row for every finding, under its class.
LEMMA DraftHasRows ==
  ASSUME NEW d, NEW system, NEW f \in d.findings
  PROVE  \E row \in Drafted(d, 1, system).findings :
            /\ row.id = <<f.type, RoomLabel(d, f), Class(f)>> /\ Number(d, f) \in row.numbers
            /\ Class(f) = 2 =>
                  /\ row.required
                  /\ \E a \in Drafted(d, 1, system).actions : a.finding = row.id /\ a.open
  <1> DEFINE r == Drafted(d, 1, system)
             of == {g \in d.findings : /\ g.type = f.type /\ RoomLabel(d, g) = RoomLabel(d, f)
                                       /\ Class(g) = Class(f)}
             w == [type |-> f.type, room |-> RoomLabel(d, f), class |-> Class(f),
                   numbers |-> {Number(d, g) : g \in of}]
             row == [id |-> <<w.type, w.room, w.class>>, numbers |-> w.numbers,
                     required |-> w.class > 0, system |-> "none"]
             a == [finding |-> <<w.type, w.room, w.class>>, open |-> TRUE]
  <1>1. w \in Rows(d)
    BY DEF Rows
  <1>2. /\ w.type = f.type /\ w.room = RoomLabel(d, f) /\ w.class = Class(f)
        /\ Number(d, f) \in w.numbers
    OBVIOUS
  <1> HIDE DEF w
  <1>3. /\ r.findings = {[id |-> <<x.type, x.room, x.class>>, numbers |-> x.numbers,
                          required |-> x.class > 0, system |-> "none"] : x \in Rows(d)}
        /\ r.actions = {[finding |-> <<x.type, x.room, x.class>>, open |-> TRUE] :
                          x \in {x \in Rows(d) : x.class = 2}}
    BY DEF Drafted
  <1> HIDE DEF r
  <1>4. row \in r.findings
    BY <1>1, <1>3
  <1>5. Class(f) = 2 => a \in r.actions
    BY <1>1, <1>2, <1>3
  <1>6. row.id = a.finding /\ a.open
    OBVIOUS
  <1>7. /\ row.id = <<f.type, RoomLabel(d, f), Class(f)>> /\ Number(d, f) \in row.numbers
        /\ row.required = (w.class > 0)
    BY <1>2
  <1>8. Class(f) = 2 => row.required
    <2>1. Class(f) = 2 => (w.class > 0) = TRUE
      BY <1>2
    <2> HIDE DEF row
    <2> QED
      BY <1>7, <2>1
  <1> HIDE DEF row, a
  <1> QED
    BY <1>4, <1>5, <1>6, <1>7, <1>8 DEF r

\* What a certificate of the inspection in field mode was issued on.
LEMMA IssuedFollows ==
  ASSUME FollowInv, NEW id, NEW i, NEW category, NEW inspected, NEW issued, NEW named,
         IssueCertificate(id, i, category, inspected, issued, named),
         NEW cert \in certificates' \ certificates, cert.inspection = FieldInspection,
         NEW d \in snapshot, NEW r \in records[FieldInspection] \ Records, NEW f \in d.findings
  PROVE  /\ Class(f) = 2 => cert.result # "godkand"
         /\ \E row \in UNION {p.findings : p \in Protocol(r)} :
               row.id = <<f.type, RoomLabel(d, f), Class(f)>> /\ Number(d, f) \in row.numbers
  <1>1. PICK x \in records[i], owner \in Owner(named), inspector \in Inspector(named) :
           /\ ProtocolReady(x)
           /\ certificates' = StoredCertificates(
                                 Certificate(id, i, x, category, FALSE, inspected, issued, owner, inspector))
    BY DEF IssueCertificate
  <1>2. cert = Certificate(id, i, x, category, FALSE, inspected, issued, owner, inspector)
    BY <1>1 DEF StoredCertificates
  <1>3. i = FieldInspection /\ (cert.result = "godkand" <=> Conclusion(x) = "approved")
    BY <1>2 DEF Certificate
  <1>4. x = r /\ IsCovered(r)
    BY <1>1, <1>3 DEF FollowInv, ProtocolReady
  <1>5. PICK system \in SystemTypes : r = Drafted(d, 1, system)
    BY <1>4 DEF FollowInv, IsDraftedOrBare
  <1>6. PICK row \in r.findings :
           /\ row.id = <<f.type, RoomLabel(d, f), Class(f)>> /\ Number(d, f) \in row.numbers
           /\ Class(f) = 2 => row.required /\ \E a \in r.actions : a.finding = row.id /\ a.open
    <2>1. \E row \in Drafted(d, 1, system).findings :
             /\ row.id = <<f.type, RoomLabel(d, f), Class(f)>> /\ Number(d, f) \in row.numbers
             /\ Class(f) = 2 =>
                   /\ row.required
                   /\ \E a \in Drafted(d, 1, system).actions : a.finding = row.id /\ a.open
      BY DraftHasRows
    <2> QED
      BY <1>5, <2>1, Zenon
  <1>7. row \in UNION {p.findings : p \in Protocol(r)}
    BY <1>1, <1>4, <1>6 DEF Protocol
  <1>8. ASSUME Class(f) = 2
        PROVE  Conclusion(r) # "approved"
    <2>1. row.required
      BY <1>6, <1>8
    <2>2. \E a \in r.actions : a.finding = row.id /\ a.open
      BY <1>6, <1>8
    <2>3. \E g \in r.findings : g.required /\ \E a \in r.actions : a.finding = g.id /\ a.open
      BY <2>1, <2>2, Zenon
    <2> QED
      BY <2>3 DEF Conclusion
  <1> QED
    BY <1>3, <1>4, <1>6, <1>7, <1>8

\* For any snapshot, records and years, and any forms left open meanwhile: a certificate of
\* the inspection made in field mode, unless it is of a record that a client sent whole, has
\* every finding of the snapshot in the protocol it was issued on, under its class and with
\* the number of its flat, and does not approve a finding of class 2.
\* (build_protokoll_utkast, bridge_inspection_inputs, save_inspection, build_intyg)
THEOREM CertificatesFollowField == CasesModeSpec => CertificateFollowsField
  <1> DEFINE Issued == \A cert \in {cert \in certificates' \ certificates : cert.inspection = FieldInspection} :
          \A d \in snapshot, r \in records[FieldInspection] \ Records :
             \A f \in d.findings :
                /\ Class(f) = 2 => cert.result # "godkand"
                /\ \E row \in UNION {p.findings : p \in Protocol(r)} :
                     row.id = <<f.type, RoomLabel(d, f), Class(f)>> /\ Number(d, f) \in row.numbers
  <1>1. RequestsInit /\ CasesInit /\ (\A d, e \in snapshot : d = e) => FollowInv
    BY DEF CasesInit, FollowInv, Inspections, FieldInspection
  <1>2. FollowInv /\ [CasesNext]_<<load, client, fieldDocs, caseDocs>> => [Issued]_<<load, caseDocs>>
    <2> SUFFICES ASSUME FollowInv, [CasesNext]_<<load, client, fieldDocs, caseDocs>>
                 PROVE  Issued \/ UNCHANGED <<load, caseDocs>>
      OBVIOUS
    <2>1. ASSUME NEW id, NEW i, NEW category, NEW inspected, NEW issued, NEW named,
                 IssueCertificate(id, i, category, inspected, issued, named)
          PROVE  Issued
      BY <2>1, IssuedFollows
    <2>2. CASE UNCHANGED certificates
      BY <2>2
    <2> HIDE DEF Issued
    <2>3. CASE CasesNext
      <3>1. CASE \/ DraftProtocol
                 \/ \E c \in load.clients : SaveForm(c) \/ \E i \in Inspections : OpenForm(c, i)
        BY <3>1, <2>2 DEF DraftProtocol, SaveForm, OpenForm, caseDocs
      <3>2. CASE \E i \in Inspections : (load.part = "protocol" => i = FieldInspection) /\ SendRecord(i)
        BY <3>2, <2>2 DEF SendRecord
      <3>3. CASE LET year == LeastOf(Dates)
                 IN  IssueCertificate(1, FieldInspection, "flerbostadshus", year, year, TRUE)
        BY <3>3, <2>1
      <3>4. CASE \/ \E property \in Properties : registry.property = {} /\ SaveProperty(property)
                 \/ registry.inspector = {} /\ SaveInspector(LeastOf(Dates))
        BY <3>4, <2>2 DEF SaveProperty, SaveInspector
      <3>5. CASE \E category \in {"flerbostadshus", "smahus"}, inspected, issued \in Dates,
                    id \in 1..load.bound, i \in Inspections :
                    IssueCertificate(id, i, category, inspected, issued, FALSE)
        BY <3>5, <2>1
      <3>6. CASE \E k \in DOMAIN cases, i \in Inspections :
                    \/ \E deadline \in {{}, {LeastOf(Dates)}} : OpenCase(k, i, deadline)
                    \/ CloseCase(k, i)
                    \/ \E item \in UNION {case.items : case \in cases[k]} :
                          \/ ClaimRemedy(k, item)
                          \/ \E verified \in BOOLEAN : VerifyItem(k, item, verified, i)
        BY <3>6, <2>2 DEF OpenCase, CloseCase, ClaimRemedy, VerifyItem, Item
      <3> QED
        BY <2>3, <3>1, <3>2, <3>3, <3>4, <3>5, <3>6, Zenon DEF CasesNext
    <2> QED
      BY <2>3
  <1> QED
    BY <1>1, <1>2, FollowStep, PTL DEF CasesModeSpec, CertificateFollowsField
=============================================================================
