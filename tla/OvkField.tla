-------------------------------- MODULE OvkField --------------------------------
(***************************************************************************)
(* The field mode of the OVK module: an inspector edits a draft in the     *)
(* browser (assets/field.js), also without a network, and synchronises it  *)
(* with the server in several requests (field-auth.js): the context, the   *)
(* snapshot, the bytes of every photo and the snapshot again.  The server  *)
(* keeps the context, the snapshot, and of a photo its bytes and a         *)
(* receipt, in documents of their own.  Synchronisations are the clients   *)
(* of this service.  The handlers run in the event loop, one at a time     *)
(* until they await; the import of an old protocol runs in a thread.       *)
(***************************************************************************)
EXTENDS Requests, FiniteSetsExt

CONSTANTS
    LegacyFacts,      \* sets of [id, field, value]: facts of old protocols that are imported
    DefectTypes,      \* defect_types.json
    SystemTypes       \* the system types of a unit

\* The types field.js writes are of defect_types.json; a protocol has finitely many facts.
ASSUME DefectTypesAssumption ==
    {"missing_terminal", "terminal_not_measurable", "window_vent_missing", "equipment_nameplate"}
        \subseteq DefectTypes
ASSUME LegacyFactsAssumption == \A facts \in LegacyFacts : IsFiniteSet(facts)

VARIABLES
    draft,         \* [data, dirty, edits, taking]: the draft in the browser; taking holds
                   \* the photo whose bytes are being read
    snapshot,      \* {} or {data}: ovk-field-sync
    context,       \* {} or {[source]}: ovk-field-context
    media          \* [bytes, receipts]: the photos whose document is there

fieldDocs == <<draft, snapshot, context, media>>

NoFieldData ==
    [units |-> {}, rooms |-> {}, findings |-> {}, photos |-> {}, measurements |-> {},
     vents |-> {}, spaces |-> {}, checkpoints |-> {}, legacy |-> FALSE]

Closed == {"ua", "anmarkning"}
Remarks == {"minor", "major"}

\* An identifier of the client says what it is of and which edit made it.
NoId == <<"none", 0>>

\* A finding without a class of its own.
NoClass == 9

-----------------------------------------------------------------------------
(* What the server accepts                                                 *)

\* KeyLog.__post_init__: what happened has its time, and a key that came back came.
KeyIsValid(key) ==
    /\ key.received => key.received_at
    /\ key.returned => key.returned_at /\ key.received
    /\ key.master => key.note

\* FieldUnit.__post_init__
UnitIsValid(u) ==
    /\ u.system \in SystemTypes \cup {"building"}
    /\ u.status \in Closed => u.stamp = "checked"
    /\ u.status = "bom" => u.stamp = "bom"
    /\ \A key \in u.key : KeyIsValid(key)

\* parse_flow_value: nothing, or a number; the field of the form is free text.
IsFlowValue(value) == value \in {"none", "number"}

\* FieldMeasurement.__post_init__
MeasurementIsValid(m) ==
    IsFlowValue(m.value) /\ (m.measurable \/ (m.reason /\ m.value = "none"))

\* OvkPhotoEvidence.__post_init__: bound to a unit or to a technical space.
PhotoIsBound(p) == p.unit # NoId \/ p.space # NoId

\* _field_data_from_payload: every record is constructed.
ConstructionIsValid(d) ==
    /\ \A u \in d.units : UnitIsValid(u)
    /\ \A f \in d.findings : f.class \in {NoClass, 0, 1, 2}
    /\ \A p \in d.photos : PhotoIsBound(p)
    /\ \A m \in d.measurements : MeasurementIsValid(m)
    /\ \A k \in d.checkpoints : k.status = "fail" => k.note

Ids(records) == {r.id : r \in records}

\* Every record of a list has an identifier of its own.
AreUnique(records) == Cardinality(Ids(records)) = Cardinality(records)

\* A reference, where it is optional.
Refers(id, records) == id = NoId \/ id \in Ids(records)

\* What validate_field_data asks of the photos, whatever they are attached to.
PhotoReferences(d, p) ==
    /\ IF p.space # NoId THEN p.space \in Ids(d.spaces)
       ELSE \E u \in d.units : u.id = p.unit /\ u.number = p.number
    /\ Refers(p.room, d.rooms) /\ Refers(p.finding, d.findings) /\ p.type \in DefectTypes

MeasurementReferences(d, m) ==
    /\ m.unit \in Ids(d.units) /\ Refers(m.room, d.rooms) /\ Refers(m.finding, d.findings)
    /\ m.measurable \/ m.finding # NoId

VentReferences(d, v) == v.unit \in Ids(d.units) /\ Refers(v.room, d.rooms)

\* The units that carry a remark.
Remarked(d) == {f.unit : f \in {f \in d.findings : f.severity \in Remarks}}
Measured(d) == {m.unit : m \in d.measurements}

\* _validate_status_consistency
StatusIsConsistent(d) ==
    \A u \in d.units :
        /\ u.status = "ua" => u.id \notin Remarked(d)
        /\ u.status = "bom" => u.id \notin Remarked(d) \cup Measured(d)

\* _validate_technical_spaces
SpacesAreConsistent(d) ==
    AreUnique(d.spaces) /\ AreUnique(d.checkpoints)
    /\ \A k \in d.checkpoints : k.space \in Ids(d.spaces)

\* validate_field_data, apart from the statuses
ReferencesAreValid(d) ==
    /\ AreUnique(d.units) /\ AreUnique(d.rooms) /\ AreUnique(d.findings)
    /\ \A r \in d.rooms : r.unit \in Ids(d.units)
    /\ \A f \in d.findings :
          f.unit \in Ids(d.units) /\ Refers(f.room, d.rooms) /\ f.type \in DefectTypes
    /\ AreUnique(d.photos) /\ \A p \in d.photos : PhotoReferences(d, p)
    /\ AreUnique(d.measurements) /\ \A m \in d.measurements : MeasurementReferences(d, m)
    /\ AreUnique(d.vents) /\ \A v \in d.vents : VentReferences(d, v)
    /\ SpacesAreConsistent(d)

\* _validated_payload: 422 otherwise.
IsAccepted(d) == ConstructionIsValid(d) /\ ReferencesAreValid(d) /\ StatusIsConsistent(d)

\* _field_data_to_payload: what is not a record of a field inspection is left out.
Normalized(d) == [d EXCEPT !.legacy = FALSE]

\* _FieldSyncRepository: one document for an inspection, replaced by the next.
Saved(d) == {Normalized(d)}

-----------------------------------------------------------------------------
(* What the server tells                                                   *)

\* load_media: of a photo with a receipt, the bytes.
Content(id) == IF id \in media.receipts /\ id \in media.bytes THEN {id} ELSE {}

\* media_content
Downloads(id) == Content(id)

\* _project_photo, _historical_photo: verified if there is a receipt of these bytes.
Shown(p) == [id |-> p.id, verified |-> p.id \in media.receipts]
Historical(p) == [id |-> p.id, historical |-> TRUE, verified |-> p.id \in media.receipts]

\* _project_snapshot: the photos are shown under their finding, the others as orphans.
WorkbenchOf(d) ==
    [findings |-> {[id |-> f.id, photos |-> {Shown(p) : p \in {p \in d.photos : p.finding = f.id}}] :
                     f \in d.findings},
     orphans |-> {Shown(p) : p \in {p \in d.photos : p.finding \notin Ids(d.findings)}},
     photos |-> Cardinality(d.photos),
     verified |-> Cardinality({p \in d.photos : Shown(p).verified})]

\* list_project: the inspections with a context and a snapshot.
History ==
    {[source |-> c.source, units |-> Cardinality(d.units), photos |-> Cardinality(d.photos)] :
        c \in context, d \in snapshot}

\* restore_projection: the findings of an old snapshot, with their photos.
HistoricalFindings(d) ==
    {[id |-> f.id, photos |-> {Historical(p) : p \in {p \in d.photos : p.finding = f.id}}] :
        f \in d.findings}

\* sync_field_payload answers how many photos of the payload are not yet there.
MediaPending(d) == Cardinality({p \in d.photos : p.sync # "synced"})

\* restore_projection: a new draft has the units and rooms of an old snapshot.
Restored(d) ==
    [NoFieldData EXCEPT
        !.units = {[u EXCEPT !.status = "ej_paborjad", !.stamp = "none", !.key = {}] : u \in d.units},
        !.rooms = {r \in d.rooms : r.unit \in Ids(d.units)}]

\* nameplate_missing_spaces
NameplateMissing(d) ==
    {s.id : s \in {s \in d.spaces : \A p \in d.photos : ~(p.space = s.id /\ p.type = "equipment_nameplate")}}

\* _validation_summary: what the payload holds, and whether every unit was visited.
Summary(d) ==
    [units |-> Cardinality(d.units), findings |-> Cardinality(d.findings),
     failures |-> Cardinality({k \in d.checkpoints : k.status = "fail"}),
     nameplates_missing |-> NameplateMissing(d),
     complete |-> d.units # {} /\ \A u \in d.units : u.status # "ej_paborjad"]

\* _build_snapshot: an imported protocol has a unit for every apartment number, and a
\* finding for every fact of that kind, bound to the unit if there is one only.
LegacySnapshot(facts) ==
    LET numbers == {f.value : f \in {f \in facts : f.field = "apartment_number"}}
        unit(n) == [id |-> <<"legacy-unit", n>>, number |-> n, status |-> "ej_paborjad",
                    stamp |-> "none", system |-> "building", key |-> {}]
    IN  [NoFieldData EXCEPT
           !.units = {unit(n) : n \in numbers},
           !.findings = {[id |-> <<"legacy-finding", f.id>>,
                          unit |-> IF Cardinality(numbers) = 1
                                   THEN <<"legacy-unit", CHOOSE n \in numbers : TRUE>> ELSE NoId,
                          room |-> NoId, type |-> "legacy_finding", severity |-> "info",
                          class |-> NoClass] : f \in {f \in facts : f.field = "finding"}},
           !.legacy = TRUE]

\* historical_commit_from_payload, commit: facts, and one date among them.
CanCommit(facts) == Cardinality({f.value : f \in {f \in facts : f.field = "inspection_date"}}) = 1

-----------------------------------------------------------------------------
(* The draft                                                               *)

FieldInit(initial, synced) ==
    /\ draft \in {[data |-> Restored(d), dirty |-> TRUE, edits |-> 0, taking |-> {}] : d \in initial}
    /\ snapshot \in synced /\ context = {} /\ media = [bytes |-> {}, receipts |-> {}]

\* The inspector edits the draft: it is saved in the browser, as not synchronised.
Edits(data) ==
    /\ draft.edits < load.bound
    /\ draft' = [draft EXCEPT !.data = data, !.dirty = TRUE, !.edits = @ + 1]
    /\ UNCHANGED <<load, client, snapshot, context, media>>

New(kind) == <<kind, draft.edits + 1>>

\* A record of the draft is replaced.
Replaced(records, old, new) == (records \ {old}) \cup {new}

\* addUnit, generateUnits: also of a number that another unit has.
AddUnit(number) ==
    Edits([draft.data EXCEPT !.units = @ \cup
             {[id |-> New("unit"), number |-> number, status |-> "ej_paborjad", stamp |-> "none",
               system |-> "building", key |-> {}]}])

\* A measurement that waits for its value.
Measurement(u, room) ==
    [id |-> New("meas"), unit |-> u.id, room |-> room, measurable |-> TRUE, value |-> "none",
     reason |-> FALSE, finding |-> NoId]

\* ensureRoom: a wet room comes with a measurement.
EnterRoom(u) ==
    Edits([draft.data EXCEPT
        !.rooms = @ \cup {[id |-> New("room"), unit |-> u.id]},
        !.measurements = @ \cup {Measurement(u, New("room"))}])

\* Another point of a room.
AddPoint(u, room) == Edits([draft.data EXCEPT !.measurements = @ \cup {Measurement(u, room)}])

\* renderMeasurements: what is typed is the value, a number or not.
EnterValue(m, value) ==
    m.measurable
    /\ Edits([draft.data EXCEPT !.measurements = Replaced(@, m, [m EXCEPT !.value = value])])

\* addFinding
Finding(u, room, type, severity) ==
    [id |-> New("finding"), unit |-> u.id, room |-> room, type |-> type, severity |-> severity,
     class |-> CASE severity = "major" -> 2 [] severity = "minor" -> 1 [] OTHER -> 0]

AddFinding(u, room, severity) ==
    Edits([draft.data EXCEPT !.findings = @ \cup {Finding(u, room, "missing_terminal", severity)}])

\* markNotMeasurable: the reason is a finding of its own, another one each time.
MarkNotMeasurable(m) ==
    LET d == draft.data
        u == CHOOSE u \in d.units : u.id = m.unit
        f == Finding(u, m.room, "terminal_not_measurable", "minor")
    IN  Edits([d EXCEPT
          !.measurements = Replaced(@, m, [m EXCEPT !.measurable = FALSE, !.value = "none",
                                                    !.reason = TRUE, !.finding = f.id]),
          !.findings = @ \cup {f}])

\* The class of the finding gives its severity.
Classify(f, class) ==
    Edits([draft.data EXCEPT !.findings =
             Replaced(@, f, [f EXCEPT !.class = class,
                               !.severity = CASE class = 2 -> "major" [] class = 1 -> "minor"
                                              [] OTHER -> "info"])])

\* A photo is taken: what it is of is read, and the handler awaits the bytes and their
\* digest.  One photo is read at a time.
Takes(photo) ==
    /\ draft.taking = {} /\ draft.edits < load.bound
    /\ draft' = [draft EXCEPT !.taking = {photo}]
    /\ UNCHANGED <<load, client, snapshot, context, media>>

\* The photo of a finding, ...
TakePhoto(f) ==
    LET u == CHOOSE u \in draft.data.units : u.id = f.unit
    IN  Takes([unit |-> u.id, number |-> u.number, space |-> NoId, room |-> f.room,
               finding |-> f.id, type |-> f.type])

\* ... or of the nameplate of a technical space.
TakeNameplate(s) ==
    Takes([unit |-> NoId, number |-> 0, space |-> s.id, room |-> NoId, finding |-> NoId,
           type |-> "equipment_nameplate"])

\* Then it is added as it was taken, also if its finding is gone by now: it comes late.
AddPhoto ==
    \E p \in draft.taking :
       /\ draft.edits < load.bound
       /\ draft' = [draft EXCEPT
             !.data.photos = @ \cup
                {[id |-> New("photo"), unit |-> p.unit, number |-> p.number, space |-> p.space,
                  room |-> p.room, finding |-> p.finding, type |-> p.type, sync |-> "local",
                  late |-> ~Refers(p.finding, draft.data.findings)]},
             !.dirty = TRUE, !.edits = @ + 1, !.taking = {}]
       /\ UNCHANGED <<load, client, snapshot, context, media>>

\* A technical space has its checklist from the beginning.
AddSpace ==
    Edits([draft.data EXCEPT !.spaces = @ \cup {[id |-> New("space")]},
             !.checkpoints = @ \cup {[id |-> New("cp"), space |-> New("space"),
                                      status |-> "pass", note |-> FALSE]}])

\* toggleCheckpoint: a remark on a point asks for a comment.
ToggleCheckpoint(k) ==
    LET failed == k.status = "fail"
    IN  Edits([draft.data EXCEPT !.checkpoints =
                 Replaced(@, k, [k EXCEPT !.status = IF failed THEN "pass" ELSE "fail",
                                          !.note = ~failed])])

\* The findings of a unit stay bound to its photos (a fault).
LeaveNoticeOnly(u) ==
    LET d == draft.data
        of(records) == {r \in records : r.unit = u.id}
    IN  Edits([d EXCEPT
          !.measurements = @ \ of(@), !.findings = @ \ of(@),
          !.units = Replaced(@, u, [u EXCEPT !.status = "bom", !.stamp = "bom"])])

\* BOM: nobody opened.  The unit's measurements and findings are removed, its photos
\* are kept and no longer bound to a finding.
LeaveNotice(u) ==
    LET d == draft.data
        of(records) == {r \in records : r.unit = u.id}
    IN  Edits([d EXCEPT
          !.measurements = @ \ of(@), !.findings = @ \ of(@),
          !.photos = {IF p.finding \in Ids(of(d.findings)) THEN [p EXCEPT !.finding = NoId] ELSE p :
                        p \in @},
          !.units = Replaced(@, u, [u EXCEPT !.status = "bom", !.stamp = "bom"])])

\* keyIn, keyOut, keyMaster: a key that was never received is not given back.
NoKey == [received |-> FALSE, received_at |-> FALSE, returned |-> FALSE, returned_at |-> FALSE,
          master |-> FALSE, note |-> FALSE]

KeyStamps(key) ==
    {[key EXCEPT !.received = ~key.received, !.received_at = ~key.received,
                 !.returned = key.returned /\ ~key.received,
                 !.returned_at = key.returned_at /\ ~key.received],
     [key EXCEPT !.master = ~key.master, !.note = ~key.master,
                 !.received = @ \/ ~key.master, !.received_at = @ \/ ~key.master]}
    \cup (IF key.received \/ key.master
          THEN {[key EXCEPT !.received = TRUE, !.received_at = TRUE,
                            !.returned = ~key.returned, !.returned_at = ~key.returned]}
          ELSE {})

StampKey(u, key) ==
    Edits([draft.data EXCEPT !.units = Replaced(@, u, [u EXCEPT !.key = {key}])])

\* setWindowVent: the answer about a room replaces the one that is there.
Vents(u, room, present) ==
    LET old == {v \in draft.data.vents : v.room = room}
    IN  (draft.data.vents \ old) \cup
        {[id |-> IF old = {} THEN New("wv") ELSE (CHOOSE v \in old : TRUE).id,
          unit |-> u.id, room |-> room, present |-> present]}

CheckVent(u, room) == Edits([draft.data EXCEPT !.vents = Vents(u, room, TRUE)])

\* A vent that is missing is a finding.
MissVent(u, room) ==
    Edits([draft.data EXCEPT !.vents = Vents(u, room, FALSE),
             !.findings = @ \cup {Finding(u, room, "window_vent_missing", "minor")}])

\* The system of a unit, if it is not the building's.
SetSystem(u, system) ==
    Edits([draft.data EXCEPT !.units = Replaced(@, u, [u EXCEPT !.system = system])])

\* footDone: the unit's remarks say its status.
CloseUnit(u) ==
    Edits([draft.data EXCEPT !.units =
             Replaced(@, u, [u EXCEPT !.stamp = "checked",
                        !.status = IF u.id \in Remarked(draft.data) THEN "anmarkning" ELSE "ua"])])

Edit ==
    LET d == draft.data
        rooms(u) == {r.id : r \in {r \in d.rooms : r.unit = u.id}}
    IN  \/ \E u \in d.units :
             \/ EnterRoom(u) \/ LeaveNotice(u) \/ CloseUnit(u)
             \/ \E room \in {NoId} \cup rooms(u) : AddFinding(u, room, "minor")
        \/ \E m \in d.measurements : MarkNotMeasurable(m) \/ EnterValue(m, "text")
        \/ \E f \in d.findings : TakePhoto(f) \/ (f.class # 0 /\ Classify(f, 0))
        \/ AddSpace \/ \E s \in d.spaces : TakeNameplate(s)
        \/ AddPhoto
        \/ /\ load.part = "draft"
           /\ \/ AddUnit(1)
              \/ \E k \in d.checkpoints : ToggleCheckpoint(k)
              \/ \E m \in d.measurements : EnterValue(m, "number")
              \/ \E u \in d.units :
                   \/ \E room \in rooms(u) : AddPoint(u, room) \/ CheckVent(u, room) \/ MissVent(u, room)
                   \/ \E key \in UNION {KeyStamps(k) : k \in IF u.key = {} THEN {NoKey} ELSE u.key} :
                         StampKey(u, key)
                   \/ \E system \in (SystemTypes \cup {"building"}) \ {u.system} : SetSystem(u, system)

-----------------------------------------------------------------------------
(* Synchronisation                                                         *)

\* No handler is between two of its writes: the event loop runs one at a time.
LoopIsFree == \A c \in Clients : client[c].pc \notin {"bytes", "receipt"}

Photo(d, id) == {p \in d.photos : p.id = id}
Synced(d, id) == [d EXCEPT !.photos = {IF p.id = id THEN [p EXCEPT !.sync = "synced"] ELSE p : p \in @}]

\* syncDraft: the context is put; a second one may start while the first is under way.
StartSync(c) ==
    /\ client[c] = Idle /\ LoopIsFree /\ load.part # "draft"
    /\ context' = {[source |-> "field"]}
    /\ Goes(c, [pc |-> "send", again |-> FALSE])
    /\ UNCHANGED <<load, draft, snapshot, media>>

\* syncSnapshot: the draft as it is now is sent ...
SendSnapshot(c) ==
    /\ client[c].pc = "send"
    /\ Goes(c, [pc |-> "put", again |-> client[c].again, held |-> draft.data])
    /\ UNCHANGED <<load, fieldDocs>>

\* ... and replaces the server's, if it is valid.
PutSnapshot(c) ==
    LET q == client[c]
    IN  /\ q.pc = "put" /\ LoopIsFree
        /\ IsAccepted(q.held)
        /\ snapshot' = Saved(q.held)
        /\ Goes(c, IF q.again THEN [pc |-> "done"] ELSE [pc |-> "accepted"])
        /\ UNCHANGED <<load, draft, context, media>>

\* syncPendingMedia: the photos of the draft that are not synchronised, one after the other.
StartMedia(c) ==
    /\ client[c].pc = "accepted"
    /\ Goes(c, [pc |-> "pending", uploaded |-> FALSE,
               left |-> {p.id : p \in {p \in draft.data.photos : p.sync # "synced"}}])
    /\ UNCHANGED <<load, fieldDocs>>

\* upload_media loads the snapshot, which has to have the photo ...
StartUpload(c) ==
    LET q == client[c]
    IN  /\ q.pc = "pending" /\ q.left # {} /\ LoopIsFree
        /\ \E id \in q.left, d \in snapshot :
              /\ Photo(d, id) # {}
              /\ Goes(c, [pc |-> "body", photo |-> id, held |-> d, left |-> q.left \ {id}])
        /\ UNCHANGED <<load, fieldDocs>>

\* The bytes are there before anything says so (a fault: the snapshot says it first).
StoreBytesAfterSaying(c) ==
    LET q == client[c]
    IN  /\ q.pc = "body" /\ LoopIsFree
        /\ snapshot' = {Synced(q.held, q.photo)}
        /\ Goes(c, [q EXCEPT !.pc = "bytes"])
        /\ media' = [media EXCEPT !.bytes = @ \cup {q.photo}]
        /\ UNCHANGED <<load, draft, context>>

\* ... awaits the bytes, which have to be those of the photo, and writes them, ...
StoreBytes(c) ==
    LET q == client[c]
    IN  /\ q.pc = "body" /\ LoopIsFree
        /\ media' = [media EXCEPT !.bytes = @ \cup {q.photo}]
        /\ Goes(c, [q EXCEPT !.pc = "bytes"])
        /\ UNCHANGED <<load, draft, snapshot, context>>

\* ... then the receipt, ...
StoreReceipt(c) ==
    LET q == client[c]
    IN  /\ q.pc = "bytes"
        /\ media' = [media EXCEPT !.receipts = @ \cup {q.photo}]
        /\ Goes(c, [q EXCEPT !.pc = "receipt"])
        /\ UNCHANGED <<load, draft, snapshot, context>>

\* ... and mark_photo_synced writes back the snapshot that was loaded before.
MarkPhotoSynced(c) ==
    LET q == client[c]
    IN  /\ q.pc = "receipt"
        /\ snapshot' = {Synced(q.held, q.photo)}
        /\ Goes(c, [pc |-> "answered", photo |-> q.photo, left |-> q.left])
        /\ UNCHANGED <<load, draft, context, media>>

\* The answer comes: the photo of the draft is marked.
MarkLocally(c) ==
    LET q == client[c]
    IN  /\ q.pc = "answered"
        /\ draft' = [draft EXCEPT !.data = Synced(@, q.photo)]
        /\ Goes(c, [pc |-> "pending", uploaded |-> TRUE, left |-> q.left])
        /\ UNCHANGED <<load, snapshot, context, media>>

\* All photos are there: the snapshot is sent again if there were any.
FinishMedia(c) ==
    LET q == client[c]
    IN  /\ q.pc = "pending" /\ q.left = {}
        /\ Goes(c, IF q.uploaded THEN [pc |-> "send", again |-> TRUE] ELSE [pc |-> "done"])
        /\ UNCHANGED <<load, fieldDocs>>

\* The draft is marked as synchronised.
FinishSync(c) ==
    /\ client[c].pc = "done"
    /\ draft' = [draft EXCEPT !.dirty = FALSE]
    /\ Ends(c)
    /\ UNCHANGED <<load, snapshot, context, media>>

\* A request is refused, or the network or the server fails: the draft stays dirty.
FailSync(c) ==
    /\ client[c].pc \in {"send", "put", "accepted", "pending", "body", "bytes", "receipt", "answered"}
    /\ \/ load.restarts
       \/ client[c].pc = "put" /\ ~IsAccepted(client[c].held)
       \/ /\ client[c].pc = "pending" /\ client[c].left # {}
          /\ \A d \in snapshot : \E id \in client[c].left : Photo(d, id) = {}
    /\ draft' = [draft EXCEPT !.dirty = TRUE]
    /\ Ends(c)
    /\ UNCHANGED <<load, snapshot, context, media>>

\* commit_legacy, under the same identifier: the snapshot, then the context, each
\* replacing the one that is there.
StartCommit(c, facts) ==
    /\ client[c] = Idle /\ load.part = "legacy" /\ CanCommit(facts)
    /\ snapshot' = {LegacySnapshot(facts)}
    /\ Goes(c, [pc |-> "commit"])
    /\ UNCHANGED <<load, draft, context, media>>

CommitContext(c) ==
    /\ client[c].pc = "commit"
    /\ context' = {[source |-> "legacy_import"]}
    /\ Ends(c)
    /\ UNCHANGED <<load, draft, snapshot, media>>

FieldNext ==
    \/ Edit
    \/ \E c \in load.clients :
          \/ StartSync(c) \/ SendSnapshot(c) \/ PutSnapshot(c) \/ StartMedia(c) \/ StartUpload(c)
          \/ StoreBytes(c) \/ StoreReceipt(c) \/ MarkPhotoSynced(c) \/ MarkLocally(c)
          \/ FinishMedia(c) \/ FinishSync(c) \/ FailSync(c)
          \/ \E facts \in LegacyFacts : StartCommit(c, facts)
          \/ CommitContext(c)

\* Field mode by itself: the inspector begins with an empty draft, or with one that is
\* restored from an imported protocol.
FieldModeSpec ==
    /\ RequestsInit
    /\ FieldInit({NoFieldData} \cup {LegacySnapshot(facts) : facts \in LegacyFacts}, {{}})
    /\ [][FieldNext]_<<load, client, fieldDocs>>

-----------------------------------------------------------------------------
(* Properties                                                              *)

\* A photo is never said to be synchronised, by the server's snapshot or by the draft,
\* unless its bytes and their receipt are stored; whatever the workbench or the history
\* shows as verified can be downloaded, and everything can when the server says that
\* nothing is pending; no photo of the snapshot is missing from the workbench: with two
\* synchronisations under way, failures between any two writes and an import that
\* replaces the snapshot. (upload_media, mark_photo_synced, _project_snapshot)
EvidenceIsStored ==
    /\ \A p \in (UNION {d.photos : d \in snapshot}) \cup draft.data.photos :
          p.sync = "synced" => p.id \in media.bytes /\ p.id \in media.receipts
    /\ \A d \in snapshot :
          LET view == WorkbenchOf(d)
              shown == view.orphans \cup UNION {f.photos : f \in view.findings}
              historical == UNION {f.photos : f \in HistoricalFindings(d)}
          IN  /\ Ids(shown) = Ids(d.photos)
              /\ \A p \in shown \cup historical : p.verified => Downloads(p.id) # {}
              /\ MediaPending(d) = 0 => view.verified = view.photos
              /\ Summary(d).complete => \A u \in d.units : u.stamp # "none"

\* The draft without the two faults an inspector can leave in it: a value that is no
\* number, and the photo of a finding that was removed while the photo was taken.
WithoutFaults(d) ==
    [d EXCEPT
        !.measurements = {IF IsFlowValue(m.value) THEN m ELSE [m EXCEPT !.value = "none"] : m \in @},
        !.photos = {IF p.late THEN [p EXCEPT !.finding = NoId] ELSE p : p \in @}]

\* Whatever the inspector does, the server refuses the draft for no other reason than
\* these two faults and a unit that was remarked, or measured, after it was closed: with
\* edits, and visits that leave a notice, while the bytes of a photo are awaited.
\* (field.js, validate_field_data)
DraftIsAcceptable ==
    LET d == WithoutFaults(draft.data)
    IN  ConstructionIsValid(d) /\ ReferencesAreValid(d)

\* When no synchronisation is under way, a draft that is marked as synchronised is what
\* the server has. (docs/10_Passes/PASS_77_OVK_MEDIA_TRANSPORT.md)
SidesConverge ==
    (\A c \in Clients : client[c] = Idle) /\ ~draft.dirty => snapshot = {draft.data}
=============================================================================
