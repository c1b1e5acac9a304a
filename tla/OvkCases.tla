-------------------------------- MODULE OvkCases --------------------------------
(***************************************************************************)
(* From the field snapshot to the certificate, and on to the next          *)
(* inspection.  A protocol is drafted from the snapshot as a record of an  *)
(* inspection; a form loads the record and puts it back, edited; from a    *)
(* record that is ready a certificate is issued, and of one that failed a  *)
(* case is opened that follows its findings until an inspection that       *)
(* passed closes it.  The watch list is derived from the certificates and  *)
(* the cases.  Every handler reads its body first and runs to its end in   *)
(* the event loop; a form is open for as long as its user likes.           *)
(***************************************************************************)
EXTENDS OvkField

CONSTANTS
    Dates,            \* the years things happen in
    Properties,       \* the properties a form may send
    Records           \* the records that clients send whole, not drafted from field data

ASSUME DatesAssumption == Dates \subseteq Nat /\ Dates # {}

VARIABLES
    records,       \* inspection -> {} or {record}: the workflow's repository
    cases,         \* case -> {} or {case}: its reinspections
    certificates,  \* the certificates: one for each identifier
    registry       \* [property, inspector], each {} or of one: what is registered

caseDocs == <<records, cases, certificates, registry>>

\* The inspection that is made in field mode, and another one.
FieldInspection == 1
Inspections == {1, 2}

LeastOf(S) == CHOOSE n \in S : \A m \in S : n <= m

-----------------------------------------------------------------------------
(* The protocol's draft                                                    *)

\* _classification_of: the class of a finding, or what its severity says.
Class(f) ==
    IF f.class # NoClass THEN f.class
    ELSE CASE f.severity = "major" -> 2 [] f.severity = "minor" -> 1 [] OTHER -> 0

\* The name of the finding's room, of which flats have the same ones.
RoomLabel(d, f) == IF f.room \in Ids(d.rooms) THEN "room" ELSE ""

\* The number of the finding's unit, or the unit's identifier if it is unknown.
Number(d, f) ==
    LET units == {u \in d.units : u.id = f.unit}
    IN  IF units = {} THEN 0 ELSE (CHOOSE u \in units : TRUE).number

\* Findings of one type in rooms of one name are one row, whatever their class (a fault).
RowsByPlace(d) ==
    {LET of == {g \in d.findings : g.type = f.type /\ RoomLabel(d, g) = RoomLabel(d, f)}
     IN  [type |-> f.type, room |-> RoomLabel(d, f), class |-> LeastOf({Class(g) : g \in of}),
          numbers |-> {Number(d, g) : g \in of}] : f \in d.findings}

\* build_protokoll_utkast: findings of one type, room name and class are one row.
Rows(d) ==
    {LET of == {g \in d.findings : /\ g.type = f.type /\ RoomLabel(d, g) = RoomLabel(d, f)
                                   /\ Class(g) = Class(f)}
     IN  [type |-> f.type, room |-> RoomLabel(d, f), class |-> Class(f),
          numbers |-> {Number(d, g) : g \in of}] : f \in d.findings}

\* bridge_inspection_inputs: a finding of every row, and an action of a row of class 2.
\* Every technical space counts as inspected until somebody says otherwise.
Drafted(d, building, system) ==
    [building |-> building, systems |-> {system},
     checks |-> IF d.checkpoints = {} THEN {"pass"} ELSE {k.status : k \in d.checkpoints},
     findings |-> {[id |-> <<r.type, r.room, r.class>>, numbers |-> r.numbers,
                    required |-> r.class > 0, system |-> "none"] : r \in Rows(d)},
     actions |-> {[finding |-> <<r.type, r.room, r.class>>, open |-> TRUE] :
                    r \in {r \in Rows(d) : r.class = 2}},
     review |-> {},
     coverage |-> {[units |-> {[id |-> s.id, status |-> "besiktigad"] : s \in d.spaces},
                    confirmed |-> FALSE]}]

-----------------------------------------------------------------------------
(* The record of an inspection                                             *)

\* build_inspection: what refers to a system or a finding refers to one of the record.
RecordIsValid(r) ==
    /\ \A f \in r.findings : f.system \in r.systems \cup {"none"}
    /\ \A a \in r.actions : \E f \in r.findings : f.id = a.finding
    /\ AreUnique(r.findings)

\* derive_conclusion, and pending as long as nothing was checked
Conclusion(r) ==
    IF "not_checked" \in r.checks \/ r.checks = {} THEN "pending"
    ELSE IF \/ "fail" \in r.checks
            \/ \E f \in r.findings : f.required /\ \E a \in r.actions : a.finding = f.id /\ a.open
    THEN "deficiencies"
    ELSE "approved"

\* validate_coverage_for_finalization
IsCovered(r) == \E cover \in r.coverage : cover.units # {}

\* protocol_ready
ProtocolReady(r) == Conclusion(r) # "pending" /\ "pending" \notin r.review /\ IsCovered(r)

\* is_delbesiktning, fastighetsniva
Uninspected(cover) == {u \in cover.units : u.status = "ej_besiktigad"}

Level(cover) ==
    IF ~cover.confirmed THEN "ej_bekraftad"
    ELSE IF Uninspected(cover) # {} THEN "delvis_besiktade"
    ELSE "samtliga_besiktade"

\* record_to_payload: the record with what is derived from it; the list shows that only.
RecordPayload(r) ==
    [record |-> r, conclusion |-> Conclusion(r), unresolved |-> "pending" \in r.review,
     complete |-> IsCovered(r), level |-> {Level(cover) : cover \in r.coverage},
     ready |-> ProtocolReady(r)]

Listed(i) == {[id |-> i, conclusion |-> Conclusion(r), ready |-> ProtocolReady(r)] : r \in records[i]}

\* record_from_payload: what was derived is not read, but derived again.
RecordFrom(payload) == payload.record

\* protocol_html, protocol_pdf: the protocol that is printed, if it is ready.
Protocol(r) ==
    IF ProtocolReady(r) THEN {[result |-> Conclusion(r), findings |-> r.findings, checks |-> r.checks]}
    ELSE {}

\* build(): what the form sends of the record it loaded.  Systems, checks and decisions
\* are edited as text; findings and actions, which it does not show, are sent as they were;
\* the coverage is not sent.
Edited(r) ==
    {[building |-> r.building, systems |-> systems, checks |-> checks, findings |-> r.findings,
      actions |-> r.actions, review |-> review, coverage |-> {}] :
        systems \in {r.systems, {}},
        checks \in {r.checks, (r.checks \ {"not_checked"}) \cup {"pass"}},
        review \in {r.review, (r.review \ {"pending"}) \cup {"accepted"}}}

-----------------------------------------------------------------------------
(* Certificates and cases                                                  *)

\* recurring_interval_years: no interval is 0.
Interval(category, system, school) ==
    IF category = "smahus" THEN 0
    ELSE IF school THEN 3
    ELSE IF system = "unknown" THEN 0
    ELSE IF system \in {"FT", "FTX"} THEN 3
    ELSE 6

\* _derive_next_inspection: the shortest interval of the systems, if it passed.
DueDate(result, r, category, school, inspected) ==
    LET intervals == {Interval(category, s, school) : s \in r.systems} \ {0}
    IN  IF result = "ej_godkand" \/ intervals = {} THEN {}
        ELSE {inspected + LeastOf(intervals)}

\* build_intyg
Certificate(id, i, r, category, school, inspected, issued, owner, inspector) ==
    LET result == IF Conclusion(r) = "approved" THEN "godkand" ELSE "ej_godkand"
        cover == CHOOSE cover \in r.coverage : TRUE
    IN  [id |-> id, inspection |-> i, building |-> r.building, result |-> result,
         systems |-> {[type |-> s, result |->
             IF \E f \in r.findings : f.required /\ f.system = s THEN "ej_godkand" ELSE "godkand"] :
                s \in r.systems},
         category |-> category, school |-> school, inspected |-> inspected, issued |-> issued,
         due |-> DueDate(result, r, category, school, inspected),
         partial |-> Uninspected(cover) # {}, uninspected |-> Uninspected(cover),
         level |-> Level(cover), owner |-> owner, inspector |-> inspector]

\* OvkIntyg.__post_init__
CertificateIsValid(cert) ==
    /\ cert.inspected <= cert.issued
    /\ cert.partial <=> cert.uninspected # {}
    /\ cert.partial => cert.level # "samtliga_besiktade"

\* intyg_to_payload; intyg_from_payload constructs it again, with the same demands.
StoredCertificates(cert) == {other \in certificates : other.id # cert.id} \cup {cert}

\* Fastighet.__post_init__, Byggnad.__post_init__
PropertyIsValid(property) ==
    AreUnique(property.buildings) /\ \A b \in property.buildings : b.flats >= 0

\* _resolve_byggnadsagare: of the registered property, or else as the form names it.
Owner(named) ==
    {p.owner : p \in {p \in registry.property : p.owner # "none"}}
    \cup (IF named THEN {"named"} ELSE {})

\* _resolve_kontrollant, funktionskontrollant_from
Inspector(named) ==
    IF named THEN {[name |-> "named", until |-> LeastOf(Dates)]} ELSE registry.inspector

NoCase == {}

\* open_case: the findings that require an action.
OpenedCase(i, r, deadline) ==
    [source |-> i, building |-> r.building, deadline |-> deadline, result |-> 0,
     status |-> "open",
     items |-> {[id |-> f.id, state |-> "open", verified_in |-> 0] :
                  f \in {f \in r.findings : f.required}}]

IsClosed(case) == case.result # 0
AllVerified(case) == \A item \in case.items : item.state = "verified"

CaseStatus(case) ==
    IF IsClosed(case) THEN "closed" ELSE IF AllVerified(case) THEN "ready" ELSE "open"

\* OvkReinspectionCase.__post_init__, ReinspectionItem.__post_init__
CaseIsValid(case) ==
    /\ case.items # {}
    /\ \A item \in case.items : item.state \in {"verified", "failed"} => item.verified_in # 0

\* case_to_payload: the case and its status, which case_from_payload does not read.
CasePayload(case) == [case EXCEPT !.status = CaseStatus(case)]

\* list_cases
CaseRow(k, case) ==
    [id |-> k, status |-> CaseStatus(case),
     open |-> Cardinality({item \in case.items : item.state # "verified"})]

\* _latest_intyg_per_building, in the order of the identifiers (a fault)
LatestById ==
    {cert \in certificates : \A other \in certificates :
        other.building = cert.building => other.id <= cert.id}

\* _latest_intyg_per_building
LatestPerBuilding ==
    {cert \in certificates : \A other \in certificates :
        other.building = cert.building =>
            \/ other.issued < cert.issued
            \/ other.issued = cert.issued /\ other.id <= cert.id}

\* _deadline_status, with no year in advance
DeadlineStatus(due, today) ==
    CASE due < today -> "forsenad" [] due = today -> "paminnelse" [] OTHER -> "ok"

\* _intyg_item, _case_item
CertificateItem(cert, today) ==
    [source |-> "intyg", building |-> cert.building, ref |-> cert.id, due |-> cert.due,
     status |-> IF cert.result = "ej_godkand" THEN "ombesiktning_kravs"
                ELSE IF cert.due = {} THEN "ingen_frist"
                ELSE DeadlineStatus(CHOOSE due \in cert.due : TRUE, today)]

CaseItem(k, case, today) ==
    [source |-> "ombesiktning", building |-> case.building, ref |-> k, due |-> case.deadline,
     status |-> DeadlineStatus(CHOOSE due \in case.deadline : TRUE, today)]

\* build_watchlist
WatchList(today) ==
    {CertificateItem(cert, today) : cert \in LatestPerBuilding}
    \cup UNION {{CaseItem(k, case, today) : case \in {case \in cases[k] :
                    ~IsClosed(case) /\ case.deadline # {}}} : k \in DOMAIN cases}

\* WatchList.overdue_count: late, or failed.
Overdue(items) == {item \in items : item.status \in {"forsenad", "ombesiktning_kravs"}}

\* watchlist_to_payload: what get_watchlist answers.
Watched(today) ==
    [overdue |-> Cardinality(Overdue(WatchList(today))), items |-> WatchList(today)]

-----------------------------------------------------------------------------
(* Operations                                                              *)

CasesInit ==
    /\ records = [i \in Inspections |-> {}] /\ cases = [k \in {1} |-> NoCase]
    /\ certificates = {} /\ registry = [property |-> {}, inspector |-> {}]

\* create_protokoll_utkast replaces the record that is there.
DraftProtocol ==
    /\ \E d \in snapshot, system \in SystemTypes :
          /\ RecordIsValid(Drafted(d, 1, system))
          /\ records' = [records EXCEPT ![FieldInspection] = {Drafted(d, 1, system)}]
    /\ UNCHANGED <<load, client, fieldDocs, cases, certificates, registry>>

\* get_inspection: a form is opened on a record.
OpenForm(c, i) ==
    /\ client[c] = Idle /\ Listed(i) # {}
    /\ Goes(c, [pc |-> "form", inspection |-> i, held |-> {RecordPayload(r) : r \in records[i]}])
    /\ UNCHANGED <<load, fieldDocs, caseDocs>>

\* save_inspection: the edited record replaces whatever is there by now.
SaveForm(c) ==
    /\ client[c].pc = "form"
    /\ \E payload \in client[c].held : \E edited \in Edited(RecordFrom(payload)) :
          /\ RecordIsValid(edited)
          /\ records' = [records EXCEPT ![client[c].inspection] = {edited}]
    /\ Ends(c)
    /\ UNCHANGED <<load, fieldDocs, cases, certificates, registry>>

\* save_inspection takes the record of any inspection from any client, also of the one
\* that is made in field mode.
SendRecord(i) ==
    /\ \E r \in Records : RecordIsValid(r) /\ records' = [records EXCEPT ![i] = {r}]
    /\ UNCHANGED <<load, client, fieldDocs, cases, certificates, registry>>

\* save_fastighet replaces the property, ...
SaveProperty(property) ==
    /\ PropertyIsValid(property) /\ registry' = [registry EXCEPT !.property = {property}]
    /\ UNCHANGED <<load, client, fieldDocs, records, cases, certificates>>

\* ... save_besiktningsman the inspector, of whom nobody asks how long they may inspect.
SaveInspector(until) ==
    /\ registry' = [registry EXCEPT !.inspector = {[name |-> "registered", until |-> until]}]
    /\ UNCHANGED <<load, client, fieldDocs, records, cases, certificates>>

\* create_intyg replaces the certificate of that identifier.
IssueCertificate(id, i, category, inspected, issued, named) ==
    /\ \E r \in records[i], owner \in Owner(named), inspector \in Inspector(named) :
          LET cert == Certificate(id, i, r, category, FALSE, inspected, issued, owner, inspector)
          IN  /\ ProtocolReady(r) /\ CertificateIsValid(cert)
              /\ certificates' = StoredCertificates(cert)
    /\ UNCHANGED <<load, client, fieldDocs, records, cases, registry>>

\* open_reinspection_case: a case of that identifier is replaced.
OpenCase(k, i, deadline) ==
    /\ \E r \in records[i] :
          /\ ProtocolReady(r) /\ Conclusion(r) = "deficiencies"
          /\ CaseIsValid(OpenedCase(i, r, deadline))
          /\ cases' = [cases EXCEPT ![k] = {CasePayload(OpenedCase(i, r, deadline))}]
    /\ UNCHANGED <<load, client, fieldDocs, records, certificates, registry>>

\* An item of a case that is not closed is replaced.
Item(k, item, new) ==
    /\ \E case \in cases[k] :
          /\ ~IsClosed(case) /\ item \in case.items
          /\ LET changed == [case EXCEPT !.items = Replaced(@, item, new)]
             IN  CaseIsValid(changed) /\ cases' = [cases EXCEPT ![k] = {CasePayload(changed)}]
    /\ UNCHANGED <<load, client, fieldDocs, records, certificates, registry>>

\* claim_remedy
ClaimRemedy(k, item) ==
    item.state # "verified"
    /\ Item(k, item, [item EXCEPT !.state = "remedy_claimed", !.verified_in = 0])

\* verify_item, in any inspection and whether a remedy was claimed or not
VerifyItem(k, item, verified, i) ==
    Item(k, item, [item EXCEPT !.state = IF verified THEN "verified" ELSE "failed",
                               !.verified_in = i])

\* close_case: against another inspection, which passed and in which all was verified.
MayClose(case, i, r) ==
    /\ ~IsClosed(case)
    /\ ProtocolReady(r) /\ Conclusion(r) = "approved"
    /\ i # case.source
    /\ AllVerified(case) /\ \A item \in case.items : item.verified_in = i

CloseCase(k, i) ==
    /\ \E case \in cases[k], r \in records[i] :
          /\ MayClose(case, i, r)
          /\ cases' = [cases EXCEPT ![k] = {CasePayload([case EXCEPT !.result = i])}]
    /\ UNCHANGED <<load, client, fieldDocs, records, certificates, registry>>

\* The parts: the protocol and its certificate, the certificates of several buildings, the cases.
CasesNext ==
    \/ /\ load.part # "certificates"
       /\ \/ DraftProtocol
          \/ \E c \in load.clients : SaveForm(c) \/ \E i \in Inspections : OpenForm(c, i)
    \/ /\ load.part = "protocol"
       /\ LET year == LeastOf(Dates)
          IN  IssueCertificate(1, FieldInspection, "flerbostadshus", year, year, TRUE)
    \/ \E i \in Inspections : (load.part = "protocol" => i = FieldInspection) /\ SendRecord(i)
    \/ /\ load.part = "certificates"
       /\ \/ \E property \in Properties : registry.property = {} /\ SaveProperty(property)
          \/ registry.inspector = {} /\ SaveInspector(LeastOf(Dates))
          \/ \E category \in {"flerbostadshus", "smahus"}, inspected, issued \in Dates,
                id \in 1..load.bound, i \in Inspections :
                IssueCertificate(id, i, category, inspected, issued, FALSE)
    \/ /\ load.part = "cases"
       /\ \E k \in DOMAIN cases, i \in Inspections :
             \/ \E deadline \in {{}, {LeastOf(Dates)}} : OpenCase(k, i, deadline)
             \/ CloseCase(k, i)
             \/ \E item \in UNION {case.items : case \in cases[k]} :
                   \/ ClaimRemedy(k, item)
                   \/ \E verified \in BOOLEAN : VerifyItem(k, item, verified, i)

\* Protocols, certificates and cases by themselves, whatever field mode left in the snapshot,
\* of which an inspection has one at most.
CasesModeSpec ==
    /\ RequestsInit /\ load.bound \in Nat /\ CasesInit
    /\ \A d, e \in snapshot : d = e
    /\ [][CasesNext]_<<load, client, fieldDocs, caseDocs>>

-----------------------------------------------------------------------------
(* Properties                                                              *)

\* The way from the field snapshot to a certificate loses no finding: unless a client
\* sent a record of its own, the printed protocol of a certified inspection has every
\* finding of the snapshot, under its class and with the number of its flat, however its
\* rows group them and whichever form was saved last; and it is not approved as long as
\* the snapshot has a finding of class 2.
\* (field_bridge.py, workflow.js build(), protocol.py, derive_conclusion, build_intyg)
CertificateFollowsField ==
    [][\A cert \in {cert \in certificates' \ certificates : cert.inspection = FieldInspection} :
          \A d \in snapshot, r \in records[FieldInspection] \ Records :
             \A f \in d.findings :
                /\ Class(f) = 2 => cert.result # "godkand"
                /\ \E row \in UNION {p.findings : p \in Protocol(r)} :
                     row.id = <<f.type, RoomLabel(d, f), Class(f)>> /\ Number(d, f) \in row.numbers
      ]_<<load, caseDocs>>

\* Whatever has to be inspected again is on the watch list: of every building the newest
\* certificate, counted as overdue if it failed or the interval of one of its systems has
\* passed, and every case with a deadline until it is closed against another inspection
\* in which every item was verified; the status a case is stored with is the one its
\* items give it.  (build_watchlist, _derive_next_inspection, close_case)
WatchListMissesNothing ==
    \A today \in Dates :
        /\ \A cert \in certificates : \E item \in Watched(today).items :
              /\ item.source = "intyg" /\ item.building = cert.building
              /\ \E listed \in certificates :
                    /\ listed.id = item.ref /\ listed.issued >= cert.issued
                    /\ listed.result = "ej_godkand" <=> item.status = "ombesiktning_kravs"
                    /\ \A s \in listed.systems :
                          LET years == Interval(listed.category, s.type, listed.school)
                          IN  years # 0 /\ listed.inspected + years < today
                              => item \in Overdue(Watched(today).items)
        /\ \A k \in DOMAIN cases : \A case \in cases[k] :
              /\ case.status = CaseRow(k, case).status
              /\ CaseRow(k, case).open > 0 => case.status = "open"
              /\ IF IsClosed(case)
                 THEN /\ case.result # case.source
                      /\ \A item \in case.items : item.verified_in = case.result
                 ELSE case.deadline # {} =>
                        \E item \in Watched(today).items : item.source = "ombesiktning" /\ item.ref = k

\* A case that is closed stays as it is. (docs/10_Passes/PASS_98_OVK_OMBESIKTNING.md)
ClosedStays ==
    [][\A k \in DOMAIN cases : \A case \in cases[k] : IsClosed(case) => cases'[k] = {case}]_caseDocs
=============================================================================
