---------------------------------- MODULE OvkMC ----------------------------------
(***************************************************************************)
(* The OVK module on small instances.  The initial state chooses the       *)
(* service and its clients, as in WorkbenchMC.                             *)
(***************************************************************************)
EXTENDS OvkCases, OvkTime

-----------------------------------------------------------------------------
(* Field mode                                                              *)

Facts ==
    {[id |-> 1, field |-> "inspection_date", value |-> 2019],
     [id |-> 2, field |-> "apartment_number", value |-> 1],
     [id |-> 3, field |-> "finding", value |-> 0]}

\* The protocol of an earlier inspection; another with two flats, so that its finding
\* is of neither; and one without a date, which is refused.
MCLegacyFacts ==
    {Facts, Facts \cup {[id |-> 4, field |-> "apartment_number", value |-> 2]},
     {f \in Facts : f.id # 1}}

MCDefectTypes ==
    {"missing_terminal", "terminal_not_measurable", "window_vent_missing", "equipment_nameplate"}

-----------------------------------------------------------------------------
(* Certificates and cases                                                  *)

Unit(n) == [id |-> <<"unit", n>>, number |-> n, status |-> "anmarkning", stamp |-> "checked",
            system |-> "building", key |-> {}]
Room(n) == [id |-> <<"room", n>>, unit |-> <<"unit", n>>]
FindingOf(n, room, severity, class) ==
    [id |-> <<"finding", n, room[2], severity>>, unit |-> <<"unit", n>>, room |-> room,
     type |-> "missing_terminal", severity |-> severity, class |-> class]

\* Two flats whose rooms have one name: the remarks of one class are one row.  The last
\* has no class of its own.
TwoFlats ==
    [NoFieldData EXCEPT
        !.units = {Unit(1), Unit(2)}, !.rooms = {Room(1), Room(2)}, !.spaces = {[id |-> <<"space", 1>>]},
        !.findings = {FindingOf(1, <<"room", 1>>, "minor", 1), FindingOf(2, <<"room", 2>>, "minor", 1),
                      FindingOf(1, NoId, "major", NoClass)}]

\* Two flats with remarks of one place and two classes.
TwoClasses ==
    [TwoFlats EXCEPT !.findings = {FindingOf(1, <<"room", 1>>, "minor", 1), FindingOf(2, <<"room", 2>>, "major", 2)}]

\* Two flats with nothing serious.
NothingSerious == [TwoFlats EXCEPT !.findings = {f \in @ : f.severity = "minor"}]

\* A flat with two remarks, whose technical space was not checked.
OneFlat ==
    [NoFieldData EXCEPT
        !.units = {Unit(1)}, !.spaces = {[id |-> <<"space", 1>>]},
        !.checkpoints = {[id |-> <<"cp", 1>>, space |-> <<"space", 1>>, status |-> "not_checked", note |-> FALSE]},
        !.findings = {FindingOf(1, NoId, "major", NoClass), FindingOf(1, NoId, "minor", 1)}]

Sent(building, checks, required) ==
    [building |-> building, systems |-> {"F", "FTX"}, checks |-> checks, review |-> {},
     findings |-> {[id |-> <<"sent", "", 1>>, numbers |-> {}, required |-> required, system |-> "FTX"]},
     actions |-> {}, coverage |-> {[units |-> {[id |-> <<"unit", 0>>, status |-> "besiktigad"],
                                               [id |-> <<"unit", 1>>, status |-> "ej_besiktigad"]},
                                    confirmed |-> TRUE]}]

\* Records of two buildings that pass, and one that does not.
MCRecords == {Sent(1, {"pass"}, FALSE), Sent(2, {"pass"}, TRUE), Sent(1, {"pass", "fail"}, TRUE)}

\* A property of an owner; one of an owner the form has to name; one that is refused.
MCProperties ==
    {[owner |-> "owner", buildings |-> {[id |-> 1, flats |-> 2]}],
     [owner |-> "none", buildings |-> {}],
     [owner |-> "owner", buildings |-> {[id |-> 1, flats |-> 2], [id |-> 1, flats |-> 3]}]}

MCDates == {2019, 2023, 2026}
MCHours == {-2, 1}

-----------------------------------------------------------------------------

\* Clients whose requests meet, without a failure or with one.
Together(service, part, bound, restarts) ==
    {[service |-> service, part |-> part, clients |-> Clients, restarts |-> restarts, bound |-> bound]}

\* One client that uses a part of a service.
ByOne(service, part, bound) ==
    {[service |-> service, part |-> part, clients |-> {CHOOSE c \in Clients : TRUE},
      restarts |-> FALSE, bound |-> bound]}

InitWith(loads) ==
    /\ load \in loads
    /\ RequestsInit
    /\ FieldInit(IF load.service = "field" THEN {LegacySnapshot(Facts)} ELSE {NoFieldData},
                 CASE load.service # "cases" -> {{}}
                   [] load.part = "protocol" -> {{OneFlat}, {TwoFlats}, {TwoClasses}, {NothingSerious}}
                   [] OTHER -> {{OneFlat}})
    /\ CasesInit /\ TimeInit

Init == InitWith(Together("field", "all", 2, TRUE) \cup ByOne("field", "all", 3)
                 \cup Together("field", "legacy", 1, FALSE) \cup ByOne("field", "draft", 4)
                 \cup Together("cases", "protocol", 1, FALSE) \cup ByOne("cases", "protocol", 1)
                 \cup ByOne("cases", "certificates", 2) \cup ByOne("cases", "cases", 1)
                 \cup Together("time", "all", 1, TRUE) \cup Together("time", "segments", 2, FALSE)
                 \cup {[l EXCEPT !.restarts = TRUE] : l \in ByOne("time", "quiet", 3)})

Next ==
    \/ Steps("field") /\ FieldNext /\ UNCHANGED <<caseDocs, timeDocs>>
    \/ Steps("cases") /\ CasesNext /\ UNCHANGED timeDocs
    \/ Steps("time") /\ TimeNext /\ UNCHANGED <<fieldDocs, caseDocs>>

vars == <<load, client, fieldDocs, caseDocs, timeDocs>>

Spec == Init /\ [][Next]_vars

\* One inspector, one synchronisation at a time, and a network that does not fail.
FieldSpec == InitWith(ByOne("field", "all", 2)) /\ [][Next]_vars

\* One user who opens and closes cases.
CasesSpec == InitWith(ByOne("cases", "cases", 1)) /\ [][Next]_vars
=============================================================================
