--------------------------------- MODULE OvkTime ---------------------------------
(***************************************************************************)
(* Working time of an inspection.  The timer of field mode keeps segments  *)
(* in the browser until the server has them (field-time.js); the server    *)
(* appends them to the ledger of the inspection, which it loads and saves  *)
(* in a thread for every request, and a report sums the ledgers of a       *)
(* period.  Synchronisations are the clients of this service.  A segment   *)
(* is one hour.                                                            *)
(***************************************************************************)
EXTENDS Requests, Integers, SequencesExt

CONSTANTS Hours       \* the hours of an adjustment

ASSUME HoursAssumption == Hours \subseteq Int

VARIABLES
    device,      \* [active, pending, made, day]: the browser's storage, and its clock
    ledger       \* {} or {[date, segments, adjustments]}: of one inspection

timeDocs == <<device, ledger>>

-----------------------------------------------------------------------------
(* The ledger                                                              *)

\* _load_or_create
LoadedOrCreated(date) ==
    IF ledger = {} THEN [date |-> date, segments |-> <<>>, adjustments |-> <<>>]
    ELSE CHOOSE l \in ledger : TRUE

\* append_time_segment, whether the segment is there or not (a fault)
AppendedAgain(l, segment) == [l EXCEPT !.segments = Append(@, segment)]

\* append_time_segment, append_time_adjustment: once for an identifier.
Appended(l, segment) ==
    IF \E n \in DOMAIN l.segments : l.segments[n] = segment THEN l
    ELSE [l EXCEPT !.segments = Append(@, segment)]

Adjusted(l, adjustment) ==
    IF \E n \in DOMAIN l.adjustments : l.adjustments[n].id = adjustment.id THEN l
    ELSE [l EXCEPT !.adjustments = Append(@, adjustment)]

\* calculated_hours, adjustment_hours, reported_hours
CalculatedHours(l) == SumFunction([n \in DOMAIN l.segments |-> 1])
AdjustmentHours(l) == SumFunction([n \in DOMAIN l.adjustments |-> l.adjustments[n].hours])
ReportedHours(l) ==
    LET hours == CalculatedHours(l) + AdjustmentHours(l) IN IF hours < 0 THEN 0 ELSE hours

\* build_report_rows: the ledgers of the period.
ReportRows(first, last) ==
    {[date |-> l.date, hours |-> ReportedHours(l)] : l \in {l \in ledger : l.date \in first..last}}

\* _summary, get_time: what a request about the ledger answers.
LedgerSummary(l) ==
    [segments |-> Len(l.segments), adjustments |-> Len(l.adjustments),
     calculated |-> CalculatedHours(l), reported |-> ReportedHours(l)]

\* annual_report: the rows of the period of a certification profile, and their sum.
AnnualReport(first, last) ==
    LET rows == ReportRows(first, last)
    IN  [rows |-> rows, total |-> SumFunction([row \in rows |-> row.hours])]

-----------------------------------------------------------------------------
(* The device                                                              *)

TimeInit ==
    /\ device = [active |-> FALSE, pending |-> <<>>, made |-> 0, day |-> 1] /\ ledger = {}

\* The timer is not touched during a synchronisation, if the run says so.
IsUndisturbed == load.part # "quiet" \/ \A c \in Clients : client[c] = Idle

StartTimer ==
    /\ ~device.active /\ IsUndisturbed
    /\ device' = [device EXCEPT !.active = TRUE]
    /\ UNCHANGED <<load, client, ledger>>

\* The segment gets an identifier of its own, and the date of the day it ends.
StopTimer ==
    /\ device.active /\ IsUndisturbed /\ device.made < load.bound
    /\ device' = [device EXCEPT !.active = FALSE, !.made = @ + 1,
                                !.pending = Append(@, [id |-> device.made + 1, date |-> device.day])]
    /\ UNCHANGED <<load, client, ledger>>

NextDay ==
    /\ device.day < 2 /\ device' = [device EXCEPT !.day = @ + 1]
    /\ UNCHANGED <<load, client, ledger>>

\* sync: the storage is read once ...
StartTimeSync(c) ==
    /\ client[c] = Idle /\ device.pending # <<>>
    /\ Goes(c, [pc |-> "next", left |-> device.pending, keep |-> <<>>, active |-> device.active])
    /\ UNCHANGED <<load, timeDocs>>

\* ... every segment is sent, which the server loads the ledger for ...
SendSegment(c) ==
    LET q == client[c]
    IN  /\ q.pc = "next" /\ q.left # <<>>
        /\ Goes(c, [pc |-> "held", left |-> q.left, keep |-> q.keep, active |-> q.active,
                    held |-> LoadedOrCreated(Head(q.left).date)])
        /\ UNCHANGED <<load, timeDocs>>

\* ... and saves it with the segment in it; the answer may be lost ...
SaveSegment(c) ==
    LET q == client[c]
    IN  /\ q.pc = "held" /\ q.held.date = Head(q.left).date
        /\ ledger' = {Appended(q.held, Head(q.left).id)}
        /\ \E keep \in {q.keep} \cup (IF load.restarts THEN {Append(q.keep, Head(q.left))} ELSE {}) :
              Goes(c, [pc |-> "next", left |-> Tail(q.left), keep |-> keep, active |-> q.active])
        /\ UNCHANGED <<load, device>>

\* ... or is refused, of another date than the ledger, or lost: the segment is kept ...
RefuseSegment(c) ==
    LET q == client[c]
    IN  /\ q.pc = "held" /\ (load.restarts \/ q.held.date # Head(q.left).date)
        /\ Goes(c, [pc |-> "next", left |-> Tail(q.left), keep |-> Append(q.keep, Head(q.left)),
                    active |-> q.active])
        /\ UNCHANGED <<load, timeDocs>>

\* ... and what was read is written back with the segments that were kept.
FinishTimeSync(c) ==
    LET q == client[c]
    IN  /\ q.pc = "next" /\ q.left = <<>>
        /\ device' = [device EXCEPT !.pending = q.keep, !.active = q.active]
        /\ Ends(c)
        /\ UNCHANGED <<load, ledger>>

\* append_adjustment: a reason and a name are asked for, and the hours may be negative.
SendAdjustment(c, hours) ==
    /\ client[c] = Idle /\ ledger # {} /\ load.part # "segments"
    /\ Goes(c, [pc |-> "adjust", hours |-> hours, held |-> LoadedOrCreated(device.day)])
    /\ UNCHANGED <<load, timeDocs>>

SaveAdjustment(c) ==
    LET q == client[c]
        adjustment == [id |-> Len(q.held.adjustments) + 1, hours |-> q.hours]
    IN  /\ q.pc = "adjust" /\ Len(q.held.adjustments) < load.bound
        /\ ledger' = {Adjusted(q.held, adjustment)}
        /\ Ends(c)
        /\ UNCHANGED <<load, device>>

TimeNext ==
    \/ StartTimer \/ StopTimer \/ NextDay
    \/ \E c \in load.clients :
          \/ StartTimeSync(c) \/ SendSegment(c) \/ SaveSegment(c) \/ RefuseSegment(c)
          \/ FinishTimeSync(c) \/ SaveAdjustment(c)
          \/ \E hours \in Hours : SendAdjustment(c, hours)

\* The timer and the ledger by themselves.
TimeModeSpec == RequestsInit /\ TimeInit /\ [][TimeNext]_<<load, client, timeDocs>>

-----------------------------------------------------------------------------
(* Properties                                                              *)

Kept == {device.pending[n].id : n \in DOMAIN device.pending}
        \cup UNION {{client[c].left[n].id : n \in DOMAIN client[c].left}
                    \cup {client[c].keep[n].id : n \in DOMAIN client[c].keep} :
                      c \in {c \in Clients : client[c].pc \in {"next", "held"}}}

\* Whatever was sent again, a segment is in the ledger once. (append_time_segment)
SegmentsCountOnce ==
    \A l \in ledger : LedgerSummary(l).segments = Cardinality({l.segments[n] : n \in DOMAIN l.segments})

\* As long as synchronisations neither meet nor overlap with the timer, a segment that was
\* stopped is in the ledger or still on the device. (field-time.js)
NothingIsDropped ==
    load.part = "quiet" /\ Alone =>
        \A id \in 1..device.made :
           id \in Kept \/ \E l \in ledger : \E n \in DOMAIN l.segments : l.segments[n] = id

\* However often a segment is sent, because its answer was lost or two synchronisations
\* met, it counts once in the report; and none is dropped.
\* (append_time_segment, field-time.js; docs/10_Passes/PASS_82_OVK_TIME_CAPTURE_UI.md)
LedgerCountsOnce ==
    /\ SegmentsCountOnce
    /\ \A l \in ledger :
          /\ LedgerSummary(l).calculated = LedgerSummary(l).segments
          /\ LET total == AnnualReport(1, device.day).total
             IN  total >= 0 /\ total >= CalculatedHours(l) + AdjustmentHours(l)
    /\ NothingIsDropped
=============================================================================
