---------------------------------- MODULE QuotesMC ----------------------------------
(***************************************************************************)
(* Takeoffs, quotes, offers and pressure tests of small documents.         *)
(***************************************************************************)
EXTENDS Offers

-----------------------------------------------------------------------------
(* Takeoffs                                                                *)

CandidateOf(system, value, dim, score) ==
    [system |-> system, value |-> value, dim |-> dim, score |-> score, conflict |-> FALSE]

MCDrawing ==
    <<CandidateOf(1, "TD", "160", 7000), CandidateOf(1, "TD", "160", 6000), CandidateOf(2, "FD", "none", 8000),
      CandidateOf(2, "AG", "none", 9500), CandidateOf(1, "X", "none", 8000), CandidateOf(2, "Y", "none", 9000),
      [CandidateOf(1, "BS", "none", 9000) EXCEPT !.conflict = TRUE]>>

Cell(is, what) == [is |-> is, what |-> what]
Recognised(is, code, dim, confidence) == Cell(is, [code |-> code, dim |-> dim, confidence |-> confidence])
Figure(n) == Cell("number", n)
UnitCell(u) == Cell("unit", u)

\* A duct twice, within the tolerance and not; a component by number and by length; a
\* row without a number, one without a word that is known, and one that is empty.
MCTable ==
    <<<<Recognised("duct", "T", "160", 95), Figure(1004), UnitCell("m")>>,
      <<Recognised("duct", "T", "160", 90), UnitCell("m"), Figure(1050)>>,
      <<Recognised("component", "TD", "160", 80), Figure(20)>>,
      <<Recognised("component", "FD", "none", 80), Figure(13), UnitCell("m")>>,
      <<Recognised("component", "FD", "none", 80), Cell("word", {})>>,
      <<Cell("word", {}), Figure(5)>>,
      <<Cell("empty", {})>>>>

Mention(count, codes) ==
    [count |-> count, what |-> {[code |-> c, confidence |-> 85] : c \in codes}, duct |-> FALSE]
DuctMention == [Mention(0, {}) EXCEPT !.duct = TRUE]

MCText == <<Mention(1, {"FD"}), Mention(2, {}), DuctMention, Mention(2, {"X"})>>

PriceOf(kind, code, dim, unit, price, hours) ==
    [kind |-> kind, code |-> code, dim |-> dim, unit |-> unit, price |-> price, hours |-> hours]

MCBook ==
    [rate |-> 1277,
     entries |-> <<PriceOf("duct", "T", "*", "m", 1233, 151), PriceOf("component", "TD", "160", "st", 999, 0),
                   PriceOf("component", "TD", "160", "st", 1055, 333), PriceOf("component", "TD", "*", "st", 1, 1),
                   PriceOf("component", "FD", "none", "st", 755, 77)>>]

\* Of rows or candidates a few, and all of them.
FewOf(list, n) == {k \in SUBSET (DOMAIN list) : Cardinality(k) \in (0 .. n) \cup {Len(list)}}
Picked(list, which) == [i \in 1 .. Cardinality(which) |->
                           list[CHOOSE k \in which : Cardinality({j \in which : j <= k}) = i]]

Takeoffs ==
    {[about |-> "takeoff", drawing |-> d, table |-> t, text |-> x] :
        d \in FewOf(MCDrawing, 1), t \in FewOf(MCTable, 2), x \in FewOf(MCText, 1)}

TakeoffBody(q) ==
    LET drawing == Picked(MCDrawing, q.drawing)
    IN  [drawings |-> IF drawing = <<>> THEN <<>> ELSE <<drawing>>, table |-> Picked(MCTable, q.table),
         text |-> {Picked(MCText, x) : x \in {q.text} \ {{}}}, tolerance |-> 0, book |-> {MCBook}]

\* What every source says is a line of the takeoff or was skipped, and the same of every
\* line when it is consolidated and priced; what was not settled is asked of the client.
\* (build_quantity_takeoff, takeoff_from_*, consolidate_takeoffs, price_consolidated_takeoff)
ConsolidatedIsWhole(takeoffs, c) ==
    LET all == UNION {{<<i, j>> : j \in DOMAIN takeoffs[i].lines} : i \in DOMAIN takeoffs}
    IN  /\ \A p \in all : Cardinality({l \in c.lines : p \in l.sources}) = 1
        /\ \A l \in c.lines : l.selected \subseteq {takeoffs[p[1]].lines[p[2]].quantity : p \in l.sources}

PricedIsWhole(c, p) ==
    /\ {l.key : l \in c.lines} = {l.key : l \in p.lines} \cup {u.key : u \in p.unpriced} \cup p.reservations
    /\ Cardinality(c.lines) = Cardinality(p.lines) + Cardinality(p.unpriced) + Cardinality(p.reservations)
    /\ p.questions = p.reservations
    /\ \A r \in BuildVentQuote(p, [overhead |-> 0, risk |-> 0, profit |-> 0, days |-> 1]) :
          r.ready <=> {l.key : l \in p.lines} = {l.key : l \in c.lines}

TakeoffsAreWhole(body) ==
    LET rows == [i \in DOMAIN body.drawings |-> BuildVentModel(body.drawings[i]).takeoff]
        said == {i \in DOMAIN body.table : \E c \in DOMAIN body.table[i] : body.table[i][c].is # "empty"}
        read(t) == Cardinality(DOMAIN t.lines) + Cardinality(DOMAIN t.skipped)
    IN  /\ \A i \in DOMAIN rows :
              SumFunction([j \in DOMAIN rows[i] |-> Max(rows[i][j].quantity)]) = Len(body.drawings[i])
        /\ \A t \in VentTakeoff(body) :
              /\ SumFunction([i \in DOMAIN t.takeoffs |-> read(t.takeoffs[i])])
                   = SumFunction([i \in DOMAIN rows |-> Cardinality(DOMAIN rows[i])]) + Cardinality(said)
                       + SumFunction([x \in body.text |-> Len(x)])
              /\ ConsolidatedIsWhole(t.takeoffs, t.consolidated)
              /\ \A p \in t.priced : PricedIsWhole(t.consolidated, p)

TakeoffIsWhole(q) == TakeoffsAreWhole(TakeoffBody(q))

MCRequests ==
    {[overhead |-> o, risk |-> r, profit |-> p, days |-> 30] : o \in {0, 7}, r \in {3, 5}, p \in {0, 9}}
\* The second is refused: its normal price is below its lowest.
MCRanges ==
    {r \in {[low |-> 301, normal |-> n, high |-> 457] : n \in {335, 299}} : RangeIsValid(r)}

\* Twice a is near twice b: they are no further apart than n roundings can move them.
Near(a, b, n) == Max({a - b, b - a}) * 2 <= n

\* The lines add up to the total, each rounded, the shares of a quote to what the
\* percentages are together, and a total is judged by the range it is compared with.
\* (price_consolidated_takeoff, build_vent_quote, compare_detailed_total)
LinesAddUp(p) == Near(SumFunction([l \in p.lines |-> l.total]), p.grand, Cardinality(p.lines) + 1)

SharesAddUp(p, r) ==
    \A quote \in BuildVentQuote(p, r) :
        Near(100 * quote.total, quote.base * (100 + r.overhead + r.risk + r.profit), 300)

JudgedByRange(range, n, p) ==
    \A c \in CompareTakeoffPricing(range, n, p) :
        /\ Near(10 * c.expected.normal, n * range.normal, 10)
        /\ c.verdict = "within_range" <=> c.total \in c.expected.low .. c.expected.high
        /\ c.total < c.expected.low => c.deviation <= 0
        /\ c.total > c.expected.high => c.deviation >= 0
        /\ Near(c.deviation * c.expected.normal, 1000 * (p.grand - c.expected.normal), c.expected.normal)
        /\ c.caveats = {} <=>
              \A s \in BuildVentQuote(p, [overhead |-> 0, risk |-> 0, profit |-> 0, days |-> 1]) : s.ready

QuotesAddUp(q) ==
    \A t \in VentTakeoff(TakeoffBody(q)) : \A p \in t.priced :
        /\ LinesAddUp(p)
        /\ \A r \in MCRequests : SharesAddUp(p, r)
        /\ \A range \in MCRanges, n \in {10, 25, 105} : JudgedByRange(range, n, p)

-----------------------------------------------------------------------------
(* Offers                                                                  *)

Flat(id, stairwell, plan) == [id |-> id, stairwell |-> stairwell, plan |-> plan]

\* Two stairwells; a flat that comes twice, one on the top and one of an unknown plan.
MCFlats ==
    <<Flat(1, "A", 1), Flat(2, "A", 2), Flat(3, "B", 1), Flat(1, "B", 2), Flat(4, "B", 3), Flat(5, "A", 9)>>
MCLevels == <<0, 29, 61>>
MCConfig == [top |-> 3, allowance |-> 5, dims |-> [supply |-> "160", extract |-> "125"],
             media |-> [supply |-> "T", extract |-> "F"]]
MCServiceBook == <<[code |-> "string", price |-> 67550], [code |-> "hour", price |-> 92511], [code |-> "string", price |-> 1]>>

Extra(code, quantity) == [code |-> code, quantity |-> quantity, stairwell |-> {}]
Extras == {<<>>, <<Extra("hour", 15)>>, <<Extra("hour", 3), Extra("box", 10)>>}

Offerings ==
    {[about |-> "offer", flats |-> f, percent |-> p, extra |-> e, visits |-> v, risk |-> r] :
        f \in FewOf(MCFlats, 2), p \in {1, 50, 100}, e \in Extras, v \in {0, 2}, r \in {0, 50}}

RiserOf(q) == BuildRiserModel(Picked(MCFlats, q.flats), MCLevels, MCConfig)

\* Every flat has its strings or was skipped, the ducts are as long as the strings, and
\* what was asked for is a line of the offer or a reservation. (build_riser_model,
\* to_source_takeoff, pressure_test_service_quantities, price_pressure_test_offer)
RisersAreWhole(flats, model, config) ==
    LET ids == {flats[i].id : i \in DOMAIN flats}
        lines == RiserTakeoff(model).lines
    IN  /\ \A id \in ids : LET of == {s \in model.strings : s.apartment = id}
                           IN  /\ {s.kind : s \in of} = IF id \in model.skipped THEN {} ELSE DOMAIN config.dims
                               /\ \A s, t \in of : s.kind = t.kind => s = t
        /\ model.skipped \subseteq ids
        /\ SumFunction([i \in DOMAIN lines |-> lines[i].quantity]) = TotalLength(model.strings)

ServiceIsWhole(model, percent, s) ==
    /\ SumFunction([w \in DOMAIN s |-> s[w].strings]) = Cardinality(model.strings)
    /\ \A w \in DOMAIN s : s[w].test <= s[w].strings /\ 100 * s[w].test >= percent * s[w].strings

OffersAreWhole(s, extra, visits, offers) ==
    \A o \in offers :
        /\ {l.item : l \in Range(o.lines)} \cup Range(o.reservations) = Range(OfferItems(s, extra, visits))
        /\ Cardinality(DOMAIN o.lines) + Cardinality(DOMAIN o.reservations)
             = Cardinality(DOMAIN s) + Len(extra) + IF visits = 0 THEN 0 ELSE 1

OfferOf(q, s) == PricePressureTestOffer(s, MCServiceBook, q.extra, q.visits, q.risk)

OfferIsWhole(q) ==
    /\ RisersAreWhole(Picked(MCFlats, q.flats), RiserOf(q), MCConfig)
    /\ \A s \in ServiceQuantities(RiserOf(q), q.percent) :
          /\ ServiceIsWhole(RiserOf(q), q.percent, s)
          /\ OffersAreWhole(s, q.extra, q.visits, OfferOf(q, s))

\* The fixed price is the thousands nearest to the total with its risk, and the total is
\* what the items cost. (price_pressure_test_offer)
OffersAddUp(book, risk, offers) ==
    LET cost(i) == Max(ServicePrice(book, i.code)) * i.quantity
    IN  \A o \in offers :
            /\ Near(10 * o.total, SumFunction([i \in DOMAIN o.lines |-> cost(o.lines[i].item)]),
                    10 * Cardinality(DOMAIN o.lines))
            /\ o.fixed % 100000 = 0
            /\ Near(o.fixed, (o.total * (1000 + risk)) \div 1000, 100002)

OfferAddsUp(q) ==
    \A s \in ServiceQuantities(RiserOf(q), q.percent) : OffersAddUp(MCServiceBook, q.risk, OfferOf(q, s))

-----------------------------------------------------------------------------
(* Pressure tests                                                          *)

String(round, length) == [round |-> round, length |-> length]
MCStrings == <<String({125}, 30), String({}, 30), String({160}, 0)>>

Tests ==
    {[about |-> "test", strings |-> k, class |-> c, measured |-> m, origin |-> [class |-> o, pressure |-> p],
      confirmed |-> f, prePour |-> b] :
        k \in SUBSET (DOMAIN MCStrings), c \in {"A", "D"}, m \in {{}, {0}, {3750}, {3751}, {-1}},
        o \in Origins, p \in Origins, f \in {{}, {"class"}, {"class", "pressure", "pre_pour"}}, b \in BOOLEAN}

TestInput(q) ==
    LET found == VentCandidates(Picked(MCStrings, q.strings)).candidates
    IN  [class |-> q.class, power |-> 1, measured |-> q.measured, origin |-> q.origin, confirmed |-> q.confirmed,
         prePour |-> q.prePour,
         area |-> SumFunction([i \in DOMAIN found |-> Max({c.area : c \in Candidate(found[i])})])]

\* A protocol says what was measured, and nothing that was inferred and not confirmed; a
\* string is a candidate or was skipped; a stricter class passes in every laxer one.
\* (evaluate_pressure_test, protocol_xlsx, vent_candidates)
CandidatesAreWhole(strings) ==
    LET found == VentCandidates(strings)
    IN  /\ Cardinality(DOMAIN found.candidates) + Cardinality(DOMAIN found.skipped) = Len(strings)
        /\ Range(found.candidates) \cup Range(found.skipped) = Range(strings)

InputIsFounded(input) ==
    LET inferred == {f \in DOMAIN input.origin : input.origin[f] = "inferred"}
                      \cup IF input.prePour THEN {"pre_pour"} ELSE {}
        passes(class) == \E r \in EvaluatePressureTest([input EXCEPT !.class = class]) : r.status = "pass"
    IN  /\ ProtocolAnswer(input) = 200
             <=> input.measured # {} /\ (\A m \in input.measured : m >= 0) /\ input.area > 0
                   /\ inferred \subseteq input.confirmed
        /\ \A i, j \in DOMAIN Strictness : i <= j /\ passes(Strictness[j]) => passes(Strictness[i])

ConflictsAreStrict(asked) ==
    \A c \in FindConflicts(asked) :
        {k \in c.classes : \A i, j \in DOMAIN Strictness :
            Strictness[i] = k /\ Strictness[j] \in c.classes => i >= j} = {c.strictest}

ProtocolIsFounded(q) ==
    /\ CandidatesAreWhole(Picked(MCStrings, q.strings))
    /\ InputIsFounded(TestInput(q))
    /\ ConflictsAreStrict({[family |-> 1, class |-> k] : k \in {q.class, "C"}})

-----------------------------------------------------------------------------
(* Quotes of an OVK                                                        *)

Part(category, apartments, area, system, school) ==
    [category |-> category, apartments |-> apartments, rooms |-> {}, area |-> area, units |-> 1,
     system |-> system, school |-> school]

MCParts ==
    <<Part("flerbostad", {7}, {}, {"F"}, FALSE), Part("flerbostad", {}, {}, {"FTX"}, FALSE),
      Part("lokal", {}, {1234}, {"FTX"}, FALSE), Part("lokal", {}, {1255}, {"F"}, TRUE),
      Part("smahus", {}, {}, {"F"}, FALSE), Part("other", {3}, {}, {}, FALSE)>>

RateOf(inspection, system, price) == [inspection |-> inspection, system |-> system, price |-> price]
MCCategories ==
    [flerbostad |-> [basis |-> "per_apartment",
                     rates |-> {RateOf("recurring", "any", 39550), RateOf("first", "any", 50000)}],
     lokal |-> [basis |-> "per_area",
                rates |-> {RateOf(i, "FTX", 1233) : i \in {"recurring", "first"}} \cup {RateOf("recurring", "F", 955)}],
     smahus |-> [basis |-> "per_unit", rates |-> {RateOf(i, "any", 250000) : i \in {"recurring", "first"}}]]

OvkQuotes ==
    {[about |-> "ovk", parts |-> Picked(MCParts, p), inspection |-> i, base |-> b] :
        p \in {k \in SUBSET (DOMAIN MCParts) : Cardinality(k) <= 3}, i \in {"recurring", "first"}, b \in {-1, 0, 150000}}

\* A quote is of every part or there is none; it costs its parts, but never less than the
\* least, and the inspection comes again as soon as that of any part. (build_quote)
PartsAddUp(parts, inspection, taxa) ==
    \A r \in BuildQuote(parts, inspection, taxa) :
        LET cost == SumFunction([i \in DOMAIN r.lines |-> r.lines[i].quantity * r.lines[i].price])
        IN  /\ [i \in DOMAIN r.lines |-> r.lines[i].part] = parts
            /\ \/ Near(10 * (r.total - taxa.base), cost, 10 * Len(r.lines))
               \/ r.minimumApplied /\ r.total = taxa.minimum
            /\ r.total >= taxa.minimum
            /\ r.minimumApplied <=> r.total > taxa.base + r.subtotal
            /\ \A i \in DOMAIN parts : \A y \in RecurringInterval(parts[i]) : \E z \in r.interval : z <= y
            /\ \E s \in BuildQuote(parts, inspection, [taxa EXCEPT !.minimum = 0]) : s.total <= r.total

OvkQuoteAddsUp(q) ==
    \A least \in {0, 350000} :
        PartsAddUp(q.parts, q.inspection, [base |-> q.base, minimum |-> least, categories |-> MCCategories])
=============================================================================
