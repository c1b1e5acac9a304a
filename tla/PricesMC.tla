---------------------------------- MODULE PricesMC ----------------------------------
(***************************************************************************)
(* The way from the documents to a price: small estimates with the         *)
(* profiles that group them and their revisions, what is asked of the      *)
(* whole way, and what every answer keeps.                                 *)
(***************************************************************************)
EXTENDS EstimateStructure, QuotesMC

EstimateLine(id, costType, words, amount) ==
    [id |-> id, costType |-> costType, words |-> words, amount |-> amount]

\* The last two are line 2 at another price, and a second line of the name of line 1.
MCEstimateLines ==
    <<EstimateLine(3, "labour", {"duct"}, 700), EstimateLine(1, "material", {"damper"}, -200),
      EstimateLine(2, "material", {"duct"}, 500), EstimateLine(2, "material", {"duct"}, 900),
      EstimateLine(1, "none", {}, 100)>>

Rule(id, priority, costTypes, words, section, group) ==
    [id |-> id, priority |-> priority, costTypes |-> costTypes, words |-> words,
     place |-> [section |-> section, group |-> group]]

\* Rules that overlap, that place lines beside each other and that take everything.
MCRules ==
    <<Rule(2, 10, {"labour", "material"}, {}, 20, 10), Rule(1, 10, {}, {"duct"}, 10, 20),
      Rule(3, 5, {"material"}, {"damper"}, 20, 20), Rule(4, 100, {}, {}, 10, 10)>>

Profile(rules) == [rules |-> {MCRules[i] : i \in rules}, fallback |-> [section |-> 99, group |-> 99]]

Estimates ==
    {[about |-> "estimate", previous |-> a, current |-> b, rules |-> r, ours |-> o] :
        a \in FewOf(MCEstimateLines, 2), b \in FewOf(MCEstimateLines, 2) \cup {1 .. 3},
        r \in {{}, {1, 2}, {2, 3, 4}}, o \in BOOLEAN}

EstimateOfLines(which, project) ==
    [project |-> project, baseline |-> 1, currency |-> "SEK", lines |-> Picked(MCEstimateLines, which)]
StructuredBefore(q) == StructureEstimate(EstimateOfLines(q.previous, 1), Profile(q.rules))
StructuredAfter(q) == StructureEstimate(EstimateOfLines(q.current, IF q.ours THEN 1 ELSE 2), Profile({1, 2}))

\* Positions count sections, groups and lines from one without a gap, and lines are side
\* by side when a rule placed them together.  What a revision tells, done to the estimate
\* before, is the estimate after: no line is changed unsaid, and none that could be
\* compared is refused. (structure_estimate, compare_estimates)
PlacesAreWhole(lines, profile, structured) ==
    LET place(i) == Select(lines[i], profile)
        position(i) == structured.rows[i].position
        same(i, j, k) == \A m \in 1 .. k : position(i)[m] = position(j)[m]
    IN  /\ DOMAIN structured.rows = DOMAIN lines
        /\ \A i, j \in DOMAIN lines : /\ same(i, j, 2) <=> place(i) = place(j)
                                      /\ same(i, j, 3) <=> i = j
        /\ \A i \in DOMAIN lines, k \in 1 .. 3 :
              position(i)[k] > 1 => \E j \in DOMAIN lines : same(i, j, k - 1) /\ position(j)[k] = position(i)[k] - 1

RevisionSaysAll(old, new, comparable) ==
    LET revision(all) == CompareEstimates(old, new, all)
        rows(s) == Range(s.rows)
    IN  IF comparable /\ IdsAreUnique(old) /\ IdsAreUnique(new)
        THEN \A all \in BOOLEAN : \E r \in revision(all) :
                /\ rows(new) = (rows(old) \ UNION {c.old : c \in r.changes}) \cup UNION {c.new : c \in r.changes}
                /\ {c.id : c \in {d \in r.changes : d.type = "unchanged"}}
                     = IF all THEN {l.id : l \in rows(old) \cap rows(new)} ELSE {}
        ELSE revision(TRUE) = {}

EstimateIsWhole(q) ==
    /\ PlacesAreWhole(Picked(MCEstimateLines, q.previous), Profile(q.rules), StructuredBefore(q))
    /\ RevisionSaysAll(StructuredBefore(q), StructuredAfter(q), q.ours)

\* The sections of a structured estimate add up to its lines, and the deltas of a
\* revision to the difference of the totals. (structure_estimate, compare_estimates)
RevisionAddsUp(lines, old, new) ==
    /\ old.total = SumFunction([i \in DOMAIN lines |-> lines[i].amount])
    /\ old.total = SumFunction(old.sections)
    /\ \A r \in CompareEstimates(old, new, TRUE) :
          r.currentTotal = r.previousTotal + SumFunction([c \in r.changes |-> c.delta])

EstimateAddsUp(q) ==
    RevisionAddsUp(Picked(MCEstimateLines, q.previous), StructuredBefore(q), StructuredAfter(q))

-----------------------------------------------------------------------------

VARIABLE query    \* what is asked, as a set of at most one

PricesInit == query = {}

AskPrice ==
    /\ query = {}
    /\ \/ query' \in {{q} : q \in Takeoffs}
       \/ query' \in {{q} : q \in Offerings}
       \/ query' \in {{q} : q \in Tests}
       \/ query' \in {{q} : q \in OvkQuotes}
       \/ query' \in {{q} : q \in Estimates}

PricesSpec == PricesInit /\ [][AskPrice]_query

-----------------------------------------------------------------------------

\* On the way from the documents to a price nothing is left out unsaid: it is a line, it
\* was skipped, or it is a question, a reservation or a caveat of what comes out.
\* (takeoff_from_table, consolidate_takeoffs, price_consolidated_takeoff,
\* build_riser_model, price_pressure_test_offer, evaluate_pressure_test)
NothingIsLost ==
    \A q \in query : CASE q.about = "takeoff" -> TakeoffIsWhole(q)
                       [] q.about = "offer" -> OfferIsWhole(q)
                       [] q.about = "test" -> ProtocolIsFounded(q)
                       [] q.about = "estimate" -> EstimateIsWhole(q)
                       [] OTHER -> TRUE

\* The rounded amounts of the lines add up to the total of a takeoff, a quote or an offer
\* within what rounding moves, and a total is judged by the range it was compared with.
\* (price_consolidated_takeoff, build_vent_quote, compare_detailed_total,
\* price_pressure_test_offer, build_quote)
PricesAddUp ==
    \A q \in query : CASE q.about = "takeoff" -> QuotesAddUp(q)
                       [] q.about = "offer" -> OfferAddsUp(q)
                       [] q.about = "ovk" -> OvkQuoteAddsUp(q)
                       [] q.about = "estimate" -> EstimateAddsUp(q)
                       [] OTHER -> TRUE
=============================================================================
