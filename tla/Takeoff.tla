--------------------------------- MODULE Takeoff ---------------------------------
(***************************************************************************)
(* The ventilation module from labels to a quote: components are           *)
(* classified and counted, the quantities of the sources are consolidated, *)
(* priced and quoted.                                                      *)
(*                                                                         *)
(* A quantity is a number of tenths, an amount a number of öre, hours are  *)
(* thousandths, confidences hundredths (of a component ten thousandths) and *)
(* what may be missing is a set of at most one.  A line of a source is     *)
(* [kind, code, dim, quantity, unit, confidence].                          *)
(***************************************************************************)
EXTENDS Rounding, FiniteSets, FiniteSetsExt, SequencesExt

-----------------------------------------------------------------------------
(* Components                                                              *)

Component(category, role) == [category |-> category, role |-> role]

\* What the beginning of a label stands for.
Registry ==
    [TD |-> Component("terminal", {"supply"}), FD |-> Component("terminal", {"extract"}),
     BS |-> Component("damper", {}), AG |-> Component("unit", {})]

\* A candidate is [system, value, dim, score, conflict]; a label the registry does not
\* know keeps little of its score.
ClassifyCandidates(candidates) ==
    LET classified(c) ==
            LET known == c.value \in DOMAIN Registry
                confidence == IF known THEN Min({9900, c.score + 800}) ELSE Rounded(35 * c.score, 100)
            IN  [system |-> c.system, value |-> c.value, dim |-> c.dim, confidence |-> confidence,
                 component |-> IF known THEN {Registry[c.value]} ELSE {},
                 status |-> IF known /\ confidence >= 7500 /\ ~ c.conflict THEN "classified"
                            ELSE "needs_review"]
    IN  [i \in DOMAIN candidates |-> classified(candidates[i])]

OfCategory(items, categories) ==
    {i \in DOMAIN items : \E c \in items[i].component : c.category \in categories}
Sources(items) == OfCategory(items, {"unit", "fan"})
Terminals(items) == OfCategory(items, {"terminal"})
Inline(items) == OfCategory(items, {"damper", "silencer", "filter", "coil"})

RolesOf(items, i) == UNION {c.role : c \in items[i].component}
Roles(items) == UNION {RolesOf(items, i) : i \in DOMAIN items}

\* The role most components have, of several the one that is met first.
SystemKind(items) ==
    LET having(r) == {i \in DOMAIN items : r \in RolesOf(items, i)}
    IN  {r \in Roles(items) : \A s \in Roles(items) \ {r} :
            \/ Cardinality(having(r)) > Cardinality(having(s))
            \/ Cardinality(having(r)) = Cardinality(having(s)) /\ Min(having(r)) < Min(having(s))}

\* The first source serves every terminal; what sits in a duct belongs to the system.
BuildRelations(items) ==
    {<<"serves", s, t>> : s \in {i \in Sources(items) : i = Min(Sources(items))}, t \in Terminals(items)}
        \cup {<<"inline_component", i>> : i \in Inline(items)}

\* A finding is its code and the components it is about.
SystemFindings(items) ==
    LET unresolved == {i \in DOMAIN items : items[i].status # "classified"}
        finding(code, about, applies) == IF applies THEN {[code |-> code, about |-> about]} ELSE {}
    IN  finding("unresolved_component", unresolved, unresolved # {})
          \cup finding("mixed_airflow_roles", {i \in DOMAIN items : RolesOf(items, i) # {}},
                       /\ Cardinality(Roles(items)) > 1
                       /\ ~ Roles(items) \subseteq {"outdoor", "supply"}
                       /\ ~ Roles(items) \subseteq {"extract", "exhaust"})
          \cup finding("no_source_component", Terminals(items), Terminals(items) # {} /\ Sources(items) = {})
          \cup finding("isolated_inline", OfCategory(items, {"damper"}),
                       OfCategory(items, {"damper"}) # {} /\ Terminals(items) \cup Sources(items) = {})

AnalyseSystem(items) ==
    [kind |-> SystemKind(items), findings |-> SystemFindings(items), relations |-> BuildRelations(items),
     status |-> IF \E f \in SystemFindings(items) : f.code # "no_source_component"
                THEN "needs_review" ELSE "analysed"]

\* One row for a component and a dimension, at the first of them, with the number of them:
\* nothing that was classified has a length.  Components stand in the order of the rows.
BuildQuantityTakeoff(items) ==
    LET code(i) == IF items[i].component = {} THEN "UNCLASSIFIED" ELSE items[i].value
        key(i) == <<code(i), items[i].value, items[i].dim>>
        of(i) == {j \in DOMAIN items : key(j) = key(i)}
    IN  [i \in {j \in DOMAIN items : \A k \in of(j) : j <= k} |->
            [code |-> code(i), name |-> items[i].value, dim |-> items[i].dim, length |-> {},
             quantity |-> {Cardinality(of(i))}, systems |-> {items[j].system : j \in of(i)}]]

BuildVentModel(candidates) ==
    LET items == ClassifyCandidates(candidates)
        system(s) == AnalyseSystem(SelectSeq(items, LAMBDA i : i.system = s))
        systems == [s \in {i.system : i \in Range(items)} |-> system(s)]
    IN  [classified |-> items, systems |-> systems, takeoff |-> BuildQuantityTakeoff(items),
         review |-> {s \in DOMAIN systems : systems[s].status = "needs_review"}]

-----------------------------------------------------------------------------
(* Sources: a takeoff is its lines and the reasons of what it skipped, each *)
(* at the place of what it was read from                                    *)

Line(kind, code, dim, quantity, unit, confidence) ==
    [kind |-> kind, code |-> code, dim |-> dim, quantity |-> quantity, unit |-> unit,
     confidence |-> confidence]

\* A fault: a row without a number is passed over.
SourceTakeoffUnlessEmpty(lines, reason) ==
    [lines |-> lines,
     skipped |-> Restrict(reason, {i \in DOMAIN reason \ DOMAIN lines : reason[i] # "no_quantity_cell"})]

\* What is no line is skipped for a reason.
SourceTakeoff(lines, reason) ==
    [lines |-> lines, skipped |-> Restrict(reason, DOMAIN reason \ DOMAIN lines)]

TakeoffFromGeometry(rows) ==
    LET measured == {i \in DOMAIN rows : rows[i].length # {}}
        counted == {i \in DOMAIN rows \ measured : rows[i].quantity \notin {{}, {0}}}
        line(i) ==
            IF i \in measured
            THEN Line("duct", rows[i].code, rows[i].dim, CHOOSE l \in rows[i].length : TRUE, "m", 100)
            ELSE Line("component", rows[i].code, rows[i].dim, 10 * (CHOOSE q \in rows[i].quantity : TRUE), "st", 100)
    IN  SourceTakeoff([i \in measured \cup counted |-> line(i)], [i \in DOMAIN rows |-> "no_quantity"])

\* A cell is [is, what].  The quantity is the first number after the cell that was
\* recognised; its unit the last one before the number, or else the first after it.
NumericAfter(cells, start) ==
    LET at(is) == {i \in start + 1 .. Len(cells) : cells[i].is = is}
        number == Min(at("number"))
        before == {i \in at("unit") : i < number}
    IN  IF at("number") = {} THEN [quantity |-> {}, unit |-> {}]
        ELSE [quantity |-> {cells[number].what},
              unit |-> CASE before # {} -> {cells[Max(before)].what}
                         [] before = {} /\ at("unit") # {} -> {cells[Min(at("unit"))].what}
                         [] OTHER -> {}]

\* A row without a cell that says anything is passed over.
TakeoffFromTable(rows) ==
    LET said == {i \in DOMAIN rows : \E c \in DOMAIN rows[i] : rows[i][c].is # "empty"}
        known(i) == {c \in DOMAIN rows[i] : rows[i][c].is \in {"duct", "component"}}
        found(i) == NumericAfter(rows[i], Min(known(i)))
        line(i) ==
            LET cell == rows[i][Min(known(i))]
            IN  Line(cell.is, cell.what.code, cell.what.dim, CHOOSE q \in found(i).quantity : TRUE,
                     IF found(i).unit # {} THEN CHOOSE u \in found(i).unit : TRUE
                     ELSE IF cell.is = "duct" THEN "m" ELSE "st",
                     cell.what.confidence)
    IN  SourceTakeoff([i \in {j \in said : known(j) # {} /\ found(j).quantity # {}} |-> line(i)],
                      [i \in said |-> IF known(i) = {} THEN "no_lexicon_match" ELSE "no_quantity_cell"])

\* A text is what its segments say: a count of something, [count, what], and after the
\* counts of a segment, if it is a duct, that this has no length.
TakeoffFromText(text) ==
    LET line(i) ==
            LET c == CHOOSE c \in text[i].what : TRUE
            IN  Line("component", c.code, "none", 10 * text[i].count, "st", Rounded(9 * c.confidence, 10))
    IN  SourceTakeoff([i \in {j \in DOMAIN text : ~ text[j].duct /\ text[j].what # {}} |-> line(i)],
                      [i \in DOMAIN text |-> IF text[i].duct THEN "duct_mention_without_length" ELSE "unknown_identity"])

-----------------------------------------------------------------------------
(* Consolidation                                                           *)

LineKey(line) == <<line.kind, line.code, line.dim>>

\* Counts agree when they are rounded; lengths within a share, in thousandths, of the
\* reference, and any with one below nought.
Agrees(reference, quantities, tolerance) ==
    CASE reference.unit = "st" -> Cardinality({Rounded(q, 10) : q \in quantities}) = 1
      [] reference.unit # "st" /\ reference.quantity = 0 -> quantities = {0}
      [] OTHER -> \A q \in quantities :
            LET apart == Max({q - reference.quantity, reference.quantity - q})
            IN  reference.quantity < 0 \/ 1000 * apart <= tolerance * reference.quantity

\* The lines of the sources that have a key, as <<source, line>>; the reference is the
\* most certain one, of several the first of the first source.
ConsolidatedLine(takeoffs, at, tolerance) ==
    LET line(p) == takeoffs[p[1]].lines[p[2]]
        before(p, r) == \/ line(p).confidence > line(r).confidence
                        \/ /\ line(p).confidence = line(r).confidence
                           /\ p[1] < r[1] \/ (p[1] = r[1] /\ p[2] < r[2])
        reference == line(CHOOSE p \in at : \A r \in at \ {p} : before(p, r))
        quantities == {line(p).quantity : p \in at}
        status == CASE Cardinality({line(p).unit : p \in at}) > 1 -> "unit_mismatch"
                    [] Cardinality(at) = 1 -> "single_source"
                    [] Cardinality({line(p).unit : p \in at}) = 1 /\ Cardinality(at) > 1
                         /\ Agrees(reference, quantities, tolerance) -> "corroborated"
                    [] OTHER -> "discrepant"
    IN  [key |-> LineKey(reference), unit |-> reference.unit, status |-> status, sources |-> at,
         selected |-> IF status \in {"single_source", "corroborated"} THEN {reference.quantity} ELSE {}]

ConsolidateTakeoffs(takeoffs, tolerance) ==
    LET all == UNION {{<<i, j>> : j \in DOMAIN takeoffs[i].lines} : i \in DOMAIN takeoffs}
        key(p) == LineKey(takeoffs[p[1]].lines[p[2]])
        lines == {ConsolidatedLine(takeoffs, {p \in all : key(p) = k}, tolerance) : k \in {key(p) : p \in all}}
        total(kind, unit) ==
            MapThenSumSet(LAMBDA l : CHOOSE q \in l.selected : TRUE,
                          {l \in lines : l.selected # {} /\ l.key[1] = kind /\ l.unit = unit})
    IN  [lines |-> lines, questions |-> {l.key : l \in {m \in lines : m.selected = {}}},
         length |-> total("duct", "m"), count |-> Rounded(total("component", "st"), 10),
         skipped |-> UNION {{<<i, j>> : j \in DOMAIN takeoffs[i].skipped} : i \in DOMAIN takeoffs}]

-----------------------------------------------------------------------------
(* Prices                                                                  *)

\* The entry of the dimension, or else of every dimension; of two the last.
PriceEntry(book, key) ==
    LET of(k) == {i \in DOMAIN book.entries : LineKey(book.entries[i]) = k}
        exact == of(key)
        any == of(<<key[1], key[2], "*">>)
    IN  CASE exact # {} -> {book.entries[Max(exact)]}
          [] exact = {} /\ any # {} -> {book.entries[Max(any)]}
          [] OTHER -> {}

PricedLine(line, entry, book) ==
    LET quantity == CHOOSE q \in line.selected : TRUE
        material == Rounded(quantity * entry.price, 10)
        hours == Rounded(quantity * entry.hours, 10)
        labour == Rounded(hours * book.rate, 1000)
    IN  [key |-> line.key, quantity |-> quantity, material |-> material, hours |-> hours,
         labour |-> labour, total |-> material + labour]

\* What labour costs is rounded once more for all the hours together.
PriceConsolidatedTakeoff(consolidated, book) ==
    LET entry(l) == PriceEntry(book, l.key)
        resolved == {l \in consolidated.lines : l.selected # {}}
        mayPrice == {l \in resolved : \E e \in entry(l) : e.unit = l.unit}
        priced == {PricedLine(l, CHOOSE e \in entry(l) : TRUE, book) : l \in mayPrice}
        material == SumFunction([p \in priced |-> p.material])
        labour == Rounded(SumFunction([p \in priced |-> p.hours]) * book.rate, 1000)
    IN  [lines |-> priced, questions |-> consolidated.questions,
         reservations |-> {l.key : l \in consolidated.lines \ resolved},
         unpriced |-> {[key |-> l.key, reason |-> IF entry(l) = {} THEN "no_price_entry"
                                                  ELSE "price_unit_mismatch"] : l \in resolved \ mayPrice},
         material |-> material, labour |-> labour, grand |-> material + labour]

\* The takeoffs of the drawings, of a table and of a text, of which there is at most one.
TakeoffsOf(body) ==
    [i \in DOMAIN body.drawings |-> TakeoffFromGeometry(BuildVentModel(body.drawings[i]).takeoff)]
      \o (IF body.table = <<>> THEN <<>> ELSE <<TakeoffFromTable(body.table)>>)
      \o (IF body.text = {} THEN <<>> ELSE <<TakeoffFromText(CHOOSE t \in body.text : TRUE)>>)

PricedBy(books, takeoffs, consolidated) ==
    [takeoffs |-> takeoffs, consolidated |-> consolidated,
     priced |-> {PriceConsolidatedTakeoff(consolidated, b) : b \in books}]

\* Priced if there is a book; a tolerance of nought is that of the programme.  {} if
\* there is no source.
VentTakeoff(body) ==
    LET tolerance == IF body.tolerance = 0 THEN 20 ELSE body.tolerance
    IN  {PricedBy(body.book, t, ConsolidateTakeoffs(t, tolerance)) : t \in {TakeoffsOf(body)} \ {<<>>}}

BuildVentQuote(priced, request) ==
    LET share(percent) == HalfUp(priced.grand * percent, 100)
        shares == [overhead |-> share(request.overhead), risk |-> share(request.risk),
                   profit |-> share(request.profit)]
    IN  IF request.days < 1 \/ Min({request.overhead, request.risk, request.profit}) < 0 THEN {}
        ELSE {[base |-> priced.grand, overhead |-> shares.overhead, risk |-> shares.risk,
               profit |-> shares.profit,
               total |-> priced.grand + shares.overhead + shares.risk + shares.profit,
               ready |-> priced.unpriced = {} /\ priced.reservations = {}]}

\* 422 of a takeoff without prices and of a request that is not a quote's.
VentQuoteAnswer(body, request) ==
    UNION {UNION {BuildVentQuote(p, request) : p \in t.priced} : t \in VentTakeoff(body)}

-----------------------------------------------------------------------------
(* Benchmarks: a range is [low, normal, high] in öre for a unit            *)

RangeIsValid(r) == 0 < r.low /\ r.low <= r.normal /\ r.normal <= r.high

QuickEstimate(r, quantity) ==
    IF quantity <= 0 THEN {} ELSE {[f \in DOMAIN r |-> HalfUp(quantity * r[f], 10)]}

\* The deviation is a number of tenths of a per cent.
CompareDetailedTotal(r, quantity, total, caveats) ==
    {[expected |-> e, total |-> total, caveats |-> caveats,
      verdict |-> CASE total < e.low -> "below_range" [] total > e.high -> "above_range"
                    [] OTHER -> "within_range",
      deviation |-> HalfUp((total - e.normal) * 1000, e.normal)]
     : e \in {q \in QuickEstimate(r, quantity) : total >= 0}}

CompareTakeoffPricing(r, quantity, priced) ==
    CompareDetailedTotal(r, quantity, priced.grand,
                         (IF priced.unpriced = {} THEN {} ELSE {"unpriced"})
                           \cup IF priced.reservations = {} THEN {} ELSE {"reservations"})
=============================================================================
