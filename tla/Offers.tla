---------------------------------- MODULE Offers ----------------------------------
(***************************************************************************)
(* The offers of the OVK and the pressure test modules, and the pressure   *)
(* test itself: risers are modelled from the apartments, strings to test   *)
(* counted and priced, and a measured leakage is judged.                   *)
(*                                                                         *)
(* Heights and lengths are tenths of a metre, quantities tenths, amounts   *)
(* öre; what may be missing is a set of at most one.                       *)
(***************************************************************************)
EXTENDS Takeoff

-----------------------------------------------------------------------------
(* Risers                                                                  *)

\* How far it is from a plan up to the top, {} if that is not known or not up.
HeightTo(levels, plan, top) ==
    {levels[top] - levels[plan] : p \in {q \in {plan} :
        {q, top} \subseteq DOMAIN levels /\ levels[top] > levels[q]}}

\* One string of every kind for an apartment; an id that comes again is passed over.
BuildRiserModel(apartments, levels, config) ==
    LET first == {i \in DOMAIN apartments : \A j \in 1 .. i - 1 : apartments[j].id # apartments[i].id}
        known == {i \in first : HeightTo(levels, apartments[i].plan, config.top) # {}}
    IN  [strings |->
            {[apartment |-> apartments[i].id, stairwell |-> apartments[i].stairwell, kind |-> k,
              dim |-> config.dims[k], medium |-> config.media[k],
              length |-> Max(HeightTo(levels, apartments[i].plan, config.top)) + config.allowance]
             : i \in known, k \in DOMAIN config.dims},
         skipped |-> {apartments[i].id : i \in first \ known}]

StringsOf(model, stairwell) == {s \in model.strings : s.stairwell = stairwell}
TotalLength(strings) == SumFunction([s \in strings |-> s.length])

\* The strings as ducts, one line for a medium and a dimension.
RiserTakeoff(model) ==
    LET keys == {<<s.medium, s.dim>> : s \in model.strings}
        of(k) == {s \in model.strings : <<s.medium, s.dim>> = k}
    IN  [lines |-> SetToSeq({Line("duct", k[1], k[2], TotalLength(of(k)), "m", 85) : k \in keys}),
         skipped |-> SetToSeq(model.skipped)]

\* Half a string cannot be tested.
ServiceQuantities(model, percent) ==
    IF percent \notin 1 .. 100 THEN {}
    ELSE {[w \in {s.stairwell : s \in model.strings} |->
              [apartments |-> Cardinality({s.apartment : s \in StringsOf(model, w)}),
               strings |-> Cardinality(StringsOf(model, w)),
               test |-> Ceiling(Cardinality(StringsOf(model, w)) * percent, 100),
               length |-> TotalLength(StringsOf(model, w))]]}

-----------------------------------------------------------------------------
(* The offer of a pressure test                                            *)

ServicePrice(book, code) ==
    LET of == {i \in DOMAIN book : book[i].code = code}
    IN  IF of = {} THEN {} ELSE {book[Min(of)].price}

\* An item asked for is [code, quantity]: the strings of the stairwells, what was added
\* by hand, and the visits.
OfferItems(service, extra, visits) ==
    SetToSeq({[code |-> "string", quantity |-> 10 * service[w].test, stairwell |-> {w}] : w \in DOMAIN service})
    \o extra
    \o IF visits = 0 THEN <<>> ELSE <<[code |-> "visit", quantity |-> 10 * visits, stairwell |-> {}]>>

\* A line or a reservation is at the place of its item.  The risk is in thousandths; the
\* fixed price is in whole thousands.
PricePressureTestOffer(service, book, extra, visits, risk) ==
    LET items == OfferItems(service, extra, visits)
        priced == {i \in DOMAIN items : ServicePrice(book, items[i].code) # {}}
        amount(i) == HalfUp(Max(ServicePrice(book, items[i].code)) * items[i].quantity, 10)
        total == SumFunction([i \in priced |-> amount(i)])
    IN  IF visits < 0 \/ risk < 0 THEN {}
        ELSE {[lines |-> [i \in priced |-> [item |-> items[i], amount |-> amount(i)]], total |-> total,
               reservations |-> [i \in DOMAIN items \ priced |-> items[i]],
               fixed |-> 100000 * HalfUp(total * (1000 + risk), 100000000)]}

-----------------------------------------------------------------------------
(* The pressure test                                                       *)

\* The area of a string of a round duct, as its circumference in the units of the area
\* times its length; {} of a dimension that is not round or a length that is none.
Candidate(s) ==
    {[string |-> s, area |-> d * s.length] : d \in {c \in s.round : s.length > 0}}

VentCandidates(strings) ==
    LET found == {i \in DOMAIN strings : Candidate(strings[i]) # {}}
    IN  [candidates |-> [i \in found |-> strings[i]],
         skipped |-> [i \in DOMAIN strings \ found |-> strings[i]]]

LeakageFactor == [A |-> 27, B |-> 9, C |-> 3, D |-> 1]

\* What is allowed to leak; power is the size of the pressure to the power of 0.65.
AllowedLeakageFlow(class, power, area) ==
    IF power = 0 \/ area <= 0 THEN {} ELSE {LeakageFactor[class] * power * area}

Origins == {"stated", "inferred"}

\* What is stated is confirmed; a test before the pour is inferred always.
Provenance(input) ==
    {[field |-> f, origin |-> input.origin[f], confirmed |-> input.origin[f] = "stated" \/ f \in input.confirmed]
        : f \in {"class", "pressure"}}
    \cup {[field |-> f, origin |-> "inferred", confirmed |-> f \in input.confirmed]
        : f \in IF input.prePour THEN {"pre_pour"} ELSE {}}

RequiresConfirmation(p) == p.origin = "inferred" /\ ~ p.confirmed

EvaluatePressureTest(input) ==
    {[allowed |-> a, provenance |-> Provenance(input),
      status |-> CASE input.measured = {} -> "not_measured"
                   [] input.measured # {} /\ Max(input.measured) <= a -> "pass"
                   [] OTHER -> "fail",
      ready |-> input.measured # {} /\ \A p \in Provenance(input) : ~ RequiresConfirmation(p)]
     : a \in {f \in AllowedLeakageFlow(input.class, input.power, input.area) :
                 \A m \in input.measured : m >= 0}}

\* 422 of what is not a test, 409 of one that no protocol may be written of.
ProtocolAnswer(input) ==
    LET result == EvaluatePressureTest(input)
    IN  CASE result = {} -> 422
          [] \E r \in result : ~ r.ready -> 409
          [] OTHER -> 200

Strictness == <<"A", "B", "C", "D">>

\* The families that the documents ask several classes of, with the strictest of them.
FindConflicts(requirements) ==
    LET classes(f) == {r.class : r \in {q \in requirements : q.family = f}}
    IN  {[family |-> f, classes |-> classes(f),
          strictest |-> Strictness[Max({i \in DOMAIN Strictness : Strictness[i] \in classes(f)})]]
         : f \in {g \in {r.family : r \in requirements} : Cardinality(classes(g)) > 1}}

-----------------------------------------------------------------------------
(* The quote of an OVK                                                     *)

\* How much of a part its price is for; {} of a part that does not say.
QuantityFor(part, basis) ==
    LET given == CASE basis = "per_apartment" -> {10 * n : n \in part.apartments}
                   [] basis = "per_room" -> {10 * n : n \in part.rooms}
                   [] basis = "per_area" -> part.area
                   [] OTHER -> {10 * part.units}
    IN  {q \in given : q > 0}

\* An area is priced by the system that serves it.
Rate(category, part, inspection) ==
    {r.price : r \in {q \in category.rates :
        /\ q.inspection = inspection /\ q.price > 0
        /\ category.basis = "per_area" => part.system = {q.system}}}

\* No interval is {}.
RecurringInterval(part) ==
    CASE part.category = "smahus" -> {}
      [] part.category # "smahus" /\ part.school -> {3}
      [] OTHER -> {IF s \in {"FT", "FTX"} THEN 3 ELSE 6 : s \in part.system}

\* A small house is inspected once.
LineFor(part, inspection, taxa) ==
    {[part |-> part, quantity |-> q[1], price |-> q[2], amount |-> HalfUp(q[1] * q[2], 10),
      interval |-> RecurringInterval(part)]
     : q \in UNION {QuantityFor(part, taxa.categories[c].basis) \X Rate(taxa.categories[c], part, inspection)
                    : c \in {k \in DOMAIN taxa.categories \cap {part.category} :
                                ~ (k = "smahus" /\ inspection = "recurring")}}}

BuildQuote(parts, inspection, taxa) ==
    LET line(i) == LineFor(parts[i], inspection, taxa)
        lines == [i \in DOMAIN parts |-> CHOOSE l \in line(i) : TRUE]
        subtotal == SumFunction([i \in DOMAIN parts |-> lines[i].amount])
        intervals == UNION {l.interval : l \in Range(lines)}
        raw == taxa.base + subtotal
    IN  IF parts = <<>> \/ taxa.base < 0 \/ taxa.minimum < 0 \/ \E i \in DOMAIN parts : line(i) = {} THEN {}
        ELSE {[lines |-> lines, subtotal |-> subtotal, minimumApplied |-> raw < taxa.minimum,
               total |-> IF raw < taxa.minimum THEN taxa.minimum ELSE raw,
               interval |-> IF intervals = {} THEN {} ELSE {Min(intervals)}]}
=============================================================================
