--------------------------- MODULE CommercialEngine ---------------------------
(***************************************************************************)
(* The pure half of the commercial chain: the functions that turn          *)
(* technical deltas into scope impacts, priced commercial impacts, an      *)
(* adjusted calculation, a commercial review and finally an estimate.      *)
(* Every operator is one function of the packages crow_scope_impact,       *)
(* crow_commercial_impact, crow_commercial_adjustment,                     *)
(* crow_commercial_review and crow_estimate_line.                          *)
(*                                                                         *)
(* A content fingerprint is modelled by the material it hashes, so two     *)
(* identifiers are equal exactly when the hashed fields are.  Amounts are  *)
(* integers; one project, so project identifiers are left out.             *)
(***************************************************************************)
EXTENDS Integers, FiniteSets, FiniteSetsExt, SequencesExt

CONSTANT None                  \* Python's None: no quantity, rate, rule, event

-----------------------------------------------------------------------------
(* crow_scope_impact                                                       *)

Admits(filter, value) == filter = {} \/ value \in filter

\* The first of the enabled matches in the order (-priority, id).
HighestPriority(S) ==
    CHOOSE r \in S : \A q \in S : \/ q.priority < r.priority
                                  \/ q.priority = r.priority /\ r.id <= q.id

ScopeMatches(rule, delta) ==
    /\ rule.enabled
    /\ Admits(rule.categories, delta.category)
    /\ Admits(rule.properties, delta.property)
    /\ Admits(rule.directions, delta.direction)

Quantity(rule, delta) ==
    LET value == CASE rule.basis = "delta_quantity"    -> delta.quantity
                   [] rule.basis = "approved_quantity" -> delta.approved
                   [] rule.basis = "baseline_quantity" -> delta.baseline
                   [] rule.basis = "fixed"             -> rule.fixed
                   [] rule.basis = "none"              -> None
    IN  IF value = None THEN None ELSE value * rule.multiplier

DefaultType(delta) ==
    CASE delta.type = "added"     -> "added_work"
      [] delta.type = "removed"   -> "omitted_work"
      [] delta.type = "unchanged" -> "no_scope_change"
      [] delta.type = "modified"  ->
            IF delta.direction \in {"increase", "decrease", "changed"}
            THEN "changed_work" ELSE "review_required"

DefaultReview(delta) ==
    /\ delta.type = "modified"
    /\ delta.direction \in {"increase", "decrease", "changed"}
          => delta.quantity = None

Magnitude(q) == IF q = None THEN None ELSE IF q < 0 THEN -q ELSE q

ScopeImpact(rules, delta) ==
    LET matches == {r \in rules : ScopeMatches(r, delta)}
        rule    == HighestPriority(matches)
    IN  IF matches = {}
        THEN [delta |-> delta, type |-> DefaultType(delta),
              quantity |-> Magnitude(delta.quantity), unit |-> delta.unit,
              rule |-> None, review |-> DefaultReview(delta)]
        ELSE [delta |-> delta, type |-> rule.type,
              quantity |-> Quantity(rule, delta),
              unit |-> IF rule.unit = None THEN delta.unit ELSE rule.unit,
              rule |-> rule.id, review |-> rule.type = "review_required"]

DeriveScopeImpacts(deltas, ruleSet) ==
    [baseline |-> deltas.baseline,
     impacts  |-> {ScopeImpact(ruleSet.rules, d) : d \in deltas.items}]

-----------------------------------------------------------------------------
(* crow_commercial_impact                                                  *)

RateMatches(rate, scope) ==
    /\ rate.enabled
    /\ rate.category = scope.delta.category
    /\ rate.property \in {None, scope.delta.property}
    /\ Admits(rate.types, scope.type)
    /\ rate.unit = scope.unit

PricingStatus(scope, hasRate) ==
    IF scope.type = "no_scope_change" THEN "not_applicable"
    ELSE IF scope.review \/ scope.type = "review_required" THEN "review_required"
    ELSE IF scope.quantity = None THEN "missing_quantity"
    ELSE IF ~hasRate THEN "missing_unit_rate" ELSE "priced"

CommercialImpact(rates, scope) ==
    LET matches == {r \in rates : RateMatches(r, scope)}
        rate    == HighestPriority(matches)
        status  == PricingStatus(scope, matches # {})
    IN  [scope  |-> scope,
         rate   |-> IF matches = {} THEN None ELSE rate.id,
         label  |-> IF matches = {} THEN None ELSE rate.label,
         cost   |-> IF matches = {} THEN None ELSE rate.cost,
         price  |-> IF matches = {} THEN None ELSE rate.price,
         status |-> status,
         amount |-> IF status = "priced" THEN scope.quantity * rate.price
                                         ELSE None]

\* The fields that make up the fingerprint, hence the identifier: what the
\* work is called and its type of cost are not among them.
ImpactId(i) == <<i.scope, i.rate, i.status, i.amount>>

DeriveCommercialImpacts(scope, priceBook) ==
    [baseline  |-> scope.baseline,
     priceBook |-> priceBook.id,
     currency  |-> priceBook.currency,
     impacts   |-> {CommercialImpact(priceBook.rates, s) : s \in scope.impacts}]

Priced(commercial) == {i \in commercial.impacts : i.status = "priced"}

Unresolved(commercial) ==
    {i \in commercial.impacts : i.status \notin {"priced", "not_applicable"}}

-----------------------------------------------------------------------------
(* crow_commercial_adjustment                                              *)

AdjustmentMatches(rule, impact) ==
    /\ rule.enabled
    /\ Admits(rule.labels, impact.label)
    /\ Admits(rule.costs, impact.cost)

AdjustmentAmount(rule, net, running) ==
    IF rule.percentage
    THEN ((IF rule.onNet THEN net ELSE running) * rule.value) \div 100
    ELSE rule.value

\* The running total after every matching rule, in the order (priority, id).
AdjustedTotal(rules, impact) ==
    LET Before(a, b) == \/ a.priority < b.priority
                        \/ a.priority = b.priority /\ a.id < b.id
        order == SetToSortSeq({r \in rules : AdjustmentMatches(r, impact)}, Before)
    IN  FoldLeft(LAMBDA running, rule : running
                    + AdjustmentAmount(rule, impact.amount, running),
                 impact.amount, order)

AdjustedImpact(rules, impact) ==
    [id |-> ImpactId(impact), net |-> impact.amount,
     total |-> AdjustedTotal(rules, impact)]

SameCurrency(commercial, profile) == commercial.currency = profile.currency

ApplyAdjustments(commercial, profile) ==
    [baseline   |-> commercial.baseline,
     priceBook  |-> commercial.priceBook,
     profile    |-> profile.id,
     currency   |-> profile.currency,
     impacts    |-> {AdjustedImpact(profile.rules, i) : i \in Priced(commercial)},
     unresolved |-> Cardinality(Unresolved(commercial))]

GrandTotal(lines) == MapThenSumSet(LAMBDA l : l.total, lines)

-----------------------------------------------------------------------------
(* crow_commercial_review                                                  *)

Statuses == {"proposed", "approved", "rejected", "needs_information", "superseded"}

Allowed == [s \in Statuses |->
    CASE s = "proposed"          -> Statuses \ {"proposed"}
      [] s = "needs_information" -> {"approved", "rejected", "superseded"}
      [] s = "approved"          -> {"superseded"}
      [] s = "rejected"          -> {"superseded"}
      [] s = "superseded"        -> {}]

InitializeReview(adjusted) ==
    [baseline   |-> adjusted.baseline,
     priceBook  |-> adjusted.priceBook,
     profile    |-> adjusted.profile,
     currency   |-> adjusted.currency,
     total      |-> GrandTotal(adjusted.impacts),
     unresolved |-> adjusted.unresolved,
     status     |-> "proposed",
     latest     |-> None,
     history    |-> <<>>]

CanApprove(review) == review.unresolved = 0

\* A fault: approval does not look at the unresolved items.
CanTransitionUnresolved(review, new) == new \in Allowed[review.status]

CanTransition(review, new) ==
    /\ new \in Allowed[review.status]
    /\ new = "approved" => CanApprove(review)

\* A fault: the event does not name the event it supersedes.
EventUnchained(review, new, id) ==
    [id |-> id, previous |-> review.status, new |-> new, supersedes |-> None]

Event(review, new, id) ==
    [id |-> id, previous |-> review.status, new |-> new,
     supersedes |-> review.latest]

Transition(review, new, id) ==
    [review EXCEPT !.status  = new,
                   !.latest  = id,
                   !.history = Append(@, Event(review, new, id))]

-----------------------------------------------------------------------------
(* crow_estimate_line                                                      *)

\* The three files speak of the same baseline, prices, profile and total.
Agree(commercial, adjusted, review) ==
    /\ commercial.baseline = adjusted.baseline
    /\ commercial.baseline = review.baseline
    /\ commercial.priceBook = adjusted.priceBook
    /\ commercial.priceBook = review.priceBook
    /\ adjusted.profile = review.profile
    /\ commercial.currency = adjusted.currency
    /\ commercial.currency = review.currency
    /\ GrandTotal(adjusted.impacts) = review.total

\* A fault: only the review is asked whether anything is unresolved.
InputsValidByReview(commercial, adjusted, review) ==
    /\ review.status = "approved"
    /\ review.latest # None
    /\ review.unresolved = 0
    /\ Agree(commercial, adjusted, review)

\* A fault: a decision is asked for, and not which one.
InputsValidOnceDecided(commercial, adjusted, review) ==
    /\ review.latest # None
    /\ review.unresolved = 0
    /\ adjusted.unresolved = 0
    /\ Agree(commercial, adjusted, review)

InputsValid(commercial, adjusted, review) ==
    /\ review.status = "approved"
    /\ review.latest # None
    /\ review.unresolved = 0
    /\ adjusted.unresolved = 0
    /\ Agree(commercial, adjusted, review)

AdjustedFor(adjusted, impact) ==
    CHOOSE a \in adjusted.impacts : a.id = ImpactId(impact)

\* What is done, its type of cost and its price come from the commercial
\* impacts, what it costs in the end from the adjusted ones.
EstimateLines(commercial, adjusted) ==
    {[id |-> ImpactId(i), label |-> i.label, cost |-> i.cost, price |-> i.price,
      net |-> i.amount, total |-> AdjustedFor(adjusted, i).total]
        : i \in Priced(commercial)}

PricedAsAdjusted(commercial, adjusted) ==
    {ImpactId(i) : i \in Priced(commercial)} = {a.id : a \in adjusted.impacts}

\* Everything generate_estimate checks before it returns an estimate.
EstimateAccepted(commercial, adjusted, review) ==
    /\ InputsValid(commercial, adjusted, review)
    /\ PricedAsAdjusted(commercial, adjusted)
    /\ \A i \in Priced(commercial) :
          /\ i.scope.unit # None
          /\ i.amount = AdjustedFor(adjusted, i).net
    /\ GrandTotal(EstimateLines(commercial, adjusted)) = review.total

GenerateEstimate(commercial, adjusted, review) ==
    [baseline  |-> commercial.baseline,
     priceBook |-> commercial.priceBook,
     profile   |-> adjusted.profile,
     currency  |-> commercial.currency,
     event     |-> review.latest,
     lines     |-> EstimateLines(commercial, adjusted),
     total     |-> GrandTotal(EstimateLines(commercial, adjusted))]
=============================================================================
