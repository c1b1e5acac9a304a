-------------------------- MODULE CommercialChainMC --------------------------
(***************************************************************************)
(* Small inputs for CommercialChain.  The two delta sets, of which one has  *)
(* an item unresolved, give the same total by different amounts: a         *)
(* calculation can change under an unchanged total.                        *)
(***************************************************************************)
EXTENDS CommercialChain

Delta(key, type, direction, quantity) ==
    [key |-> key, category |-> "ventilation", property |-> key, unit |-> "m",
     type |-> type, direction |-> direction, quantity |-> quantity,
     approved |-> quantity, baseline |-> None]

Duct    == Delta("duct", "added", "unknown", 1)
Ducts   == Delta("duct", "added", "unknown", 3)
Damper  == Delta("damper", "modified", "increase", 1)
Unknown == Delta("unknown", "modified", "unknown", None)

MCDeltaSets == {[baseline |-> "b1", items |-> {Duct, Damper}],
                [baseline |-> "b1", items |-> {Ducts, Unknown}]}

ChangeRule == [id |-> 1, enabled |-> TRUE, priority |-> 100,
               categories |-> {"ventilation"}, properties |-> {},
               directions |-> {"increase", "decrease"}, type |-> "changed_work",
               basis |-> "delta_quantity", fixed |-> None, multiplier |-> 1,
               unit |-> None]

MCPricedDeltas == {[baseline |-> "b1", items |-> {Duct, Damper}]}

MCRules == [id |-> "rules", rules |-> {ChangeRule}]
MCRuleSets == {MCRules}

Rate(id, property, price) ==
    [id |-> id, enabled |-> TRUE, priority |-> 0, category |-> "ventilation",
     property |-> property, types |-> {}, unit |-> "m", price |-> price,
     label |-> "work", cost |-> "labour"]

MCBook == [id |-> "book", currency |-> "SEK",
           rates |-> {Rate(1, "duct", 100), Rate(2, "damper", 200)}]

\* The same rates with their work booked as material, which is not adjusted;
\* and the same prices in another currency, which the profile does not take.
MCMaterialBook == [MCBook EXCEPT !.rates = {[r EXCEPT !.cost = "material"] : r \in @}]
MCForeignBook == [MCBook EXCEPT !.currency = "EUR"]

MCOneBook == {MCBook}
MCCurrencies == {MCBook, MCForeignBook}
MCBooks == {MCBook, MCMaterialBook, MCForeignBook}

Profile(currency, percentage, value) ==
    [id |-> "profile", currency |-> currency,
     rules |-> {[id |-> 1, enabled |-> TRUE, priority |-> 1, labels |-> {},
                 costs |-> {"labour"}, percentage |-> percentage, onNet |-> TRUE,
                 value |-> value]}]

MCProfile == Profile("SEK", TRUE, 10)
MCProfiles == {MCProfile}

\* A project whose inputs are in place.
MCPrepared == [deltas |-> [baseline |-> "b1", items |-> {Duct, Damper}],
               rules |-> MCRules, priceBook |-> MCBook, profile |-> MCProfile]

Threads == Permutations(Requests)

CommercialsOf(deltaSets, books) ==
    {DeriveCommercialImpacts(DeriveScopeImpacts(d, MCRules), b) : d \in deltaSets, b \in books}

AdjustedOf(commercials) ==
    {ApplyAdjustments(c, MCProfile) : c \in {c \in commercials : SameCurrency(c, MCProfile)}}

AtFirstPrices == CommercialsOf(MCDeltaSets, {MCBook})
AtFirstPricesAdjusted == AdjustedOf(AtFirstPrices)
FirstTotals == {GrandTotal(a.impacts) : a \in AtFirstPricesAdjusted}
Resolved == CommercialsOf(MCPricedDeltas, MCBooks)
ResolvedAdjusted == AdjustedOf(Resolved)

\* Nothing on file is of another price book than the first, and no decision was.
FirstBook ==
    /\ Readable(files.priceBook) => files.priceBook = MCBook
    /\ Readable(files.commercial) => files.commercial \in AtFirstPrices
    /\ Readable(files.adjusted) => files.adjusted \in AtFirstPricesAdjusted
    /\ \A i \in DOMAIN decisions : decisions[i].terms.total \in FirstTotals

\* Nothing on file is of deltas with an unresolved item.
AllResolved ==
    /\ Readable(files.deltas) => files.deltas \in MCPricedDeltas
    /\ Readable(files.commercial) => files.commercial \in Resolved
    /\ Readable(files.adjusted) => files.adjusted \in ResolvedAdjusted
    /\ Readable(files.review) => CanApprove(files.review)

\* A constraint: decisions are made, and other price books used, while the
\* rules, the price book and the profile are whole; another price book is used
\* with the deltas that are all resolved, up to the first approval.
Calm ==
    LET whole == \A f \in InputFiles \ {"deltas"} : Readable(files[f])
        early == decisions = <<>> \/ (Len(decisions) = 1 /\ decisions[1].new = "approved")
    IN  /\ whole \/ decisions = <<>>
        /\ FirstBook \/ (whole /\ early /\ AllResolved)

MCTemplate == [rules |-> MCRules, priceBook |-> MCBook, profile |-> MCProfile]
=============================================================================
