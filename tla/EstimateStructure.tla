------------------------------ MODULE EstimateStructure ------------------------------
(***************************************************************************)
(* The bill of quantities of an estimate, its lines grouped by the rules   *)
(* of a profile, and the revision between two of them.                     *)
(* (crow_estimate_structure, crow_estimate_revision)                       *)
(*                                                                         *)
(* A section and a group are the number of their code and title in order,  *)
(* a description is the set of the words rules ask for, an amount stands   *)
(* for every field of a line that can change beside its position.          *)
(***************************************************************************)
EXTENDS Integers, FiniteSets, Functions, Sequences

Matches(line, rule) ==
    /\ rule.costTypes = {} \/ line.costType \in rule.costTypes
    /\ rule.words = {} \/ line.words \cap rule.words # {}

Precedes(r, s) == r.priority < s.priority \/ (r.priority = s.priority /\ r.id < s.id)

\* The section and the group of a line.
Select(line, profile) ==
    LET hits == {r \in profile.rules : Matches(line, r)}
        first == CHOOSE r \in hits : \A s \in hits \ {r} : Precedes(r, s)
    IN  IF hits = {} THEN profile.fallback ELSE first.place

\* Where each line of an estimate stands: its section, the group in it, and its number
\* there.  A section that no line selects has no number.
Positions(estimate, profile) ==
    LET lines == estimate.lines
        place == [i \in DOMAIN lines |-> Select(lines[i], profile)]
        sections == {place[i].section : i \in DOMAIN lines}
        groups(s) == {place[i].group : i \in {j \in DOMAIN lines : place[j].section = s}}
        ahead(i) == {j \in DOMAIN lines :
                        /\ place[j] = place[i]
                        /\ lines[j].id < lines[i].id \/ (lines[j].id = lines[i].id /\ j < i)}
        rank(x, all) == 1 + Cardinality({y \in all : y < x})
    IN  [i \in DOMAIN lines |->
            <<rank(place[i].section, sections), rank(place[i].group, groups(place[i].section)),
              1 + Cardinality(ahead(i))>>]

Structured(estimate, position) ==
    LET rows == [i \in DOMAIN estimate.lines |->
                    [id |-> estimate.lines[i].id, amount |-> estimate.lines[i].amount,
                     position |-> position[i]]]
        amount == [i \in DOMAIN rows |-> rows[i].amount]
        sections == [s \in {position[i][1] : i \in DOMAIN rows} |->
                        SumFunctionOnSet(amount, {i \in DOMAIN rows : position[i][1] = s})]
    IN  [project |-> estimate.project, baseline |-> estimate.baseline, currency |-> estimate.currency,
         rows |-> rows, sections |-> sections, total |-> SumFunction(sections)]

StructureEstimate(estimate, profile) == Structured(estimate, Positions(estimate, profile))

IdsAreUnique(structured) ==
    \A i, j \in DOMAIN structured.rows : structured.rows[i].id = structured.rows[j].id => i = j

MayCompare(previous, current) ==
    /\ previous.project = current.project
    /\ previous.baseline = current.baseline
    /\ previous.currency = current.currency
    /\ IdsAreUnique(previous) /\ IdsAreUnique(current)

RowsOf(structured, id) == {structured.rows[i] : i \in {j \in DOMAIN structured.rows : structured.rows[j].id = id}}
IdsOf(structured) == {structured.rows[i].id : i \in DOMAIN structured.rows}

\* What became of the line id.
LineChange(previous, current, id) ==
    LET old == RowsOf(previous, id)
        new == RowsOf(current, id)
        amount(rows) == SumFunction([r \in rows |-> r.amount])
    IN  [id |-> id, old |-> old, new |-> new, delta |-> amount(new) - amount(old),
         type |-> IF old = {} THEN "added" ELSE IF new = {} THEN "removed"
                  ELSE IF old # new THEN "modified" ELSE "unchanged"]

\* The revision, as a set of at most one: none when the estimates cannot be compared or
\* the changes do not make the difference of the totals.
Revision(previous, current, all, includeUnchanged) ==
    LET changed == {c \in all : c.type # "unchanged"}
        delta == current.total - previous.total
    IN  IF MayCompare(previous, current) /\ SumFunction([c \in changed |-> c.delta]) = delta
        THEN {[changes |-> IF includeUnchanged THEN all ELSE changed,
               previousTotal |-> previous.total, currentTotal |-> current.total, delta |-> delta]}
        ELSE {}

CompareEstimates(previous, current, includeUnchanged) ==
    Revision(previous, current,
             {LineChange(previous, current, id) : id \in IdsOf(previous) \cup IdsOf(current)},
             includeUnchanged)
=============================================================================
