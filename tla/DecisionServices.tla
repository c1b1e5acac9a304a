---------------------------- MODULE DecisionServices ----------------------------
(***************************************************************************)
(* What the module SDK decides about claims: which of them conflict, which *)
(* of two conflicting documents governs, and what a priced batch of        *)
(* conflicts comes to (decision_services.py, pipeline.py,                  *)
(* batch_pipeline.py).                                                     *)
(*                                                                         *)
(* A claim is [id, key, value, unit, document, revision], an authority     *)
(* policy [confirmed, rules], its rules pairs <<higher, lower>> of         *)
(* documents in the order they are tried.  Money is left out: it decides   *)
(* nothing.                                                                *)
(***************************************************************************)
EXTENDS Optional, Integers, FiniteSets, SequencesExt, Relation

(* A conflict: the claims with one key, if any two of them differ.         *)
Conflicts(claims) ==
    {group \in {{c \in claims : c.key = d.key} : d \in claims} :
        \E c, d \in group : <<c.value, c.unit>> # <<d.value, d.unit>>}

Ranked(policy) == Range(policy.rules)

Ranks(policy) == UNION {{r[1], r[2]} : r \in Ranked(policy)}

\* A document may not come to outrank itself: neither by one rule, nor by two
\* that contradict each other, nor by a longer cycle.
ValidPolicy(policy) ==
    LET docs   == Ranks(policy)
        direct == [a, b \in docs |-> <<a, b>> \in Ranked(policy)]
    IN  \A d \in docs : ~TransitiveClosure(direct, docs)[d, d]

\* The first rule of the policy about two of the documents in conflict.
Applies(policy, conflict, i) ==
    LET Names(j) == \E c, d \in conflict :
                        c.document = policy.rules[j][1] /\ d.document = policy.rules[j][2]
    IN  Names(i) /\ \A j \in 1..(i - 1) : ~Names(j)

\* The claim that governs: of the document the rule ranks higher, the first by
\* id.  An unconfirmed policy, or one without such a rule, decides nothing.
Selected(policy, conflict) ==
    IF policy.confirmed /\ \E i \in DOMAIN policy.rules : Applies(policy, conflict, i)
    THEN LET rule   == policy.rules[CHOOSE i \in DOMAIN policy.rules :
                                        Applies(policy, conflict, i)]
             higher == {c \in conflict : c.document = rule[1]}
         IN  CHOOSE c \in higher : \A d \in higher : c.id <= d.id
    ELSE None

\* A decided conflict must leave one alternative, in the same explicit unit.  (Of
\* values that are not decimal numbers none is comparable: a unit is then None.)
Comparable(policy, conflict) ==
    LET s == Selected(policy, conflict)
    IN  s # None =>
            /\ Cardinality(conflict \ {s}) = 1
            /\ \A c \in conflict : c.unit # None /\ c.unit = s.unit

\* The conflicts a batch goes through: those that are priced.
Priced(claims, keys) ==
    {conflict \in Conflicts(claims) : \A c \in conflict : c.key \in keys}

\* The batch raises no error.
BatchAccepted(claims, policy, keys) ==
    \A conflict \in Priced(claims, keys) :
        ValidPolicy(policy) /\ Comparable(policy, conflict)

\* One item for each conflict: its claims and the one that governs.
Batch(claims, policy, keys) ==
    {[claims |-> conflict, selected |-> Selected(policy, conflict)] :
        conflict \in Priced(claims, keys)}
=============================================================================
