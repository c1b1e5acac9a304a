-------------------------- MODULE ProjectAggregateMC --------------------------
(***************************************************************************)
(* A specification and a drawing that disagree about a flow and a size.    *)
(* The size on the drawing has no unit, so only a person can decide it;    *)
(* the second revision of the drawing takes up the id of a claim of the    *)
(* first.                                                                  *)
(***************************************************************************)
EXTENDS ProjectAggregate

Flow == 1
Size == 2

Claim(id, key, value, unit, document, revision) ==
    [id |-> id, key |-> key, value |-> value, unit |-> unit,
     document |-> document, revision |-> revision]

MCClaims == {Claim(1, Flow, 10, "l/s", "spec", 1),
             Claim(2, Flow, 12, "l/s", "drawing", 1),
             Claim(2, Flow, 14, "l/s", "drawing", 2),
             Claim(3, Size, 160, None, "drawing", 1),
             Claim(4, Size, 200, "mm", "spec", 1)}

Policy(confirmed) == [confirmed |-> confirmed, rules |-> <<<<"spec", "drawing">>>>]

Unconfirmed == Policy(FALSE)

MCPolicies == {Policy(TRUE), Unconfirmed}

MCDocuments == {"spec", "drawing"}

\* A constraint: claims come after the documents, the policy and the module, a
\* project is kept in one of the two stores only, and under an unconfirmed policy
\* it is not saved and run once.
Prepared ==
    /\ saved = None \/ committed = None
    /\ \A c \in Callers :
          /\ hand[c].claims # {} => /\ hand[c].policy # None
                                   /\ hand[c].modules # {}
                                   /\ DOMAIN hand[c].documents = Documents
          /\ hand[c].policy = Unconfirmed => saved = None /\ Len(hand[c].runs) < MaxRuns
=============================================================================
