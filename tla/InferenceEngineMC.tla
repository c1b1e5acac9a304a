--------------------------- MODULE InferenceEngineMC ---------------------------
(***************************************************************************)
(* The inference engine over every small graph, against what a chain of    *)
(* relations is.                                                           *)
(***************************************************************************)
EXTENDS InferenceEngine, FiniteSetsExt

CONSTANTS Objects, MaxLinks, Confidences, MaxDepth

ASSUME LinksAssumption == Objects \subseteq Nat /\ MaxLinks \in Nat /\ MaxDepth \in Nat \ {0}

VARIABLES links,       \* the direct relations: <<source, target>>
          explicit,    \* the indirect relation on file, if any
          weak         \* the link whose confidence is the lowest, if any

Pairs == {p \in Objects \X Objects : p[1] # p[2]}

Strong == 1000
Weak == 500

Relations ==
    {[source |-> p[1], type |-> "located_in", target |-> p[2], id |-> <<0, p>>,
      confidence |-> IF p \in weak THEN Weak ELSE Strong] : p \in links}
    \cup {[source |-> p[1], type |-> "indirectly_located_in", target |-> p[2],
           id |-> <<-1, p>>, confidence |-> Strong] : p \in explicit}

Indirect == [id |-> 1, premise |-> "located_in", conclusion |-> "indirectly_located_in",
             maxDepth |-> MaxDepth, full |-> Strong]
Reaches == [id |-> 2, premise |-> "indirectly_located_in", conclusion |-> "reaches",
            maxDepth |-> MaxDepth, full |-> Strong]

LinksInit ==
    /\ links = {} /\ weak = {} /\ explicit = {}

\* A client relates two objects, with full or with little confidence.
Relate(p) ==
    /\ p \notin links
    /\ Cardinality(links) < MaxLinks
    /\ links' = links \cup {p}
    /\ \/ weak' = weak \cup {p} /\ Cardinality(weak) < Confidences
       \/ weak' = weak
    /\ UNCHANGED explicit

-----------------------------------------------------------------------------

Derived == Infer(Relations, <<Indirect>>, 8)

\* A derived relation is promoted to an explicit one.
Promote ==
    /\ explicit = {}
    /\ \E d \in Derived : explicit' = {<<d.source, d.target>>}
    /\ UNCHANGED <<links, weak>>

LinksNext == (\E p \in Pairs : Relate(p)) \/ Promote

LinksSpec == LinksInit /\ [][LinksNext]_<<links, explicit, weak>>

-----------------------------------------------------------------------------

\* The objects a chain of at most max_depth - 1 links reaches from s.
Within(s) ==
    LET reach[n \in 0..MaxDepth] ==
            IF n = 0 THEN {s}
            ELSE LET before == reach[n-1]
                 IN  before \cup {q[2] : q \in {l \in links : l[1] \in before}}
    IN  reach[MaxDepth - 1]

\* The engine derives exactly the pairs that a chain of two to max_depth links
\* joins without coming back to its start, except those already on file.
\* (InferenceEngine._apply_transitive, infer)
DerivesChains ==
    {<<d.source, d.target>> : d \in Derived}
        = {p \in Pairs \ explicit :
              \E q \in links : /\ q[1] \in Within(p[1]) \ {p[1]}
                               /\ q[2] = p[2]}

\* Every derived relation is explained by a chain of relations in the graph
\* from its source to its target, and is no more certain than any of them.
\* (InferenceEngine._apply_transitive)
ExplanationHolds ==
    \A d \in Derived :
        LET n == Len(d.steps)
        IN  /\ n \in 2..MaxDepth
            /\ d.steps[1].source = d.source
            /\ d.steps[n].target = d.target
            /\ \A i \in 2..n : d.steps[i].source = d.steps[i-1].target
            /\ \A i \in 1..n : /\ d.steps[i] \in Relations
                               /\ d.confidence <= d.steps[i].confidence

\* The result does not depend on whether the rules that use derived facts run
\* before or after the rule that derives them; confidences have no part in which facts
\* are derived. (InferenceEngine.infer)
RuleOrderIsFree ==
    LET pairs(ds) == {Key(d) : d \in ds}
    IN  pairs(Infer(Relations, <<Indirect, Reaches>>, 8))
            = pairs(Infer(Relations, <<Reaches, Indirect>>, 8))
=============================================================================
