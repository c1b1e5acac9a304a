--------------------------------- MODULE QueriesMC ---------------------------------
(***************************************************************************)
(* What is computed from a document and leaves nothing behind: the         *)
(* relations inferred from a graph, the network of a drawing, the searches *)
(* of a graph, takeoffs, quotes, offers, pressure tests and estimates.  A  *)
(* behaviour relates the objects of a graph one pair after the other, or   *)
(* asks once.                                                              *)
(***************************************************************************)
EXTENDS InferenceEngineMC, DrawingsMC, PricesMC

linkDocs == <<links, explicit, weak>>

Init == LinksInit /\ PricesInit

Ask ==
    /\ links = {}
    /\ \/ query = {} /\ query' \in {{q} : q \in Drawings}
       \/ query = {} /\ query' \in {{q} : q \in SearchGraphs}
       \/ AskPrice
    /\ UNCHANGED linkDocs

Next == Ask \/ (query = {} /\ LinksNext /\ UNCHANGED query)

Spec == Init /\ [][Next]_<<query, linkDocs>>

-----------------------------------------------------------------------------

\* What a search, a trace or a traversal tells of a drawing or a graph is all there is to
\* tell, and one of them never tells what another denies. (segment_network,
\* identify_systems, trace_network, discover_system_observations, objects_in_bbox,
\* TraversalEngine, GraphIntegrityService.traverse)
SearchFindsAll ==
    \A q \in query : CASE q.about = "drawing" -> NetworkHolds(q)
                       [] q.about = "graph" -> SearchHolds(q)
                       [] OTHER -> TRUE
=============================================================================
