------------------------- MODULE InferenceAndProjectMC -------------------------
(***************************************************************************)
(* The inference service and the project aggregate on small instances.     *)
(* They share nothing: the initial state chooses the one that is used.     *)
(* The graphs of inference are a component in a zone, the zone on a floor, *)
(* and what a client may relate later.  The engine is InferenceEngine, its *)
(* results tabulated over the relations that can arise.                    *)
(***************************************************************************)
EXTENDS Inference, ProjectAggregateMC

Engine == INSTANCE InferenceEngine WITH Factor <- 100

MCInitialLinks == {<<1, 2>>, <<2, 3>>}
MCNewLinks == {<<3, 4>>}

Rule == [id |-> "located_in", premise |-> "located_in",
         conclusion |-> "indirectly_located_in", maxDepth |-> 3, full |-> Full]

Rules(rules, rounds) == [rules |-> rules, rounds |-> rounds]

\* The default rules, and what a client asks for: a rule of the same identifier
\* that concludes something else.
MCDefaultRules == Rules(<<Rule>>, 8)
MCClientRules == Rules(<<[Rule EXCEPT !.conclusion = "within"]>>, 1)
MCRuleSets == {MCDefaultRules, MCClientRules}

Links == {Link(p) : p \in MCInitialLinks \cup MCNewLinks}

Infer(S, rules) == Engine!Infer(S, rules.rules, rules.rounds)

Promotable ==
    {Promoted(d, d.id) : d \in UNION {Infer(S, rules) : S \in SUBSET Links, rules \in MCRuleSets}}

Table ==
    [S \in SUBSET (Links \cup Promotable) |-> [rules \in MCRuleSets |-> Infer(S, rules)]] @@ <<>>

MCDerive(relations, rules) == Table[relations][rules]

ASSUME TableAssumption ==
    \A S \in DOMAIN Table, rules \in MCRuleSets : DerivesNothingExplicit(S, rules)

Load(threads, jobs, asks, restarts, runCount, decisions) ==
    [threads |-> threads, jobs |-> jobs, asks |-> asks, restarts |-> restarts,
     runs |-> runCount, decisions |-> decisions]

AllJobs == {"run", "invalidate", "review", "promote", "relate"}

Ask(rules, force, persist) == [rules |-> rules, force |-> force, persist |-> persist]
Plain == Ask(MCDefaultRules, FALSE, TRUE)
Client == Ask(MCClientRules, FALSE, TRUE)
Forced == Ask(MCDefaultRules, TRUE, TRUE)
Unkept == Ask(MCClientRules, TRUE, FALSE)

\* One client of every request, with restarts or with a longer history and runs
\* asked for in every way; two clients who run, review and promote; and two who
\* run by rules of their own.
Single(r) == {Load({r}, AllJobs, {Plain}, TRUE, 2, 2),
              Load({r}, AllJobs, {Plain, Client, Unkept}, FALSE, 2, 2),
              Load({r}, AllJobs, {Plain, Forced}, FALSE, 3, 2)}

MCLoads ==
    (UNION {Single(r) : r \in Requests})
    \cup {Load(Requests, {"run", "review", "promote"}, {Plain}, FALSE, 1, 3),
          Load(Requests, {"run", "invalidate", "relate"}, {Plain, Client}, FALSE, 2, 0)}

Threads == Permutations(Requests)

-----------------------------------------------------------------------------

\* No thread of the inference service is in use: the project is.
Unused == Load({}, {}, {}, FALSE, 0, 0)

MCAllLoads == MCLoads \cup {Unused}

AllInit == Init /\ ProjectInit

AllNext ==
    \/ load # Unused /\ Next /\ UNCHANGED projectVars
    \/ load = Unused /\ ProjectNext /\ UNCHANGED vars

AllSpec == AllInit /\ [][AllNext]_<<vars, projectVars>>
=============================================================================
