---------------------------- MODULE InferenceEngine ----------------------------
(***************************************************************************)
(* The inference engine (crow_inference/engine.py): chains of relations of *)
(* one type give derived relations of another, by a breadth-first search   *)
(* from every object, and each derived relation keeps the chain that       *)
(* explains it.                                                            *)
(*                                                                         *)
(* A relation is [source, type, target, confidence, id]; objects are       *)
(* numbers, sorted as the code sorts their identifiers, and there is one   *)
(* relation for a source, type and target.  A confidence is an integer     *)
(* number of steps, and each link of a chain multiplies it by Factor/100.  *)
(***************************************************************************)
EXTENDS Integers, Sequences, FiniteSets, SequencesExt

CONSTANT Factor          \* confidence_factor of a rule, in hundredths

ASSUME FactorAssumption == Factor \in 1..100

Key(r) == <<r.source, r.type, r.target>>

Lesser(a, b) == IF a < b THEN a ELSE b

\* The elements of a set, from the one of the least number.
InOrder(S, number(_)) ==
    [i \in 1..Cardinality(S) |->
        CHOOSE x \in S : Cardinality({y \in S : number(y) < number(x)}) = i - 1]

\* The relations a search may follow from an object, in the order it does.
Adjacency(premises, source) ==
    InOrder({r \in premises : r.source = source}, LAMBDA r : r.target)

\* A fault: the confidence of a chain is that of its last link.
LinkedLastOnly(chain, r) ==
    [target     |-> r.target,
     steps      |-> Append(chain.steps, r),
     confidence |-> (r.confidence * Factor) \div 100]

\* A chain made longer by one relation.
Linked(chain, r) ==
    [target     |-> r.target,
     steps      |-> Append(chain.steps, r),
     confidence |-> (Lesser(chain.confidence, r.confidence) * Factor) \div 100]

Extensions(premises, chain) ==
    LET next == Adjacency(premises, chain.target)
    IN  [i \in 1..Len(next) |-> Linked(chain, next[i])]

AllExtensions(premises, chains) ==
    FlattenSeq([i \in 1..Len(chains) |-> Extensions(premises, chains[i])])

\* The chains at some positions, in their order.
ChainsAt(chains, positions) ==
    FlattenSeq([i \in 1..Len(chains) |-> IF i \in positions THEN <<chains[i]>> ELSE <<>>])

\* Of the chains found at one depth, those that are queued: the first to each
\* object that no chain has reached before.
Queued(chains, reached) ==
    ChainsAt(chains, {i \in 1..Len(chains) :
                         /\ chains[i].target \notin reached
                         /\ \A j \in 1..(i-1) : chains[j].target # chains[i].target})

\* ... and those that are relations derived.
FoundAmong(chains, source) ==
    ChainsAt(chains, {i \in 1..Len(chains) : /\ Len(chains[i].steps) >= 2
                                             /\ chains[i].target # source})

\* The search one link deeper: the chains that are queued, the objects reached and the
\* chains found so far.
Deeper(premises, source, before) ==
    LET chains == AllExtensions(premises, before.queue)
        queue  == Queued(chains, before.reached)
    IN  [queue   |-> queue,
         reached |-> before.reached \cup {queue[i].target : i \in DOMAIN queue},
         found   |-> before.found \o FoundAmong(chains, source)]

Search(rule, premises, source) ==
    LET search[depth \in 0..rule.maxDepth] ==
            IF depth = 0
            THEN [queue   |-> <<[target |-> source, steps |-> <<>>, confidence |-> rule.full]>>,
                  reached |-> {source}, found |-> <<>>]
            ELSE Deeper(premises, source, search[depth - 1])
    IN  search[rule.maxDepth]

Conclusion(rule, source, chain) ==
    [source |-> source, type |-> rule.conclusion, target |-> chain.target,
     confidence |-> chain.confidence, steps |-> chain.steps,
     id |-> <<rule.id, [k \in DOMAIN chain.steps |-> chain.steps[k].id]>>]

\* The derived relations one rule finds from one object.
FromObject(rule, premises, source) ==
    LET found == Search(rule, premises, source).found
    IN  [i \in 1..Len(found) |-> Conclusion(rule, source, found[i])]

\* Everything one rule finds, in the order of the sources.
ApplyTransitive(rule, facts) ==
    LET premises == {f \in facts : f.type = rule.premise}
        sources  == InOrder({f.source : f \in premises}, LAMBDA n : n)
    IN  FlattenSeq([i \in 1..Len(sources) |-> FromObject(rule, premises, sources[i])])

Fact(item) == [source |-> item.source, type |-> item.type, target |-> item.target,
               confidence |-> item.confidence, id |-> item.id]

\* A fault: an explicit relation is derived once more.
KeepFoundAlsoExplicit(explicit, st, item) ==
    IF \E d \in st.derived : Key(d) = Key(item) /\ d.confidence >= item.confidence
    THEN st
    ELSE [derived |-> {d \in st.derived : Key(d) # Key(item)} \cup {item},
          facts   |-> {f \in st.facts : Key(f) # Key(item)} \cup {Fact(item)},
          created |-> TRUE]

\* A found relation is kept unless it is explicit or known with at least the
\* same confidence; it then becomes a fact that other rules may use.
KeepFound(explicit, st, item) ==
    IF \/ Key(item) \in explicit
       \/ \E d \in st.derived : Key(d) = Key(item) /\ d.confidence >= item.confidence
    THEN st
    ELSE [derived |-> {d \in st.derived : Key(d) # Key(item)} \cup {item},
          facts   |-> {f \in st.facts : Key(f) # Key(item)} \cup {Fact(item)},
          created |-> TRUE]

\* One item after the other ...
KeepAll(explicit, st, items) ==
    LET kept[i \in 0..Len(items)] ==
            IF i = 0 THEN st ELSE KeepFound(explicit, kept[i-1], items[i])
    IN  kept[Len(items)]

\* ... of one rule after the other: a round.
Round(explicit, rules, st) ==
    LET applied[i \in 0..Len(rules)] ==
            IF i = 0 THEN [st EXCEPT !.created = FALSE]
            ELSE LET before == applied[i-1]
                 IN  KeepAll(explicit, before, ApplyTransitive(rules[i], before.facts))
    IN  applied[Len(rules)]

Initially(relations) == [derived |-> {}, facts |-> relations, created |-> TRUE]

\* A fault: the rules are applied once.
InferOnce(relations, rules, maxIterations) ==
    Round({Key(r) : r \in relations}, rules, Initially(relations)).derived

\* The derived relations after at most maxIterations rounds, or when a round
\* has found nothing new.
Infer(relations, rules, maxIterations) ==
    LET state[n \in 0..maxIterations] ==
            IF n = 0 THEN Initially(relations)
            ELSE LET before == state[n-1]
                 IN  IF before.created
                     THEN Round({Key(r) : r \in relations}, rules, before)
                     ELSE before
    IN  state[maxIterations].derived
=============================================================================
