-------------------------------- MODULE Findings --------------------------------
(***************************************************************************)
(* The register of findings (crow_reasoning/findings.py): what the rules   *)
(* say of the building graph, synchronised with a register in which people *)
(* acknowledge, resolve and dismiss.  The register is one document.        *)
(***************************************************************************)
EXTENDS Requests, Sequences

CONSTANTS
    FindingIds,       \* <<rule, version, object>>
    RuleGraphs,       \* the graphs that the rules are evaluated over
    Incoming(_)       \* the findings the rules raise of a graph

ASSUME FindingsAssumption == \A g \in RuleGraphs : Incoming(g) \subseteq FindingIds

VARIABLES
    ruleGraph,     \* the building graph
    register       \* [revision, status, stamped, history]

findingVars == <<load, client, ruleGraph, register>>

Statuses == {"open", "acknowledged", "resolved", "dismissed"}
Active == {"open", "acknowledged"}

EmptyRegister ==
    [revision |-> 0, status |-> [f \in FindingIds |-> "absent"], stamped |-> {},
     history |-> [f \in FindingIds |-> <<>>]]

FindingsInit ==
    /\ ruleGraph \in RuleGraphs
    /\ register = EmptyRegister

-----------------------------------------------------------------------------

\* A fault: what was dismissed is opened again.
SynchronisedOverDecision(status, raised) ==
    CASE raised /\ status # "acknowledged"           -> "open"
      [] ~raised /\ status \in Active               -> "resolved"
      [] OTHER                                       -> status

\* The status a synchronisation gives a finding.
Synchronised(status, raised) ==
    CASE raised /\ status \in {"absent", "resolved"} -> "open"
      [] ~raised /\ status \in Active               -> "resolved"
      [] OTHER                                       -> status

ActionOf(from, to) ==
    CASE from = "absent" -> "created"
      [] to = "open"     -> "reopened"
      [] OTHER           -> "auto_resolved"

Event(action, from, to) == [action |-> action, from |-> from, to |-> to]

\* A fault: a finding that is no longer raised is resolved without an event.
SynchroniseQuietly(reg, raised) ==
    LET new == [f \in FindingIds |-> Synchronised(reg.status[f], f \in raised)]
    IN  [revision |-> reg.revision + 1, status |-> new,
         stamped |-> {f \in FindingIds : new[f] \in {"resolved", "dismissed"}},
         history |-> [f \in FindingIds |->
                        IF new[f] \in {reg.status[f], "resolved"} THEN reg.history[f]
                        ELSE Append(reg.history[f],
                                    Event(ActionOf(reg.status[f], new[f]), reg.status[f], new[f]))]]

\* synchronize: the register after an evaluation that raised the given findings.
Synchronise(reg, raised) ==
    LET new == [f \in FindingIds |-> Synchronised(reg.status[f], f \in raised)]
        old == reg.status
    IN  [revision |-> reg.revision + 1,
         status |-> new,
         stamped |-> {f \in FindingIds :
                        IF new[f] = old[f] THEN f \in reg.stamped ELSE new[f] = "resolved"},
         history |-> [f \in FindingIds |->
                        IF new[f] = old[f] THEN reg.history[f]
                        ELSE Append(reg.history[f],
                                    Event(ActionOf(old[f], new[f]), old[f], new[f]))]]

\* update_status: any status may follow any other.
Changed(reg, f, status) ==
    [revision |-> reg.revision + 1,
     status |-> [reg.status EXCEPT ![f] = status],
     stamped |-> IF status \in {"resolved", "dismissed"} THEN reg.stamped \cup {f}
                 ELSE reg.stamped \ {f},
     history |-> [reg.history EXCEPT
                    ![f] = Append(@, Event("status_changed", reg.status[f], status))]]

-----------------------------------------------------------------------------

\* Another request changes the building graph.
GraphChanges ==
    /\ ruleGraph' \in RuleGraphs \ {ruleGraph}
    /\ UNCHANGED <<load, client, register>>

\* synchronize_findings: the rules are evaluated over the graph as it is now ...
StartSynchronize(c) ==
    /\ client[c] = Idle
    /\ register.revision < load.bound
    /\ Goes(c, [pc |-> "evaluated", raised |-> Incoming(ruleGraph)])
    /\ UNCHANGED <<load, ruleGraph, register>>

\* ... then the register is loaded ...
LoadRegister(c) ==
    /\ client[c].pc = "evaluated"
    /\ Goes(c, [pc |-> "saving", by |-> "rules",
                held |-> Synchronise(register, client[c].raised)])
    /\ UNCHANGED <<load, ruleGraph, register>>

\* PATCH .../findings/{id}: 404 for a finding that is not in the register.
StartChange(c, f, status) ==
    /\ client[c] = Idle
    /\ register.revision < load.bound
    /\ register.status[f] # "absent"
    /\ Goes(c, [pc |-> "saving", by |-> "person", held |-> Changed(register, f, status)])
    /\ UNCHANGED <<load, ruleGraph, register>>

\* save: the copy replaces the document.
SaveRegister(c) ==
    /\ client[c].pc = "saving"
    /\ register' = client[c].held
    /\ Ends(c)
    /\ UNCHANGED <<load, ruleGraph>>

FindingsNext ==
    \/ \E c \in load.clients :
          \/ StartSynchronize(c) \/ LoadRegister(c) \/ SaveRegister(c)
          \/ \E f \in FindingIds, s \in Statuses : StartChange(c, f, s)
    \/ GraphChanges
    \/ Restart /\ UNCHANGED <<load, ruleGraph, register>>

FindingsSpec == RequestsInit /\ FindingsInit /\ [][FindingsNext]_findingVars

-----------------------------------------------------------------------------
(* Properties                                                              *)

Events ==
    [action : {"created", "reopened", "auto_resolved", "status_changed"},
     from : Statuses \cup {"absent"}, to : Statuses]

Registers ==
    [revision : Nat, status : [FindingIds -> Statuses \cup {"absent"}],
     stamped : SUBSET FindingIds,
     history : [FindingIds -> Seq(Events)]]

FindingTrail(reg) ==
    \A f \in FindingIds :
        LET h == reg.history[f]
            n == Len(h)
        IN  /\ reg.status[f] = IF n = 0 THEN "absent" ELSE h[n].to
            /\ \A i \in 1..n : h[i].from = IF i = 1 THEN "absent" ELSE h[i-1].to
            /\ f \in reg.stamped <=> reg.status[f] \in {"resolved", "dismissed"}

\* The trail of a finding is unbroken: it begins with its creation, every event
\* starts where the one before ended, the last one says the status the finding
\* has, and it is stamped as closed exactly while that is a closed one, however
\* synchronisations and people's changes interleave.
\* (FindingService.synchronize, update_status)
TrailIsUnbroken == FindingTrail(register)

\* With one client, an evaluation never undoes what a person decided: a
\* dismissed finding stays dismissed whether it is raised or not, and an
\* acknowledged one is acknowledged until it is no longer raised.
\* (FindingService.synchronize)
DecisionSurvivesRules ==
    [][Alone /\ register'.revision # register.revision
        /\ (\E c \in Clients : client[c].pc = "saving" /\ client[c].by = "rules"
                               /\ client'[c] = Idle)
       => \A f \in FindingIds :
             /\ register.status[f] = "dismissed" => register'.status[f] = "dismissed"
             /\ register.status[f] = "acknowledged" => register'.status[f] # "open"]_findingVars
=============================================================================
