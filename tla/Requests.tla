-------------------------------- MODULE Requests --------------------------------
(***************************************************************************)
(* What the services of the workbench share: clients whose requests load   *)
(* a document, compute and save it, each in a thread of its own, and a     *)
(* server that may be restarted between any two of these steps.  A run     *)
(* chooses in its initial state which service is used, by which clients,   *)
(* whether the server is restarted, how many changes it follows, and, of   *)
(* a service with parts that do not meet, which part ("all" of them).       *)
(***************************************************************************)
EXTENDS Naturals, FiniteSets

CONSTANTS Clients

ASSUME ClientsAssumption == IsFiniteSet(Clients)

VARIABLES
    load,      \* [service, part, clients, restarts, bound]: chosen once
    client     \* client -> what its request holds, or Idle

Idle == [pc |-> "idle"]

RequestsInit ==
    /\ load.clients \subseteq Clients
    /\ client = [c \in Clients |-> Idle]

\* One client, so that no two requests overlap.
Alone == Cardinality(load.clients) <= 1

Steps(service) == load.service = service

\* A request goes on to q.
Goes(c, q) == client' = [client EXCEPT ![c] = q]

\* A request ends, answered or refused.
Ends(c) == Goes(c, Idle)

\* The server process is restarted: every request under way is lost.
Restart ==
    /\ load.restarts
    /\ \E c \in Clients : client[c] # Idle
    /\ client' = [c \in Clients |-> Idle]
=============================================================================
