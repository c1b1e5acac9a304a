----------------------------- MODULE RegisterProofs -----------------------------
(***************************************************************************)
(* The registers of the reasoning rules, of the audits and of the          *)
(* administration, whatever the rules raise, whatever is posted and        *)
(* however many clients are at work at the same time.  A save replaces the *)
(* whole register, so the copies that clients hold have to be as sound as  *)
(* the register they replace.  A file of an audit may be written over and  *)
(* a register be replaced by a copy of an earlier one: neither takes away  *)
(* what another decision rests on, because a graph is judged the same      *)
(* whenever it is judged.  Users, customers and the audit log are proved   *)
(* about for any catalog and any users to begin with.  The aggregate of a  *)
(* project is saved as a whole by every caller in the same way.            *)
(***************************************************************************)
EXTENDS Findings, AuditTrail, Administration, ProjectAggregate, FiniteSetTheorems,
        SequenceTheorems, WellFoundedInduction, TLAPS

-----------------------------------------------------------------------------
(* FINDINGS.  What a client holds, and the inductive invariants            *)

Sound(reg) == reg \in Registers /\ FindingTrail(reg)

\* What a client holds: the findings that were raised, or a copy of the register.
HolderOK(q) ==
    \/ q = Idle
    \/ q.pc = "evaluated"
    \/ q.pc = "saving" /\ Sound(q.held)

\* The inductive invariant: the register is sound and so is every copy of it.
FindingsInv ==
    /\ load.clients \subseteq Clients
    /\ Sound(register)
    /\ DOMAIN client = Clients
    /\ \A c \in Clients : HolderOK(client[c])

\* What a synchronisation may make of the statuses people gave.
KeepsDecisions(old, new) ==
    \A f \in FindingIds : /\ old[f] = "dismissed" => new[f] = "dismissed"
                          /\ old[f] = "acknowledged" => new[f] # "open"

\* The invariant of one client at a time: the copy the rules are about to save was made
\* from the register that is there.
RulesInv ==
    Alone => \A c \in load.clients :
        client[c].pc = "saving" /\ client[c].by = "rules"
        => KeepsDecisions(register.status, client[c].held.status)

-----------------------------------------------------------------------------
(* The trail of one finding                                                *)

\* The events h lead from nothing to the given status.
Leads(h, status) ==
    /\ status = IF Len(h) = 0 THEN "absent" ELSE h[Len(h)].to
    /\ \A i \in 1..Len(h) : h[i].from = IF i = 1 THEN "absent" ELSE h[i-1].to

\* An event that starts where the trail ended continues it.
LEMMA TrailGrows ==
  ASSUME NEW h \in Seq(Events), NEW status, Leads(h, status),
         NEW e \in Events, e.from = status
  PROVE  Append(h, e) \in Seq(Events) /\ Leads(Append(h, e), e.to)
  <1> DEFINE n == Len(h)
             g == Append(h, e)
  <1>1. /\ n \in Nat /\ g \in Seq(Events) /\ Len(g) = n + 1
        /\ \A i \in 1..n : g[i] = h[i]
        /\ g[n + 1] = e
    OBVIOUS
  <1>2. e.to = IF Len(g) = 0 THEN "absent" ELSE g[Len(g)].to
    BY <1>1
  <1>3. ASSUME NEW i \in 1..Len(g)
        PROVE  g[i].from = IF i = 1 THEN "absent" ELSE g[i-1].to
    <2>1. CASE i \in 1..n
      BY <1>1, <2>1 DEF Leads
    <2>2. CASE i = n + 1 /\ n = 0
      BY <1>1, <2>2 DEF Leads
    <2>3. CASE i = n + 1 /\ n # 0
      BY <1>1, <2>3 DEF Leads
    <2> QED
      BY <1>1, <2>1, <2>2, <2>3
  <1> QED
    BY <1>1, <1>2, <1>3 DEF Leads

\* The fields of a register, and what an unbroken trail says of one finding.
LEMMA SoundByFinding ==
  ASSUME NEW reg
  PROVE  Sound(reg) <=>
           /\ reg \in Registers
           /\ \A f \in FindingIds :
                /\ Leads(reg.history[f], reg.status[f])
                /\ f \in reg.stamped <=> reg.status[f] \in {"resolved", "dismissed"}
  BY DEF Sound, FindingTrail, Leads

-----------------------------------------------------------------------------
(* The two operations                                                      *)

\* A synchronisation moves a finding between statuses and leaves no other absent.
LEMMA SynchronisedStatus ==
  ASSUME NEW status \in Statuses \cup {"absent"}, NEW raised \in BOOLEAN
  PROVE  /\ Synchronised(status, raised) \in Statuses \cup {"absent"}
         /\ Synchronised(status, raised) # status => Synchronised(status, raised) \in {"open", "resolved"}
  BY DEF Synchronised, Statuses, Active

\* A synchronised register is sound.
LEMMA SynchroniseSound ==
  ASSUME NEW reg, Sound(reg), NEW raised
  PROVE  Sound(Synchronise(reg, raised))
  <1> DEFINE old == reg.status
             new == [f \in FindingIds |-> Synchronised(old[f], f \in raised)]
             told(f) == Event(ActionOf(old[f], new[f]), old[f], new[f])
             after == Synchronise(reg, raised)
  <1>1. /\ reg \in Registers /\ reg.revision \in Nat
        /\ old \in [FindingIds -> Statuses \cup {"absent"}]
        /\ reg.stamped \subseteq FindingIds
        /\ reg.history \in [FindingIds -> Seq(Events)]
    BY DEF Sound, Registers
  <1>2. \A f \in FindingIds : /\ new[f] \in Statuses \cup {"absent"}
                              /\ new[f] # old[f] => new[f] \in {"open", "resolved"}
    <2> TAKE f \in FindingIds
    <2>1. (f \in raised) \in BOOLEAN /\ old[f] \in Statuses \cup {"absent"}
      BY <1>1
    <2>2. new[f] = Synchronised(old[f], f \in raised)
      OBVIOUS
    <2> QED
      BY <2>1, <2>2, SynchronisedStatus, Zenon
  <1>3. \A f \in FindingIds : Leads(reg.history[f], old[f])
    BY SoundByFinding
  <1>4. \A f \in FindingIds :
           new[f] # old[f] => told(f) \in Events /\ told(f).from = old[f] /\ told(f).to = new[f]
    <2> HIDE DEF new
    <2>1. \A from, to : ActionOf(from, to) \in {"created", "reopened", "auto_resolved"}
      BY DEF ActionOf
    <2> QED
      BY <1>1, <1>2, <2>1 DEF Events, Event
  <1> HIDE DEF told
  <1>5. /\ after.revision = reg.revision + 1
        /\ after.status = new
        /\ after.stamped = {f \in FindingIds : IF new[f] = old[f] THEN f \in reg.stamped
                                               ELSE new[f] = "resolved"}
        /\ after.history = [f \in FindingIds |->
                               IF new[f] = old[f] THEN reg.history[f]
                               ELSE Append(reg.history[f], told(f))]
        /\ after = [revision |-> after.revision, status |-> after.status,
                    stamped |-> after.stamped, history |-> after.history]
    BY DEF Synchronise, told
  <1> HIDE DEF new, after
  <1>6. \A f \in FindingIds :
           after.history[f] \in Seq(Events) /\ Leads(after.history[f], after.status[f])
    <2> TAKE f \in FindingIds
    <2>1. CASE new[f] = old[f]
      BY <1>1, <1>3, <1>5, <2>1
    <2>2. CASE new[f] # old[f]
      BY <1>1, <1>3, <1>4, <1>5, <2>2, TrailGrows
    <2> QED
      BY <2>1, <2>2
  <1>7. \A f \in FindingIds :
           f \in after.stamped <=> after.status[f] \in {"resolved", "dismissed"}
    BY <1>2, <1>5, SoundByFinding
  <1>8. after \in Registers
    <2>1. after.status \in [FindingIds -> Statuses \cup {"absent"}]
      <3>1. new = [f \in FindingIds |-> new[f]]
        BY DEF new
      <3> QED
        BY <1>2, <1>5, <3>1
    <2>2. after.history \in [FindingIds -> Seq(Events)]
      BY <1>5, <1>6
    <2>3. after.stamped \in SUBSET FindingIds /\ after.revision \in Nat
      BY <1>1, <1>5
    <2> QED
      BY <1>5, <2>1, <2>2, <2>3 DEF Registers
  <1> QED
    BY <1>6, <1>7, <1>8, SoundByFinding DEF after

\* A register in which a person gave a finding a status is sound.
LEMMA ChangedSound ==
  ASSUME NEW reg, Sound(reg), NEW f \in FindingIds, NEW status \in Statuses
  PROVE  Sound(Changed(reg, f, status))
  <1> DEFINE after == Changed(reg, f, status)
             e == Event("status_changed", reg.status[f], status)
  <1>1. /\ reg \in Registers /\ reg.revision \in Nat
        /\ reg.status \in [FindingIds -> Statuses \cup {"absent"}]
        /\ reg.stamped \subseteq FindingIds
        /\ reg.history \in [FindingIds -> Seq(Events)]
    BY DEF Sound, Registers
  <1>2. e \in Events /\ e.from = reg.status[f] /\ e.to = status
    BY <1>1 DEF Events, Event
  <1> HIDE DEF e
  <1>3. /\ after.revision = reg.revision + 1
        /\ after.status = [reg.status EXCEPT ![f] = status]
        /\ after.stamped = IF status \in {"resolved", "dismissed"} THEN reg.stamped \cup {f}
                           ELSE reg.stamped \ {f}
        /\ after.history = [reg.history EXCEPT ![f] = Append(reg.history[f], e)]
        /\ after = [revision |-> after.revision, status |-> after.status,
                    stamped |-> after.stamped, history |-> after.history]
    BY DEF Changed, e
  <1> HIDE DEF after
  <1>4. /\ \A g \in FindingIds : Leads(reg.history[g], reg.status[g])
        /\ \A g \in FindingIds :
              g \in reg.stamped <=> reg.status[g] \in {"resolved", "dismissed"}
    BY SoundByFinding
  <1>5. Append(reg.history[f], e) \in Seq(Events) /\ Leads(Append(reg.history[f], e), status)
    BY <1>1, <1>2, <1>4, TrailGrows
  <1>6. \A g \in FindingIds :
           /\ Leads(after.history[g], after.status[g])
           /\ g \in after.stamped <=> after.status[g] \in {"resolved", "dismissed"}
    <2> TAKE g \in FindingIds
    <2>1. CASE g = f
      BY <1>1, <1>3, <1>5, <2>1
    <2>2. CASE g # f
      BY <1>1, <1>3, <1>4, <2>2
    <2> QED
      BY <2>1, <2>2
  <1>7. after \in Registers
    <2>1. after.status \in [FindingIds -> Statuses \cup {"absent"}]
      BY <1>1, <1>3
    <2>2. after.history \in [FindingIds -> Seq(Events)]
      BY <1>1, <1>3, <1>5
    <2>3. after.stamped \in SUBSET FindingIds /\ after.revision \in Nat
      BY <1>1, <1>3
    <2> QED
      BY <1>3, <2>1, <2>2, <2>3 DEF Registers
  <1> QED
    BY <1>6, <1>7, SoundByFinding DEF after

\* The register of a project that has none is sound.
LEMMA EmptySound == Sound(EmptyRegister)
  <1>1. EmptyRegister \in Registers
    BY DEF EmptyRegister, Registers
  <1>2. \A f \in FindingIds :
           /\ EmptyRegister.history[f] = <<>> /\ EmptyRegister.status[f] = "absent"
           /\ EmptyRegister.stamped = {}
    BY DEF EmptyRegister
  <1>3. Leads(<<>>, "absent")
    BY DEF Leads
  <1> QED
    BY <1>1, <1>2, <1>3, SoundByFinding

-----------------------------------------------------------------------------
(* The invariant                                                           *)

\* Nobody holds a copy of the register of a new project.
LEMMA FindingsInvInit == RequestsInit /\ FindingsInit => FindingsInv
  BY EmptySound DEF RequestsInit, FindingsInit, FindingsInv, HolderOK

\* A request of one client that goes on to something well-formed.
LEMMA FindingGoesOK ==
  ASSUME FindingsInv, NEW c \in Clients, NEW q, HolderOK(q), Goes(c, q)
  PROVE  DOMAIN client' = Clients /\ \A d \in Clients : HolderOK(client'[d])
  <1>1. client' = [client EXCEPT ![c] = q]
    BY DEF Goes
  <1>2. \A d \in Clients : client'[d] = IF d = c THEN q ELSE client[d]
    BY <1>1 DEF FindingsInv
  <1>3. DOMAIN client' = Clients
    BY <1>1 DEF FindingsInv
  <1> QED
    BY <1>2, <1>3 DEF FindingsInv

\* A request that ends leaves its client idle.
LEMMA IdleOK == HolderOK(Idle) /\ Idle.pc = "idle"
  BY DEF HolderOK, Idle

\* Every step keeps the register and its copies sound.
LEMMA FindingsInvStep == FindingsInv /\ [FindingsNext]_findingVars => FindingsInv'
  <1> SUFFICES ASSUME FindingsInv, [FindingsNext]_findingVars
               PROVE  FindingsInv'
    OBVIOUS
  <1>1. ASSUME NEW c \in load.clients, StartSynchronize(c)
        PROVE  FindingsInv'
    <2>1. c \in Clients
      BY DEF FindingsInv
    <2>2. HolderOK([pc |-> "evaluated", raised |-> Incoming(ruleGraph)])
      BY DEF HolderOK
    <2>3. DOMAIN client' = Clients /\ \A d \in Clients : HolderOK(client'[d])
      BY <1>1, <2>1, <2>2, FindingGoesOK DEF StartSynchronize
    <2> QED
      BY <1>1, <2>3 DEF FindingsInv, StartSynchronize
  <1>2. ASSUME NEW c \in load.clients, LoadRegister(c)
        PROVE  FindingsInv'
    <2> DEFINE q == [pc |-> "saving", by |-> "rules",
                     held |-> Synchronise(register, client[c].raised)]
    <2>1. c \in Clients
      BY DEF FindingsInv
    <2>2. Sound(Synchronise(register, client[c].raised))
      BY SynchroniseSound DEF FindingsInv
    <2>3. HolderOK(q)
      BY <2>2 DEF HolderOK
    <2>4. Goes(c, q)
      BY <1>2 DEF LoadRegister
    <2>5. DOMAIN client' = Clients /\ \A d \in Clients : HolderOK(client'[d])
      <3> HIDE DEF q
      <3> QED
        BY <2>1, <2>3, <2>4, FindingGoesOK
    <2> QED
      BY <1>2, <2>5 DEF FindingsInv, LoadRegister
  <1>3. ASSUME NEW c \in load.clients, NEW f \in FindingIds, NEW s \in Statuses,
               StartChange(c, f, s)
        PROVE  FindingsInv'
    <2> DEFINE q == [pc |-> "saving", by |-> "person", held |-> Changed(register, f, s)]
    <2>1. c \in Clients
      BY DEF FindingsInv
    <2>2. Sound(Changed(register, f, s))
      BY ChangedSound DEF FindingsInv
    <2>3. HolderOK(q)
      BY <2>2 DEF HolderOK
    <2>4. Goes(c, q)
      BY <1>3 DEF StartChange
    <2>5. DOMAIN client' = Clients /\ \A d \in Clients : HolderOK(client'[d])
      <3> HIDE DEF q
      <3> QED
        BY <2>1, <2>3, <2>4, FindingGoesOK
    <2> QED
      BY <1>3, <2>5 DEF FindingsInv, StartChange
  <1>4. ASSUME NEW c \in load.clients, SaveRegister(c)
        PROVE  FindingsInv'
    <2>1. c \in Clients
      BY DEF FindingsInv
    <2>2. Sound(client[c].held)
      BY <1>4, <2>1, IdleOK DEF FindingsInv, SaveRegister, HolderOK
    <2>3. DOMAIN client' = Clients /\ \A d \in Clients : HolderOK(client'[d])
      BY <1>4, <2>1, IdleOK, FindingGoesOK DEF SaveRegister, Ends
    <2>4. Sound(register')
      BY <1>4, <2>2 DEF SaveRegister
    <2> QED
      BY <1>4, <2>3, <2>4 DEF FindingsInv, SaveRegister
  <1>5. CASE GraphChanges
    BY <1>5 DEF FindingsInv, GraphChanges
  <1>6. CASE Restart /\ UNCHANGED <<load, ruleGraph, register>>
    BY <1>6, IdleOK DEF FindingsInv, Restart
  <1>7. CASE UNCHANGED findingVars
    BY <1>7 DEF FindingsInv, findingVars
  <1> QED
    BY <1>1, <1>2, <1>3, <1>4, <1>5, <1>6, <1>7 DEF FindingsNext

\* However synchronisations and people's changes interleave, the trail of every finding
\* begins with its creation, is unbroken, and ends in the status the finding has.
THEOREM TrailUnbroken == FindingsSpec => []TrailIsUnbroken
  <1>1. FindingsInv => TrailIsUnbroken
    BY DEF FindingsInv, Sound, TrailIsUnbroken
  <1> QED
    BY <1>1, FindingsInvInit, FindingsInvStep, PTL DEF FindingsSpec

-----------------------------------------------------------------------------
(* Decisions                                                               *)

\* One client at most.
LEMMA OneClient ==
  ASSUME load.clients \subseteq Clients, Alone
  PROVE  \A c, d \in load.clients : c = d
  <1>1. IsFiniteSet(load.clients) /\ Cardinality(load.clients) \in Nat
    BY ClientsAssumption, FS_Subset, FS_CardinalityType
  <1>2. CASE Cardinality(load.clients) = 0
    BY <1>1, <1>2, FS_EmptySet
  <1>3. CASE Cardinality(load.clients) = 1
    BY <1>1, <1>3, FS_Singleton
  <1> QED
    BY <1>1, <1>2, <1>3 DEF Alone

\* A synchronisation keeps what people decided.
LEMMA SynchroniseKeepsDecisions ==
  ASSUME NEW reg, NEW raised
  PROVE  KeepsDecisions(reg.status, Synchronise(reg, raised).status)
  <1>1. \A f \in FindingIds : Synchronise(reg, raised).status[f] = Synchronised(reg.status[f], f \in raised)
    BY DEF Synchronise
  <1>2. \A raise \in BOOLEAN : /\ Synchronised("dismissed", raise) = "dismissed"
                               /\ Synchronised("acknowledged", raise) # "open"
    BY DEF Synchronised, Active
  <1>3. \A f \in FindingIds : (f \in raised) \in BOOLEAN
    OBVIOUS
  <1> QED
    BY <1>1, <1>2, <1>3, Zenon DEF KeepsDecisions

\* A step of the only client, after which it is about to save what keeps the decisions,
\* if it saves for the rules.
LEMMA RulesByParts ==
  ASSUME FindingsInv, NEW c \in load.clients, NEW q, Goes(c, q), UNCHANGED load,
         q.pc = "saving" /\ q.by = "rules" => KeepsDecisions(register'.status, q.held.status)
  PROVE  RulesInv'
  <1>1. c \in Clients /\ DOMAIN client = Clients
    BY DEF FindingsInv
  <1>2. client'[c] = q
    BY <1>1 DEF Goes
  <1>3. Alone => \A d \in load.clients : client'[d] = q
    BY <1>2, OneClient DEF FindingsInv
  <1> QED
    BY <1>3 DEF RulesInv, Alone, KeepsDecisions

\* Every step keeps the invariant of one client.
LEMMA RulesInvStep == FindingsInv /\ RulesInv /\ [FindingsNext]_findingVars => RulesInv'
  <1> SUFFICES ASSUME FindingsInv, RulesInv, [FindingsNext]_findingVars
               PROVE  RulesInv'
    OBVIOUS
  <1>1. ASSUME NEW c \in load.clients, StartSynchronize(c)
        PROVE  RulesInv'
    <2>1. Goes(c, [pc |-> "evaluated", raised |-> Incoming(ruleGraph)]) /\ UNCHANGED load
      BY <1>1 DEF StartSynchronize
    <2> QED
      BY <2>1, RulesByParts
  <1>2. ASSUME NEW c \in load.clients, LoadRegister(c)
        PROVE  RulesInv'
    <2> DEFINE q == [pc |-> "saving", by |-> "rules",
                     held |-> Synchronise(register, client[c].raised)]
    <2>1. Goes(c, q) /\ UNCHANGED load /\ register' = register
      BY <1>2 DEF LoadRegister
    <2>2. KeepsDecisions(register'.status, q.held.status)
      BY <2>1, SynchroniseKeepsDecisions
    <2> HIDE DEF q
    <2> QED
      BY <2>1, <2>2, RulesByParts
  <1>3. ASSUME NEW c \in load.clients, NEW f \in FindingIds, NEW s \in Statuses, StartChange(c, f, s)
        PROVE  RulesInv'
    <2>1. Goes(c, [pc |-> "saving", by |-> "person", held |-> Changed(register, f, s)]) /\ UNCHANGED load
      BY <1>3 DEF StartChange
    <2> QED
      BY <2>1, RulesByParts
  <1>4. ASSUME NEW c \in load.clients, SaveRegister(c)
        PROVE  RulesInv'
    BY <1>4, IdleOK, RulesByParts DEF SaveRegister, Ends
  <1>5. CASE GraphChanges \/ UNCHANGED findingVars
    BY <1>5 DEF GraphChanges, findingVars, RulesInv, Alone, KeepsDecisions
  <1>6. CASE Restart /\ UNCHANGED <<load, ruleGraph, register>>
    BY <1>6, IdleOK DEF Restart, RulesInv, FindingsInv, Alone
  <1> QED
    BY <1>1, <1>2, <1>3, <1>4, <1>5, <1>6 DEF FindingsNext

\* Nobody saves at first.
LEMMA RulesInvInit == RequestsInit /\ FindingsInit => RulesInv
  BY IdleOK DEF RequestsInit, RulesInv

\* As long as requests do not overlap, no evaluation undoes what a person decided: what was
\* dismissed stays so, and what was acknowledged is not opened again.
\* (FindingService.synchronize)
THEOREM DecisionsSurvive == FindingsSpec => DecisionSurvivesRules
  <1> DEFINE Survives ==
        Alone /\ register'.revision # register.revision
        /\ (\E c \in Clients : client[c].pc = "saving" /\ client[c].by = "rules" /\ client'[c] = Idle)
        => \A f \in FindingIds :
              /\ register.status[f] = "dismissed" => register'.status[f] = "dismissed"
              /\ register.status[f] = "acknowledged" => register'.status[f] # "open"
  <1>1. FindingsInv /\ RulesInv /\ [FindingsNext]_findingVars => [Survives]_findingVars
    <2> SUFFICES ASSUME FindingsInv, RulesInv, FindingsNext, Alone,
                        register'.revision # register.revision,
                        NEW d \in Clients, client[d].pc = "saving", client[d].by = "rules",
                        client'[d] = Idle
                 PROVE  KeepsDecisions(register.status, register'.status)
      BY DEF KeepsDecisions, findingVars
    <2>1. PICK c \in load.clients : SaveRegister(c)
      BY DEF FindingsNext, StartSynchronize, LoadRegister, StartChange, GraphChanges
    <2>2. c \in Clients /\ DOMAIN client = Clients
      BY DEF FindingsInv
    <2>3. client' = [client EXCEPT ![c] = Idle] /\ register' = client[c].held
      BY <2>1 DEF SaveRegister, Ends, Goes
    <2>4. d = c
      BY <2>2, <2>3, IdleOK
    <2> QED
      BY <2>3, <2>4 DEF RulesInv
  <1> HIDE DEF Survives
  <1>2. FindingsSpec => [][Survives]_findingVars
    BY <1>1, FindingsInvInit, FindingsInvStep, RulesInvInit, RulesInvStep, PTL DEF FindingsSpec
  <1> QED
    BY <1>2 DEF DecisionSurvivesRules, Survives

-----------------------------------------------------------------------------
(* AUDITS.  What the requests say of the graphs, and the invariants        *)

\* A request that judged the n-th graph and found r, written or not.
Judged(q, t, n, r) ==
    \/ q.pc = "judged" /\ q.trail = t /\ q.n = n /\ q.raised = r
    \/ q.pc = "stamped" /\ q.trail = t /\ q.audit.n = n /\ q.audit.raised = r

\* Some audit says that r was raised of the n-th graph.
Said(t, n, r) ==
    \/ \E a \in audits[t] : a.n = n /\ a.raised = r
    \/ \E c \in Clients : Judged(client[c], t, n, r)

\* An audit is of a graph that was, and of the one there is it says what the rules say.
SaidOfGraph ==
    \A t \in Trails : \A n, r :
       Said(t, n, r) => n \in Nat /\ n <= audited.n /\ (n = audited.n => r = Raised(t, audited.graph))

\* No two audits of a graph differ.
SaidOnce == \A t \in Trails : \A n, r, s : Said(t, n, r) /\ Said(t, n, s) => r = s

ReviewsOK(t, set) == \A r \in set : \E a \in audits[t] : a.n = r.audit /\ r.finding \in a.raised

VerificationsOK(t, set) ==
    \A v \in set :
       /\ \E a, b \in audits[t] :
             a.n = v.base /\ b.n = v.target /\ v.finding \in a.raised \ b.raised
       /\ \A w \in set : w.base = v.base /\ w.target = v.target /\ w.finding = v.finding => w = v

\* A request under way works on a trail, and a register it holds is sound.
RequestOK(q) ==
    \/ q = Idle
    \/ q.pc \in {"judged", "stamped"} /\ q.trail \in Trails
    \/ q.pc = "reviewed" /\ q.trail \in Trails /\ ReviewsOK(q.trail, q.held)
    \/ q.pc = "verified" /\ q.trail \in Trails /\ VerificationsOK(q.trail, q.held)

AuditShape ==
    /\ load.clients \subseteq Clients
    /\ audited.n \in Nat
    /\ DOMAIN client = Clients
    /\ DOMAIN audits = Trails /\ DOMAIN reviews = Trails /\ DOMAIN verifications = Trails

\* The inductive invariant.
AuditInv ==
    /\ AuditShape
    /\ SaidOfGraph
    /\ SaidOnce
    /\ \A t \in Trails : ReviewsOK(t, reviews[t]) /\ VerificationsOK(t, verifications[t])
    /\ \A c \in Clients : RequestOK(client[c])

\* Audits are stamped in the order of their graphs, each graph once.
InOrder(set) ==
    \A a, b \in set : /\ a.at \in Nat
                      /\ a.n = b.n => a = b
                      /\ a.n < b.n => a.at < b.at

\* An audit under way is of no older graph than those that are kept, and once it is
\* stamped it is the newest.
IsNewest(q, as, now) ==
    /\ q.pc = "judged" => q.n \in Nat /\ \A a \in as[q.trail] : a.n <= q.n
    /\ q.pc = "stamped" => /\ q.audit.n \in Nat /\ q.audit.at \in Nat /\ q.audit.at <= now
                           /\ \A a \in as[q.trail] : a.n < q.audit.n /\ a.at < q.audit.at

\* The inductive invariant of one client at a time; the registers are finite anyway.
NewestInv ==
    /\ auditClock \in Nat
    /\ \A t \in Trails : IsFiniteSet(verifications[t])
    /\ \A c \in Clients : client[c].pc = "verified" => IsFiniteSet(client[c].held)
    /\ Alone => /\ \A t \in Trails : InOrder(audits[t]) /\ \A a \in audits[t] : a.at <= auditClock
                /\ \A c \in load.clients : IsNewest(client[c], audits, auditClock)

-----------------------------------------------------------------------------
(* What the audits may become                                              *)

\* Every audit is still there, perhaps written anew.
AuditsKept == \A t \in Trails : \A a \in audits[t] : \E b \in audits'[t] : b.n = a.n /\ b.raised = a.raised

\* Nothing is said that was not said, unless it is what the rules say of the graph now.
SaysNothingNew ==
    \A t \in Trails : \A n, r :
       Said(t, n, r)' => Said(t, n, r) \/ (n = audited.n /\ r = Raised(t, audited.graph))

\* Registers that are sound stay so while the audits are kept.
LEMMA KeptSound ==
  ASSUME AuditsKept, NEW t \in Trails, NEW set
  PROVE  /\ ReviewsOK(t, set) => ReviewsOK(t, set)'
         /\ VerificationsOK(t, set) => VerificationsOK(t, set)'
  <1>1. ASSUME ReviewsOK(t, set), NEW r \in set
        PROVE  \E a \in audits'[t] : a.n = r.audit /\ r.finding \in a.raised
    <2>1. PICK a \in audits[t] : a.n = r.audit /\ r.finding \in a.raised
      BY <1>1 DEF ReviewsOK
    <2>2. PICK b \in audits'[t] : b.n = a.n /\ b.raised = a.raised
      BY DEF AuditsKept
    <2> QED
      BY <2>1, <2>2
  <1>2. ASSUME VerificationsOK(t, set), NEW v \in set
        PROVE  \E a, b \in audits'[t] :
                  a.n = v.base /\ b.n = v.target /\ v.finding \in a.raised \ b.raised
    <2>1. PICK a \in audits[t], b \in audits[t] :
             a.n = v.base /\ b.n = v.target /\ v.finding \in a.raised \ b.raised
      BY <1>2 DEF VerificationsOK
    <2>2. PICK x \in audits'[t] : x.n = a.n /\ x.raised = a.raised
      BY DEF AuditsKept
    <2>3. PICK y \in audits'[t] : y.n = b.n /\ y.raised = b.raised
      BY DEF AuditsKept
    <2> QED
      BY <2>1, <2>2, <2>3
  <1> QED
    BY <1>1, <1>2 DEF ReviewsOK, VerificationsOK

\* The invariant is kept by a step that keeps the audits and says nothing new, if it
\* leaves registers and requests sound.
LEMMA InvByParts ==
  ASSUME AuditInv, AuditShape', AuditsKept,
         SaysNothingNew, UNCHANGED audited,
         \A t \in Trails : /\ reviews'[t] = reviews[t] \/ ReviewsOK(t, reviews'[t])
                           /\ verifications'[t] = verifications[t] \/ VerificationsOK(t, verifications'[t]),
         \A c \in Clients : client'[c] = client[c] \/ RequestOK(client'[c])
  PROVE  AuditInv'
  <1>1. SaidOfGraph'
    BY DEF SaysNothingNew, SaidOfGraph, AuditInv, AuditShape
  <1>2. SaidOnce'
    BY DEF SaysNothingNew, SaidOnce, SaidOfGraph, AuditInv
  <1>3. \A t \in Trails : /\ ReviewsOK(t, reviews'[t])
                          /\ VerificationsOK(t, verifications'[t])
    BY DEF AuditInv
  <1>4. \A t \in Trails : \A set : /\ ReviewsOK(t, set) => ReviewsOK(t, set)'
                                   /\ VerificationsOK(t, set) => VerificationsOK(t, set)'
    BY KeptSound
  <1>5. \A t \in Trails : ReviewsOK(t, reviews[t])' /\ VerificationsOK(t, verifications[t])'
    BY <1>3, <1>4 DEF ReviewsOK, VerificationsOK
  <1>6. \A c \in Clients : RequestOK(client'[c])
    BY DEF AuditInv
  <1>7. \A c \in Clients : RequestOK(client[c])'
    <2> TAKE c \in Clients
    <2>1. \A t \in Trails : ReviewsOK(t, client'[c].held) => ReviewsOK(t, client[c].held)'
      BY <1>4 DEF ReviewsOK
    <2>2. \A t \in Trails : VerificationsOK(t, client'[c].held) => VerificationsOK(t, client[c].held)'
      <3> SUFFICES ASSUME NEW t \in Trails, NEW set, set = client'[c].held, VerificationsOK(t, set)
                   PROVE  VerificationsOK(t, client[c].held)'
        OBVIOUS
      <3>1. VerificationsOK(t, set)'
        BY <1>4
      <3> QED
        BY <3>1, Zenon DEF VerificationsOK
    <2>3. CASE client'[c].pc = "reviewed" /\ client'[c].trail \in Trails
                /\ ReviewsOK(client'[c].trail, client'[c].held)
      BY <2>1, <2>3 DEF RequestOK, ReviewsOK
    <2>4. CASE client'[c].pc = "verified" /\ client'[c].trail \in Trails
                /\ VerificationsOK(client'[c].trail, client'[c].held)
      BY <2>2, <2>4 DEF RequestOK, VerificationsOK
    <2>5. CASE client'[c] = Idle \/ (client'[c].pc \in {"judged", "stamped"} /\ client'[c].trail \in Trails)
      BY <2>5 DEF RequestOK
    <2> QED
      BY <1>6, <2>3, <2>4, <2>5 DEF RequestOK
  <1> QED
    BY <1>1, <1>2, <1>5, <1>7 DEF AuditInv

\* What is said by an audit is said of one trail, one graph and one set of findings.
LEMMA GoesSays ==
  ASSUME AuditShape, NEW c \in Clients, NEW q, Goes(c, q), UNCHANGED audits,
         NEW t, NEW n, NEW r
  PROVE  Said(t, n, r)' => Said(t, n, r) \/ Judged(q, t, n, r)
  <1>1. \A d \in Clients : client'[d] = IF d = c THEN q ELSE client[d]
    BY DEF AuditShape, Goes
  <1> QED
    BY <1>1 DEF Said, Judged

\* A request of one client leaves the others as they are.
LEMMA GoesOK ==
  ASSUME AuditShape, NEW c \in Clients, NEW q, Goes(c, q)
  PROVE  /\ DOMAIN client' = Clients
         /\ client'[c] = q
         /\ \A d \in Clients : d # c => client'[d] = client[d]
  BY DEF AuditShape, Goes

\* An idle request says nothing.
LEMMA IdleSays == RequestOK(Idle) /\ Idle.pc = "idle" /\ \A t, n, r : ~Judged(Idle, t, n, r)
  BY DEF RequestOK, Idle, Judged

\* Audits that do not change are kept.
LEMMA UnchangedKept == UNCHANGED audits => AuditsKept
  BY DEF AuditsKept

-----------------------------------------------------------------------------
(* The steps                                                               *)

\* At first there are no audits and nobody works on one.
LEMMA AuditInvInit == RequestsInit /\ AuditInit => AuditInv
  <1> SUFFICES ASSUME RequestsInit, AuditInit
               PROVE  AuditInv
    OBVIOUS
  <1>1. AuditShape
    BY DEF RequestsInit, AuditInit, AuditShape, EmptyTrails
  <1>2. \A t \in Trails : audits[t] = {} /\ reviews[t] = {} /\ verifications[t] = {}
    BY DEF AuditInit, EmptyTrails
  <1>3. \A c \in Clients : client[c] = Idle
    BY DEF RequestsInit
  <1>4. \A t \in Trails : \A n, r : ~Said(t, n, r)
    BY <1>2, <1>3, IdleSays DEF Said
  <1> QED
    BY <1>1, <1>2, <1>3, <1>4, IdleSays
       DEF AuditInv, SaidOfGraph, SaidOnce, ReviewsOK, VerificationsOK

\* An audit begins with the graph there is.
LEMMA StartAuditStep ==
  ASSUME AuditInv, NEW c \in load.clients, NEW t \in Trails, StartAudit(c, t)
  PROVE  AuditInv'
  <1> DEFINE q == [pc |-> "judged", trail |-> t, n |-> audited.n, raised |-> Raised(t, audited.graph)]
  <1>1. c \in Clients /\ AuditShape
    BY DEF AuditInv, AuditShape
  <1>2. Goes(c, q) /\ UNCHANGED <<load, auditDocs>>
    BY DEF StartAudit
  <1>3. RequestOK(q) /\ \A u, n, r : Judged(q, u, n, r) => u = t /\ n = audited.n /\ r = Raised(t, audited.graph)
    BY DEF RequestOK, Judged
  <1> HIDE DEF q
  <1>4. UNCHANGED <<load, audited, audits, reviews, verifications>>
    BY <1>2 DEF auditDocs
  <1>5. SaysNothingNew
    BY <1>1, <1>2, <1>3, <1>4, GoesSays DEF SaysNothingNew
  <1>6. AuditShape' /\ \A d \in Clients : client'[d] = client[d] \/ RequestOK(client'[d])
    BY <1>1, <1>2, <1>3, <1>4, GoesOK DEF AuditShape
  <1> QED
    BY <1>4, <1>5, <1>6, UnchangedKept, InvByParts

\* Stamping an audit leaves what it says.
LEMMA StampAuditStep ==
  ASSUME AuditInv, NEW c \in load.clients, StampAudit(c)
  PROVE  AuditInv'
  <1> DEFINE p == client[c]
             q == [pc |-> "stamped", trail |-> p.trail,
                   audit |-> [n |-> p.n, raised |-> p.raised, at |-> auditClock + 1]]
  <1>1. c \in Clients /\ AuditShape /\ RequestOK(p)
    BY DEF AuditInv, AuditShape
  <1>2. p.pc = "judged" /\ UNCHANGED <<load, audited, audits, reviews, verifications>>
    BY DEF StampAudit
  <1>3. p.trail \in Trails
    BY <1>1, <1>2, IdleSays DEF RequestOK
  <1>4. Goes(c, Idle) \/ Goes(c, q)
    BY DEF StampAudit, Ends
  <1>5. /\ RequestOK(q)
        /\ \A t, n, r : Judged(q, t, n, r) => Judged(p, t, n, r)
    BY <1>2, <1>3 DEF RequestOK, Judged
  <1> HIDE DEF p, q
  <1>6. \A t, n, r : Judged(p, t, n, r) => Said(t, n, r)
    BY <1>1 DEF Said, p
  <1>7. SaysNothingNew
    BY <1>1, <1>2, <1>4, <1>5, <1>6, IdleSays, GoesSays DEF SaysNothingNew
  <1>8. AuditShape' /\ \A d \in Clients : client'[d] = client[d] \/ RequestOK(client'[d])
    BY <1>1, <1>2, <1>4, <1>5, IdleSays, GoesOK DEF AuditShape
  <1> QED
    BY <1>2, <1>7, <1>8, UnchangedKept, InvByParts

\* The audit that is written over says the same.
LEMMA WriteAuditStep ==
  ASSUME AuditInv, NEW c \in load.clients, WriteAudit(c)
  PROVE  AuditInv'
  <1> DEFINE p == client[c]
             u == p.trail
             new == {a \in audits[u] : a.n # p.audit.n} \cup {p.audit}
  <1>1. c \in Clients /\ AuditShape /\ RequestOK(p) /\ SaidOnce
    BY DEF AuditInv, AuditShape
  <1>2. /\ p.pc = "stamped"
        /\ audits' = [audits EXCEPT ![u] = new]
        /\ Goes(c, Idle)
        /\ UNCHANGED <<load, audited, reviews, verifications>>
    BY DEF WriteAudit, Ends
  <1>3. u \in Trails
    BY <1>1, <1>2, IdleSays DEF RequestOK
  <1>4. Said(u, p.audit.n, p.audit.raised)
    BY <1>1, <1>2 DEF Said, Judged
  <1>5. /\ DOMAIN audits' = Trails
        /\ audits'[u] = new
        /\ \A t \in Trails : t # u => audits'[t] = audits[t]
    BY <1>1, <1>2, <1>3 DEF AuditShape
  <1> HIDE DEF u
  <1>6. AuditsKept
    <2> SUFFICES ASSUME NEW t \in Trails, NEW a \in audits[t]
                 PROVE  \E b \in audits'[t] : b.n = a.n /\ b.raised = a.raised
      BY DEF AuditsKept
    <2>1. CASE t # u
      BY <1>5, <2>1
    <2>2. CASE t = u /\ a.n # p.audit.n
      BY <1>5, <2>2
    <2>3. CASE t = u /\ a.n = p.audit.n
      <3>1. Said(u, a.n, a.raised)
        BY <2>3 DEF Said
      <3>2. a.raised = p.audit.raised
        BY <1>1, <1>3, <1>4, <2>3, <3>1 DEF SaidOnce
      <3> QED
        BY <1>5, <2>3, <3>2
    <2> QED
      BY <2>1, <2>2, <2>3
  <1>7. SaysNothingNew
    <2> SUFFICES ASSUME NEW t \in Trails, NEW n, NEW r, Said(t, n, r)'
                 PROVE  Said(t, n, r)
      BY DEF SaysNothingNew
    <2>1. \/ \E a \in audits'[t] : a.n = n /\ a.raised = r
          \/ \E d \in Clients : Judged(client'[d], t, n, r)
      BY DEF Said, Judged
    <2>2. CASE \E d \in Clients : Judged(client'[d], t, n, r)
      <3>1. PICK d \in Clients : Judged(client'[d], t, n, r)
        BY <2>2
      <3>2. client'[d] = client[d]
        BY <1>1, <1>2, <3>1, IdleSays, GoesOK
      <3> QED
        BY <3>1, <3>2 DEF Said
    <2>3. CASE \E a \in audits'[t] : a.n = n /\ a.raised = r
      <3>1. PICK a \in audits'[t] : a.n = n /\ a.raised = r
        BY <2>3
      <3>2. CASE a \in audits[t]
        BY <3>1, <3>2 DEF Said
      <3>3. CASE a \notin audits[t]
        <4>1. t = u /\ a = p.audit
          BY <1>5, <3>1, <3>3
        <4> QED
          BY <1>4, <3>1, <4>1
      <3> QED
        BY <3>2, <3>3
    <2> QED
      BY <2>1, <2>2, <2>3
  <1>8. AuditShape' /\ \A d \in Clients : client'[d] = client[d] \/ RequestOK(client'[d])
    BY <1>1, <1>2, <1>5, IdleSays, GoesOK DEF AuditShape
  <1> QED
    BY <1>2, <1>6, <1>7, <1>8, InvByParts

\* A copy of a register that says nothing of graphs, held by one client.
LEMMA HoldsStep ==
  ASSUME AuditInv, NEW c \in load.clients, NEW q, Goes(c, q), RequestOK(q),
         q.pc \in {"reviewed", "verified"}, UNCHANGED <<load, auditDocs>>
  PROVE  AuditInv'
  <1>1. c \in Clients /\ AuditShape
    BY DEF AuditInv, AuditShape
  <1>2. UNCHANGED <<load, audited, audits, reviews, verifications>>
    BY DEF auditDocs
  <1>3. SaysNothingNew
    <2>1. \A t, n, r : ~Judged(q, t, n, r)
      BY DEF Judged
    <2> QED
      BY <1>1, <1>2, <2>1, GoesSays DEF SaysNothingNew
  <1>4. AuditShape' /\ \A d \in Clients : client'[d] = client[d] \/ RequestOK(client'[d])
    BY <1>1, <1>2, GoesOK DEF AuditShape
  <1> QED
    BY <1>2, <1>3, <1>4, UnchangedKept, InvByParts

\* A review is of a finding that the audit has.
LEMMA StartReviewStep ==
  ASSUME AuditInv, NEW c \in load.clients, NEW t \in Trails, StartReview(c, t)
  PROVE  AuditInv'
  <1>1. PICK a \in audits[t] : \E f \in a.raised :
           Goes(c, [pc |-> "reviewed", trail |-> t,
                    held |-> reviews[t] \cup {[audit |-> a.n, finding |-> f]}])
    BY DEF StartReview
  <1>2. PICK f \in a.raised :
           Goes(c, [pc |-> "reviewed", trail |-> t,
                    held |-> reviews[t] \cup {[audit |-> a.n, finding |-> f]}])
    BY <1>1
  <1> DEFINE q == [pc |-> "reviewed", trail |-> t,
                   held |-> reviews[t] \cup {[audit |-> a.n, finding |-> f]}]
  <1>3. ReviewsOK(t, reviews[t] \cup {[audit |-> a.n, finding |-> f]})
    BY DEF AuditInv, ReviewsOK
  <1>4. RequestOK(q) /\ q.pc = "reviewed" /\ Goes(c, q)
    BY <1>2, <1>3 DEF RequestOK
  <1>5. UNCHANGED <<load, auditDocs>>
    BY DEF StartReview
  <1> HIDE DEF q
  <1> QED
    BY <1>4, <1>5, HoldsStep

\* A verification is of a finding that the earlier audit has and the later has not, and
\* of one that was not verified.
LEMMA StartVerifyStep ==
  ASSUME AuditInv, NEW c \in load.clients, NEW t \in Trails, StartVerify(c, t)
  PROVE  AuditInv'
  <1>1. PICK base \in audits[t], target \in audits[t] : \E f \in base.raised \cup target.raised :
          /\ ~\E v \in verifications[t] : v.base = base.n /\ v.target = target.n /\ v.finding = f
          /\ MayBeVerified(base, target, f)
          /\ \E d \in {"verify_resolved", "reject_resolution"} :
                Goes(c, [pc |-> "verified", trail |-> t,
                         held |-> verifications[t] \cup
                           {[base |-> base.n, target |-> target.n, finding |-> f, decision |-> d]}])
    BY DEF StartVerify
  <1>2. PICK f \in base.raised \cup target.raised :
          /\ ~\E v \in verifications[t] : v.base = base.n /\ v.target = target.n /\ v.finding = f
          /\ MayBeVerified(base, target, f)
          /\ \E d \in {"verify_resolved", "reject_resolution"} :
                Goes(c, [pc |-> "verified", trail |-> t,
                         held |-> verifications[t] \cup
                           {[base |-> base.n, target |-> target.n, finding |-> f, decision |-> d]}])
    BY <1>1
  <1>3. PICK d \in {"verify_resolved", "reject_resolution"} :
          Goes(c, [pc |-> "verified", trail |-> t,
                   held |-> verifications[t] \cup
                     {[base |-> base.n, target |-> target.n, finding |-> f, decision |-> d]}])
    BY <1>2
  <1> DEFINE v == [base |-> base.n, target |-> target.n, finding |-> f, decision |-> d]
             q == [pc |-> "verified", trail |-> t, held |-> verifications[t] \cup {v}]
  <1>4. f \in base.raised \ target.raised
    BY <1>2 DEF MayBeVerified, Lifecycle
  <1>5. /\ v.base = base.n /\ v.target = target.n /\ v.finding = f
        /\ \A w \in verifications[t] :
              ~(w.base = v.base /\ w.target = v.target /\ w.finding = v.finding)
    BY <1>2
  <1> HIDE DEF v
  <1>6. VerificationsOK(t, verifications[t])
    BY DEF AuditInv
  <1>7. VerificationsOK(t, verifications[t] \cup {v})
    <2> SUFFICES ASSUME NEW x \in verifications[t] \cup {v}
                 PROVE  /\ \E a, b \in audits[t] :
                              a.n = x.base /\ b.n = x.target /\ x.finding \in a.raised \ b.raised
                        /\ \A w \in verifications[t] \cup {v} :
                              w.base = x.base /\ w.target = x.target /\ w.finding = x.finding => w = x
      BY DEF VerificationsOK
    <2>1. CASE x = v
      BY <1>4, <1>5, <2>1
    <2>2. CASE x \in verifications[t]
      BY <1>5, <1>6, <2>2 DEF VerificationsOK
    <2> QED
      BY <2>1, <2>2
  <1>8. RequestOK(q) /\ q.pc = "verified"
    BY <1>7 DEF RequestOK
  <1>9. Goes(c, q)
    BY <1>3 DEF v
  <1>10. UNCHANGED <<load, auditDocs>>
    BY DEF StartVerify
  <1> HIDE DEF q
  <1> QED
    BY <1>8, <1>9, <1>10, HoldsStep

\* A copy that replaces the register is sound.
LEMMA SaveReviewsStep ==
  ASSUME AuditInv, NEW c \in load.clients, SaveReviews(c)
  PROVE  AuditInv'
  <1> DEFINE p == client[c]
             u == p.trail
  <1>1. c \in Clients /\ AuditShape /\ RequestOK(p)
    BY DEF AuditInv, AuditShape
  <1>2. /\ p.pc = "reviewed"
        /\ reviews' = [reviews EXCEPT ![u] = p.held]
        /\ Goes(c, Idle)
        /\ UNCHANGED <<load, audited, audits, verifications>>
    BY DEF SaveReviews, Ends
  <1>3. u \in Trails /\ ReviewsOK(u, p.held)
    BY <1>1, <1>2, IdleSays DEF RequestOK
  <1>4. DOMAIN reviews' = Trails /\ \A t \in Trails : reviews'[t] = IF t = u THEN p.held ELSE reviews[t]
    BY <1>1, <1>2 DEF AuditShape
  <1>5. \A t \in Trails : reviews'[t] = reviews[t] \/ ReviewsOK(t, reviews'[t])
    BY <1>3, <1>4
  <1>6. SaysNothingNew
    BY <1>1, <1>2, IdleSays, GoesSays DEF SaysNothingNew
  <1>7. AuditShape' /\ \A d \in Clients : client'[d] = client[d] \/ RequestOK(client'[d])
    BY <1>1, <1>2, <1>4, IdleSays, GoesOK DEF AuditShape
  <1> QED
    BY <1>2, <1>5, <1>6, <1>7, UnchangedKept, InvByParts

\* The same of verifications.
LEMMA SaveVerificationsStep ==
  ASSUME AuditInv, NEW c \in load.clients, SaveVerifications(c)
  PROVE  AuditInv'
  <1> DEFINE p == client[c]
             u == p.trail
  <1>1. c \in Clients /\ AuditShape /\ RequestOK(p)
    BY DEF AuditInv, AuditShape
  <1>2. /\ p.pc = "verified"
        /\ verifications' = [verifications EXCEPT ![u] = p.held]
        /\ Goes(c, Idle)
        /\ UNCHANGED <<load, audited, audits, reviews>>
    BY DEF SaveVerifications, Ends
  <1>3. u \in Trails /\ VerificationsOK(u, p.held)
    BY <1>1, <1>2, IdleSays DEF RequestOK
  <1>4. /\ DOMAIN verifications' = Trails
        /\ \A t \in Trails : verifications'[t] = IF t = u THEN p.held ELSE verifications[t]
    BY <1>1, <1>2 DEF AuditShape
  <1>5. \A t \in Trails : verifications'[t] = verifications[t] \/ VerificationsOK(t, verifications'[t])
    BY <1>3, <1>4
  <1>6. SaysNothingNew
    BY <1>1, <1>2, IdleSays, GoesSays DEF SaysNothingNew
  <1>7. AuditShape' /\ \A d \in Clients : client'[d] = client[d] \/ RequestOK(client'[d])
    BY <1>1, <1>2, <1>4, IdleSays, GoesOK DEF AuditShape
  <1> QED
    BY <1>2, <1>5, <1>6, <1>7, UnchangedKept, InvByParts

\* A new graph is one that no audit is of.
LEMMA GraphChangesStep ==
  ASSUME AuditInv, AuditedGraphChanges
  PROVE  AuditInv'
  <1>1. /\ audited'.n = audited.n + 1
        /\ UNCHANGED <<load, client, audits, reviews, verifications>>
    BY DEF AuditedGraphChanges
  <1>2. AuditShape' /\ AuditShape
    BY <1>1 DEF AuditInv, AuditShape
  <1>3. \A t \in Trails : \A n, r : Said(t, n, r)' <=> Said(t, n, r)
    BY <1>1 DEF Said, Judged
  <1>4. SaidOfGraph' /\ SaidOnce'
    <2>1. SaidOnce'
      BY <1>3 DEF AuditInv, SaidOnce
    <2>2. ASSUME NEW t \in Trails, NEW n, NEW r, Said(t, n, r)
          PROVE  n \in Nat /\ n <= audited'.n /\ n # audited'.n
      <3>1. n \in Nat /\ n <= audited.n /\ audited.n \in Nat
        BY <2>2 DEF AuditInv, SaidOfGraph, AuditShape
      <3> QED
        BY <1>1, <3>1
    <2> QED
      BY <1>3, <2>1, <2>2 DEF SaidOfGraph
  <1>5. \A t \in Trails : ReviewsOK(t, reviews[t])' /\ VerificationsOK(t, verifications[t])'
    BY <1>1 DEF AuditInv, ReviewsOK, VerificationsOK
  <1>6. \A c \in Clients : RequestOK(client[c])'
    BY <1>1 DEF AuditInv, RequestOK, ReviewsOK, VerificationsOK
  <1> QED
    BY <1>2, <1>4, <1>5, <1>6 DEF AuditInv

\* A restart loses the requests and nothing else.
LEMMA RestartStep ==
  ASSUME AuditInv, Restart, UNCHANGED <<load, auditDocs>>
  PROVE  AuditInv'
  <1>1. client' = [c \in Clients |-> Idle] /\ UNCHANGED <<load, audited, audits, reviews, verifications>>
    BY DEF Restart, auditDocs
  <1>2. AuditShape' /\ \A c \in Clients : client'[c] = Idle
    BY <1>1 DEF AuditInv, AuditShape
  <1>3. SaysNothingNew
    BY <1>1, <1>2, IdleSays DEF SaysNothingNew, Said, Judged
  <1> QED
    BY <1>1, <1>2, <1>3, IdleSays, UnchangedKept, InvByParts

\* Every step keeps the invariant.
LEMMA AuditInvStep == AuditInv /\ [AuditNext]_auditVars => AuditInv'
  <1> SUFFICES ASSUME AuditInv, [AuditNext]_auditVars
               PROVE  AuditInv'
    OBVIOUS
  <1>1. "graph" \in Trails /\ "evidence" \in Trails
    BY DEF Trails
  <1>2. ASSUME NEW c \in load.clients, NEW t \in Trails, StartAudit(c, t) \/ StartReview(c, t) \/ StartVerify(c, t)
        PROVE  AuditInv'
    BY <1>2, StartAuditStep, StartReviewStep, StartVerifyStep
  <1>3. ASSUME NEW c \in load.clients, StampAudit(c) \/ WriteAudit(c) \/ SaveReviews(c) \/ SaveVerifications(c)
        PROVE  AuditInv'
    BY <1>3, StampAuditStep, WriteAuditStep, SaveReviewsStep, SaveVerificationsStep
  <1>4. CASE AuditedGraphChanges
    BY <1>4, GraphChangesStep
  <1>5. CASE Restart /\ UNCHANGED <<load, auditDocs>>
    BY <1>5, RestartStep
  <1>6. CASE UNCHANGED auditVars
    <2>1. UNCHANGED <<load, client, audited, audits, reviews, verifications>>
      BY <1>6 DEF auditVars, auditDocs
    <2>2. AuditShape' /\ SaysNothingNew
      BY <2>1 DEF AuditInv, AuditShape, SaysNothingNew, Said, Judged
    <2> QED
      BY <2>1, <2>2, UnchangedKept, InvByParts
  <1> QED
    BY <1>1, <1>2, <1>3, <1>4, <1>5, <1>6
       DEF AuditNext, CreateGraphAuditRun, CreateEvidenceAuditRun, ReviewGraphFinding,
           ReviewEvidenceFinding, VerifyGraphResolution, VerifyEvidenceResolution

\* Whoever writes them, a review is of a finding of an audit that is kept, no finding is
\* verified to be gone that is not, and nothing is verified twice.
THEOREM RegistersSound == AuditSpec => []RegistersAreSound
  <1>1. AuditInv => RegistersAreSound
    BY DEF AuditInv, ReviewsOK, VerificationsOK, RegistersAreSound
  <1> QED
    BY <1>1, AuditInvInit, AuditInvStep, PTL DEF AuditSpec

-----------------------------------------------------------------------------
(* The newest audit                                                        *)

\* An idle request is about no audit.
LEMMA IdleIsNewest == \A as, now : IsNewest(Idle, as, now) /\ Idle.pc # "verified"
  BY DEF IsNewest, Idle

\* A request that ends or holds something of its own, while the audits are as they were.
LEMMA NewestByParts ==
  ASSUME AuditInv, NewestInv, NEW c \in load.clients, NEW q, Goes(c, q),
         UNCHANGED <<load, audits>>, auditClock' \in Nat, auditClock <= auditClock',
         \A t \in Trails : IsFiniteSet(verifications'[t]),
         q.pc = "verified" => IsFiniteSet(q.held),
         Alone => IsNewest(q, audits, auditClock')
  PROVE  NewestInv'
  <1>1. AuditShape /\ c \in Clients
    BY DEF AuditInv, AuditShape
  <1>2. \A d \in Clients : client'[d] = client[d] \/ client'[d] = q
    BY <1>1, GoesOK
  <1>3. \A d \in Clients : client'[d].pc = "verified" => IsFiniteSet(client'[d].held)
    BY <1>2 DEF NewestInv
  <1>4. ASSUME Alone
        PROVE  /\ \A t \in Trails : InOrder(audits[t]) /\ \A a \in audits[t] : a.at <= auditClock'
               /\ \A d \in load.clients : IsNewest(client'[d], audits, auditClock')
    <2>1. \A d \in load.clients : client'[d] = q
      BY <1>1, <1>4, OneClient, GoesOK DEF AuditShape
    <2>2. \A t \in Trails : \A a \in audits[t] : a.at <= auditClock'
      BY <1>4 DEF NewestInv, InOrder
    <2> QED
      BY <1>4, <2>1, <2>2 DEF NewestInv
  <1> QED
    BY <1>3, <1>4 DEF NewestInv, InOrder, IsNewest, Alone

\* An audit is begun of the graph there is, which is not older than those audited.
LEMMA StartAuditIsNewest ==
  ASSUME AuditInv, NewestInv, NEW c \in load.clients, NEW t \in Trails, StartAudit(c, t)
  PROVE  NewestInv'
  <1> DEFINE q == [pc |-> "judged", trail |-> t, n |-> audited.n, raised |-> Raised(t, audited.graph)]
  <1>1. Goes(c, q) /\ UNCHANGED <<load, audited, audits, verifications, auditClock>>
    BY DEF StartAudit, auditDocs
  <1>2. \A a \in audits[t] : Said(t, a.n, a.raised)
    BY DEF Said
  <1>3. \A a \in audits[t] : a.n <= audited.n
    BY <1>2 DEF AuditInv, SaidOfGraph
  <1>4. IsNewest(q, audits, auditClock) /\ q.pc # "verified"
    BY <1>3 DEF IsNewest, AuditInv, AuditShape
  <1> HIDE DEF q
  <1>5. auditClock' = auditClock /\ auditClock \in Nat /\ \A u \in Trails : IsFiniteSet(verifications'[u])
    BY <1>1 DEF NewestInv
  <1> QED
    BY <1>1, <1>4, <1>5, NewestByParts

\* It is stamped later than all of them, unless one of them is of this graph.
LEMMA StampAuditIsNewest ==
  ASSUME AuditInv, NewestInv, NEW c \in load.clients, StampAudit(c)
  PROVE  NewestInv'
  <1> DEFINE p == client[c]
             q == [pc |-> "stamped", trail |-> p.trail,
                   audit |-> [n |-> p.n, raised |-> p.raised, at |-> auditClock + 1]]
  <1>1. /\ p.pc = "judged"
        /\ UNCHANGED <<load, audits, verifications>>
        /\ \A t \in Trails : IsFiniteSet(verifications'[t])
        /\ auditClock \in Nat
    BY DEF StampAudit, NewestInv
  <1>2. CASE HasAudit(p.trail, p.n)
    <2>1. Goes(c, Idle) /\ auditClock' = auditClock
      BY <1>2 DEF StampAudit, Ends
    <2> QED
      BY <1>1, <2>1, IdleIsNewest, NewestByParts
  <1>3. CASE ~HasAudit(p.trail, p.n)
    <2>1. Goes(c, q) /\ auditClock' = auditClock + 1
      BY <1>3 DEF StampAudit
    <2>2. p.trail \in Trails
      <3>1. RequestOK(p)
        BY DEF AuditInv, AuditShape
      <3> QED
        BY <1>1, <3>1, IdleSays DEF RequestOK
    <2>3. ASSUME Alone
          PROVE  IsNewest(q, audits, auditClock')
      <3>1. p.n \in Nat /\ \A a \in audits[p.trail] : a.n <= p.n /\ a.at <= auditClock
        BY <1>1, <2>2, <2>3 DEF NewestInv, IsNewest
      <3>2. \A a \in audits[p.trail] : a.n # p.n
        BY <1>3 DEF HasAudit
      <3>3. \A a \in audits[p.trail] : a.n \in Nat /\ a.at \in Nat
        <4>1. \A a \in audits[p.trail] : Said(p.trail, a.n, a.raised)
          BY DEF Said
        <4> QED
          BY <2>2, <2>3, <4>1 DEF AuditInv, SaidOfGraph, NewestInv, InOrder
      <3>4. \A a \in audits[p.trail] : a.n < p.n /\ a.at < auditClock + 1
        BY <1>1, <3>1, <3>2, <3>3
      <3> QED
        BY <1>1, <2>1, <3>1, <3>4 DEF IsNewest
    <2>4. q.pc # "verified" /\ auditClock' \in Nat /\ auditClock <= auditClock'
      BY <1>1, <2>1
    <2> HIDE DEF q
    <2> QED
      BY <1>1, <2>1, <2>3, <2>4, NewestByParts
  <1> QED
    BY <1>2, <1>3

\* Its file joins the others, the newest of them.
LEMMA WriteAuditIsNewest ==
  ASSUME AuditInv, NewestInv, NEW c \in load.clients, WriteAudit(c)
  PROVE  NewestInv'
  <1> DEFINE p == client[c]
             u == p.trail
             new == {a \in audits[u] : a.n # p.audit.n} \cup {p.audit}
  <1>1. /\ p.pc = "stamped"
        /\ audits' = [audits EXCEPT ![u] = new]
        /\ Goes(c, Idle)
        /\ UNCHANGED <<load, verifications, auditClock>>
    BY DEF WriteAudit, Ends
  <1>2. AuditShape /\ c \in Clients /\ u \in Trails
    <2>1. RequestOK(p) /\ AuditShape /\ c \in Clients
      BY DEF AuditInv, AuditShape
    <2> QED
      BY <1>1, <2>1, IdleSays DEF RequestOK
  <1>3. \A t \in Trails : audits'[t] = IF t = u THEN new ELSE audits[t]
    BY <1>1, <1>2 DEF AuditShape
  <1>4. \A d \in Clients : client'[d] = client[d] \/ client'[d] = Idle
    BY <1>1, <1>2, GoesOK
  <1>5. ASSUME Alone
        PROVE  /\ \A t \in Trails : InOrder(audits'[t]) /\ \A a \in audits'[t] : a.at <= auditClock
               /\ \A d \in load.clients : client'[d] = Idle
    <2>1. /\ InOrder(audits[u]) /\ \A a \in audits[u] : a.at <= auditClock
          /\ p.audit.n \in Nat /\ p.audit.at \in Nat /\ p.audit.at <= auditClock
          /\ \A a \in audits[u] : a.n < p.audit.n /\ a.at < p.audit.at
      BY <1>1, <1>2, <1>5 DEF NewestInv, IsNewest
    <2>2. \A a \in audits[u] : a.n \in Nat
      <3>1. \A a \in audits[u] : Said(u, a.n, a.raised)
        BY DEF Said
      <3> QED
        BY <1>2, <3>1 DEF AuditInv, SaidOfGraph
    <2>3. InOrder(new) /\ \A a \in new : a.at <= auditClock
      BY <2>1, <2>2 DEF InOrder
    <2> HIDE DEF new, u
    <2>4. \A d \in load.clients : client'[d] = Idle
      BY <1>1, <1>2, <1>5, OneClient, GoesOK DEF AuditShape
    <2> QED
      BY <1>3, <1>5, <2>3, <2>4 DEF NewestInv
  <1>6. \A d \in Clients : client'[d].pc = "verified" => IsFiniteSet(client'[d].held)
    BY <1>4, IdleIsNewest DEF NewestInv
  <1> HIDE DEF p, u, new
  <1> QED
    BY <1>1, <1>5, <1>6, IdleIsNewest DEF NewestInv, InOrder, IsNewest, Alone

\* Registers are taken, grown by one, and saved.
LEMMA RegistersNewest ==
  ASSUME AuditInv, NewestInv, NEW c \in load.clients,
         \/ \E t \in Trails : StartReview(c, t) \/ StartVerify(c, t)
         \/ SaveReviews(c) \/ SaveVerifications(c)
  PROVE  NewestInv'
  <1> DEFINE Prepared(q) == /\ q.pc = "verified" => IsFiniteSet(q.held)
                         /\ \A as, now : IsNewest(q, as, now)
  <1>1. ASSUME NEW t \in Trails, StartReview(c, t)
        PROVE  /\ \E q : Goes(c, q) /\ Prepared(q)
               /\ UNCHANGED <<load, audits, verifications, auditClock>>
    <2>1. PICK held : Goes(c, [pc |-> "reviewed", trail |-> t, held |-> held])
      BY <1>1 DEF StartReview
    <2> QED
      BY <1>1, <2>1 DEF StartReview, auditDocs, IsNewest
  <1>2. ASSUME NEW t \in Trails, StartVerify(c, t)
        PROVE  /\ \E q : Goes(c, q) /\ Prepared(q)
               /\ UNCHANGED <<load, audits, verifications, auditClock>>
    <2>1. PICK v : Goes(c, [pc |-> "verified", trail |-> t, held |-> verifications[t] \cup {v}])
      BY <1>2 DEF StartVerify
    <2>2. IsFiniteSet(verifications[t] \cup {v})
      BY FS_AddElement DEF NewestInv
    <2> DEFINE q == [pc |-> "verified", trail |-> t, held |-> verifications[t] \cup {v}]
    <2>3. Goes(c, q) /\ Prepared(q)
      BY <2>1, <2>2 DEF IsNewest
    <2>4. UNCHANGED <<load, audits, verifications, auditClock>>
      BY <1>2 DEF StartVerify, auditDocs
    <2> HIDE DEF q, Prepared
    <2> QED
      BY <2>3, <2>4
  <1>3. CASE SaveReviews(c)
    <2>1. Goes(c, Idle) /\ UNCHANGED <<load, audits, verifications, auditClock>>
      BY <1>3 DEF SaveReviews, Ends
    <2>2. auditClock' \in Nat /\ auditClock <= auditClock' /\ \A t \in Trails : IsFiniteSet(verifications'[t])
      BY <2>1 DEF NewestInv
    <2> QED
      BY <2>1, <2>2, IdleIsNewest, NewestByParts
  <1>4. CASE SaveVerifications(c)
    <2>1. Goes(c, Idle) /\ UNCHANGED <<load, audits, auditClock>>
      BY <1>4 DEF SaveVerifications, Ends
    <2>2. /\ client[c].pc = "verified" /\ c \in Clients
          /\ verifications' = [verifications EXCEPT ![client[c].trail] = client[c].held]
          /\ DOMAIN verifications = Trails
      BY <1>4 DEF SaveVerifications, AuditInv, AuditShape
    <2>3. \A t \in Trails : verifications'[t] = verifications[t] \/ verifications'[t] = client[c].held
      BY <2>2
    <2>4. auditClock' \in Nat /\ auditClock <= auditClock' /\ \A t \in Trails : IsFiniteSet(verifications'[t])
      BY <2>1, <2>2, <2>3 DEF NewestInv
    <2> QED
      BY <2>1, <2>4, IdleIsNewest, NewestByParts
  <1>5. ASSUME NEW q, Goes(c, q), Prepared(q), UNCHANGED <<load, audits, verifications, auditClock>>
        PROVE  NewestInv'
    <2>1. auditClock' \in Nat /\ auditClock <= auditClock' /\ \A t \in Trails : IsFiniteSet(verifications'[t])
      BY <1>5 DEF NewestInv
    <2> QED
      BY <1>5, <2>1, NewestByParts
  <1> QED
    BY <1>1, <1>2, <1>3, <1>4, <1>5

\* Every step keeps the order of the audits.
LEMMA NewestInvStep == AuditInv /\ NewestInv /\ [AuditNext]_auditVars => NewestInv'
  <1> SUFFICES ASSUME AuditInv, NewestInv, [AuditNext]_auditVars
               PROVE  NewestInv'
    OBVIOUS
  <1>1. "graph" \in Trails /\ "evidence" \in Trails
    BY DEF Trails
  <1>2. ASSUME NEW c \in load.clients, NEW t \in Trails, StartAudit(c, t) \/ StartReview(c, t) \/ StartVerify(c, t)
        PROVE  NewestInv'
    BY <1>2, StartAuditIsNewest, RegistersNewest
  <1>3. ASSUME NEW c \in load.clients, StampAudit(c) \/ WriteAudit(c) \/ SaveReviews(c) \/ SaveVerifications(c)
        PROVE  NewestInv'
    BY <1>3, StampAuditIsNewest, WriteAuditIsNewest, RegistersNewest
  <1>4. CASE AuditedGraphChanges \/ UNCHANGED auditVars
    <2>1. UNCHANGED <<load, client, audits, verifications, auditClock>>
      BY <1>4 DEF AuditedGraphChanges, auditVars, auditDocs
    <2> QED
      BY <2>1 DEF NewestInv, InOrder, IsNewest, Alone
  <1>5. CASE Restart /\ UNCHANGED <<load, auditDocs>>
    <2>1. UNCHANGED <<load, audits, verifications, auditClock>> /\ \A c \in Clients : client'[c] = Idle
      BY <1>5 DEF Restart, auditDocs
    <2>2. load.clients \subseteq Clients
      BY DEF AuditInv, AuditShape
    <2> QED
      BY <2>1, <2>2, IdleIsNewest DEF NewestInv, InOrder, IsNewest, Alone
  <1> QED
    BY <1>1, <1>2, <1>3, <1>4, <1>5
       DEF AuditNext, CreateGraphAuditRun, CreateEvidenceAuditRun, ReviewGraphFinding,
           ReviewEvidenceFinding, VerifyGraphResolution, VerifyEvidenceResolution

\* At first there is nothing to put in order.
LEMMA NewestInvInit == RequestsInit /\ AuditInit => NewestInv
  <1> SUFFICES ASSUME RequestsInit, AuditInit
               PROVE  NewestInv
    OBVIOUS
  <1>1. \A t \in Trails : audits[t] = {} /\ verifications[t] = {}
    BY DEF AuditInit, EmptyTrails
  <1>2. auditClock = 0 /\ load.clients \subseteq Clients /\ \A c \in Clients : client[c] = Idle
    BY DEF RequestsInit, AuditInit
  <1> QED
    BY <1>1, <1>2, IdleIsNewest, FS_EmptySet DEF NewestInv, InOrder

\* The audit of the newest graph is the one that was stamped last.
LEMMA NewestIsLatest ==
  ASSUME AuditInv, NewestInv, Alone, NEW t \in Trails,
         NEW a \in audits[t], \A b \in audits[t] : b.n <= a.n
  PROVE  LatestAudit(t) = a
  <1>1. InOrder(audits[t]) /\ \A b \in audits[t] : b.n \in Nat
    <2>1. \A b \in audits[t] : Said(t, b.n, b.raised)
      BY DEF Said
    <2> QED
      BY <2>1 DEF NewestInv, AuditInv, SaidOfGraph
  <1>2. \A b \in audits[t] : b.at <= a.at
    BY <1>1 DEF InOrder
  <1>3. ASSUME NEW b \in audits[t], \A x \in audits[t] : x.at <= b.at
        PROVE  b = a
    BY <1>1, <1>2, <1>3 DEF InOrder
  <1> QED
    BY <1>2, <1>3 DEF LatestAudit

\* What the summary calls reviewed or free of findings.
LEMMA SummarySpeaksOfLatest ==
  ASSUME AssuranceStatus \in {"no_findings_detected", "review_in_progress"},
         NEW t \in Trails, audits[t] # {}, NEW f \in LatestAudit(t).raised
  PROVE  \E r \in reviews[t] : r.audit = LatestAudit(t).n /\ r.finding = f
  <1> DEFINE a == LatestAudit(t)
             reviewed == {r.finding : r \in {x \in reviews[t] : x.audit = a.n}}
  <1>1. DomainStatus(t) # "attention_required"
    BY DEF AssuranceStatus
  <1>2. CASE a.raised \ reviewed # {}
    <2>1. a.raised # {}
      BY <1>2
    <2>2. DomainStatus(t) = "attention_required"
      BY <1>2, <2>1 DEF DomainStatus
    <2> QED
      BY <1>1, <2>2
  <1>3. CASE a.raised \ reviewed = {}
    BY <1>3
  <1> QED
    BY <1>2, <1>3

\* What counts as verified was found in another audit.
LEMMA VerifiedElsewhere ==
  ASSUME AuditInv, NewestInv, Alone, NEW t \in Trails
  PROVE  VerifiedCount(t) <= Cardinality({v \in verifications[t] :
                                \E a \in audits[t] : a.n = v.base /\ a # LatestAudit(t)})
  <1> DEFINE counted == {v \in verifications[t] :
                           v.target = LatestAudit(t).n /\ v.decision = "verify_resolved"}
             found == {v \in verifications[t] :
                           \E a \in audits[t] : a.n = v.base /\ a # LatestAudit(t)}
  <1>1. ASSUME NEW v \in counted
        PROVE  v \in found
    <2>1. PICK a \in audits[t], b \in audits[t] :
             a.n = v.base /\ b.n = v.target /\ v.finding \in a.raised \ b.raised
      BY <1>1 DEF AuditInv, VerificationsOK
    <2>2. a # b /\ b.n = LatestAudit(t).n
      BY <1>1, <2>1
    <2>3. LatestAudit(t) \in audits[t] => LatestAudit(t) = b
      BY <2>2 DEF NewestInv, InOrder
    <2>4. a # LatestAudit(t)
      BY <2>2, <2>3
    <2> QED
      BY <1>1, <2>1, <2>4
  <1>2. IsFiniteSet(found)
    BY FS_Subset DEF NewestInv
  <1>3. counted \subseteq found
    BY <1>1
  <1> HIDE DEF counted, found
  <1>4. Cardinality(counted) <= Cardinality(found)
    BY <1>2, <1>3, FS_Subset
  <1> QED
    BY <1>4 DEF counted, found, VerifiedCount

\* As long as requests do not overlap, the assurance summary says that nothing was found,
\* or that all is reviewed, only of the newest graph that was audited, in both trails, and
\* what it counts as verified was found in another audit.
\* (ProjectAssuranceSummaryBuilder)
THEOREM AssuranceSpeaksOfNewest == AuditSpec => []AssuranceIsOfNewestAudit
  <1>1. AuditInv /\ NewestInv => AssuranceIsOfNewestAudit
    <2> SUFFICES ASSUME AuditInv, NewestInv, Alone
                 PROVE  AssuranceIsOfNewestAudit
      BY DEF AssuranceIsOfNewestAudit
    <2>1. ASSUME AssuranceStatus \in {"no_findings_detected", "review_in_progress"},
                 NEW t \in Trails, NEW a \in audits[t], \A b \in audits[t] : b.n <= a.n,
                 NEW f \in a.raised
          PROVE  \E r \in reviews[t] : r.audit = a.n /\ r.finding = f
      BY <2>1, NewestIsLatest, SummarySpeaksOfLatest
    <2> QED
      BY <2>1, VerifiedElsewhere DEF AssuranceIsOfNewestAudit
  <1> QED
    BY <1>1, AuditInvInit, AuditInvStep, NewestInvInit, NewestInvStep, PTL DEF AuditSpec

-----------------------------------------------------------------------------
(* ADMINISTRATION.  Whoever posts at the same time                         *)

AdminShape ==
    /\ load.clients \subseteq Clients
    /\ DOMAIN client = Clients
    /\ DOMAIN accounts = Customers
    /\ \A k \in Customers : DOMAIN accounts[k] = {"folder", "modules"}
    /\ \E S : events \in Seq(S)

\* A customer has one valid bundle or none, and none without a folder.
AccountOK(account) ==
    /\ \A b, d \in account.modules : BundleIsValid(b) /\ b = d
    /\ ~account.folder => account.modules = {}

HeldBundleOK(q) == q.pc = "write_customer" => q.customer \in Customers /\ BundleIsValid(q.modules)

\* The inductive invariant.
AdminInv ==
    /\ AdminShape
    /\ \A k \in Customers : AccountOK(accounts[k])
    /\ \A c \in Clients : HeldBundleOK(client[c])

-----------------------------------------------------------------------------
(* One request at a time                                                   *)

\* There is an administrator but for the account that is being written.
AnotherRemains(q, us) ==
    q.pc = "write_user" => IsAdmin(q.user) \/ \E u \in us : u.name # q.user.name /\ IsAdmin(u)

RemainsInv ==
    Alone => /\ \E u \in users : IsAdmin(u)
             /\ \A c \in load.clients : AnotherRemains(client[c], users)

\* The document that an event is about.
Document(target, us, as) ==
    IF target[1] = "user" THEN {u \in us : u.name = target[2]} ELSE as[target[2]].modules

TargetOK(target) ==
    \/ \E name : target = <<"user", name>>
    \/ \E k \in Customers : target = <<"customer", k>>

\* Each event of the log starts from what the one before it of its target left, and
\* the last one left what is there.
Chained(log, us, as) ==
    /\ \A i \in 1..Len(log) : TargetOK(log[i].target)
    /\ \A i \in 1..Len(log) :
          (\A j \in 1..Len(log) : j > i => log[j].target # log[i].target)
          => Document(log[i].target, us, as) = {log[i].after}
    /\ \A i, j \in 1..Len(log) :
          /\ j > i /\ log[j].target = log[i].target
          /\ \A m \in 1..Len(log) : m > i /\ m < j => log[m].target # log[i].target
          => log[j].before = {log[i].after}
    /\ \A k \in Customers : as[k].modules # {} => \E i \in 1..Len(log) : log[i].target = <<"customer", k>>

\* What a request is about to write starts from what is there.
StartsFrom(q, us, as) ==
    /\ q.pc = "write_user" => q.before = Document(<<"user", q.user.name>>, us, as)
    /\ q.pc = "write_customer" => q.before = as[q.customer].modules

\* The log, with the event that a request has yet to write, accounts for the documents.
LogInv ==
    Alone /\ ~load.restarts =>
      /\ (\A c \in load.clients : client[c].pc # "audit") => Chained(events, users, accounts)
      /\ \A c \in load.clients :
            /\ client[c].pc = "audit" => Chained(Append(events, client[c].event), users, accounts)
            /\ StartsFrom(client[c], users, accounts)

-----------------------------------------------------------------------------
(* Requests                                                                *)

\* A request of one client leaves the others as they are.
LEMMA GoesTo ==
  ASSUME AdminShape, NEW c \in load.clients, NEW q, Goes(c, q)
  PROVE  /\ DOMAIN client' = Clients
         /\ client'[c] = q
         /\ \A d \in Clients : d # c => client'[d] = client[d]
  BY DEF AdminShape, Goes

\* An idle request writes nothing.
LEMMA IdleWritesNothing == Idle.pc = "idle"
  BY DEF Idle

-----------------------------------------------------------------------------
(* Valid bundles                                                           *)

\* The empty bundle is valid.
LEMMA NothingIsValid == BundleIsValid({})
  BY DEF BundleIsValid

\* The requests of one client, whatever they are.
LEMMA AdminByParts ==
  ASSUME AdminInv, NEW c \in load.clients, NEW q, Goes(c, q), HeldBundleOK(q), UNCHANGED load,
         DOMAIN accounts' = Customers,
         \A k \in Customers : DOMAIN accounts'[k] = {"folder", "modules"} /\ AccountOK(accounts'[k]),
         \E S : events' \in Seq(S)
  PROVE  AdminInv'
  <1>1. /\ DOMAIN client' = Clients
        /\ \A d \in Clients : client'[d] = client[d] \/ client'[d] = q
    BY GoesTo DEF AdminInv
  <1>2. \A d \in Clients : HeldBundleOK(client[d])'
    BY <1>1 DEF AdminInv, HeldBundleOK, BundleIsValid
  <1>3. \A k \in Customers : AccountOK(accounts[k])'
    BY DEF AccountOK, BundleIsValid
  <1> QED
    BY <1>1, <1>2, <1>3 DEF AdminInv, AdminShape

\* Requests that leave accounts and the log as they are.
LEMMA UsersOnlyKeeps ==
  ASSUME AdminInv, NEW c \in load.clients, NEW q, Goes(c, q), HeldBundleOK(q),
         UNCHANGED <<load, accounts, events>>
  PROVE  AdminInv'
  BY AdminByParts DEF AdminInv, AdminShape

\* At first nothing is bought.
LEMMA AdminInvInit == RequestsInit /\ AdminInit => AdminInv
  <1> SUFFICES ASSUME RequestsInit, AdminInit
               PROVE  AdminInv
    OBVIOUS
  <1>1. events \in Seq({})
    BY DEF AdminInit
  <1>2. \A c \in Clients : client[c].pc = "idle"
    BY IdleWritesNothing DEF RequestsInit
  <1> QED
    BY <1>1, <1>2 DEF RequestsInit, AdminInit, AdminInv, AdminShape, AccountOK, HeldBundleOK

\* Every step keeps the invariant.
LEMMA AdminInvStep == AdminInv /\ [AdminNext]_adminVars => AdminInv'
  <1> SUFFICES ASSUME AdminInv, [AdminNext]_adminVars
               PROVE  AdminInv'
    OBVIOUS
  <1>1. ASSUME NEW u \in users, Login(u)
        PROVE  AdminInv'
    BY <1>1 DEF Login, AdminInv, AdminShape, AccountOK, HeldBundleOK, BundleIsValid
  <1>2. ASSUME NEW c \in load.clients, NEW t \in tokens, NEW form \in UserForms,
               StartCreateUser(c, t, form) \/ StartUpdateUser(c, t, form)
        PROVE  AdminInv'
    <2>1. PICK q : Goes(c, q) /\ q.pc # "write_customer" /\ UNCHANGED <<load, accounts, events>>
      BY <1>2 DEF StartCreateUser, StartUpdateUser, adminDocs
    <2> QED
      BY <2>1, UsersOnlyKeeps DEF HeldBundleOK
  <1>3. ASSUME NEW c \in load.clients, CheckUser(c) \/ WriteUser(c)
        PROVE  AdminInv'
    <2>1. \E q : Goes(c, q) /\ q.pc # "write_customer" /\ UNCHANGED <<load, accounts, events>>
      <3>1. CASE CheckUser(c)
        BY <3>1, IdleWritesNothing DEF CheckUser, Ends, adminDocs
      <3>2. CASE WriteUser(c)
        BY <3>2 DEF WriteUser
      <3> QED
        BY <1>3, <3>1, <3>2
    <2>2. PICK q : Goes(c, q) /\ q.pc # "write_customer" /\ UNCHANGED <<load, accounts, events>>
      BY <2>1
    <2> QED
      BY <2>2, UsersOnlyKeeps DEF HeldBundleOK
  <1>4. ASSUME NEW c \in load.clients, NEW t \in tokens, NEW k \in Customers, StartCreateCustomer(c, t, k)
        PROVE  AdminInv'
    <2> DEFINE q == [pc |-> "write_customer", actor |-> t.sub, action |-> "customer.created",
                     customer |-> k, before |-> {}, modules |-> {}]
    <2>1. HeldBundleOK(q)
      BY NothingIsValid DEF HeldBundleOK
    <2>2. Goes(c, q) /\ accounts' = [accounts EXCEPT ![k].folder = TRUE] /\ UNCHANGED <<load, events>>
      BY <1>4 DEF StartCreateCustomer
    <2> HIDE DEF q
    <2>3. /\ DOMAIN accounts' = Customers
          /\ \A j \in Customers : /\ DOMAIN accounts'[j] = {"folder", "modules"}
                                  /\ accounts'[j].modules = accounts[j].modules
                                  /\ ~accounts'[j].folder => ~accounts[j].folder
      BY <2>2 DEF AdminInv, AdminShape
    <2>4. \A j \in Customers : AccountOK(accounts'[j])
      BY <2>3 DEF AdminInv, AccountOK
    <2> QED
      BY <2>1, <2>2, <2>3, <2>4, AdminByParts DEF AdminInv, AdminShape
  <1>5. ASSUME NEW c \in load.clients, NEW t \in tokens, NEW k \in Customers, NEW b \in Bundles,
               StartEntitle(c, t, k, b)
        PROVE  AdminInv'
    <2>1. PICK q : Goes(c, q) /\ q.customer = k /\ q.modules = b /\ UNCHANGED <<load, accounts, events>>
      BY <1>5 DEF StartEntitle, adminDocs
    <2>2. HeldBundleOK(q)
      BY <1>5, <2>1 DEF StartEntitle, HeldBundleOK
    <2> QED
      BY <2>1, <2>2, UsersOnlyKeeps
  <1>6. ASSUME NEW c \in load.clients, WriteCustomer(c)
        PROVE  AdminInv'
    <2> DEFINE p == client[c]
               new == [folder |-> TRUE, modules |-> {p.modules}]
    <2>1. p.customer \in Customers /\ BundleIsValid(p.modules)
      BY <1>6 DEF WriteCustomer, AdminInv, AdminShape, HeldBundleOK
    <2>2. PICK q : Goes(c, q) /\ q.pc = "audit"
      BY <1>6 DEF WriteCustomer
    <2>3. accounts' = [accounts EXCEPT ![p.customer] = new] /\ UNCHANGED <<load, events>>
      BY <1>6 DEF WriteCustomer
    <2>4. AccountOK(new) /\ DOMAIN new = {"folder", "modules"}
      BY <2>1 DEF AccountOK
    <2> HIDE DEF p, new
    <2>5. /\ DOMAIN accounts' = Customers
          /\ \A j \in Customers : DOMAIN accounts'[j] = {"folder", "modules"} /\ AccountOK(accounts'[j])
      BY <2>1, <2>3, <2>4 DEF AdminInv, AdminShape
    <2>6. HeldBundleOK(q)
      BY <2>2 DEF HeldBundleOK
    <2> QED
      BY <2>2, <2>3, <2>5, <2>6, AdminByParts DEF AdminInv, AdminShape
  <1>7. ASSUME NEW c \in load.clients, WriteAuditEvent(c)
        PROVE  AdminInv'
    <2>1. /\ events' = Append(events, client[c].event) /\ Goes(c, Idle) /\ UNCHANGED <<load, accounts>>
      BY <1>7 DEF WriteAuditEvent, Ends
    <2>2. PICK S : events \in Seq(S)
      BY DEF AdminInv, AdminShape
    <2>3. events \in Seq(S \cup {client[c].event})
      BY <2>2, SeqMonotonic
    <2>4. events' \in Seq(S \cup {client[c].event})
      BY <2>1, <2>3
    <2>5. HeldBundleOK(Idle)
      BY IdleWritesNothing DEF HeldBundleOK
    <2> QED
      BY <2>1, <2>4, <2>5, AdminByParts DEF AdminInv, AdminShape
  <1>8. CASE Tick
    BY <1>8 DEF Tick, AdminInv, AdminShape, AccountOK, HeldBundleOK, BundleIsValid
  <1>9. CASE Restart /\ UNCHANGED <<load, adminDocs>>
    BY <1>9, IdleWritesNothing
       DEF Restart, adminDocs, AdminInv, AdminShape, AccountOK, HeldBundleOK, BundleIsValid
  <1>10. CASE UNCHANGED adminVars
    BY <1>10 DEF adminVars, adminDocs, AdminInv, AdminShape, AccountOK, HeldBundleOK, BundleIsValid
  <1> QED
    BY <1>1, <1>2, <1>3, <1>4, <1>5, <1>6, <1>7, <1>8, <1>9, <1>10 DEF AdminNext

\* A customer has what a module requires if it has what requires it.
LEMMA ServedTogether ==
  ASSUME AdminInv, RequirementsAreListed
  PROVE  ServedWithWhatItRequires
  <1> SUFFICES ASSUME NEW k \in Customers, NEW id \in ServedModules(k), NEW m \in Catalog[id].requires
               PROVE  m \in ServedModules(k)
    BY DEF ServedWithWhatItRequires
  <1>1. id \in ActiveIds(k) /\ Catalog[id].requires \subseteq ActiveIds(k)
    BY DEF ServedModules
  <1>2. PICK e \in LogEntries(k) : e.id = m /\ e.active
    BY <1>1 DEF ActiveIds
  <1>3. PICK bundle \in accounts[k].modules : e \in bundle
    BY DEF LogEntries
  <1>4. BundleIsValid(bundle)
    BY DEF AdminInv, AccountOK
  <1>5. Catalog[m].status = "active"
    BY <1>2, <1>3, <1>4 DEF BundleIsValid
  <1>6. id \in DOMAIN Catalog
    <2>1. PICK f \in LogEntries(k) : f.id = id
      BY <1>1 DEF ActiveIds
    <2>2. PICK other \in accounts[k].modules : f \in other
      BY DEF LogEntries
    <2>3. BundleIsValid(other)
      BY DEF AdminInv, AccountOK
    <2> QED
      BY <2>1, <2>2, <2>3 DEF BundleIsValid
  <1>7. Catalog[m].requires \subseteq Catalog[id].requires
    BY <1>6 DEF RequirementsAreListed
  <1> QED
    BY <1>1, <1>5, <1>7 DEF ServedModules

\* Of a catalog whose modules list all that they require, a customer is never served a
\* module while one that it requires is refused, whoever sells what at the same time.
\* (_validate_update, entitlement_guard)
THEOREM ServedWithRequirements ==
  ASSUME RequirementsAreListed
  PROVE  AdminSpec => []ServedWithWhatItRequires
  <1>1. AdminInv => ServedWithWhatItRequires
    BY ServedTogether
  <1> QED
    BY <1>1, AdminInvInit, AdminInvStep, PTL DEF AdminSpec

-----------------------------------------------------------------------------
(* An administrator remains                                                *)

\* Requests that leave the users as they are.
LEMMA RemainsByParts ==
  ASSUME AdminInv, RemainsInv, NEW c \in load.clients, NEW q, Goes(c, q), UNCHANGED <<load, users>>,
         Alone => AnotherRemains(q, users)
  PROVE  RemainsInv'
  <1>1. \A d \in load.clients : client'[d] = client[d] \/ client'[d] = q
    BY GoesTo DEF AdminInv, AdminShape
  <1> QED
    BY <1>1 DEF RemainsInv, AnotherRemains, Alone

\* An administrator of a valid session is one of the users.
LEMMA AdministratorIsUser ==
  ASSUME NEW t, RequireAdmin(t)
  PROVE  \E u \in users : u.name = t.sub /\ IsAdmin(u)
  BY DEF RequireAdmin, Authenticated, SessionUserIsCurrent, LoadUser, IsAdmin

\* Every step leaves an administrator.
LEMMA RemainsInvStep == AdminInv /\ RemainsInv /\ [AdminNext]_adminVars => RemainsInv'
  <1> SUFFICES ASSUME AdminInv, RemainsInv, [AdminNext]_adminVars
               PROVE  RemainsInv'
    OBVIOUS
  <1>1. ASSUME UNCHANGED <<load, users, client>>
        PROVE  RemainsInv'
    BY <1>1 DEF RemainsInv, AnotherRemains, Alone
  <1>2. ASSUME NEW c \in load.clients, NEW q, Goes(c, q), q.pc # "write_user", UNCHANGED <<load, users>>
        PROVE  RemainsInv'
    BY <1>2, RemainsByParts DEF AnotherRemains
  <1>3. ASSUME NEW c \in load.clients, NEW t, NEW form, StartCreateUser(c, t, form)
        PROVE  RemainsInv'
    <2>1. PICK q : Goes(c, q) /\ q.pc = "create" /\ UNCHANGED <<load, users>>
      BY <1>3 DEF StartCreateUser, adminDocs
    <2> QED
      BY <1>2, <2>1
  <1>4. ASSUME NEW c \in load.clients, NEW t, NEW form, StartUpdateUser(c, t, form)
        PROVE  RemainsInv'
    <2>1. PICK q : Goes(c, q) /\ q.pc = "write_user" /\ q.user = form /\ UNCHANGED <<load, users>>
      BY <1>4 DEF StartUpdateUser, adminDocs
    <2>2. PICK u \in users : u.name = t.sub /\ IsAdmin(u)
      BY <1>4, AdministratorIsUser DEF StartUpdateUser
    <2>3. t.sub = form.name => IsAdmin(form)
      BY <1>4 DEF StartUpdateUser, MayUpdate, IsAdmin
    <2>4. AnotherRemains(q, users)
      BY <2>1, <2>2, <2>3 DEF AnotherRemains
    <2> QED
      BY <2>1, <2>4, RemainsByParts
  <1>5. ASSUME NEW c \in load.clients, CheckUser(c)
        PROVE  RemainsInv'
    <2>1. CASE LoadUser(client[c].user.name) # {}
      BY <1>2, <1>5, <2>1, IdleWritesNothing DEF CheckUser, Ends, adminDocs
    <2>2. CASE LoadUser(client[c].user.name) = {}
      <3>1. PICK q : Goes(c, q) /\ q.user = client[c].user /\ UNCHANGED <<load, users>>
        BY <1>5, <2>2 DEF CheckUser, adminDocs
      <3>2. Alone => AnotherRemains(q, users)
        BY <2>2, <3>1 DEF AnotherRemains, RemainsInv, LoadUser
      <3> QED
        BY <3>1, <3>2, RemainsByParts
    <2> QED
      BY <2>1, <2>2
  <1>6. ASSUME NEW c \in load.clients, WriteUser(c)
        PROVE  RemainsInv'
    <2> DEFINE p == client[c]
    <2>1. PICK q : Goes(c, q) /\ q.pc = "audit"
      BY <1>6 DEF WriteUser
    <2>2. /\ p.pc = "write_user" /\ UNCHANGED load
          /\ users' = {u \in users : u.name # p.user.name} \cup {p.user}
      BY <1>6 DEF WriteUser
    <2> SUFFICES ASSUME Alone
                 PROVE  /\ \E u \in users' : IsAdmin(u)
                        /\ \A d \in load.clients : AnotherRemains(client'[d], users')
      BY <2>2 DEF RemainsInv, AnotherRemains, Alone
    <2>3. AnotherRemains(p, users)
      BY DEF RemainsInv
    <2>4. \E u \in users' : IsAdmin(u)
      BY <2>2, <2>3 DEF AnotherRemains
    <2>5. \A d \in load.clients : client'[d] = q
      BY <2>1, GoesTo, OneClient DEF AdminInv, AdminShape
    <2> QED
      BY <2>1, <2>4, <2>5 DEF AnotherRemains
  <1>7. ASSUME NEW c \in load.clients, NEW t, NEW k, NEW b, StartCreateCustomer(c, t, k) \/ StartEntitle(c, t, k, b)
        PROVE  RemainsInv'
    <2>1. \E q : Goes(c, q) /\ q.pc = "write_customer" /\ UNCHANGED <<load, users>>
      BY <1>7 DEF StartCreateCustomer, StartEntitle, adminDocs
    <2> QED
      BY <1>2, <2>1
  <1>8. ASSUME NEW c \in load.clients, WriteCustomer(c) \/ WriteAuditEvent(c)
        PROVE  RemainsInv'
    <2>1. \E q : Goes(c, q) /\ q.pc # "write_user" /\ UNCHANGED <<load, users>>
      <3>1. CASE WriteCustomer(c)
        BY <3>1 DEF WriteCustomer
      <3>2. CASE WriteAuditEvent(c)
        BY <3>2, IdleWritesNothing DEF WriteAuditEvent, Ends
      <3> QED
        BY <1>8, <3>1, <3>2
    <2> QED
      BY <1>2, <2>1
  <1>9. ASSUME NEW u \in users, Login(u)
        PROVE  RemainsInv'
    BY <1>1, <1>9 DEF Login
  <1>10. CASE Restart /\ UNCHANGED <<load, adminDocs>>
    <2>1. UNCHANGED <<load, users>> /\ \A c \in load.clients : client'[c].pc = "idle"
      BY <1>10, IdleWritesNothing DEF Restart, adminDocs, AdminInv, AdminShape
    <2> QED
      BY <2>1 DEF RemainsInv, AnotherRemains, Alone
  <1>11. CASE Tick \/ UNCHANGED adminVars
    BY <1>1, <1>11 DEF Tick, adminVars, adminDocs
  <1> QED
    BY <1>3, <1>4, <1>5, <1>6, <1>7, <1>8, <1>9, <1>10, <1>11 DEF AdminNext

\* The command line leaves an administrator to begin with.
LEMMA RemainsInvInit == RequestsInit /\ AdminInit => RemainsInv
  BY InitialUsersAssumption, IdleWritesNothing DEF RequestsInit, AdminInit, RemainsInv, AnotherRemains

\* As long as requests do not overlap, somebody can always administer the platform,
\* whoever updates or closes which accounts, and wherever the server is restarted.
\* (update_user, _session_user_is_current)
THEOREM AdministratorAlwaysRemains == AdminSpec => []AdministratorRemains
  <1>1. RemainsInv => AdministratorRemains
    BY DEF RemainsInv, AdministratorRemains
  <1>2. AdminInv /\ RemainsInv /\ [AdminNext]_adminVars => AdminInv' /\ RemainsInv'
    BY AdminInvStep, RemainsInvStep
  <1> QED
    BY <1>1, <1>2, AdminInvInit, RemainsInvInit, PTL DEF AdminSpec

-----------------------------------------------------------------------------
(* The log accounts for the documents                                      *)

\* An event about what has just been written continues the log.
LEMMA ChainGrows ==
  ASSUME NEW S, NEW log \in Seq(S), NEW us, NEW as, Chained(log, us, as),
         NEW e, TargetOK(e.target), e.before = Document(e.target, us, as),
         NEW us2, NEW as2, Document(e.target, us2, as2) = {e.after},
         \A target : TargetOK(target) /\ target # e.target =>
                        Document(target, us2, as2) = Document(target, us, as),
         \A k \in Customers : as2[k].modules = as[k].modules \/ e.target = <<"customer", k>>
  PROVE  Chained(Append(log, e), us2, as2)
  <1> DEFINE n == Len(log)
             g == Append(log, e)
  <1>1. log \in Seq(S \cup {e})
    BY SeqMonotonic
  <1>2. /\ n \in Nat /\ Len(g) = n + 1 /\ g[n + 1] = e
        /\ \A i \in 1..n : g[i] = log[i]
    BY <1>1
  <1> HIDE DEF n, g
  <1>3. \A i \in 1..Len(g) : i \in 1..n \/ i = n + 1
    BY <1>2
  <1>4. \A i \in 1..n : i \in 1..Len(g)
    BY <1>2
  <1>5. n + 1 \in 1..Len(g) /\ \A i \in 1..n : n + 1 > i
    BY <1>2
  <1>6. \A i \in 1..Len(g) : TargetOK(g[i].target)
    BY <1>2, <1>3 DEF Chained, n
  <1>7. ASSUME NEW i \in 1..Len(g), \A j \in 1..Len(g) : j > i => g[j].target # g[i].target
        PROVE  Document(g[i].target, us2, as2) = {g[i].after}
    <2>1. CASE i = n + 1
      BY <1>2, <2>1
    <2>2. CASE i \in 1..n
      <3>1. e.target # log[i].target
        BY <1>2, <1>5, <1>7, <2>2
      <3>2. \A j \in 1..n : j > i => log[j].target # log[i].target
        BY <1>2, <1>4, <1>7, <2>2
      <3>3. Document(log[i].target, us, as) = {log[i].after} /\ TargetOK(log[i].target)
        BY <2>2, <3>2 DEF Chained, n
      <3> QED
        BY <1>2, <2>2, <3>1, <3>3
    <2> QED
      BY <1>3, <2>1, <2>2
  <1>8. ASSUME NEW i \in 1..Len(g), NEW j \in 1..Len(g), j > i, g[j].target = g[i].target,
               \A m \in 1..Len(g) : m > i /\ m < j => g[m].target # g[i].target
        PROVE  g[j].before = {g[i].after}
    <2>1. i \in 1..n
      BY <1>2, <1>8
    <2>2. CASE j = n + 1
      <3>1. \A m \in 1..n : m > i => log[m].target # log[i].target
        BY <1>2, <1>4, <1>5, <1>8, <2>1, <2>2
      <3>2. Document(log[i].target, us, as) = {log[i].after}
        BY <2>1, <3>1 DEF Chained, n
      <3> QED
        BY <1>2, <1>8, <2>1, <2>2, <3>2
    <2>3. CASE j \in 1..n
      <3>1. \A m \in 1..n : m > i /\ m < j => log[m].target # log[i].target
        BY <1>2, <1>4, <1>8, <2>1
      <3>2. log[j].target = log[i].target
        BY <1>2, <1>8, <2>1, <2>3
      <3>3. log[j].before = {log[i].after}
        BY <1>8, <2>1, <2>3, <3>1, <3>2 DEF Chained, n
      <3> QED
        BY <1>2, <2>1, <2>3, <3>3
    <2> QED
      BY <1>3, <2>2, <2>3
  <1>9. ASSUME NEW k \in Customers, as2[k].modules # {}
        PROVE  \E i \in 1..Len(g) : g[i].target = <<"customer", k>>
    <2>1. CASE e.target = <<"customer", k>>
      BY <1>2, <1>5, <2>1
    <2>2. CASE as2[k].modules = as[k].modules
      BY <1>2, <1>4, <1>9, <2>2 DEF Chained, n
    <2> QED
      BY <2>1, <2>2
  <1>10. Chained(g, us2, as2)
    BY <1>6, <1>7, <1>8, <1>9, Zenon DEF Chained
  <1> QED
    BY <1>10 DEF g

\* The log is chained while modules and users are what they were.
LEMMA ChainKept ==
  ASSUME NEW log, NEW us, NEW as, Chained(log, us, as), NEW as2,
         \A k \in Customers : as2[k].modules = as[k].modules
  PROVE  Chained(log, us, as2)
  <1>1. \A target : TargetOK(target) => Document(target, us, as2) = Document(target, us, as)
    <2> SUFFICES ASSUME NEW target, TargetOK(target)
                 PROVE  Document(target, us, as2) = Document(target, us, as)
      OBVIOUS
    <2>1. CASE target[1] = "user"
      BY <2>1 DEF Document
    <2>2. CASE target[1] # "user"
      <3>1. PICK k \in Customers : target = <<"customer", k>>
        BY <2>2 DEF TargetOK
      <3>2. target[1] = "customer" /\ target[2] = k
        BY <3>1
      <3> QED
        BY <3>2 DEF Document
    <2> QED
      BY <2>1, <2>2
  <1> QED
    BY <1>1, Zenon DEF Chained

\* The log and the documents after a step.
LEMMA ChainAfter ==
  /\ Chained(events, users, accounts)' <=> Chained(events', users', accounts')
  /\ \A c : Chained(Append(events, client[c].event), users, accounts)'
            <=> Chained(Append(events', client'[c].event), users', accounts')
  /\ \A c : StartsFrom(client[c], users, accounts)' <=> StartsFrom(client'[c], users', accounts')
  <1>1. Chained(events, users, accounts)' <=> Chained(events', users', accounts')
    BY DEF Chained, Document, TargetOK
  <1>2. ASSUME NEW c
        PROVE  Chained(Append(events, client[c].event), users, accounts)'
               <=> Chained(Append(events', client'[c].event), users', accounts')
    BY DEF Chained, Document, TargetOK
  <1>3. ASSUME NEW c
        PROVE  StartsFrom(client[c], users, accounts)' <=> StartsFrom(client'[c], users', accounts')
    BY DEF StartsFrom, Document
  <1> QED
    BY <1>1, <1>2, <1>3

\* A step of the only client, of whose request this is known afterwards.
LEMMA LogByParts ==
  ASSUME AdminInv, NEW c \in load.clients, NEW q, Goes(c, q), UNCHANGED load,
         Alone /\ ~load.restarts =>
            /\ q.pc # "audit" => Chained(events', users', accounts')
            /\ q.pc = "audit" => Chained(Append(events', q.event), users', accounts')
            /\ StartsFrom(q, users', accounts')
  PROVE  LogInv'
  <1> SUFFICES ASSUME Alone, ~load.restarts
               PROVE  /\ (\A d \in load.clients : client'[d].pc # "audit") => Chained(events, users, accounts)'
                      /\ \A d \in load.clients :
                            /\ client'[d].pc = "audit" => Chained(Append(events, client[d].event), users, accounts)'
                            /\ StartsFrom(client[d], users, accounts)'
    BY DEF LogInv, Alone
  <1>1. \A d \in load.clients : client'[d] = q
    BY GoesTo, OneClient DEF AdminInv, AdminShape
  <1> QED
    BY <1>1, ChainAfter

\* What is known of the request of the only client.
LEMMA LogGives ==
  ASSUME AdminInv, LogInv, Alone, ~load.restarts, NEW c \in load.clients
  PROVE  /\ client[c].pc # "audit" => Chained(events, users, accounts)
         /\ client[c].pc = "audit" => Chained(Append(events, client[c].event), users, accounts)
         /\ StartsFrom(client[c], users, accounts)
  <1>1. \A d \in load.clients : client[d] = client[c]
    BY OneClient DEF AdminInv, AdminShape
  <1> QED
    BY <1>1 DEF LogInv

\* Every step leaves a log that accounts for the documents.
LEMMA LogInvStep == AdminInv /\ LogInv /\ [AdminNext]_adminVars => LogInv'
  <1> SUFFICES ASSUME AdminInv, LogInv, [AdminNext]_adminVars
               PROVE  LogInv'
    OBVIOUS
  <1>1. ASSUME UNCHANGED <<load, users, accounts, events, client>>
        PROVE  LogInv'
    BY <1>1, ChainAfter DEF LogInv, Alone
  <1>2. ASSUME NEW c \in load.clients, NEW q, Goes(c, q), client[c].pc # "audit", q.pc # "audit",
               UNCHANGED <<load, users, accounts, events>>, StartsFrom(q, users, accounts)
        PROVE  LogInv'
    BY <1>2, LogByParts, LogGives
  <1>3. ASSUME NEW c \in load.clients, NEW t, NEW form, StartCreateUser(c, t, form)
        PROVE  LogInv'
    <2>1. PICK q : Goes(c, q) /\ q.pc = "create" /\ UNCHANGED <<load, users, accounts, events>>
      BY <1>3 DEF StartCreateUser, adminDocs
    <2>2. client[c].pc # "audit"
      BY <1>3 DEF StartCreateUser, Idle
    <2> QED
      BY <1>2, <2>1, <2>2 DEF StartsFrom
  <1>4. ASSUME NEW c \in load.clients, NEW t, NEW form, StartUpdateUser(c, t, form)
        PROVE  LogInv'
    <2>1. PICK q : /\ Goes(c, q) /\ q.pc = "write_user" /\ q.before = LoadUser(form.name) /\ q.user = form
                   /\ UNCHANGED <<load, users, accounts, events>>
      BY <1>4 DEF StartUpdateUser, adminDocs
    <2>2. client[c].pc # "audit"
      BY <1>4 DEF StartUpdateUser, Idle
    <2>3. StartsFrom(q, users, accounts)
      BY <2>1 DEF StartsFrom, Document, LoadUser
    <2> QED
      BY <1>2, <2>1, <2>2, <2>3
  <1>5. ASSUME NEW c \in load.clients, CheckUser(c)
        PROVE  LogInv'
    <2>1. client[c].pc = "create" /\ UNCHANGED <<load, users, accounts, events>>
      BY <1>5 DEF CheckUser, adminDocs
    <2>2. CASE LoadUser(client[c].user.name) # {}
      BY <1>2, <1>5, <2>1, <2>2, IdleWritesNothing DEF CheckUser, Ends, StartsFrom
    <2>3. CASE LoadUser(client[c].user.name) = {}
      <3>1. PICK q : Goes(c, q) /\ q.pc = "write_user" /\ q.before = {} /\ q.user = client[c].user
        BY <1>5, <2>3 DEF CheckUser
      <3>2. StartsFrom(q, users, accounts)
        BY <2>3, <3>1 DEF StartsFrom, Document, LoadUser
      <3> QED
        BY <1>2, <2>1, <3>1, <3>2
    <2> QED
      BY <2>2, <2>3
  <1>6. ASSUME NEW c \in load.clients, WriteUser(c)
        PROVE  LogInv'
    <2> DEFINE p == client[c]
               e == [actor |-> p.actor, action |-> p.action, target |-> <<"user", p.user.name>>,
                     before |-> p.before, after |-> p.user]
               q == [pc |-> "audit", event |-> e]
    <2>1. /\ p.pc = "write_user" /\ Goes(c, q) /\ UNCHANGED <<load, accounts, events>>
          /\ users' = {u \in users : u.name # p.user.name} \cup {p.user}
      BY <1>6 DEF WriteUser
    <2>2. q.pc = "audit" /\ q.event = e /\ e.target = <<"user", p.user.name>> /\ e.before = p.before
          /\ e.after = p.user
      OBVIOUS
    <2> HIDE DEF p, q, e
    <2>3. TargetOK(e.target)
      BY <2>2 DEF TargetOK
    <2>4. Document(e.target, users', accounts') = {e.after}
      BY <2>1, <2>2 DEF Document
    <2>5. ASSUME NEW target, TargetOK(target), target # e.target
          PROVE  Document(target, users', accounts') = Document(target, users, accounts)
      <3>1. CASE \E name : target = <<"user", name>>
        <4>1. PICK name : target = <<"user", name>>
          BY <3>1
        <4>2. name # p.user.name /\ target[1] = "user" /\ target[2] = name
          BY <2>2, <2>5, <4>1
        <4>3. {u \in users' : u.name = name} = {u \in users : u.name = name}
          BY <2>1, <4>2
        <4> QED
          BY <4>2, <4>3 DEF Document
      <3>2. CASE \E k \in Customers : target = <<"customer", k>>
        BY <2>1, <3>2 DEF Document
      <3> QED
        BY <2>5, <3>1, <3>2 DEF TargetOK
    <2>6. Alone /\ ~load.restarts => Chained(events, users, accounts) /\ e.before = Document(e.target, users, accounts)
      BY <2>1, <2>2, LogGives DEF StartsFrom, p
    <2>7. \E S : events \in Seq(S)
      BY DEF AdminInv, AdminShape
    <2>8. Alone /\ ~load.restarts => Chained(Append(events, e), users', accounts')
      BY <2>1, <2>3, <2>4, <2>5, <2>6, <2>7, ChainGrows
    <2> QED
      BY <2>1, <2>2, <2>8, LogByParts DEF StartsFrom
  <1>7. ASSUME NEW c \in load.clients, NEW t, NEW k \in Customers, StartCreateCustomer(c, t, k)
        PROVE  LogInv'
    <2>1. PICK q : /\ Goes(c, q) /\ q.pc = "write_customer" /\ q.customer = k /\ q.before = {}
                   /\ UNCHANGED <<load, users, events>>
      BY <1>7 DEF StartCreateCustomer
    <2>2. client[c].pc # "audit"
      BY <1>7 DEF StartCreateCustomer, Idle
    <2>3. /\ accounts' = [accounts EXCEPT ![k].folder = TRUE]
          /\ \A j \in Customers : accounts'[j].modules = accounts[j].modules
      BY <1>7 DEF StartCreateCustomer, AdminInv, AdminShape
    <2>4. accounts[k].modules = {}
      BY <1>7 DEF StartCreateCustomer, AdminInv, AccountOK
    <2>5. StartsFrom(q, users', accounts')
      BY <2>1, <2>3, <2>4 DEF StartsFrom
    <2>6. Alone /\ ~load.restarts => Chained(events', users', accounts')
      BY <2>1, <2>2, <2>3, LogGives, ChainKept
    <2> QED
      BY <2>1, <2>5, <2>6, LogByParts
  <1>8. ASSUME NEW c \in load.clients, NEW t, NEW k \in Customers, NEW b, StartEntitle(c, t, k, b)
        PROVE  LogInv'
    <2>1. PICK q : /\ Goes(c, q) /\ q.pc = "write_customer" /\ q.customer = k /\ q.before = accounts[k].modules
                   /\ UNCHANGED <<load, users, accounts, events>>
      BY <1>8 DEF StartEntitle, adminDocs
    <2>2. client[c].pc # "audit"
      BY <1>8 DEF StartEntitle, Idle
    <2> QED
      BY <1>2, <2>1, <2>2 DEF StartsFrom
  <1>9. ASSUME NEW c \in load.clients, WriteCustomer(c)
        PROVE  LogInv'
    <2> DEFINE p == client[c]
               k == p.customer
               new == [folder |-> TRUE, modules |-> {p.modules}]
               e == [actor |-> p.actor, action |-> p.action, target |-> <<"customer", k>>,
                     before |-> p.before, after |-> p.modules]
               q == [pc |-> "audit", event |-> e]
    <2>1. /\ p.pc = "write_customer" /\ Goes(c, q) /\ UNCHANGED <<load, users, events>>
          /\ accounts' = [accounts EXCEPT ![k] = new]
      BY <1>9 DEF WriteCustomer
    <2>2. q.pc = "audit" /\ q.event = e /\ e.target = <<"customer", k>> /\ e.before = p.before
          /\ e.after = p.modules /\ new.modules = {p.modules}
      OBVIOUS
    <2>3. k \in Customers
      BY <2>1 DEF AdminInv, AdminShape, HeldBundleOK
    <2> HIDE DEF p, q, e, k, new
    <2>4. \A j \in Customers : accounts'[j] = IF j = k THEN new ELSE accounts[j]
      BY <2>1, <2>3 DEF AdminInv, AdminShape
    <2>5. TargetOK(e.target)
      BY <2>2, <2>3 DEF TargetOK
    <2>6. Document(e.target, users', accounts') = {e.after}
      BY <2>2, <2>3, <2>4 DEF Document
    <2>7. ASSUME NEW target, TargetOK(target), target # e.target
          PROVE  Document(target, users', accounts') = Document(target, users, accounts)
      <3>1. CASE \E name : target = <<"user", name>>
        BY <2>1, <3>1 DEF Document
      <3>2. CASE \E j \in Customers : target = <<"customer", j>>
        BY <2>2, <2>4, <2>7, <3>2 DEF Document
      <3> QED
        BY <2>7, <3>1, <3>2 DEF TargetOK
    <2>8. Alone /\ ~load.restarts => Chained(events, users, accounts) /\ e.before = Document(e.target, users, accounts)
      BY <2>1, <2>2, <2>3, LogGives DEF StartsFrom, Document, p, k
    <2>9. \A j \in Customers : accounts'[j].modules = accounts[j].modules \/ e.target = <<"customer", j>>
      BY <2>2, <2>4
    <2>10. \E S : events \in Seq(S)
      BY DEF AdminInv, AdminShape
    <2>11. Alone /\ ~load.restarts => Chained(Append(events, e), users', accounts')
      BY <2>5, <2>6, <2>7, <2>8, <2>9, <2>10, ChainGrows
    <2> QED
      BY <2>1, <2>2, <2>11, LogByParts DEF StartsFrom
  <1>10. ASSUME NEW c \in load.clients, WriteAuditEvent(c)
        PROVE  LogInv'
    <2>1. /\ client[c].pc = "audit" /\ Goes(c, Idle)
          /\ events' = Append(events, client[c].event) /\ UNCHANGED <<load, users, accounts>>
      BY <1>10 DEF WriteAuditEvent, Ends
    <2>2. Alone /\ ~load.restarts => Chained(events', users', accounts')
      BY <2>1, LogGives
    <2> QED
      BY <2>1, <2>2, IdleWritesNothing, LogByParts DEF StartsFrom
  <1>11. ASSUME NEW u \in users, Login(u)
        PROVE  LogInv'
    BY <1>1, <1>11 DEF Login
  <1>12. CASE Restart /\ UNCHANGED <<load, adminDocs>>
    BY <1>12 DEF Restart, LogInv
  <1>13. CASE Tick \/ UNCHANGED adminVars
    BY <1>1, <1>13 DEF Tick, adminVars, adminDocs
  <1> QED
    BY <1>3, <1>4, <1>5, <1>6, <1>7, <1>8, <1>9, <1>10, <1>11, <1>12, <1>13 DEF AdminNext

\* At first the log is empty, and nobody has bought anything.
LEMMA LogInvInit == RequestsInit /\ AdminInit => LogInv
  <1> SUFFICES ASSUME RequestsInit, AdminInit
               PROVE  LogInv
    OBVIOUS
  <1>1. Len(events) = 0 /\ \A k \in Customers : accounts[k].modules = {}
    BY DEF AdminInit
  <1>2. \A c \in load.clients : client[c].pc = "idle"
    BY IdleWritesNothing DEF RequestsInit
  <1>3. Chained(events, users, accounts)
    BY <1>1 DEF Chained
  <1> QED
    BY <1>2, <1>3 DEF LogInv, StartsFrom

\* The first of the later events of a target is the next one.
LEMMA HasSmallest ==
  ASSUME NEW T \in SUBSET Nat, T # {}
  PROVE  Min(T) \in T /\ \A y \in T : Min(T) <= y
  <1>1. \E x \in T : \A y \in T : ~(<<y, x>> \in OpToRel(<, Nat))
    BY NatLessThanWellFounded, WFMin, Zenon
  <1>2. PICK x \in T : \A y \in T : ~(y < x)
    BY <1>1 DEF OpToRel
  <1>3. x \in T /\ \A y \in T : x <= y
    BY <1>2
  <1> QED
    BY <1>3 DEF Min

\* What is chained accounts for the documents.
LEMMA ChainAccounts == AdminInv /\ LogInv => LogAccountsForRecords
  <1> SUFFICES ASSUME AdminInv, LogInv, Alone, ~load.restarts, \A c \in load.clients : client[c] = Idle
               PROVE  /\ \A i \in DOMAIN events :
                            LET target == events[i].target
                                later == {j \in DOMAIN events : j > i /\ events[j].target = target}
                                now == IF target[1] = "user" THEN LoadUser(target[2])
                                       ELSE accounts[target[2]].modules
                            IN  IF later = {} THEN now = {events[i].after}
                                ELSE events[Min(later)].before = {events[i].after}
                      /\ \A k \in Customers :
                            accounts[k].modules # {} => \E i \in DOMAIN events : events[i].target = <<"customer", k>>
    BY DEF LogAccountsForRecords
  <1>1. Chained(events, users, accounts)
    BY IdleWritesNothing DEF LogInv
  <1>2. DOMAIN events = 1..Len(events) /\ Len(events) \in Nat
    <2>1. PICK S : events \in Seq(S)
      BY DEF AdminInv, AdminShape
    <2> QED
      BY <2>1
  <1>3. ASSUME NEW i \in DOMAIN events
        PROVE  LET target == events[i].target
                   later == {j \in DOMAIN events : j > i /\ events[j].target = target}
                   now == IF target[1] = "user" THEN LoadUser(target[2])
                          ELSE accounts[target[2]].modules
               IN  IF later = {} THEN now = {events[i].after}
                   ELSE events[Min(later)].before = {events[i].after}
    <2> DEFINE target == events[i].target
               later == {j \in DOMAIN events : j > i /\ events[j].target = target}
               now == IF target[1] = "user" THEN LoadUser(target[2]) ELSE accounts[target[2]].modules
    <2>1. CASE later = {}
      <3>1. now = Document(target, users, accounts)
        BY DEF Document, LoadUser
      <3>2. \A j \in 1..Len(events) : j > i => events[j].target # events[i].target
        BY <1>2, <2>1
      <3>3. Document(events[i].target, users, accounts) = {events[i].after}
        BY <1>1, <1>2, <3>2 DEF Chained
      <3> QED
        BY <2>1, <3>1, <3>3
    <2>2. CASE later # {}
      <3> DEFINE j == Min(later)
      <3>1. later \in SUBSET Nat
        BY <1>2
      <3>2. j \in later /\ \A m \in later : j <= m
        BY <2>2, <3>1, HasSmallest
      <3> HIDE DEF j
      <3>3. j \in 1..Len(events) /\ j > i /\ events[j].target = events[i].target
        BY <1>2, <3>2
      <3>4. \A m \in 1..Len(events) : m > i /\ m < j => events[m].target # events[i].target
        BY <1>2, <3>2, <3>3
      <3>5. events[j].before = {events[i].after}
        BY <1>1, <1>2, <3>3, <3>4 DEF Chained
      <3> QED
        BY <2>2, <3>5 DEF j
    <2> QED
      BY <2>1, <2>2
  <1>4. \A k \in Customers :
           accounts[k].modules # {} => \E i \in DOMAIN events : events[i].target = <<"customer", k>>
    BY <1>1, <1>2 DEF Chained
  <1> QED
    BY <1>3, <1>4

\* As long as requests do not overlap and the server is not restarted, each change in
\* the audit log starts from what the one before it left, and the last one left what is
\* there. (write_audit_event and its callers)
THEOREM LogAccounts == AdminSpec => []LogAccountsForRecords
  <1>1. AdminInv /\ LogInv /\ [AdminNext]_adminVars => AdminInv' /\ LogInv'
    BY AdminInvStep, LogInvStep
  <1> QED
    BY <1>1, ChainAccounts, AdminInvInit, LogInvInit, PTL DEF AdminSpec

-----------------------------------------------------------------------------
(* THE PROJECT AGGREGATE.  Any documents, claims, policies and modules, any *)
(* number of callers and any number of runs                                *)

IsSeq(s) == s \in Seq(Range(s))

IsRun(run) ==
    /\ \E a, b, c : run = [id |-> a, items |-> b, invalidated |-> c]
    /\ run.invalidated \in BOOLEAN

\* A project has these fields, and its runs are a sequence of runs.
Shape(p) ==
    /\ \E s, d, c, q, m, r, i :
          p = [status |-> s, documents |-> d, claims |-> c, policy |-> q,
               modules |-> m, runs |-> r, invalidated |-> i]
    /\ IsSeq(p.runs)
    /\ \A i \in DOMAIN p.runs : IsRun(p.runs[i])

\* Ids tell the claims apart, and what is listed as invalidated is a claim.
Identified(p) ==
    /\ \A e, f \in p.claims : e.id = f.id => e = f
    /\ p.invalidated \subseteq IdsOf(p.claims)

\* A claim that is not invalidated is of the revision its document has.
Fresh(p) ==
    \A e \in p.claims : e.id \notin p.invalidated =>
        e.document \in DOMAIN p.documents /\ p.documents[e.document] = e.revision

\* Of the claims a run used, those the project still has are not invalidated.
Supported(p, run) == \A e \in Used(run) \cap p.claims : e.id \notin p.invalidated

Runnable(p) == p.status \in {"ready", "review_required"}

\* What revisions and the status keep, however claims are replaced.
Disciplined(p) ==
    /\ Runnable(p) => ReadyButForClaims(p)
    /\ \A i \in DOMAIN p.runs : ~p.runs[i].invalidated => Supported(p, p.runs[i])

GoodProject(p) ==
    /\ Shape(p)
    /\ Identified(p)
    /\ Fresh(p)
    /\ Disciplined(p)

\* The inductive invariant.
ProjectInv ==
    /\ DOMAIN hand = Callers /\ DOMAIN started = Callers
    /\ hand = [c \in Callers |-> hand[c]] /\ started = [c \in Callers |-> started[c]]
    /\ \A c \in Callers : GoodProject(hand[c])
    /\ saved # None => GoodProject(saved)
    /\ committed # None => GoodProject(committed)
    /\ \A c \in Callers : started[c] # None =>
          /\ IsRun(started[c])
          /\ ReadyButForClaims(hand[c]) /\ Supported(hand[c], started[c])

-----------------------------------------------------------------------------
(* What the operations do to the fields of a project                       *)

\* The empty sequence is a sequence.
LEMMA EmptyIsSeq == IsSeq(<<>>) /\ DOMAIN <<>> = {}
  BY DEF IsSeq, Range

\* A run more: the sequence keeps what it held.
LEMMA AppendIsSeq ==
  ASSUME NEW s, IsSeq(s), NEW x
  PROVE  /\ IsSeq(Append(s, x))
         /\ \A i \in DOMAIN Append(s, x) :
               (i \in DOMAIN s /\ Append(s, x)[i] = s[i]) \/ Append(s, x)[i] = x
  <1> DEFINE t == Append(s, x)
  <1>1. s \in Seq(Range(s) \cup {x})
    BY DEF IsSeq
  <1>2. /\ Len(s) \in Nat
        /\ Len(t) = Len(s) + 1
        /\ DOMAIN s = 1..Len(s)
        /\ DOMAIN t = 1..(Len(s) + 1)
        /\ \A i \in 1..Len(s) : t[i] = s[i]
        /\ t[Len(s) + 1] = x
        /\ t \in Seq(Range(s) \cup {x})
    BY <1>1
  <1>3. \A i \in 1..Len(t) : t[i] \in Range(t)
    BY <1>2 DEF Range
  <1>4. t \in Seq(Range(t))
    BY <1>2, <1>3
  <1> QED
    BY <1>2, <1>4 DEF IsSeq

\* Invalidating runs changes nothing but the marks, and marks every run that
\* used a claim with one of the ids.
LEMMA InvalidateRuns ==
  ASSUME NEW runs, IsSeq(runs), \A i \in DOMAIN runs : IsRun(runs[i]), NEW ids
  PROVE  LET marked == Invalidate(runs, ids)
         IN  /\ IsSeq(marked)
             /\ DOMAIN marked = DOMAIN runs
             /\ \A i \in DOMAIN runs :
                   /\ IsRun(marked[i])
                   /\ Used(marked[i]) = Used(runs[i])
                   /\ ~marked[i].invalidated =>
                         ~runs[i].invalidated /\ IdsOf(Used(runs[i])) \cap ids = {}
  <1> DEFINE marked == Invalidate(runs, ids)
             Hit(i) == IdsOf(Used(runs[i])) \cap ids # {}
  <1>1. /\ DOMAIN marked = DOMAIN runs
        /\ \A i \in DOMAIN runs :
              marked[i] = [runs[i] EXCEPT !.invalidated = @ \/ Hit(i)]
    BY DEF Invalidate
  <1>2. /\ Len(runs) \in Nat
        /\ DOMAIN runs = 1..Len(runs)
    BY DEF IsSeq
  <1>3. \A i \in DOMAIN runs : marked[i] \in Range(marked)
    BY <1>1 DEF Range
  <1>4. marked = [i \in 1..Len(runs) |-> marked[i]]
    BY <1>2 DEF Invalidate
  <1>5. IsSeq(marked)
    BY <1>2, <1>3, <1>4 DEF IsSeq
  <1>6. ASSUME NEW i \in DOMAIN runs
        PROVE  /\ IsRun(marked[i])
               /\ Used(marked[i]) = Used(runs[i])
               /\ ~marked[i].invalidated =>
                     ~runs[i].invalidated /\ IdsOf(Used(runs[i])) \cap ids = {}
    <2> DEFINE h == Hit(i)
    <2>1. PICK a, b, c : runs[i] = [id |-> a, items |-> b, invalidated |-> c]
      BY <1>6 DEF IsRun
    <2>2. h \in BOOLEAN /\ c \in BOOLEAN
      BY <1>6, <2>1 DEF IsRun
    <2> HIDE DEF h
    <2> DEFINE v == c \/ h
    <2>7. v \in BOOLEAN /\ (~v => ~c /\ ~h)
      BY <2>2
    <2>3. marked[i] = [id |-> a, items |-> b, invalidated |-> v]
      BY <1>1, <1>6, <2>1 DEF h
    <2> HIDE DEF v
    <2>4. IsRun(marked[i])
      <3> HIDE DEF marked
      <3>1. marked[i].invalidated = v
        BY <2>3
      <3>2. \E x, y, z : marked[i] = [id |-> x, items |-> y, invalidated |-> z]
        BY <2>3, Zenon
      <3> QED
        BY <2>7, <3>1, <3>2, Zenon DEF IsRun
    <2>5. Used(marked[i]) = Used(runs[i])
      BY <2>1, <2>3 DEF Used
    <2>6. ~marked[i].invalidated => ~runs[i].invalidated /\ ~h
      BY <2>1, <2>7, <2>3
    <2> QED
      BY <2>4, <2>5, <2>6 DEF h
  <1> QED
    BY <1>1, <1>5, <1>6

\* A project is given by its fields.
LEMMA Fields ==
  ASSUME NEW p, Shape(p)
  PROVE  p = [status |-> p.status, documents |-> p.documents, claims |-> p.claims,
              policy |-> p.policy, modules |-> p.modules, runs |-> p.runs,
              invalidated |-> p.invalidated]
  BY DEF Shape

\* Agree(p, q, names): the projects p and q agree but for the fields named.
Agree(p, q, names) ==
    /\ "status" \in names \/ p.status = q.status
    /\ "documents" \in names \/ p.documents = q.documents
    /\ "claims" \in names \/ p.claims = q.claims
    /\ "policy" \in names \/ p.policy = q.policy
    /\ "modules" \in names \/ p.modules = q.modules
    /\ "runs" \in names \/ p.runs = q.runs
    /\ "invalidated" \in names \/ p.invalidated = q.invalidated

\* A document at a revision.
LEMMA WithDocumentShape ==
  ASSUME NEW p, Shape(p), NEW d, NEW r
  PROVE  LET q == WithDocument(p, d, r)
         IN  /\ Shape(q)
             /\ Agree(p, q, {"documents"})
             /\ DOMAIN q.documents = DOMAIN p.documents \cup {d}
             /\ q.documents[d] = r
             /\ \A e \in DOMAIN p.documents \ {d} : q.documents[e] = p.documents[e]
  <1> DEFINE docs == [e \in DOMAIN p.documents \cup {d} |->
                         IF e = d THEN r ELSE p.documents[e]]
             q == WithDocument(p, d, r)
  <1>1. /\ DOMAIN docs = DOMAIN p.documents \cup {d}
        /\ docs[d] = r
        /\ \A e \in DOMAIN p.documents \ {d} : docs[e] = p.documents[e]
    OBVIOUS
  <1>2. q = [p EXCEPT !.documents = docs]
    BY DEF WithDocument
  <1> HIDE DEF docs, q
  <1>3. q = [status |-> p.status, documents |-> docs, claims |-> p.claims,
             policy |-> p.policy, modules |-> p.modules, runs |-> p.runs,
             invalidated |-> p.invalidated]
    BY <1>2, Fields
  <1>4. Shape(q)
    BY <1>3 DEF Shape
  <1> QED
    BY <1>1, <1>3, <1>4 DEF Agree, q

\* revise_document: the document has the new revision, all its claims are
\* invalidated, and so is every run that used one of them.
LEMMA RevisedShape ==
  ASSUME NEW p, Shape(p), NEW d, NEW r
  PROVE  LET q == Revised(p, d, r)
             old == IdsOf(ClaimsOf(p, d))
         IN  /\ Shape(q)
             /\ Agree(p, q, {"documents", "runs", "invalidated", "status"})
             /\ q.status = "draft"
             /\ DOMAIN q.documents = DOMAIN p.documents \cup {d}
             /\ q.documents[d] = r
             /\ \A e \in DOMAIN p.documents \ {d} : q.documents[e] = p.documents[e]
             /\ q.invalidated = p.invalidated \cup old
             /\ DOMAIN q.runs = DOMAIN p.runs
             /\ \A i \in DOMAIN p.runs :
                   /\ Used(q.runs[i]) = Used(p.runs[i])
                   /\ ~q.runs[i].invalidated =>
                         ~p.runs[i].invalidated /\ IdsOf(Used(p.runs[i])) \cap old = {}
  <1> DEFINE w == WithDocument(p, d, r)
             q == Revised(p, d, r)
             old == IdsOf(ClaimsOf(p, d))
             marked == Invalidate(p.runs, old)
             listed == p.invalidated \cup old
  <1>1. /\ Shape(w)
        /\ Agree(p, w, {"documents"})
        /\ DOMAIN w.documents = DOMAIN p.documents \cup {d}
        /\ w.documents[d] = r
        /\ \A e \in DOMAIN p.documents \ {d} : w.documents[e] = p.documents[e]
    BY WithDocumentShape
  <1>2. /\ IsSeq(marked)
        /\ DOMAIN marked = DOMAIN p.runs
        /\ \A i \in DOMAIN p.runs :
              /\ IsRun(marked[i])
              /\ Used(marked[i]) = Used(p.runs[i])
              /\ ~marked[i].invalidated =>
                    ~p.runs[i].invalidated /\ IdsOf(Used(p.runs[i])) \cap old = {}
    BY InvalidateRuns DEF Shape
  <1>3. w.runs = p.runs /\ w.invalidated = p.invalidated
    BY <1>1 DEF Agree
  <1> HIDE DEF w, old
  <1>4. q = [w EXCEPT !.runs = marked, !.invalidated = listed, !.status = "draft"]
    BY <1>3 DEF Revised, w, old
  <1> HIDE DEF q, marked, listed
  <1>5. q = [status |-> "draft", documents |-> w.documents, claims |-> w.claims,
             policy |-> w.policy, modules |-> w.modules, runs |-> marked,
             invalidated |-> listed]
    <2> DEFINE w1 == [w EXCEPT !.runs = marked]
               w2 == [w1 EXCEPT !.invalidated = listed]
    <2>1. w1 = [status |-> w.status, documents |-> w.documents, claims |-> w.claims,
                policy |-> w.policy, modules |-> w.modules, runs |-> marked,
                invalidated |-> w.invalidated]
      BY <1>1, Fields
    <2> HIDE DEF w1
    <2>2. w2 = [status |-> w.status, documents |-> w.documents, claims |-> w.claims,
                policy |-> w.policy, modules |-> w.modules, runs |-> marked,
                invalidated |-> listed]
      BY <2>1
    <2> HIDE DEF w2
    <2>3. q = [w2 EXCEPT !.status = "draft"]
      BY <1>4 DEF w1, w2
    <2> QED
      BY <2>2, <2>3
  <1>6. Shape(q)
    BY <1>2, <1>5 DEF Shape
  <1>7. Agree(p, q, {"documents", "runs", "invalidated", "status"})
    BY <1>1, <1>5 DEF Agree
  <1>8. q.documents = w.documents /\ q.runs = marked /\ q.status = "draft"
    BY <1>5
  <1>9. q.invalidated = p.invalidated \cup old
    BY <1>5 DEF listed
  <1> QED
    BY <1>1, <1>2, <1>6, <1>7, <1>8, <1>9 DEF q, old

\* One field of a project is set to something that is not its runs.
LEMMA FieldSet ==
  ASSUME NEW p, Shape(p), NEW v
  PROVE  /\ LET q == [p EXCEPT !.status = v]
            IN  Shape(q) /\ q.status = v /\ Agree(p, q, {"status"})
         /\ LET q == [p EXCEPT !.claims = v]
            IN  Shape(q) /\ q.claims = v /\ Agree(p, q, {"claims"})
         /\ LET q == [p EXCEPT !.policy = v]
            IN  Shape(q) /\ q.policy = v /\ Agree(p, q, {"policy"})
         /\ LET q == [p EXCEPT !.modules = v]
            IN  Shape(q) /\ q.modules = v /\ Agree(p, q, {"modules"})
         /\ LET q == [p EXCEPT !.invalidated = v]
            IN  Shape(q) /\ q.invalidated = v /\ Agree(p, q, {"invalidated"})
  <1>1. IsSeq(p.runs) /\ \A i \in DOMAIN p.runs : IsRun(p.runs[i])
    BY DEF Shape
  <1>2. ASSUME NEW q, NEW s, NEW d, NEW c, NEW a, NEW m, NEW i,
               q = [status |-> s, documents |-> d, claims |-> c, policy |-> a,
                    modules |-> m, runs |-> p.runs, invalidated |-> i]
        PROVE  Shape(q)
    BY <1>1, <1>2 DEF Shape
  <1>3. LET q == [p EXCEPT !.status = v]
        IN  Shape(q) /\ q.status = v /\ Agree(p, q, {"status"})
    <2> DEFINE q == [p EXCEPT !.status = v]
    <2>1. q = [status |-> v, documents |-> p.documents, claims |-> p.claims,
               policy |-> p.policy, modules |-> p.modules, runs |-> p.runs, invalidated |-> p.invalidated]
      BY Fields
    <2> HIDE DEF q
    <2>2. Shape(q)
      BY <1>2, <2>1
    <2>3. q.status = v /\ Agree(p, q, {"status"})
      BY <2>1 DEF Agree
    <2> QED
      BY <2>2, <2>3 DEF q
  <1>4. LET q == [p EXCEPT !.claims = v]
        IN  Shape(q) /\ q.claims = v /\ Agree(p, q, {"claims"})
    <2> DEFINE q == [p EXCEPT !.claims = v]
    <2>1. q = [status |-> p.status, documents |-> p.documents, claims |-> v,
               policy |-> p.policy, modules |-> p.modules, runs |-> p.runs, invalidated |-> p.invalidated]
      BY Fields
    <2> HIDE DEF q
    <2>2. Shape(q)
      BY <1>2, <2>1
    <2>3. q.claims = v /\ Agree(p, q, {"claims"})
      BY <2>1 DEF Agree
    <2> QED
      BY <2>2, <2>3 DEF q
  <1>5. LET q == [p EXCEPT !.policy = v]
        IN  Shape(q) /\ q.policy = v /\ Agree(p, q, {"policy"})
    <2> DEFINE q == [p EXCEPT !.policy = v]
    <2>1. q = [status |-> p.status, documents |-> p.documents, claims |-> p.claims,
               policy |-> v, modules |-> p.modules, runs |-> p.runs, invalidated |-> p.invalidated]
      BY Fields
    <2> HIDE DEF q
    <2>2. Shape(q)
      BY <1>2, <2>1
    <2>3. q.policy = v /\ Agree(p, q, {"policy"})
      BY <2>1 DEF Agree
    <2> QED
      BY <2>2, <2>3 DEF q
  <1>6. LET q == [p EXCEPT !.modules = v]
        IN  Shape(q) /\ q.modules = v /\ Agree(p, q, {"modules"})
    <2> DEFINE q == [p EXCEPT !.modules = v]
    <2>1. q = [status |-> p.status, documents |-> p.documents, claims |-> p.claims,
               policy |-> p.policy, modules |-> v, runs |-> p.runs, invalidated |-> p.invalidated]
      BY Fields
    <2> HIDE DEF q
    <2>2. Shape(q)
      BY <1>2, <2>1
    <2>3. q.modules = v /\ Agree(p, q, {"modules"})
      BY <2>1 DEF Agree
    <2> QED
      BY <2>2, <2>3 DEF q
  <1>7. LET q == [p EXCEPT !.invalidated = v]
        IN  Shape(q) /\ q.invalidated = v /\ Agree(p, q, {"invalidated"})
    <2> DEFINE q == [p EXCEPT !.invalidated = v]
    <2>1. q = [status |-> p.status, documents |-> p.documents, claims |-> p.claims,
               policy |-> p.policy, modules |-> p.modules, runs |-> p.runs, invalidated |-> v]
      BY Fields
    <2> HIDE DEF q
    <2>2. Shape(q)
      BY <1>2, <2>1
    <2>3. q.invalidated = v /\ Agree(p, q, {"invalidated"})
      BY <2>1 DEF Agree
    <2> QED
      BY <2>2, <2>3 DEF q
  <1> QED
    BY <1>3, <1>4, <1>5, <1>6, <1>7

\* replace_claims_for_document, before the new claims are added.
LEMMA WithoutClaimsShape ==
  ASSUME NEW p, Shape(p), NEW d
  PROVE  LET q == WithoutClaimsOf(p, d)
         IN  /\ Shape(q)
             /\ Agree(p, q, {"claims", "invalidated"})
             /\ q.claims = p.claims \ ClaimsOf(p, d)
             /\ q.invalidated = p.invalidated \ IdsOf(ClaimsOf(p, d))
  <1> DEFINE rest == p.claims \ ClaimsOf(p, d)
             listed == p.invalidated \ IdsOf(ClaimsOf(p, d))
             w == [p EXCEPT !.claims = rest]
             q == WithoutClaimsOf(p, d)
  <1>1. Shape(w) /\ w.claims = rest /\ Agree(p, w, {"claims"})
    BY FieldSet
  <1>2. q = [w EXCEPT !.invalidated = listed]
    BY DEF WithoutClaimsOf
  <1> HIDE DEF w, q, rest, listed
  <1>3. Shape(q) /\ q.invalidated = listed /\ Agree(w, q, {"invalidated"})
    BY <1>1, <1>2, FieldSet
  <1> QED
    BY <1>1, <1>3 DEF Agree, q, rest, listed

\* A run is added and the status follows from it.
LEMMA ExecutedShape ==
  ASSUME NEW p, Shape(p), NEW run, IsRun(run)
  PROVE  LET q == Executed(p, run)
         IN  /\ Shape(q)
             /\ Agree(p, q, {"status", "runs"})
             /\ \A i \in DOMAIN q.runs :
                   (i \in DOMAIN p.runs /\ q.runs[i] = p.runs[i]) \/ q.runs[i] = run
  <1> DEFINE status == RunStatus(run)
             runs == Append(p.runs, run)
             w == [p EXCEPT !.status = status]
             q == Executed(p, run)
  <1>1. Shape(w) /\ Agree(p, w, {"status"})
    BY FieldSet
  <1>2. q = [w EXCEPT !.runs = runs]
    BY DEF Executed
  <1>3. /\ IsSeq(runs)
        /\ \A i \in DOMAIN runs :
              (i \in DOMAIN p.runs /\ runs[i] = p.runs[i]) \/ runs[i] = run
    BY AppendIsSeq DEF Shape
  <1>4. \A i \in DOMAIN runs : IsRun(runs[i])
    BY <1>3 DEF Shape
  <1> HIDE DEF w, q, runs
  <1>5. q = [status |-> w.status, documents |-> w.documents, claims |-> w.claims,
             policy |-> w.policy, modules |-> w.modules, runs |-> runs,
             invalidated |-> w.invalidated]
    BY <1>1, <1>2, Fields
  <1>6. Shape(q)
    BY <1>3, <1>4, <1>5 DEF Shape
  <1>7. Agree(p, q, {"status", "runs"}) /\ q.runs = runs
    BY <1>1, <1>5 DEF Agree
  <1> QED
    BY <1>3, <1>6, <1>7 DEF q

\* The JSON repository keeps everything but the runs.
LEMMA SavedShape ==
  ASSUME NEW p, Shape(p)
  PROVE  LET q == [p EXCEPT !.runs = <<>>]
         IN  Shape(q) /\ Agree(p, q, {"runs"}) /\ DOMAIN q.runs = {}
  <1> DEFINE q == [p EXCEPT !.runs = <<>>]
  <1>1. q = [status |-> p.status, documents |-> p.documents, claims |-> p.claims,
             policy |-> p.policy, modules |-> p.modules, runs |-> <<>>,
             invalidated |-> p.invalidated]
    BY Fields
  <1> HIDE DEF q
  <1>2. Shape(q)
    BY <1>1, EmptyIsSeq DEF Shape
  <1>3. Agree(p, q, {"runs"}) /\ q.runs = <<>>
    BY <1>1 DEF Agree
  <1> QED
    BY <1>2, <1>3, EmptyIsSeq DEF q

-----------------------------------------------------------------------------
(* Every operation takes a good project to a good project                  *)

\* A project that has just been created.
LEMMA NewIsGood == GoodProject(NewProject)
  <1>1. /\ NewProject.runs = <<>> /\ NewProject.claims = {}
        /\ NewProject.invalidated = {} /\ NewProject.status = "draft"
    BY DEF NewProject
  <1>2. Shape(NewProject)
    BY <1>1, EmptyIsSeq DEF Shape, NewProject
  <1>3. Identified(NewProject) /\ Fresh(NewProject)
    BY <1>1 DEF Identified, Fresh
  <1>4. Disciplined(NewProject)
    BY <1>1, EmptyIsSeq DEF Disciplined, Runnable
  <1> QED
    BY <1>2, <1>3, <1>4 DEF GoodProject

\* add_document
LEMMA AddedDocumentIsGood ==
  ASSUME NEW p, GoodProject(p), NEW d, d \notin DOMAIN p.documents, NEW r
  PROVE  GoodProject(WithDocument(p, d, r))
  <1> DEFINE q == WithDocument(p, d, r)
  <1>1. /\ Shape(q)
        /\ Agree(p, q, {"documents"})
        /\ DOMAIN q.documents = DOMAIN p.documents \cup {d}
        /\ \A e \in DOMAIN p.documents \ {d} : q.documents[e] = p.documents[e]
    BY WithDocumentShape DEF GoodProject
  <1> HIDE DEF q
  <1>2. /\ q.claims = p.claims /\ q.invalidated = p.invalidated
        /\ q.runs = p.runs /\ q.status = p.status
        /\ q.policy = p.policy /\ q.modules = p.modules
    BY <1>1 DEF Agree
  <1>3. Identified(q)
    BY <1>2 DEF GoodProject, Identified
  <1>4. Fresh(q)
    BY <1>1, <1>2 DEF GoodProject, Fresh
  <1>5. ASSUME Disciplined(p) PROVE Disciplined(q)
    <2>1. Runnable(q) => ReadyButForClaims(q)
      BY <1>1, <1>2, <1>5 DEF Disciplined, Runnable, ReadyButForClaims
    <2>2. ASSUME NEW run, Supported(p, run) PROVE Supported(q, run)
      BY <1>2, <2>2 DEF Supported
    <2> QED
      BY <1>2, <1>5, <2>1, <2>2 DEF Disciplined
  <1> QED
    BY <1>1, <1>3, <1>4, <1>5 DEF GoodProject, q

\* revise_document: a run that stays valid used no claim of the document.
LEMMA RevisedIsGood ==
  ASSUME NEW p, GoodProject(p), NEW d, d \in DOMAIN p.documents, NEW r
  PROVE  GoodProject(Revised(p, d, r))
  <1> DEFINE q == Revised(p, d, r)
             old == IdsOf(ClaimsOf(p, d))
  <1>1. /\ Shape(q)
        /\ Agree(p, q, {"documents", "runs", "invalidated", "status"})
        /\ q.status = "draft"
        /\ DOMAIN q.documents = DOMAIN p.documents \cup {d}
        /\ \A e \in DOMAIN p.documents \ {d} : q.documents[e] = p.documents[e]
        /\ q.invalidated = p.invalidated \cup old
        /\ DOMAIN q.runs = DOMAIN p.runs
        /\ \A i \in DOMAIN p.runs :
              /\ Used(q.runs[i]) = Used(p.runs[i])
              /\ ~q.runs[i].invalidated =>
                    ~p.runs[i].invalidated /\ IdsOf(Used(p.runs[i])) \cap old = {}
    BY RevisedShape DEF GoodProject
  <1>2. \A e \in ClaimsOf(p, d) : e.id \in old
    BY DEF IdsOf
  <1>3. \A e \in p.claims : e.id \in old => e.document = d
    BY DEF GoodProject, Identified, IdsOf, ClaimsOf
  <1>4. old \subseteq IdsOf(p.claims)
    BY DEF IdsOf, ClaimsOf
  <1> HIDE DEF q, old
  <1>5. q.claims = p.claims
    BY <1>1 DEF Agree
  <1>6. Identified(q)
    BY <1>1, <1>4, <1>5 DEF GoodProject, Identified
  <1>7. Fresh(q)
    BY <1>1, <1>2, <1>5 DEF GoodProject, Fresh, ClaimsOf
  <1>8. ASSUME Disciplined(p) PROVE Disciplined(q)
    <2>1. ~Runnable(q)
      BY <1>1 DEF Runnable
    <2>2. ASSUME NEW i \in DOMAIN q.runs, ~q.runs[i].invalidated,
                 NEW e \in Used(q.runs[i]) \cap q.claims
          PROVE  e.id \notin q.invalidated
      <3>1. Supported(p, p.runs[i]) /\ e \in Used(p.runs[i]) \cap p.claims
        BY <1>1, <1>5, <1>8, <2>2 DEF Disciplined
      <3>2. e.id \notin p.invalidated
        BY <3>1 DEF Supported
      <3>3. e.id \notin old
        BY <1>1, <2>2, <3>1 DEF IdsOf
      <3> QED
        BY <1>1, <3>2, <3>3
    <2> QED
      BY <2>1, <2>2 DEF Disciplined, Supported
  <1> QED
    BY <1>1, <1>6, <1>7, <1>8 DEF GoodProject, q

\* add_claims: claims with new ids, of the documents as they are.
LEMMA WithClaimsIsGood ==
  ASSUME NEW p, GoodProject(p), NEW additions,
         additions \subseteq Extractable(p), Addable(p, additions)
  PROVE  GoodProject(WithClaims(p, additions))
  <1> DEFINE q == WithClaims(p, additions)
  <1>1. Shape(q) /\ Agree(p, q, {"claims"}) /\ q.claims = p.claims \cup additions
    BY FieldSet DEF GoodProject, WithClaims
  <1> HIDE DEF q
  <1>2. /\ q.documents = p.documents /\ q.invalidated = p.invalidated
        /\ q.runs = p.runs /\ q.status = p.status
        /\ q.policy = p.policy /\ q.modules = p.modules
    BY <1>1 DEF Agree
  <1>3. \A e \in additions : e.id \notin p.invalidated
    BY DEF Addable, GoodProject, Identified, IdsOf
  <1>4. Identified(q)
    BY <1>1, <1>2 DEF GoodProject, Identified, Addable, IdsOf
  <1>5. Fresh(q)
    BY <1>1, <1>2 DEF GoodProject, Fresh, Addable, Extractable
  <1>6. ASSUME Disciplined(p) PROVE Disciplined(q)
    <2>1. Runnable(q) => ReadyButForClaims(q)
      BY <1>1, <1>2, <1>6 DEF Disciplined, Runnable, ReadyButForClaims
    <2>2. ASSUME NEW run, Supported(p, run) PROVE Supported(q, run)
      BY <1>1, <1>2, <1>3, <2>2 DEF Supported
    <2> QED
      BY <1>2, <1>6, <2>1, <2>2 DEF Disciplined
  <1> QED
    BY <1>1, <1>4, <1>5, <1>6 DEF GoodProject, q

\* replace_claims_for_document: what is taken away was at most invalidated.
LEMMA WithoutClaimsIsGood ==
  ASSUME NEW p, GoodProject(p), NEW d
  PROVE  GoodProject(WithoutClaimsOf(p, d))
  <1> DEFINE q == WithoutClaimsOf(p, d)
             gone == ClaimsOf(p, d)
  <1>1. /\ Shape(q)
        /\ Agree(p, q, {"claims", "invalidated"})
        /\ q.claims = p.claims \ gone
        /\ q.invalidated = p.invalidated \ IdsOf(gone)
    BY WithoutClaimsShape DEF GoodProject
  <1>2. \A e \in gone : e \in p.claims /\ e.document = d /\ e.id \in IdsOf(gone)
    BY DEF ClaimsOf, IdsOf
  <1>3. \A e \in p.claims \ gone : e.document # d /\ e.id \notin IdsOf(gone)
    BY DEF GoodProject, Identified, IdsOf, ClaimsOf
  <1> HIDE DEF q
  <1>4. /\ q.documents = p.documents /\ q.runs = p.runs /\ q.status = p.status
        /\ q.policy = p.policy /\ q.modules = p.modules
    BY <1>1 DEF Agree
  <1>5. Identified(q)
    BY <1>1, <1>2 DEF GoodProject, Identified, IdsOf
  <1>6. Fresh(q)
    BY <1>1, <1>3, <1>4 DEF GoodProject, Fresh
  <1>7. Disciplined(q)
    <2>1. Runnable(q) => ReadyButForClaims(q)
      BY <1>1, <1>4 DEF GoodProject, Disciplined, Runnable, ReadyButForClaims
    <2>2. ASSUME NEW run, Supported(p, run) PROVE Supported(q, run)
      BY <1>1, <2>2 DEF Supported
    <2> QED
      BY <1>4, <2>1, <2>2 DEF GoodProject, Disciplined
  <1> QED
    BY <1>1, <1>5, <1>6, <1>7 DEF GoodProject, q

\* set_authority_policy, enable_module and mark_ready.
LEMMA SettingsAreGood ==
  ASSUME NEW p, GoodProject(p)
  PROVE  /\ \A policy \in Policies : GoodProject([p EXCEPT !.policy = policy])
         /\ \A m \in Registry : GoodProject([p EXCEPT !.modules = @ \cup {m}])
         /\ Ready(p) => GoodProject([p EXCEPT !.status = "ready"])
  <1>1. ASSUME NEW q, Shape(q), Agree(p, q, {"status", "policy", "modules"}),
               Disciplined(p) /\ Runnable(q) => ReadyButForClaims(q)
        PROVE  GoodProject(q)
    <2>1. /\ q.documents = p.documents /\ q.claims = p.claims
          /\ q.invalidated = p.invalidated /\ q.runs = p.runs
      BY <1>1 DEF Agree
    <2>2. Identified(q) /\ Fresh(q)
      BY <2>1 DEF GoodProject, Identified, Fresh
    <2>3. ASSUME NEW run, Supported(p, run) PROVE Supported(q, run)
      BY <2>1, <2>3 DEF Supported
    <2>4. Disciplined(p) => Disciplined(q)
      BY <1>1, <2>1, <2>3 DEF Disciplined
    <2> QED
      BY <1>1, <2>2, <2>4 DEF GoodProject
  <1>2. ASSUME NEW policy \in Policies PROVE GoodProject([p EXCEPT !.policy = policy])
    <2> DEFINE q == [p EXCEPT !.policy = policy]
    <2>1. Shape(q) /\ q.policy = policy /\ Agree(p, q, {"policy"})
      BY FieldSet DEF GoodProject
    <2>2. q.policy # None
      BY <2>1, ProjectAssumption
    <2> HIDE DEF q
    <2>3. Disciplined(p) /\ Runnable(q) => ReadyButForClaims(q)
      BY <2>1, <2>2 DEF Agree, Disciplined, Runnable, ReadyButForClaims
    <2>4. Agree(p, q, {"status", "policy", "modules"})
      BY <2>1 DEF Agree
    <2> QED
      BY <1>1, <2>1, <2>3, <2>4 DEF q
  <1>3. ASSUME NEW m \in Registry PROVE GoodProject([p EXCEPT !.modules = @ \cup {m}])
    <2> DEFINE enabled == p.modules \cup {m}
               q == [p EXCEPT !.modules = enabled]
    <2>1. Shape(q) /\ q.modules = enabled /\ Agree(p, q, {"modules"})
      BY FieldSet DEF GoodProject
    <2>2. enabled # {}
      OBVIOUS
    <2> HIDE DEF q, enabled
    <2>3. Disciplined(p) /\ Runnable(q) => ReadyButForClaims(q)
      BY <2>1, <2>2 DEF Agree, Disciplined, Runnable, ReadyButForClaims
    <2>4. Agree(p, q, {"status", "policy", "modules"})
      BY <2>1 DEF Agree
    <2> QED
      BY <1>1, <2>1, <2>3, <2>4 DEF q, enabled
  <1>4. ASSUME Ready(p) PROVE GoodProject([p EXCEPT !.status = "ready"])
    <2> DEFINE q == [p EXCEPT !.status = "ready"]
    <2>1. Shape(q) /\ Agree(p, q, {"status"})
      BY FieldSet DEF GoodProject
    <2> HIDE DEF q
    <2>2. ReadyButForClaims(q)
      BY <1>4, <2>1 DEF Agree, Ready, ReadyButForClaims
    <2>3. Agree(p, q, {"status", "policy", "modules"})
      BY <2>1 DEF Agree
    <2> QED
      BY <1>1, <2>1, <2>2, <2>3 DEF q
  <1> QED
    BY <1>2, <1>3, <1>4

\* What the JSON repository stores.
LEMMA SavedIsGood ==
  ASSUME NEW p, GoodProject(p)
  PROVE  GoodProject([p EXCEPT !.runs = <<>>])
  <1> DEFINE q == [p EXCEPT !.runs = <<>>]
  <1>1. Shape(q) /\ Agree(p, q, {"runs"}) /\ DOMAIN q.runs = {}
    BY SavedShape DEF GoodProject
  <1> HIDE DEF q
  <1>2. /\ q.documents = p.documents /\ q.claims = p.claims
        /\ q.invalidated = p.invalidated /\ q.status = p.status
        /\ q.policy = p.policy /\ q.modules = p.modules
    BY <1>1 DEF Agree
  <1>3. Identified(q) /\ Fresh(q)
    BY <1>2 DEF GoodProject, Identified, Fresh
  <1>4. Disciplined(p) => Disciplined(q)
    BY <1>1, <1>2 DEF Disciplined, Runnable, ReadyButForClaims
  <1> QED
    BY <1>1, <1>3, <1>4 DEF GoodProject, q

\* A run uses claims of the project it is made from.
LEMMA RunUsesClaims ==
  ASSUME NEW p, NEW id, NEW keys
  PROVE  LET run == Run(p, id, keys)
         IN  IsRun(run) /\ ~run.invalidated /\ Used(run) \subseteq p.claims
  <1> DEFINE run == Run(p, id, keys)
  <1>1. /\ run.items = Batch(p.claims, p.policy, keys)
        /\ run.invalidated = FALSE
        /\ IsRun(run)
    BY DEF Run, IsRun
  <1>2. \A item \in Batch(p.claims, p.policy, keys) : item.claims \subseteq p.claims
    BY DEF Batch, Priced, Conflicts
  <1> HIDE DEF run
  <1>3. Used(run) \subseteq p.claims
    BY <1>1, <1>2 DEF Used
  <1> QED
    BY <1>1, <1>3 DEF run

\* A run of a project without invalidated claims uses none.
LEMMA RunIsSupported ==
  ASSUME NEW p, GoodProject(p), ReadyButForClaims(p), NEW run, Used(run) \subseteq p.claims
  PROVE  Supported(p, run)
  <1>1. p.invalidated = {}
    BY DEF ReadyButForClaims
  <1> QED
    BY <1>1 DEF Supported

\* The project that is committed with its run.
LEMMA ExecutedIsGood ==
  ASSUME NEW p, GoodProject(p), NEW run, IsRun(run),
         ReadyButForClaims(p), Supported(p, run)
  PROVE  GoodProject(Executed(p, run))
  <1> DEFINE q == Executed(p, run)
  <1>1. /\ Shape(q)
        /\ Agree(p, q, {"status", "runs"})
        /\ \A i \in DOMAIN q.runs :
              (i \in DOMAIN p.runs /\ q.runs[i] = p.runs[i]) \/ q.runs[i] = run
    BY ExecutedShape DEF GoodProject
  <1> HIDE DEF q
  <1>2. /\ q.documents = p.documents /\ q.claims = p.claims
        /\ q.invalidated = p.invalidated
        /\ q.policy = p.policy /\ q.modules = p.modules
    BY <1>1 DEF Agree
  <1>3. Identified(q) /\ Fresh(q)
    BY <1>2 DEF GoodProject, Identified, Fresh
  <1>4. Disciplined(q)
    <2>1. ReadyButForClaims(q)
      BY <1>2 DEF ReadyButForClaims
    <2>2. ASSUME NEW r, Supported(p, r) PROVE Supported(q, r)
      BY <1>2, <2>2 DEF Supported
    <2>3. \A i \in DOMAIN p.runs : ~p.runs[i].invalidated => Supported(p, p.runs[i])
      BY DEF GoodProject, Disciplined
    <2>4. \A i \in DOMAIN q.runs : ~q.runs[i].invalidated => Supported(p, q.runs[i])
      BY <1>1, <2>3
    <2> QED
      BY <2>1, <2>2, <2>4 DEF Disciplined
  <1> QED
    BY <1>1, <1>3, <1>4 DEF GoodProject, q

-----------------------------------------------------------------------------
(* The invariant                                                           *)

\* Everybody begins with a project just created.
LEMMA ProjectInvInit == ProjectInit => ProjectInv
  <1> SUFFICES ASSUME ProjectInit
               PROVE  ProjectInv
    OBVIOUS
  <1>1. \A c \in Callers : hand[c] = NewProject /\ started[c] = None
    BY DEF ProjectInit
  <1> QED
    BY <1>1, NewIsGood DEF ProjectInit, ProjectInv

\* A caller that holds another good project, with no run under way.
LEMMA HoldKeeps ==
  ASSUME ProjectInv, NEW c \in Callers, NEW p, GoodProject(p), Hold(c, p)
  PROVE  ProjectInv'
  <1>1. /\ started' = started /\ saved' = saved /\ committed' = committed
        /\ started[c] = None
        /\ hand' = [hand EXCEPT ![c] = p]
    BY DEF Hold
  <1>2. /\ DOMAIN hand' = Callers /\ hand'[c] = p
        /\ \A d \in Callers \ {c} : hand'[d] = hand[d]
        /\ hand' = [d \in Callers |-> hand'[d]]
    BY <1>1 DEF ProjectInv
  <1>3. \A d \in Callers : GoodProject(hand'[d])
    BY <1>2 DEF ProjectInv
  <1>4. \A d \in Callers : started'[d] # None =>
          /\ IsRun(started'[d])
          /\ ReadyButForClaims(hand'[d]) /\ Supported(hand'[d], started'[d])
    BY <1>1, <1>2 DEF ProjectInv
  <1> QED
    BY <1>1, <1>2, <1>3, <1>4 DEF ProjectInv

\* A run is made of a project that is ready.
LEMMA ExecuteKeeps ==
  ASSUME ProjectInv, NEW c \in Callers, NEW id, NEW keys, Execute(c, id, keys)
  PROVE  /\ ProjectInv'
         /\ ReadyButForClaims(hand[c])
  <1> DEFINE run == Run(hand[c], id, keys)
  <1>1. /\ hand' = hand /\ saved' = saved /\ committed' = committed
        /\ MayExecute(hand[c])
        /\ started' = [started EXCEPT ![c] = run]
    BY DEF Execute
  <1>2. IsRun(run) /\ Used(run) \subseteq hand[c].claims
    BY RunUsesClaims
  <1> HIDE DEF run
  <1>3. GoodProject(hand[c])
    BY DEF ProjectInv
  <1>4. ReadyButForClaims(hand[c])
    BY <1>1, <1>3 DEF MayExecute, GoodProject, Disciplined, Runnable
  <1>5. Supported(hand[c], run)
    BY <1>2, <1>3, <1>4, RunIsSupported
  <1>6. /\ DOMAIN started' = Callers /\ started'[c] = run
        /\ \A d \in Callers \ {c} : started'[d] = started[d]
        /\ started' = [d \in Callers |-> started'[d]]
    BY <1>1 DEF ProjectInv
  <1>7. \A d \in Callers : started'[d] # None =>
          /\ IsRun(started'[d])
          /\ ReadyButForClaims(hand'[d]) /\ Supported(hand'[d], started'[d])
    BY <1>1, <1>2, <1>4, <1>5, <1>6 DEF ProjectInv
  <1> QED
    BY <1>1, <1>4, <1>6, <1>7 DEF ProjectInv

\* The commit of a run, or its failure.
LEMMA CommitKeeps ==
  ASSUME ProjectInv, NEW c \in Callers, Commit(c) \/ CommitFails(c)
  PROVE  ProjectInv'
  <1> DEFINE q == Executed(hand[c], started[c])
  <1>1. /\ started[c] # None
        /\ started' = [started EXCEPT ![c] = None]
        /\ saved' = saved
    BY DEF Commit, CommitFails
  <1>2. GoodProject(q)
    BY <1>1, ExecutedIsGood DEF ProjectInv
  <1>3. /\ DOMAIN started' = Callers /\ started'[c] = None
        /\ \A d \in Callers \ {c} : started'[d] = started[d]
        /\ started' = [d \in Callers |-> started'[d]]
    BY <1>1 DEF ProjectInv
  <1> HIDE DEF q
  <1>4. \/ hand' = hand /\ committed' = committed
        \/ hand' = [hand EXCEPT ![c] = q] /\ committed' = q
    BY DEF Commit, CommitFails, q
  <1>5. /\ DOMAIN hand' = Callers
        /\ hand' = [d \in Callers |-> hand'[d]]
        /\ \A d \in Callers \ {c} : hand'[d] = hand[d]
        /\ \A d \in Callers : GoodProject(hand'[d])
    <2>1. CASE hand' = hand
      BY <2>1 DEF ProjectInv
    <2>2. CASE hand' = [hand EXCEPT ![c] = q]
      <3>1. hand'[c] = q /\ \A d \in Callers \ {c} : hand'[d] = hand[d]
        BY <2>2 DEF ProjectInv
      <3> QED
        BY <1>2, <2>2, <3>1 DEF ProjectInv
    <2> QED
      BY <1>4, <2>1, <2>2
  <1>6. committed' # None => GoodProject(committed')
    BY <1>2, <1>4 DEF ProjectInv
  <1>7. \A d \in Callers : started'[d] # None =>
          /\ IsRun(started'[d])
          /\ ReadyButForClaims(hand'[d]) /\ Supported(hand'[d], started'[d])
    BY <1>3, <1>5 DEF ProjectInv
  <1> QED
    BY <1>1, <1>3, <1>5, <1>6, <1>7 DEF ProjectInv

\* What an operation leaves its caller with.
Operation(c) ==
    \/ \E p : GoodProject(p) /\ Hold(c, p)
    \/ SaveProject(c)
    \/ \E id, keys : Execute(c, id, keys)
    \/ Commit(c) \/ CommitFails(c)

\* Every step is one of these.
LEMMA EveryOperation ==
  ASSUME ProjectInv, ProjectNext
  PROVE  \E c \in Callers : Operation(c)
  <1>1. PICK c \in Callers :
        \/ \E d \in Documents, r \in Revisions : AddDocument(c, d, r)
        \/ \E d \in Documents, r \in Revisions : ReviseDocument(c, d, r)
        \/ \E additions \in SUBSET Extractable(hand[c]) :
              \/ AddClaims(c, additions)
              \/ \E d \in DOMAIN hand[c].documents : ReplaceClaims(c, d, additions)
        \/ \E policy \in Policies : SetAuthorityPolicy(c, policy)
        \/ \E m \in Registry : EnableModule(c, m)
        \/ MarkReady(c)
        \/ SaveProject(c) \/ LoadProject(c) \/ TakeCommitted(c)
        \/ \E id \in RunIds, keys \in SUBSET {e.key : e \in Claims} : Execute(c, id, keys)
        \/ Commit(c) \/ CommitFails(c)
    BY DEF ProjectNext
  <1> DEFINE p == hand[c]
  <1>2. GoodProject(p)
    BY DEF ProjectInv
  <1>3. ASSUME NEW d \in Documents, NEW r \in Revisions, AddDocument(c, d, r)
        PROVE  Operation(c)
    BY <1>2, <1>3, AddedDocumentIsGood DEF AddDocument, Operation
  <1>4. ASSUME NEW d \in Documents, NEW r \in Revisions, ReviseDocument(c, d, r)
        PROVE  Operation(c)
    BY <1>2, <1>4, RevisedIsGood DEF ReviseDocument, Operation
  <1>5. ASSUME NEW additions \in SUBSET Extractable(p), AddClaims(c, additions)
        PROVE  Operation(c)
    BY <1>2, <1>5, WithClaimsIsGood DEF AddClaims, Operation
  <1>6. ASSUME NEW additions \in SUBSET Extractable(p), NEW d, ReplaceClaims(c, d, additions)
        PROVE  Operation(c)
    <2> DEFINE rest == WithoutClaimsOf(p, d)
    <2>1. /\ Addable(rest, additions)
          /\ Hold(c, WithClaims(rest, additions))
      BY <1>6 DEF ReplaceClaims
    <2>2. GoodProject(rest)
      BY <1>2, <2>1, WithoutClaimsIsGood
    <2>3. rest.documents = p.documents
      BY <1>2, WithoutClaimsShape DEF GoodProject, Agree
    <2>4. additions \subseteq Extractable(rest)
      BY <2>3 DEF Extractable
    <2> HIDE DEF rest
    <2>5. GoodProject(WithClaims(rest, additions))
      BY <2>1, <2>2, <2>4, WithClaimsIsGood
    <2> QED
      BY <2>1, <2>5 DEF Operation
  <1>7. ASSUME \/ \E policy \in Policies : SetAuthorityPolicy(c, policy)
               \/ \E m \in Registry : EnableModule(c, m)
               \/ MarkReady(c)
        PROVE  Operation(c)
    BY <1>2, <1>7, SettingsAreGood
       DEF SetAuthorityPolicy, EnableModule, MarkReady, Operation
  <1>8. ASSUME LoadProject(c) \/ TakeCommitted(c) PROVE Operation(c)
    BY <1>8 DEF LoadProject, TakeCommitted, Operation, ProjectInv
  <1> QED
    BY <1>1, <1>3, <1>4, <1>5, <1>6, <1>7, <1>8 DEF Operation

\* The invariant is kept by every step, and a run is started only on a project
\* that is ready.
LEMMA ProjectInvStep ==
  ASSUME ProjectInv, [ProjectNext]_projectVars
  PROVE  /\ ProjectInv'
         /\ \A c \in Callers :
               started[c] = None /\ started'[c] # None => ReadyButForClaims(hand[c])
  <1>1. CASE UNCHANGED projectVars
    BY <1>1 DEF projectVars, ProjectInv
  <1>2. CASE ProjectNext
    <2>1. PICK c \in Callers : Operation(c)
      BY <1>2, EveryOperation
    <2>2. CASE \E p : GoodProject(p) /\ Hold(c, p)
      BY <2>2, HoldKeeps DEF Hold
    <2>3. CASE SaveProject(c)
      <3>1. GoodProject([hand[c] EXCEPT !.runs = <<>>])
        BY SavedIsGood DEF ProjectInv
      <3> QED
        BY <2>3, <3>1 DEF SaveProject, ProjectInv
    <2>4. CASE \E id, keys : Execute(c, id, keys)
      <3>1. \A d \in Callers \ {c} : started'[d] = started[d]
        BY <2>4 DEF Execute, ProjectInv
      <3> QED
        BY <2>4, <3>1, ExecuteKeeps
    <2>5. CASE Commit(c) \/ CommitFails(c)
      <3>1. \A d \in Callers : started'[d] \in {None, started[d]}
        BY <2>5 DEF Commit, CommitFails, ProjectInv
      <3> QED
        BY <2>5, <3>1, CommitKeeps
    <2> QED
      BY <2>1, <2>2, <2>3, <2>4, <2>5 DEF Operation
  <1> QED
    BY <1>1, <1>2

\* The inductive invariant, for any callers and documents.
THEOREM ProjectInvariant == ProjectSpec => []ProjectInv
  BY ProjectInvInit, ProjectInvStep, PTL DEF ProjectSpec

\* The ids of the claims of a project tell them apart, and what it lists as
\* invalidated are claims it has: with claims replaced as they should be or not.
THEOREM ClaimsAreListed == ProjectSpec => []InvalidatedAreClaims
  <1>1. ProjectInv => InvalidatedAreClaims
    BY DEF ProjectInv, GoodProject, Identified, InvalidatedAreClaims
  <1> QED
    BY <1>1, ProjectInvariant, PTL

\* However claims were revised, replaced and numbered anew, of the claims that a valid
\* run used those that the project still has are of the present revisions, and none of
\* them is invalidated: no revision fails to find a run that it can still reach.
THEOREM KeptSourcesFollowed == ProjectSpec => []KeptSourcesAreCurrent
  <1>1. ProjectInv => KeptSourcesAreCurrent
    BY DEF ProjectInv, GoodProject, Disciplined, Supported, Fresh, Follows, IdsOf, KeptSourcesAreCurrent
  <1> QED
    BY <1>1, ProjectInvariant, PTL

\* Whatever was done since a project was marked ready, in whichever store it was, all of
\* the readiness check but that it has a claim still holds when it is run.
THEOREM NothingInvalidatedIsRun == ProjectSpec => RunsNothingInvalidated
  <1>1. ProjectInv /\ [ProjectNext]_projectVars =>
          [\A c \in Callers :
             started[c] = None /\ started'[c] # None => ReadyButForClaims(hand[c])]_projectVars
    BY ProjectInvStep
  <1> QED
    BY <1>1, ProjectInvariant, PTL DEF ProjectSpec, RunsNothingInvalidated

\* A commit brings the graphs of its run, and nothing else touches them.
LEMMA GraphsFollow ==
  ASSUME ProjectInv, AllOrNothing, [ProjectNext]_projectVars
  PROVE  AllOrNothing'
  <1>1. CASE committed' = committed /\ graphs' = graphs
    BY <1>1 DEF AllOrNothing
  <1>2. ASSUME NEW c \in Callers, Commit(c)
        PROVE  AllOrNothing'
    <2> DEFINE p == hand[c]
               run == started[c]
               own == GraphsOf(run)
    <2>1. /\ Shape(p) /\ IsRun(run)
          /\ committed' = Executed(p, run)
          /\ graphs' = Updated(graphs, own)
      BY <1>2 DEF Commit, ProjectInv, GoodProject
    <2>2. committed'.runs = Append(p.runs, run)
      <3> DEFINE status == RunStatus(run)
                 runs == Append(p.runs, run)
                 w == [p EXCEPT !.status = status]
      <3>1. Shape(w)
        BY <2>1, FieldSet
      <3>2. committed' = [w EXCEPT !.runs = runs]
        BY <2>1 DEF Executed
      <3> HIDE DEF w, runs
      <3> QED
        BY <3>1, <3>2, Fields DEF runs
    <2>3. Last(committed'.runs) = run
      <3>1. p.runs \in Seq(Range(p.runs) \cup {run})
        BY <2>1 DEF Shape, IsSeq
      <3> QED
        BY <2>2, <3>1 DEF Last
    <2> HIDE DEF own
    <2>4. \A g \in DOMAIN own : g \in DOMAIN graphs' /\ graphs'[g] = own[g]
      BY <2>1 DEF Updated
    <2> QED
      BY <2>3, <2>4 DEF AllOrNothing, own
  <1>3. (committed' = committed /\ graphs' = graphs) \/ \E c \in Callers : Commit(c)
    BY DEF ProjectNext, projectVars, AddDocument, ReviseDocument, AddClaims, ReplaceClaims,
       SetAuthorityPolicy, EnableModule, MarkReady, SaveProject, LoadProject,
       TakeCommitted, Execute, CommitFails, Hold
  <1> QED
    BY <1>1, <1>2, <1>3

\* A committed project has the decision graphs of its last run, every one,
\* whichever commits failed and whichever run ids were used before.
THEOREM Atomicity == ProjectSpec => []AllOrNothing
  <1>1. ProjectInit => AllOrNothing
    BY DEF ProjectInit, AllOrNothing
  <1> QED
    BY <1>1, GraphsFollow, ProjectInvariant, PTL DEF ProjectSpec

================================================================================
