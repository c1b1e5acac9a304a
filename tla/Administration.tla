----------------------------- MODULE Administration -----------------------------
(***************************************************************************)
(* Users, sessions and the modules a customer has (crow_entitlements).     *)
(* Every user and every customer has a document of its own; what an        *)
(* administrator does is written to the document and then to the audit     *)
(* log.  A session is a signed copy of the user's customer and roles,      *)
(* which is held against the user's document at every request.             *)
(***************************************************************************)
EXTENDS Requests, SequencesExt

CONSTANTS
    InitialUsers,     \* the sets of users that the command line has created
    Customers,
    UserForms,        \* [name, customer, roles, active]: what is posted of a user
    Bundles,          \* sets of [id, active, until]: what is put of a customer
    Catalog,          \* id -> [status, requires]
    SessionTime       \* how long a session is valid

VARIABLES
    users,            \* set of [name, customer, roles, active]
    accounts,         \* customer -> [folder, modules]: modules is {} or {bundle}
    tokens,           \* set of [sub, customer, roles, exp]: sessions issued
    events,           \* the audit log
    clock

adminDocs == <<users, accounts, tokens, events, clock>>
adminVars == <<load, client, adminDocs>>

AdminRole == "platform-admin"

IsAdmin(u) == u.active /\ AdminRole \in u.roles

\* The first administrator is made on the command line: an account takes one to make.
ASSUME InitialUsersAssumption == \A us \in InitialUsers : \E u \in us : IsAdmin(u)

\* What a module requires is listed with all that this requires in turn.  (The catalog
\* is read without this being looked at; the one that is shipped is such.)
RequirementsAreListed ==
    \A id \in DOMAIN Catalog : \A m \in Catalog[id].requires :
       m \in DOMAIN Catalog /\ Catalog[m].requires \subseteq Catalog[id].requires

AdminInit ==
    /\ users \in InitialUsers
    /\ accounts = [k \in Customers |-> [folder |-> FALSE, modules |-> {}]]
    /\ tokens = {} /\ events = <<>> /\ clock = 0

LoadUser(name) == {u \in users : u.name = name}

-----------------------------------------------------------------------------
(* Sessions                                                                *)

\* login: a user with the right password gets a session.
Login(u) ==
    /\ u.active
    /\ tokens' = tokens \cup {[sub |-> u.name, customer |-> u.customer, roles |-> u.roles,
                               exp |-> clock + SessionTime]}
    /\ UNCHANGED <<load, client, users, accounts, events, clock>>

\* _session_user_is_current
SessionUserIsCurrent(t) ==
    \E u \in LoadUser(t.sub) :
       u.active /\ u.customer = t.customer /\ u.roles = t.roles

\* current_customer_from_request, in session mode: 401 without a session that is valid.
Authenticated(t) == t.exp >= clock /\ SessionUserIsCurrent(t)

\* _require_admin: 403 for others.
RequireAdmin(t) == Authenticated(t) /\ AdminRole \in t.roles

-----------------------------------------------------------------------------
(* Users                                                                   *)

\* _validate_customer_target
CustomerTargetIsValid(form) ==
    AdminRole \in form.roles \/ accounts[form.customer].modules # {}

\* An administrator may take the role from everybody (a fault).
MayDeactivateOthersOnly(t, form) == t.sub = form.name => form.active

\* An administrator keeps the own account active and an administrator's.
MayUpdate(t, form) == t.sub = form.name => form.active /\ AdminRole \in form.roles

\* create_user: 400 for an unknown customer, 409 for a user that exists ...
StartCreateUser(c, t, form) ==
    /\ client[c] = Idle
    /\ RequireAdmin(t) /\ CustomerTargetIsValid(form) /\ LoadUser(form.name) = {}
    /\ form.active
    /\ Goes(c, [pc |-> "create", actor |-> t.sub, user |-> form])
    /\ UNCHANGED <<load, adminDocs>>

\* ... and 500 if it exists by now.
CheckUser(c) ==
    LET q == client[c]
    IN  /\ q.pc = "create"
        /\ IF LoadUser(q.user.name) # {} THEN Ends(c)
           ELSE Goes(c, [pc |-> "write_user", actor |-> q.actor, action |-> "user.created",
                        before |-> {}, user |-> q.user])
        /\ UNCHANGED <<load, adminDocs>>

\* update_user: 404, 400, and a new record from the old one and the form.
StartUpdateUser(c, t, form) ==
    /\ client[c] = Idle
    /\ RequireAdmin(t) /\ CustomerTargetIsValid(form) /\ LoadUser(form.name) # {}
    /\ MayUpdate(t, form)
    /\ Goes(c, [pc |-> "write_user", actor |-> t.sub, action |-> "user.updated",
               before |-> LoadUser(form.name), user |-> form])
    /\ UNCHANGED <<load, adminDocs>>

\* write_user: the document is replaced.
WriteUser(c) ==
    LET q == client[c]
    IN  /\ q.pc = "write_user"
        /\ users' = {u \in users : u.name # q.user.name} \cup {q.user}
        /\ Goes(c, [pc |-> "audit", event |-> [actor |-> q.actor, action |-> q.action,
                                             target |-> <<"user", q.user.name>>,
                                             before |-> q.before, after |-> q.user]])
        /\ UNCHANGED <<load, accounts, tokens, events, clock>>

-----------------------------------------------------------------------------
(* Customers                                                               *)

\* create_customer: 409 for a customer with a document; 500, by mkdir, for one with
\* a folder.
StartCreateCustomer(c, t, k) ==
    /\ client[c] = Idle
    /\ RequireAdmin(t) /\ ~accounts[k].folder
    /\ accounts' = [accounts EXCEPT ![k].folder = TRUE]
    /\ Goes(c, [pc |-> "write_customer", actor |-> t.sub, action |-> "customer.created",
               customer |-> k, before |-> {}, modules |-> {}])
    /\ UNCHANGED <<load, users, tokens, events, clock>>

\* _validate_update
BundleIsValid(bundle) ==
    LET active == {e.id : e \in {e \in bundle : e.active}}
    IN  /\ \A e, f \in bundle : e.id = f.id => e = f
        /\ \A e \in bundle : e.id \in DOMAIN Catalog
        /\ \A id \in active : Catalog[id].status = "active" /\ Catalog[id].requires \subseteq active

\* update_customer_entitlements
StartEntitle(c, t, k, bundle) ==
    /\ client[c] = Idle
    /\ RequireAdmin(t) /\ BundleIsValid(bundle)
    /\ Goes(c, [pc |-> "write_customer", actor |-> t.sub, action |-> "entitlements.updated",
               customer |-> k, before |-> accounts[k].modules, modules |-> bundle])
    /\ UNCHANGED <<load, adminDocs>>

WriteCustomer(c) ==
    LET q == client[c]
    IN  /\ q.pc = "write_customer"
        /\ accounts' = [accounts EXCEPT ![q.customer] = [folder |-> TRUE, modules |-> {q.modules}]]
        /\ Goes(c, [pc |-> "audit", event |-> [actor |-> q.actor, action |-> q.action,
                                             target |-> <<"customer", q.customer>>,
                                             before |-> q.before, after |-> q.modules]])
        /\ UNCHANGED <<load, users, tokens, events, clock>>

\* Only what differs is logged, and what differs is asked of the document (a fault).
WriteAuditEventReadingBack(c) ==
    /\ client[c].pc = "audit"
    /\ events' = Append(events, [client[c].event EXCEPT
                    !.before = IF client[c].event.target[1] = "user"
                               THEN LoadUser(client[c].event.target[2]) ELSE @])
    /\ Ends(c)
    /\ UNCHANGED <<load, users, accounts, tokens, clock>>

\* write_audit_event: a line is appended.
WriteAuditEvent(c) ==
    /\ client[c].pc = "audit"
    /\ events' = Append(events, client[c].event)
    /\ Ends(c)
    /\ UNCHANGED <<load, users, accounts, tokens, clock>>

-----------------------------------------------------------------------------
(* The modules a customer may use                                          *)

LogEntries(k) == UNION accounts[k].modules

\* EntitlementEntry.is_active, CustomerEntitlements.active_module_ids
ActiveIds(k) == {e.id : e \in {e \in LogEntries(k) : e.active /\ e.until >= clock}}

\* What a module requires may have run out (a fault).
BoughtModules(k) == {id \in ActiveIds(k) : Catalog[id].status = "active"}

\* entitlement_guard: 403 unless the module is active with all it requires.
ServedModules(k) ==
    {id \in ActiveIds(k) : Catalog[id].status = "active" /\ Catalog[id].requires \subseteq ActiveIds(k)}

Tick ==
    /\ clock + 1 < load.bound
    /\ clock' = clock + 1
    /\ UNCHANGED <<load, client, users, accounts, tokens, events>>

AdminNext ==
    \/ \E u \in users : Login(u)
    \/ \E c \in load.clients :
          \/ \E t \in tokens :
                /\ Len(events) < load.bound
                /\ \/ \E form \in UserForms : StartCreateUser(c, t, form) \/ StartUpdateUser(c, t, form)
                   \/ \E k \in Customers :
                         \/ StartCreateCustomer(c, t, k)
                         \/ \E b \in Bundles : StartEntitle(c, t, k, b)
          \/ CheckUser(c) \/ WriteUser(c) \/ WriteCustomer(c) \/ WriteAuditEvent(c)
    \/ Tick
    \/ Restart /\ UNCHANGED <<load, adminDocs>>

AdminSpec == RequestsInit /\ AdminInit /\ [][AdminNext]_adminVars

-----------------------------------------------------------------------------
(* Properties                                                              *)

\* As long as requests do not overlap, somebody can always administer the
\* platform: administrators may take the role from each other, but one whose
\* role was taken is refused in spite of the session, and nobody may take it
\* from oneself. (update_user, _session_user_is_current)
AdministratorRemains ==
    Alone => \E u \in users : IsAdmin(u)

\* The audit log accounts for every document, as long as requests do not
\* overlap and the server is not restarted: each change of a user or a
\* customer starts from what the change before left, and the last one left
\* what is there now. (write_audit_event and its callers)
LogAccountsForRecords ==
    Alone /\ ~load.restarts /\ (\A c \in load.clients : client[c] = Idle) =>
      /\ \A i \in DOMAIN events :
            LET target == events[i].target
                later == {j \in DOMAIN events : j > i /\ events[j].target = target}
                now == IF target[1] = "user" THEN LoadUser(target[2])
                       ELSE accounts[target[2]].modules
            IN  IF later = {} THEN now = {events[i].after}
                ELSE events[Min(later)].before = {events[i].after}
      /\ \A k \in Customers :
            accounts[k].modules # {} => \E i \in DOMAIN events : events[i].target = <<"customer", k>>

\* A customer is never served a module while one that it requires is refused,
\* whatever was bought, until when, and in which order it runs out.
\* (_validate_update, entitlement_guard, _module_is_effectively_active)
ServedWithWhatItRequires ==
    \A k \in Customers : \A id \in ServedModules(k) : Catalog[id].requires \subseteq ServedModules(k)
=============================================================================
