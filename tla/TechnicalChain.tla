----------------------------- MODULE TechnicalChain -----------------------------
(***************************************************************************)
(* From accepted claims to technical deltas: rules decide on claims        *)
(* (crow_decision_engine), a profile asks for claims that are missing or   *)
(* not valid (crow_technical_validation), a person reviews decisions and   *)
(* issues (crow_technical_review), and what was approved is compared with  *)
(* the baseline (crow_technical_delta).  A value is a number, or 0 for a   *)
(* text that is none.                                                      *)
(***************************************************************************)
EXTENDS KnowledgeChain, Integers

CONSTANTS
    RuleSets,     \* [rules, multi]: sets of rules on one claim and on several
    Profiles,     \* sets of requirements
    Baselines     \* sets of [id, key, value, number]

technicalVars == knowledgeVars

ClaimId(claim) == <<claim.key, claim.value, claim.status, claim.cluster>>

-----------------------------------------------------------------------------
(* Rules on one claim                                                      *)

\* _claim_field: of what a condition may ask of a claim, the fields that rules use.
ClaimFields == {"semantic_key", "value", "confidence"}
ClaimField(claim, field) ==
    CASE field = "semantic_key" -> claim.key
      [] field = "value" -> claim.value
      [] field = "confidence" -> claim.sure

Comparisons == {"greater_than", "greater_than_or_equal", "less_than", "less_than_or_equal"}

\* A field there is none of, and a comparison of what is not a number, raise.
Raises(condition, claim) ==
    \/ condition.field \notin ClaimFields
    \/ /\ condition.operator \in Comparisons
       /\ condition.field = "semantic_key" \/ ClaimField(claim, condition.field) = 0

\* evaluate_operator, of what does not raise; a pattern is the set of what it matches.
OperatorHolds(actual, operator, expected) ==
    CASE operator = "exists" -> expected
      [] operator = "greater_than" -> actual > expected
      [] operator = "greater_than_or_equal" -> actual >= expected
      [] operator = "less_than" -> actual < expected
      [] operator = "less_than_or_equal" -> actual <= expected
      [] operator = "equals" -> actual = expected
      [] operator = "not_equals" -> actual # expected
      [] operator \in {"contains", "regex"} -> actual \in expected

\* _evaluate_rule
RuleStatus(rule, claim) ==
    IF \E k \in rule.conditions : Raises(k, claim) THEN "invalid_input"
    ELSE IF rule.conditions # {}
            /\ \A k \in rule.conditions :
                 OperatorHolds(ClaimField(claim, k.field), k.operator, k.expected)
    THEN "matched" ELSE "not_matched"

\* _candidate: what a rule decides on a claim; the rule and the claim make its identity.
DecisionOn(rule, claim) ==
    [id |-> <<"technical-decision", rule.id, rule.version, rule.key, <<ClaimId(claim)>>, {}>>,
     key |-> rule.key, value |-> <<claim.value, 1>>, number |-> claim.value # 0, claims |-> {ClaimId(claim)},
     docs |-> claim.docs]

-----------------------------------------------------------------------------
(* Rules on several claims: fractions keep what they calculate exact.      *)

\* evaluate_expression, of an expression that lists its nodes, each after its operands,
\* which it names by their places: {} when it raises.  Powers are left out.
ExpressionValue(e, values) ==
    LET result[i \in DOMAIN e] ==
          LET node == e[i]
          IN  CASE node[1] = "constant" -> {<<node[2], 1>>}
                [] node[1] = "name" ->
                     IF node[2] \in DOMAIN values THEN {<<values[node[2]], 1>>} ELSE {}
                [] node[1] = "-u" -> {<<-v[1], v[2]>> : v \in result[node[2]]}
                [] OTHER ->
                     UNION {UNION {
                       CASE node[1] = "+" -> {<<l[1] * r[2] + r[1] * l[2], l[2] * r[2]>>}
                         [] node[1] = "-" -> {<<l[1] * r[2] - r[1] * l[2], l[2] * r[2]>>}
                         [] node[1] = "*" -> {<<l[1] * r[1], l[2] * r[2]>>}
                         [] node[1] = "/" -> IF r[1] = 0 THEN {}
                                             ELSE IF r[1] < 0 THEN {<<-l[1] * r[2], -l[2] * r[1]>>}
                                             ELSE {<<l[1] * r[2], l[2] * r[1]>>}
                       : r \in result[node[3]]} : l \in result[node[2]]}
    IN  result[Len(e)]

\* _matches (multi_claim)
Selects(selector, claim) == claim.sure >= selector.minimum /\ claim.key \in selector.keys

\* The claims that may stand for the aliases of a rule, one each and all different.
Bindings(rule, claims) ==
    {b \in [DOMAIN rule.selectors -> claims] :
       /\ \A a \in DOMAIN b : Selects(rule.selectors[a], b[a])
       /\ \A a, z \in DOMAIN b : a # z => ClaimId(b[a]) # ClaimId(b[z])}

\* What a rule calculates of a binding: nothing when a claim is not a number.
Calculated(rule, b) ==
    IF \E a \in DOMAIN b : b[a].value = 0 THEN {}
    ELSE ExpressionValue(rule.expression, [a \in DOMAIN b |-> b[a].value])

\* _make_candidate
DecisionOnSeveral(rule, b, value) ==
    [id |-> <<"technical-decision", rule.id, rule.version, rule.key,
              [a \in DOMAIN b |-> ClaimId(b[a])], {value}>>,
     key |-> rule.key, value |-> value, number |-> TRUE,
     claims |-> {ClaimId(b[a]) : a \in DOMAIN b}, docs |-> UNION {b[a].docs : a \in DOMAIN b}]

\* evaluate_multi_claim_rules
DecisionsOnSeveral(rule, claims) ==
    UNION {{DecisionOnSeveral(rule, b, v) :
              v \in {v \in Calculated(rule, b) :
                       OperatorHolds(v[1], rule.comparison, rule.expected * v[2])}} :
           b \in Bindings(rule, claims)}

\* evaluate_claims, merge_multi_claim_results: the order of priority is left out.
Decide(claims, ruleSet) ==
    (UNION {{DecisionOn(r, k) : k \in {k \in claims : RuleStatus(r, k) = "matched"}} :
              r \in {r \in ruleSet.rules : r.enabled}})
    \cup UNION {DecisionsOnSeveral(r, claims) : r \in {r \in ruleSet.multi : r.enabled}}

-----------------------------------------------------------------------------
(* Validation                                                              *)

\* _matches (validator)
Answers(claim, required) == claim.key \in required.keys

\* _invalid_reason
InvalidReason(claim, required) ==
    IF claim.sure < required.minimum THEN "low_confidence"
    ELSE IF required.numeric /\ claim.value = 0 THEN "invalid_numeric"
    ELSE IF required.allowed # {} /\ claim.value \notin required.allowed
    THEN "invalid_allowed_value" ELSE "none"

\* _issue
Issue(requirement, type, missing, claims) ==
    [id |-> <<"technical-validation", requirement.id, type, missing,
              {ClaimId(k) : k \in claims}>>,
     requirement |-> requirement.id, type |-> type, severity |-> requirement.severity]

\* validate_claims, of one requirement: what nothing answers, what is answered by
\* nothing valid, and what is answered twice.
Issues(requirement, claims) ==
    LET matches(r) == {k \in claims : Answers(k, r)}
        valid(r) == {k \in matches(r) : InvalidReason(k, r) = "none"}
        missing == {r \in requirement.required : matches(r) = {}}
        invalid == UNION {matches(r) : r \in {r \in requirement.required : valid(r) = {}}}
        ambiguous == UNION {valid(r) : r \in {r \in requirement.required : Cardinality(valid(r)) > 1}}
        low(k) == \E r \in requirement.required : Answers(k, r) /\ k.sure < r.minimum
    IN  (IF missing = {} THEN {}
         ELSE {Issue(requirement, "missing_information", {r.alias : r \in missing}, {})})
        \cup (IF invalid = {} THEN {}
              ELSE {Issue(requirement, IF \A k \in invalid : low(k) THEN "low_confidence"
                                       ELSE "invalid_value", {}, invalid)})
        \cup (IF ambiguous = {} THEN {} ELSE {Issue(requirement, "ambiguous_match", {}, ambiguous)})

Validate(claims, profile) == UNION {Issues(r, claims) : r \in {r \in profile : r.enabled}}

-----------------------------------------------------------------------------
(* Review                                                                  *)

\* initialize_review_set: everything is proposed, whatever was decided before.
InitialReviews(decisions, issues) ==
    {[target |-> d.id, type |-> "technical_decision", status |-> "proposed", history |-> <<>>] :
        d \in decisions}
    \cup {[target |-> i.id, type |-> "validation_issue", status |-> "proposed", history |-> <<>>] :
        i \in issues}

\* _ALLOWED_TRANSITIONS
AllowedTransitions ==
    [proposed          |-> {"approved", "rejected", "needs_information", "superseded"},
     needs_information |-> {"approved", "rejected", "superseded"},
     approved          |-> {"superseded"},
     rejected          |-> {"superseded"},
     superseded        |-> {}]

\* transition_record
Transition(record, status) ==
    [record EXCEPT !.status = status,
                   !.history = Append(@, [previous |-> record.status, new |-> status])]

-----------------------------------------------------------------------------
(* Deltas                                                                  *)

\* Of several that were approved under one key one is taken (a fault).
CanCompareAny(baseline, decisions, approved) == TRUE

\* compare_approved_decisions raises for an approval of a decision that is not there
\* and for a key that two approvals or two items of the baseline share.
CanCompare(baseline, decisions, approved) ==
    /\ approved \subseteq {d.id : d \in decisions}
    /\ \A d, e \in decisions : {d.id, e.id} \subseteq approved /\ d.key = e.key => d = e
    /\ \A b, e \in baseline : b.key = e.key => b = e

\* classify_direction
Direction(type, before, after) ==
    CASE type \in {"added", "removed", "unchanged"} -> type
      [] OTHER -> IF ~before.number THEN "changed"
                  ELSE IF after.value[1] > before.value * after.value[2] THEN "increase"
                  ELSE IF after.value[1] < before.value * after.value[2] THEN "decrease"
                  ELSE "unchanged"

SameValue(before, after) == after.value[1] = before.value * after.value[2]

\* compare_approved_decisions, structure_change: one delta of every key.
Compare(baseline, decisions, approved) ==
    LET before(key) == {b \in baseline : b.key = key}
        after(key) == {d \in decisions : d.id \in approved /\ d.key = key}
        delta(key) ==
            LET type == IF before(key) = {} THEN "added"
                        ELSE IF after(key) = {} THEN "removed"
                        ELSE IF SameValue(TheOnly(before(key)), TheOnly(after(key)))
                        THEN "unchanged" ELSE "modified"
            IN  [key |-> key, type |-> type,
                 item |-> {b.id : b \in before(key)},
                 decision |-> IF after(key) = {} THEN {} ELSE {TheOnly(after(key)).id},
                 value |-> IF after(key) = {} THEN {} ELSE {TheOnly(after(key)).value},
                 direction |-> IF type # "modified" THEN type
                               ELSE Direction(type, TheOnly(before(key)), TheOnly(after(key)))]
    IN  {delta(k) : k \in {b.key : b \in baseline} \cup {d.key : d \in {d \in decisions : d.id \in approved}}}

Approved(reviews) ==
    {r.target : r \in {r \in reviews : r.type = "technical_decision" /\ r.status = "approved"}}

-----------------------------------------------------------------------------
(* The commands, and the request that builds the deltas                    *)

\* A command that computed x writes it to a file of its own.
Makes(c, stage, x) ==
    /\ client[c] = Idle
    /\ Goes(c, [Stages(<<<<stage, FALSE>>>>) EXCEPT !.made = {x}])
    /\ UNCHANGED <<load, knowledgeDocs>>

\* evaluate_project
StartDecide(c, ruleSet) ==
    /\ files.accepted # {}
    /\ Makes(c, "decisions", Decide(TheOnly(files.accepted).claims, ruleSet))

\* validate_project
StartValidate(c, profile) ==
    /\ files.accepted # {}
    /\ Makes(c, "validation", Validate(TheOnly(files.accepted).claims, profile))

\* initialize_project_reviews
StartInitReviews(c) ==
    /\ files.decisions # {} /\ files.validation # {}
    /\ Makes(c, "reviews", InitialReviews(TheOnly(files.decisions), TheOnly(files.validation)))

\* update_project_review
StartReviewDecision(c, record, status) ==
    /\ status \in AllowedTransitions[record.status]
    /\ Makes(c, "reviews",
             (TheOnly(files.reviews) \ {record}) \cup {Transition(record, status)})

\* build_technical_deltas: 409 when a file is missing.
StartBuildDeltas(c, baseline) ==
    /\ files.decisions # {} /\ files.reviews # {}
    /\ LET approved == Approved(TheOnly(files.reviews))
       IN  /\ CanCompare(baseline, TheOnly(files.decisions), approved)
           /\ Makes(c, "deltas", Compare(baseline, TheOnly(files.decisions), approved))

TechnicalNext ==
    \/ KnowledgeNext
    \/ /\ load.part = "technical"
       /\ \E c \in load.clients :
             \/ StartCommand(c, "accepted")
             \/ \E r \in RuleSets : StartDecide(c, r)
             \/ \E p \in Profiles : StartValidate(c, p)
             \/ StartInitReviews(c)
             \/ \E reviews \in files.reviews : \E r \in reviews :
                   \E status \in DOMAIN AllowedTransitions :
                     /\ Cardinality({q \in reviews : q.history # <<>>} \cup {r}) <= load.bound
                     /\ StartReviewDecision(c, r, status)
             \/ \E b \in Baselines : StartBuildDeltas(c, b)

\* The technical service, whatever clusters, resolution and accepted claims are on file.
TechnicalModeSpec ==
    /\ RequestsInit /\ load.part = "technical"
    /\ DOMAIN files = KnowledgeStages \cup TechnicalStages
    /\ \A stage \in TechnicalStages : files[stage] = {}
    /\ [][TechnicalNext]_technicalVars

-----------------------------------------------------------------------------
(* Properties                                                              *)

\* When technical deltas are written, everything they say is new was approved by a
\* person as it stands: every approved decision is in exactly one delta, with its own
\* value, and every delta has an approved decision or says that there is none.  No
\* order of deciding again, reviewing, starting the reviews over and comparing gives
\* a delta to a decision that was rejected, superseded or decided differently since.
\* (compare_approved_decisions, transition_record)
DeltasAreWhatWasApproved ==
    [][ Alone /\ files'.deltas # files.deltas =>
          LET deltas == TheOnly(files'.deltas)
              approved == Approved(TheOnly(files.reviews))
          IN  /\ \A id \in approved :
                   \E x \in deltas : x.decision = {id} /\ \A y \in deltas : y.decision = {id} => y = x
              /\ \A x \in deltas :
                   /\ x.decision \subseteq approved
                   /\ \A id \in x.decision :
                        \E d \in TheOnly(files.decisions) : d.id = id /\ x.value = {d.value}
                   /\ x.decision = {} =>
                        ~\E d \in TheOnly(files.decisions) : d.id \in approved /\ d.key = x.key
              /\ \A r \in TheOnly(files.reviews) :
                   r.target \in approved => Last(r.history).new = "approved" ]_technicalVars

\* SPRINT_B8_4_TECHNICAL_REVIEW.md, Validation gate: "Unresolved blocking validation
\* issues prevent the technical approval gate from opening."  (can_approve_decision)
ApprovalWaitsForBlockingIssues ==
    [][ files'.reviews # files.reviews =>
          \A r \in TheOnly(files'.reviews) :
             /\ r.type = "technical_decision" /\ r.status = "approved"
             /\ \E before \in files.reviews : \E q \in before :
                   q.target = r.target /\ q.status # "approved"
             => ~\E i \in TheOnly(files.validation) :
                   /\ i.severity = "blocking"
                   /\ \E q \in TheOnly(files'.reviews) :
                        q.target = i.id /\ q.status \notin {"approved", "rejected"} ]_technicalVars
=============================================================================
