---------------------------- MODULE ReviewLifecycle ----------------------------
(***************************************************************************)
(* What a review promises, whatever file holds it and whoever writes it:   *)
(* it starts as a fresh proposal, every later version extends the one      *)
(* before by exactly one allowed decision, and only a new calculation      *)
(* starts it afresh.  CommercialChain is shown to implement this when one  *)
(* request runs at a time.                                                 *)
(***************************************************************************)
EXTENDS Integers, Sequences

CONSTANTS Statuses, Allowed, EventIds, NoReview

VARIABLE review      \* the review in force, or NoReview

Init == review = NoReview

\* A new calculation is proposed; nothing is decided about it yet.
Propose ==
    /\ review' # NoReview
    /\ review'.status = "proposed"
    /\ review'.history = <<>>

\* One allowed decision about the calculation under review; its calculation,
\* totals and earlier decisions stay what they were.
Decide(new, id) ==
    /\ review # NoReview
    /\ new \in Allowed[review.status]
    /\ new = "approved" => review.unresolved = 0
    /\ review' = [review EXCEPT
          !.status  = new,
          !.latest  = id,
          !.history = Append(@, [id |-> id, previous |-> review.status,
                                 new |-> new, supersedes |-> review.latest])]

Next == Propose \/ \E new \in Statuses : \E id \in EventIds : Decide(new, id)

Spec == Init /\ [][Next]_review
=============================================================================
