---------------------------- MODULE AtomicDocument ----------------------------
(***************************************************************************)
(* What a document saved through a temporary file promises its readers:    *)
(* it is not there yet, or it is whole, and it changes by one entry at a   *)
(* time.                                                                   *)
(***************************************************************************)
CONSTANTS Entries, Absent

VARIABLE document

Init == document = Absent

Known == IF document = Absent THEN {} ELSE document

Add(e) ==
    /\ e \notin Known
    /\ document' = Known \cup {e}

Next == \E e \in Entries : Add(e)

Spec == Init /\ [][Next]_document
=============================================================================
