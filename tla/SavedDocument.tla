----------------------------- MODULE SavedDocument -----------------------------
(***************************************************************************)
(* One JSON document saved through a temporary file next to it, as the     *)
(* building graph is (crow_building_graph/repository.py) and, with the     *)
(* same few lines, findings, inferences, registers and OVK records.        *)
(*                                                                         *)
(* The temporary file has one fixed name, and every request makes its own  *)
(* repository, so savers on different threads share the file.  A saver     *)
(* writes to the file it has opened, wherever that file has been moved     *)
(* since.                                                                  *)
(***************************************************************************)
EXTENDS Naturals, FiniteSets

CONSTANTS
    Entries,        \* what may be added to the document, told apart by id
    Savers,         \* the threads that add to it
    MayCrash,       \* whether the server process may be restarted
    Absent, Empty, Torn    \* no such file; truncated; a mixture of two writes

ASSUME ContentAssumption ==
    /\ \A S \in SUBSET Entries : S \notin {Absent, Empty, Torn}
    /\ Empty # Absent /\ Empty # Torn /\ Absent # Torn

ASSUME CrashAssumption == MayCrash \in BOOLEAN

VARIABLES
    live,      \* the content of the document
    temp,      \* the content of the temporary file
    saver,     \* thread -> [pc, held, opened]: what it will write, and where
    overlapped,    \* history: whether a save ever began while another was under way
    restarted      \* history: whether the server process was ever restarted

documentVars == <<live, temp, saver, overlapped, restarted>>
documentHistory == <<overlapped, restarted>>

-----------------------------------------------------------------------------

NoSave == [pc |-> "idle", held |-> {}, opened |-> "none"]

OnFile == IF live = Absent THEN {} ELSE live

DocumentInit ==
    /\ live = Absent
    /\ temp = Absent
    /\ saver = [s \in Savers |-> NoSave]
    /\ overlapped = FALSE
    /\ restarted = FALSE

\* add: the document is loaded and the entry appended to the copy.  A document
\* that does not parse, or that has the entry, ends the request.
Load(s, e) ==
    /\ saver[s] = NoSave
    /\ live \notin {Empty, Torn}
    /\ e \notin OnFile
    /\ saver' = [saver EXCEPT ![s] =
                    [pc |-> "save", held |-> OnFile \cup {e}, opened |-> "none"]]
    /\ overlapped' = (overlapped \/ \E t \in Savers \ {s} : saver[t] # NoSave)
    /\ UNCHANGED <<live, temp, restarted>>

\* A fault: the text is written to the document itself.
OpenTempInPlace(s) ==
    /\ saver[s].pc = "save"
    /\ live' = Empty
    /\ saver' = [saver EXCEPT ![s].pc = "opened", ![s].opened = "live"]
    /\ UNCHANGED <<temp, documentHistory>>

\* write_text, first half: the temporary file is opened and truncated.
OpenTemp(s) ==
    /\ saver[s].pc = "save"
    /\ temp' = Empty
    /\ saver' = [saver EXCEPT ![s].pc = "opened", ![s].opened = "temp"]
    /\ UNCHANGED <<live, documentHistory>>

\* What writing v leaves in a file opened earlier: v, unless another saver has
\* written since, when a longer text leaves its tail behind.
Landed(content, v) == IF content = Empty THEN {v} ELSE {v, Torn}

\* write_text, second half.
Write(s) ==
    LET q == saver[s]
    IN  /\ q.pc = "opened"
        /\ CASE q.opened = "temp" -> /\ temp' \in Landed(temp, q.held)
                                     /\ UNCHANGED live
             [] q.opened = "live" -> /\ live' \in Landed(live, q.held)
                                     /\ UNCHANGED temp
             [] q.opened = "gone" -> UNCHANGED <<live, temp>>
        /\ saver' = [saver EXCEPT ![s].pc = "written"]
        /\ UNCHANGED documentHistory

\* Where the file that was opened is after the temporary file has been moved.
Moved(q) ==
    [q EXCEPT !.opened = CASE q.opened = "temp" -> "live"
                           [] q.opened = "live" -> "gone"
                           [] OTHER -> q.opened]

\* replace: the temporary file becomes the document.
MoveTemp(s) ==
    /\ saver[s].pc = "written"
    /\ temp # Absent
    /\ live' = temp
    /\ temp' = Absent
    /\ saver' = [t \in Savers |-> IF t = s THEN NoSave ELSE Moved(saver[t])]
    /\ UNCHANGED documentHistory

\* replace fails when another saver has moved the temporary file away.
ReplaceFails(s) ==
    /\ saver[s].pc = "written"
    /\ temp = Absent
    /\ saver' = [saver EXCEPT ![s] = NoSave]
    /\ UNCHANGED <<live, temp, documentHistory>>

\* The server process dies and is restarted: the files stay as they are.
Crash ==
    /\ MayCrash
    /\ saver' = [s \in Savers |-> NoSave]
    /\ restarted' = TRUE
    /\ UNCHANGED <<live, temp, overlapped>>

DocumentNext ==
    \/ \E s \in Savers :
          \/ \E e \in Entries : Load(s, e)
          \/ OpenTemp(s) \/ Write(s) \/ MoveTemp(s) \/ ReplaceFails(s)
    \/ Crash

DocumentSpec == DocumentInit /\ [][DocumentNext]_documentVars

-----------------------------------------------------------------------------
(* Properties                                                              *)

Contents == {Absent, Empty, Torn} \cup SUBSET Entries

\* The files hold a possible content, and a saver has a file open from the
\* time it opens it until its save has ended.
TypeOK ==
    /\ live \in Contents /\ temp \in Contents
    /\ saver \in [Savers -> [pc : {"idle", "save", "opened", "written"},
                             held : SUBSET Entries,
                             opened : {"none", "temp", "live", "gone"}]]
    /\ \A s \in Savers :
          saver[s].opened = "none" <=> saver[s].pc \in {"idle", "save"}
    /\ overlapped \in BOOLEAN /\ restarted \in BOOLEAN

\* The document is stored atomically: whoever reads it finds it whole.
DocumentIsWhole == live \notin {Empty, Torn}

Atomic == INSTANCE AtomicDocument WITH document <- live

\* As long as no save begins while another is under way, and with a restart at
\* any point, the document is an AtomicDocument. (GraphRepository.add, save)
ImplementsAtomic == Atomic!Init /\ [][~overlapped' => Atomic!Next]_live
=============================================================================
