------------------------------ MODULE UndoLog ------------------------------
(***************************************************************************)
(* What "Undo last run" promises, without journals, crashes or a catalog.  *)
(* `owed' holds one inverse move for every file the latest organizing run  *)
(* moved and that has not been put back yet.  A file and its inverse       *)
(* appear in the same step; the first move of a run forgets the run        *)
(* before; nothing but putting the file back ever clears an entry.         *)
(***************************************************************************)
CONSTANTS Files,        \* cataloged files, by identity
          Paths         \* names a file can have on disk

VARIABLES loc,          \* where each file is
          owed,         \* the inverse moves the user can still ask for
          running       \* a run has moved at least one file and goes on

vars == <<loc, owed, running>>

Free(p) == \A f \in Files : loc[f] # p

Init == /\ loc \in [Files -> Paths]
        /\ owed = {}
        /\ running = FALSE

MoveFile(f, p) ==
    /\ Free(p)
    /\ loc' = [loc EXCEPT ![f] = p]
    /\ running' = TRUE
    /\ owed' = (IF running THEN owed ELSE {})
                   \cup {[file |-> f, src |-> p, dst |-> loc[f]]}

EndRun == /\ running
          /\ running' = FALSE
          /\ UNCHANGED <<loc, owed>>

PutBack(e) ==
    /\ ~running
    /\ e \in owed
    /\ loc[e.file] = e.src
    /\ Free(e.dst)
    /\ loc' = [loc EXCEPT ![e.file] = e.dst]
    /\ owed' = owed \ {e}
    /\ UNCHANGED running

Next == \/ \E f \in Files, p \in Paths : MoveFile(f, p)
        \/ EndRun
        \/ \E e \in owed : PutBack(e)

Spec == Init /\ [][Next]_vars
=============================================================================
