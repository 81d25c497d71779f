-------------------------- MODULE RestructureApply --------------------------
(***************************************************************************)
(* The engine's real-move organizing run and its "Undo last run"           *)
(* (engine/src/pipeline/restructure_apply.rs).  One action per durable     *)
(* effect, so the process can be killed between any two of them.  A file   *)
(* is named by its on-disk identity; a planned move, a journal entry and a *)
(* recovery record share the shape [file, src, dst], a journal entry being *)
(* the inverse of the move it covers.                                      *)
(***************************************************************************)
EXTENDS Naturals, Sequences

CONSTANTS Files,        \* cataloged files (identity = files.file_ref)
          Paths,        \* absolute paths
          Roots,        \* library roots
          RootOf,       \* [Paths -> Roots], the root that contains a path
          Home,         \* [Files -> Paths], where the files start
          None,         \* no root
          MaxPlan,      \* longest plan
          MaxRuns,      \* apply and undo requests
          MaxRestarts,  \* engine relaunches
          Faults        \* the environment failures this instance allows

FaultKinds == {"kill",      \* the engine dies in the middle of a run
               "journal",   \* create/rename/remove of a journal file fails
               "append",    \* appending or syncing an entry fails
               "move",      \* the rename of a file fails
               "moveback",  \* the rename of an undo replay fails
               "truncate",  \* set_len of a rollback fails
               "stream",    \* reading the next planned move fails
               "row",       \* UPDATE files fails for another reason
               "record",    \* a recovery record is not written, or cut short
               "sidecar",   \* reading, rewriting or removing the records fails
               "offline",   \* the library root cannot be reached at launch
               "unproven"}  \* a row or an identity cannot be read at launch

ASSUME ConstantsAssumption ==
    /\ RootOf \in [Paths -> Roots]
    /\ Home \in [Files -> Paths]
    /\ \A f, g \in Files : Home[f] = Home[g] => f = g
    /\ None \notin Roots
    /\ MaxPlan \in Nat /\ MaxRuns \in Nat /\ MaxRestarts \in Nat
    /\ Faults \subseteq FaultKinds

VARIABLES loc,       \* disk: where each file is
          row,       \* catalog: files.path_text of each file
          journal,   \* restructure_undo.ndjson
          backup,    \* .restructure_undo.ndjson.prior-<uuid>
          pending,   \* the readable lines of restructure_recover.ndjson
          tail,      \* how that file ends
          forgotten, \* history: files whose record is known to be lost
          pc,        \* next durable effect of the engine
          run,       \* the run in progress, in memory
          handle,    \* its open UndoJournal, in memory
          runs, restarts   \* bounds

recovery == <<pending, tail, forgotten>>
vars == <<loc, row, journal, backup, recovery, pc, run, handle, runs, restarts>>
bounds == <<runs, restarts>>

\* After a whole line, inside one, or before the newline of one.
Tails == {"whole", "part", "bare"}

Move == [file : Files, src : Paths, dst : Paths]
InverseMove(m) == [file |-> m.file, src |-> m.dst, dst |-> m.src]

\* root = None: no durable header yet, or a file the scan refuses as corrupt.
Journal == [there : BOOLEAN, root : Roots \cup {None}, entries : Seq(Move)]
Absent == [there |-> FALSE, root |-> None, entries |-> <<>>]

\* dirty: a rollback could not truncate, its entry is still on disk.
Handle == [open : BOOLEAN, moved : BOOLEAN, committed : BOOLEAN, dirty : BOOLEAN]
Closed == [open |-> FALSE, moved |-> FALSE, committed |-> FALSE, dirty |-> FALSE]
Opened == [Closed EXCEPT !.open = TRUE]

\* todo starts with the move in progress, its dst replaced by the reserved
\* name; kept is what startup reconciliation carries over.
Run == [op : {"none", "apply", "undo", "startup"}, root : Roots \cup {None},
        strict : BOOLEAN, todo : Seq(Move), kept : Seq(Move),
        failed : BOOLEAN, cancelled : BOOLEAN, claimed : SUBSET Paths]
NewRun(op, root, strict, todo) ==
    [op |-> op, root |-> root, strict |-> strict, todo |-> todo,
     kept |-> <<>>, failed |-> FALSE, cancelled |-> FALSE, claimed |-> {}]
NoRun == NewRun("none", None, FALSE, <<>>)

PCs == {"idle", "next", "recover", "reinstate", "setaside", "create", "header",
        "append", "move", "rollback", "commit", "row", "record", "finish",
        "discard", "putback", "scan", "reconcile"}

Fault(k) == k \in Faults
OnDisk(p) == \E f \in Files : loc[f] = p
Head1 == Head(run.todo)
Drop == [run EXCEPT !.todo = Tail(@)]
Keep == [Drop EXCEPT !.kept = Append(@, Head1)]
Fail == [Drop EXCEPT !.failed = TRUE]
\* Fault injection: the whole move is claimed, not its destination.
ClaimedMove(p) == [run EXCEPT !.claimed = @ \cup {Head1}]
Claimed(p) == [run EXCEPT !.claimed = @ \cup {p}]
Reserved(p) == [Claimed(p) EXCEPT !.todo = <<[Head1 EXCEPT !.dst = p]>> \o Tail(@)]
Released == [Fail EXCEPT !.claimed = @ \ {Head1.dst}]

Init == /\ loc = Home
        /\ row = Home
        /\ journal = Absent
        /\ backup = Absent
        /\ pending = <<>> /\ tail = "whole" /\ forgotten = {}
        /\ pc = "idle"
        /\ run = NoRun
        /\ handle = Closed
        /\ runs = 0
        /\ restarts = 0

EndRun == /\ pc' = "idle"
          /\ run' = NoRun
          /\ handle' = Closed
          /\ UNCHANGED bounds

(***************************************************************************)
(* Requests.  A plan is a snapshot of an older catalog: its sources are    *)
(* any paths of the root.  The preflight refuses a malformed plan as a     *)
(* whole and leaves stale rows to the loop.                                *)
(***************************************************************************)
\* Fault injection: only the file is looked at, not its row.
CurrentOnDisk(m) == loc[m.file] = m.src

Current(m) == row[m.file] = m.src /\ loc[m.file] = m.src

Distinct(plan) == \A i, j \in DOMAIN plan : plan[i].file = plan[j].file => i = j
Moves(r) == {m \in Move : m.src # m.dst /\ RootOf[m.src] = r /\ RootOf[m.dst] = r}
WellFormed == [r \in Roots |->
    UNION {{plan \in [1..n -> Moves(r)] : Distinct(plan)} : n \in 1..MaxPlan}]

Preflight(plan) ==
    \A i, j \in DOMAIN plan : i # j =>
        /\ OnDisk(plan[i].src) => plan[i].src # plan[j].src
        /\ (Current(plan[i]) /\ Current(plan[j])) => plan[i].dst # plan[j].dst

StartApply(r, plan, strict) ==
    /\ pc = "idle" /\ runs < MaxRuns
    /\ Preflight(plan)
    /\ pc' = "next"
    /\ run' = NewRun("apply", r, strict, plan)
    /\ runs' = runs + 1
    /\ UNCHANGED <<loc, row, journal, backup, recovery, handle, restarts>>

StartUndo(r) ==
    /\ pc = "idle" /\ runs < MaxRuns
    /\ pc' = "recover"
    /\ run' = NewRun("undo", r, FALSE, <<>>)
    /\ runs' = runs + 1
    /\ UNCHANGED <<loc, row, journal, backup, recovery, handle, restarts>>

(***************************************************************************)
(* The loop over the plan (apply) or over the journal newest-first (undo). *)
(***************************************************************************)
AtMove(op) == pc = "next" /\ run.op = op /\ run.todo # <<>>
Taken(p) == p \in run.claimed \/ OnDisk(p)

\* DestinationClaims::reserve: the name itself, or a free sibling of it.
Candidates(dst) == {p \in Paths : /\ RootOf[p] = RootOf[dst]
                                  /\ ~Taken(p)
                                  /\ p = dst \/ Taken(dst)}

NextUnchanged == UNCHANGED <<loc, row, journal, backup, recovery, handle, bounds>>

LoopEnds ==
    /\ pc = "next" /\ run.op \in {"apply", "undo"} /\ run.todo = <<>>
    /\ pc' = "finish"
    /\ UNCHANGED run
    /\ NextUnchanged

Cancel ==
    /\ pc = "next" /\ run.op \in {"apply", "undo"} /\ run.todo # <<>>
    /\ run' = [run EXCEPT !.cancelled = TRUE]
    /\ pc' = "finish"
    /\ NextUnchanged

StreamFails ==
    /\ Fault("stream")
    /\ pc = "next" /\ run.op \in {"apply", "undo"} /\ run.todo # <<>>
    /\ run' = [run EXCEPT !.failed = TRUE]
    /\ pc' = "finish"
    /\ NextUnchanged

ApplyReject ==
    /\ AtMove("apply")
    /\ \/ ~Current(Head1)
       \/ run.strict /\ Taken(Head1.dst)
       \/ Candidates(Head1.dst) = {}
       \/ Fault("move")
    /\ run' = Fail
    /\ UNCHANGED pc
    /\ NextUnchanged

ApplyReserve ==
    /\ AtMove("apply")
    /\ Current(Head1)
    /\ run.strict => ~Taken(Head1.dst)
    /\ \E p \in Candidates(Head1.dst) : run' = Reserved(p)
    /\ pc' = IF handle.open THEN "append" ELSE "recover"
    /\ NextUnchanged

\* Already back on disk, only the row is behind.
UndoRowOnly(m) == row[m.file] = m.src /\ ~OnDisk(m.src) /\ loc[m.file] = m.dst
UndoHome(m) == row[m.file] = m.dst /\ loc[m.file] = m.dst
UndoMovable(m) == /\ loc[m.file] = m.src
                  /\ \/ row[m.file] = m.src
                     \/ row[m.file] = m.dst /\ ~OnDisk(m.dst)

UndoRelabel ==
    /\ AtMove("undo") /\ UndoRowOnly(Head1)
    /\ pc' = "row"
    /\ UNCHANGED run
    /\ NextUnchanged

UndoKeep ==
    /\ AtMove("undo") /\ UndoHome(Head1)
    /\ run' = Drop
    /\ UNCHANGED pc
    /\ NextUnchanged

UndoReject ==
    /\ AtMove("undo") /\ ~UndoRowOnly(Head1) /\ ~UndoHome(Head1)
    /\ \/ ~UndoMovable(Head1)
       \/ Fault("moveback")
       \/ Candidates(Head1.dst) = {}
    /\ run' = Fail
    /\ UNCHANGED pc
    /\ NextUnchanged

UndoReserve ==
    /\ AtMove("undo") /\ UndoMovable(Head1)
    /\ \E p \in Candidates(Head1.dst) : run' = Reserved(p)
    /\ pc' = "move"
    /\ NextUnchanged

(***************************************************************************)
(* recover_prior_undo_journal, run before a journal is opened and before   *)
(* an undo reads it.                                                       *)
(***************************************************************************)
First == Head(journal.entries)
FirstMoved == loc[First.file] = First.src
FirstWaiting == loc[First.file] = First.dst

RecoveryRefused(r) ==
    /\ backup.there
    /\ \/ backup.root # r
       \/ /\ journal.there
          /\ \/ journal.root # r
             \/ journal.entries # <<>> /\ FirstMoved = FirstWaiting

RecoverUnchanged == UNCHANGED <<loc, row, recovery>>
Recovered == pc' = IF run.op = "apply" THEN "setaside" ELSE "scan"

RecoverRefuse ==
    /\ pc = "recover"
    /\ RecoveryRefused(run.root) \/ (backup.there /\ Fault("journal"))
    /\ EndRun
    /\ UNCHANGED <<journal, backup>> /\ RecoverUnchanged

RecoverNothing ==
    /\ pc = "recover" /\ ~backup.there
    /\ Recovered
    /\ UNCHANGED <<journal, backup, run, handle, bounds>> /\ RecoverUnchanged

\* The new journal's first move reached the disk: the prior one is obsolete.
RecoverCommitted ==
    /\ pc = "recover" /\ backup.there /\ ~RecoveryRefused(run.root)
    /\ journal.there /\ journal.entries # <<>> /\ FirstMoved
    /\ backup' = Absent
    /\ Recovered
    /\ UNCHANGED <<journal, run, handle, bounds>> /\ RecoverUnchanged

RecoverUncommitted ==
    /\ pc = "recover" /\ backup.there /\ ~RecoveryRefused(run.root)
    /\ ~(journal.there /\ journal.entries # <<>> /\ FirstMoved)
    /\ journal' = Absent
    /\ pc' = "reinstate"
    /\ UNCHANGED <<backup, run, handle, bounds>> /\ RecoverUnchanged

Reinstate ==
    /\ pc = "reinstate"
    /\ \/ /\ journal' = backup /\ backup' = Absent
          /\ Recovered
          /\ UNCHANGED <<run, handle, bounds>>
       \/ /\ Fault("journal")
          /\ EndRun
          /\ UNCHANGED <<journal, backup>>
    /\ RecoverUnchanged

(***************************************************************************)
(* UndoJournal: opened at the first real move, appended ahead of each one. *)
(***************************************************************************)
FilesUnchanged == UNCHANGED <<loc, row, recovery, bounds>>

SetAside ==
    /\ pc = "setaside"
    /\ \/ /\ IF journal.there
             THEN journal' = Absent /\ backup' = journal
             ELSE UNCHANGED <<journal, backup>>
          /\ pc' = "create"
          /\ UNCHANGED <<run, handle, bounds>>
       \/ /\ Fault("journal")
          /\ EndRun
          /\ UNCHANGED <<journal, backup>>
    /\ UNCHANGED <<loc, row, recovery>>

CreateJournal ==
    /\ pc = "create"
    /\ \/ /\ journal' = [Absent EXCEPT !.there = TRUE]
          /\ pc' = "header"
       \/ /\ Fault("journal")
          /\ pc' = "discard"
          /\ UNCHANGED journal
    /\ UNCHANGED <<backup, run, handle>> /\ FilesUnchanged

WriteHeader ==
    /\ pc = "header"
    /\ \/ /\ journal' = [journal EXCEPT !.root = run.root]
          /\ handle' = Opened
          /\ pc' = "append"
       \/ /\ Fault("journal")
          /\ pc' = "discard"
          /\ UNCHANGED <<journal, handle>>
    /\ UNCHANGED <<backup, run>> /\ FilesUnchanged

\* Fault injection: the entry of a failed move is left in place.
OverwrittenNothing == journal.entries

\* After a rollback that could not truncate, the new line is written over the
\* old one; a shorter line leaves bytes no scan accepts.
Overwritten == SubSeq(journal.entries, 1, Len(journal.entries) - 1)

AppendAhead ==
    /\ pc = "append"
    /\ LET e == InverseMove(Head1)
       IN IF handle.dirty
          THEN \E r \in {run.root, None} :
                 journal' = [there |-> TRUE, root |-> r, entries |-> Append(Overwritten, e)]
          ELSE journal' = [journal EXCEPT !.entries = Append(@, e)]
    /\ handle' = [handle EXCEPT !.dirty = FALSE]
    /\ pc' = "move"
    /\ UNCHANGED <<backup, run>> /\ FilesUnchanged

\* The write or its sync fails: the line may be in the file all the same.
AppendFails ==
    /\ pc = "append" /\ Fault("append")
    /\ \/ UNCHANGED journal
       \/ /\ ~handle.dirty
          /\ journal' = [journal EXCEPT !.entries = Append(@, InverseMove(Head1))]
       \/ /\ handle.dirty
          /\ journal' = [journal EXCEPT !.root = None]
    /\ run' = [run EXCEPT !.failed = TRUE]
    /\ pc' = "finish"
    /\ UNCHANGED <<backup, handle>> /\ FilesUnchanged

\* rename_no_replace, bound to the identity verified before.
MoveFile ==
    /\ pc = "move"
    /\ loc[Head1.file] = Head1.src /\ ~OnDisk(Head1.dst)
    /\ loc' = [loc EXCEPT ![Head1.file] = Head1.dst]
    /\ pc' = IF run.op = "apply" THEN "commit" ELSE "row"
    /\ handle' = [handle EXCEPT !.moved = (run.op = "apply")]
    /\ UNCHANGED <<row, journal, backup, recovery, run, bounds>>

MoveFails ==
    /\ pc = "move"
    /\ \/ loc[Head1.file] # Head1.src
       \/ OnDisk(Head1.dst)
       \/ run.op = "apply" /\ Fault("move")
       \/ run.op = "undo" /\ Fault("moveback")
    /\ IF run.op = "apply"
       THEN pc' = "rollback" /\ UNCHANGED run
       ELSE pc' = "next" /\ run' = Released
    /\ UNCHANGED <<journal, backup, handle>> /\ FilesUnchanged

Rollback ==
    /\ pc = "rollback"
    /\ \/ /\ journal' = [journal EXCEPT !.entries = Overwritten]
          /\ UNCHANGED handle
       \/ /\ Fault("truncate")
          /\ handle' = [handle EXCEPT !.dirty = TRUE]
          /\ UNCHANGED journal
    /\ run' = Released
    /\ pc' = "next"
    /\ UNCHANGED backup /\ FilesUnchanged

\* commit_replacement: the first move drops the journal it replaced.
Commit ==
    /\ pc = "commit"
    /\ IF handle.committed
       THEN UNCHANGED <<backup, handle>>
       ELSE \/ /\ backup' = Absent
               /\ handle' = [handle EXCEPT !.committed = TRUE]
            \/ /\ Fault("journal") /\ backup.there
               /\ UNCHANGED <<backup, handle>>
    /\ pc' = "row"
    /\ UNCHANGED <<journal, run>> /\ FilesUnchanged

(***************************************************************************)
(* UPDATE OR ABORT files SET path_text: path_text is UNIQUE.               *)
(***************************************************************************)
Conflict(m) == \E g \in Files \ {m.file} : row[g] = m.dst

RowUnchanged == UNCHANGED <<loc, journal, backup, handle, bounds>>

UpdateRow ==
    /\ pc = "row" /\ ~Conflict(Head1)
    /\ row' = [row EXCEPT ![Head1.file] = Head1.dst]
    /\ forgotten' = forgotten \ {Head1.file}
    /\ run' = Drop
    /\ pc' = "next"
    /\ UNCHANGED <<pending, tail>> /\ RowUnchanged

UpdateRowFails ==
    /\ pc = "row"
    /\ Conflict(Head1) \/ Fault("row")
    /\ pc' = "record"
    /\ UNCHANGED <<row, recovery, run>> /\ RowUnchanged

\* A line written behind a line without its newline is joined to it, and
\* neither can be read again.
Joined == IF tail = "bare" THEN SubSeq(pending, 1, Len(pending) - 1) ELSE pending
JoinedFiles == {pending[i].file : i \in (Len(Joined) + 1)..Len(pending)}

Recorded ==
    /\ tail' = "whole"
    /\ IF tail = "whole"
       THEN pending' = Append(pending, Head1) /\ forgotten' = forgotten \ {Head1.file}
       ELSE pending' = Joined /\ forgotten' = forgotten \cup {Head1.file} \cup JoinedFiles

\* Nothing is written, or a part of the line, or all but its newline.
RecordCut ==
    /\ \/ UNCHANGED <<pending, tail>>
       \/ pending' = Joined /\ tail' = "part"
       \/ tail = "whole" /\ pending' = Append(pending, Head1) /\ tail' = "bare"
    /\ forgotten' = forgotten \cup {Head1.file} \cup JoinedFiles

\* record_path_update_failure, best effort.
RecordFailure ==
    /\ pc = "record"
    /\ Recorded \/ (Fault("record") /\ RecordCut)
    /\ run' = Drop
    /\ pc' = "next"
    /\ UNCHANGED row /\ RowUnchanged

(***************************************************************************)
(* The end of a run.                                                       *)
(***************************************************************************)
ApplyEnds ==
    /\ pc = "finish" /\ run.op = "apply"
    /\ ~handle.open \/ handle.moved
    /\ \/ backup' = IF handle.moved THEN Absent ELSE backup
       \/ /\ handle.moved /\ ~handle.committed /\ Fault("journal")
          /\ UNCHANGED backup
    /\ EndRun
    /\ UNCHANGED <<loc, row, journal, recovery>>

\* Nothing moved: restore_prior_if_uncommitted.
ApplyEndsUnmoved ==
    /\ pc = "finish" /\ run.op = "apply"
    /\ handle.open /\ ~handle.moved
    /\ pc' = "discard"
    /\ UNCHANGED <<journal, backup, run, handle>> /\ FilesUnchanged

Discard ==
    /\ pc = "discard"
    /\ \/ journal' = Absent
       \/ Fault("journal") /\ UNCHANGED journal
    /\ pc' = "putback"
    /\ UNCHANGED <<backup, run, handle>> /\ FilesUnchanged

PutBack ==
    /\ pc = "putback"
    /\ \/ /\ backup.there
          /\ journal' = backup /\ backup' = Absent
       \/ /\ ~backup.there \/ Fault("journal")
          /\ UNCHANGED <<journal, backup>>
    /\ EndRun
    /\ UNCHANGED <<loc, row, recovery>>

\* Fault injection: a cancelled undo retires the journal too.
UndoEndsCancelled ==
    /\ pc = "finish" /\ run.op = "undo"
    /\ journal' = IF run.failed THEN journal ELSE Absent
    /\ EndRun
    /\ UNCHANGED <<loc, row, backup, recovery>>

\* Only a replay with nothing failed and nothing cancelled retires the journal.
UndoEnds ==
    /\ pc = "finish" /\ run.op = "undo"
    /\ \/ journal' = IF run.cancelled \/ run.failed THEN journal ELSE Absent
       \/ Fault("journal") /\ UNCHANGED journal
    /\ EndRun
    /\ UNCHANGED <<loc, row, backup, recovery>>

\* Fault injection: the replay order oldest-first.
ReverseNot(s) == s

Reverse(s) == [i \in 1..Len(s) |-> s[Len(s) + 1 - i]]

ScanJournal ==
    /\ pc = "scan"
    /\ journal.there /\ journal.root = run.root /\ journal.entries # <<>>
    /\ run' = [run EXCEPT !.todo = Reverse(journal.entries)]
    /\ pc' = "next"
    /\ UNCHANGED <<journal, backup, handle>> /\ FilesUnchanged

\* No journal, or no work in it (removed), or one of another root (refused).
ScanStops ==
    /\ pc = "scan"
    /\ \/ ~journal.there /\ UNCHANGED journal
       \/ journal.there /\ journal.root # run.root /\ UNCHANGED journal
       \/ journal.there /\ journal.root = run.root /\ journal.entries = <<>> /\ journal' = Absent
    /\ EndRun
    /\ UNCHANGED <<loc, row, backup, recovery>>

(***************************************************************************)
(* The engine dies or quits and is launched again; before it serves any    *)
(* request, reconcile_pending_path_updates walks the recovery records.     *)
(***************************************************************************)
Restart ==
    /\ restarts < MaxRestarts
    /\ pc = "idle" \/ Fault("kill")
    /\ restarts' = restarts + 1
    /\ \/ pc' = "reconcile" /\ run' = NewRun("startup", None, FALSE, pending)
       \/ Fault("sidecar") /\ pc' = "idle" /\ run' = NoRun
    /\ forgotten' = IF pc \in {"commit", "row", "record"}
                    THEN forgotten \cup {Head1.file} ELSE forgotten
    /\ handle' = Closed
    /\ UNCHANGED <<loc, row, journal, backup, pending, tail, runs>>

Healable(m) == /\ loc[m.file] = m.dst
               /\ row[m.file] = m.src

ReconcileOne ==
    /\ pc = "reconcile" /\ run.todo # <<>>
    /\ \/ /\ Healable(Head1) /\ ~Conflict(Head1)
          /\ row' = [row EXCEPT ![Head1.file] = Head1.dst]
          /\ forgotten' = forgotten \ {Head1.file}
          /\ run' = Drop
       \/ /\ \/ Healable(Head1) /\ (Conflict(Head1) \/ Fault("row"))
             \/ Fault("offline")
          /\ run' = Keep
          /\ UNCHANGED <<row, forgotten>>
       \/ /\ ~Healable(Head1)
          /\ run' = Drop
          /\ UNCHANGED <<row, forgotten>>
       \/ /\ Fault("unproven")
          /\ run' = Drop
          /\ forgotten' = forgotten \cup {Head1.file}
          /\ UNCHANGED row
    /\ UNCHANGED <<loc, journal, backup, pending, tail, pc, handle, bounds>>

\* Fault injection: the sidecar is deleted after one pass over it.
ReconcileEndsDropping ==
    /\ pc = "reconcile" /\ run.todo = <<>>
    /\ pending' = <<>> /\ tail' = "whole" /\ UNCHANGED forgotten
    /\ EndRun
    /\ UNCHANGED <<loc, row, journal, backup>>

\* fs::write truncates the file, then fails: the lines so far, the last of
\* them perhaps cut short.
RewriteCut ==
    /\ \E n \in 0..Len(run.kept), t \in Tails :
          /\ IF t = "bare" THEN n > 0 ELSE n < Len(run.kept)
          /\ pending' = SubSeq(run.kept, 1, n)
          /\ tail' = t
    /\ forgotten' = forgotten \cup {run.kept[i].file : i \in 1..Len(run.kept)}

\* The records kept replace the file; with none left it is removed.
ReconcileEnds ==
    /\ pc = "reconcile" /\ run.todo = <<>>
    /\ \/ pending' = run.kept /\ tail' = "whole" /\ UNCHANGED forgotten
       \/ Fault("sidecar") /\ (RewriteCut \/ UNCHANGED recovery)
    /\ EndRun
    /\ UNCHANGED <<loc, row, journal, backup>>

RequestStep == \/ \E r \in Roots : \E plan \in WellFormed[r], strict \in BOOLEAN : StartApply(r, plan, strict)
               \/ \E r \in Roots : StartUndo(r)
LoopStep == LoopEnds \/ Cancel \/ StreamFails \/ ApplyReject \/ ApplyReserve
            \/ UndoRelabel \/ UndoKeep \/ UndoReject \/ UndoReserve
RecoverStep == RecoverRefuse \/ RecoverNothing \/ RecoverCommitted \/ RecoverUncommitted \/ Reinstate
JournalStep == SetAside \/ CreateJournal \/ WriteHeader \/ AppendAhead \/ AppendFails \/ Rollback \/ Commit
FileStep == MoveFile \/ MoveFails
RowStep == UpdateRow \/ UpdateRowFails \/ RecordFailure
EndStep == ApplyEnds \/ ApplyEndsUnmoved \/ Discard \/ PutBack \/ UndoEnds \/ ScanJournal \/ ScanStops
StartupStep == Restart \/ ReconcileOne \/ ReconcileEnds

Done == pc = "idle" /\ runs = MaxRuns /\ UNCHANGED vars

Next == \/ RequestStep \/ LoopStep \/ RecoverStep \/ JournalStep \/ FileStep
        \/ RowStep \/ EndStep \/ StartupStep \/ Done

Spec == Init /\ [][Next]_vars

(***************************************************************************)
(* Correctness.                                                            *)
(***************************************************************************)
\* Every variable has the type its declaration names.
TypeOK ==
    /\ loc \in [Files -> Paths]
    /\ row \in [Files -> Paths]
    /\ journal \in Journal
    /\ backup \in Journal
    /\ pending \in Seq(Move) /\ tail \in Tails /\ forgotten \subseteq Files
    /\ pc \in PCs
    /\ run \in Run
    /\ handle \in Handle
    /\ runs \in 0..MaxRuns
    /\ restarts \in 0..MaxRestarts

\* The open journal of an apply claims exactly the moves that happened, plus
\* the one about to happen (or one whose line a failed sync or truncate left).
JournalExact ==
    (run.op = "apply" /\ handle.open) =>
        \A i \in 1..Len(journal.entries) :
            LET e == journal.entries[i]
            IN \/ loc[e.file] = e.src
               \/ i = Len(journal.entries) /\ pc \in {"move", "rollback"}
               \/ i = Len(journal.entries) /\ run.failed

\* The inverse moves still owed to the user, read off the durable state: those
\* of the set-aside journal until the first move of the new one reached disk.
Live(j) == {e \in {j.entries[i] : i \in 1..Len(j.entries)} : loc[e.file] = e.src}
Superseded == journal.there /\ journal.entries # <<>> /\ FirstMoved
Owed == IF backup.there /\ ~Superseded THEN Live(backup) ELSE Live(journal)

\* The journals implement the abstract undo log: a crash, a failed journal
\* operation or a recovery never loses or invents an inverse move, a run's
\* first move and nothing else forgets the run before, an undo moves each file
\* only to its journaled place, and retires the journal only when all are back.
Abstract == INSTANCE UndoLog WITH owed <- Owed, running <- handle.moved
ImplementsUndoLog == Abstract!Spec

\* Between runs, a row that does not name its file's path has a recovery
\* record that startup can apply: no failed path update is forgotten.
StaleRowRecorded ==
    pc = "idle" =>
        \A f \in Files : row[f] # loc[f] =>
            \E i \in 1..Len(pending) :
                pending[i] = [file |-> f, src |-> row[f], dst |-> loc[f]]

\* The same, whatever fails and whenever the engine is killed, for every file
\* but those whose own record is known to be lost: the engine died between its
\* rename and its row, the record was cut short or joined to one that was, a
\* launch could not prove it, or could not write back the records it kept.  So
\* none of these costs another file its record, and no conflict, no launch
\* while the library is offline and no later run costs any file its own.
StaleRowKept ==
    pc = "idle" =>
        \A f \in Files \ forgotten : row[f] # loc[f] =>
            \E i \in 1..Len(pending) :
                pending[i] = [file |-> f, src |-> row[f], dst |-> loc[f]]

\* Files whose rows are behind never block each other in a ring: one of them at
\* least is at a path that no other row names, so that a launch with its record
\* can update its row, and then the next one.
Behind == {f \in Files : row[f] # loc[f]}
Unstuck == Behind # {} => \E f \in Behind : \A g \in Files \ {f} : row[g] # loc[f]

\* Every entry of the journal a user can undo names a file that is either
\* still where the run put it or back where it came from, so asking again
\* finishes a cancelled or partly failed undo.
RetryCanFinish ==
    (pc = "idle" /\ journal.there) =>
        \A i \in 1..Len(journal.entries) :
            loc[journal.entries[i].file] \in {journal.entries[i].src, journal.entries[i].dst}

\* While something is owed, undo is not refused for every root.
UndoAdmitted ==
    (pc = "idle" /\ Owed # {}) =>
        \E r \in Roots : /\ ~RecoveryRefused(r)
                         /\ backup.there \/ journal.root = r
=============================================================================
