---------------------------- MODULE ScanPipeline ----------------------------
(***************************************************************************)
(* One scan of a folder (engine/src/commands/scan.rs, scan_session.rs,     *)
(* coordinator.rs, pipeline/discovery.rs, tagging.rs and dbwriter.rs): the *)
(* walk, the pump, the decoder threads, the tagging workers and the writer *)
(* pass files through bounded channels into the catalog, while the user    *)
(* pauses or cancels, the GPU dies, and files move under the walk.         *)
(*                                                                         *)
(* A file is its identity: size, file_ref and content hash at once.  A     *)
(* path found by a pass is at one place, a channel or the task that holds  *)
(* it.  The channels give their entries in any order, as the decoders and  *)
(* workers mix them anyway.                                                *)
(***************************************************************************)
EXTENDS Naturals, FiniteSets, SequencesExt

CONSTANTS Files,      \* identities of files
          Paths,      \* paths under the scanned root
          Dirs,       \* its directories
          DirOf,      \* [Paths -> Dirs]
          Ids,        \* catalog ids, given out in ascending order
          Decoders,   \* decoder threads
          Workers,    \* tagging workers
          Cap,        \* capacity of each channel
          Batch,      \* rows per transaction
          Starts,     \* catalogs and folders a scan may find, as <<rows, disk>>
          Faults,     \* "list", "read", "bare", "db", "hide", "status", "load", "gpu",
                      \* "spawn": what may fail
          MaxTroubles, \* bound on faults, pauses, cancels and changes of the folder
          None

ASSUME ScanAssumption ==
    /\ DirOf \in [Paths -> Dirs]
    /\ Ids \subseteq Nat
    /\ Decoders # {} /\ Workers # {}
    /\ Cap \in Nat \ {0} /\ Batch \in Nat \ {0}
    /\ MaxTroubles \in Nat
    /\ None \notin Files \union Ids

Channels == {"found", "disc", "raw", "pre", "out"}
Tasks == {"walker", "pump", "writer"} \union Decoders \union Workers

ASSUME PlaceAssumption ==
    /\ Decoders \intersect Workers = {}
    /\ (Decoders \union Workers) \intersect
         (Channels \union {"none", "done", "walker", "pump", "writer"}) = {}

Row == [path : Paths, file : Files \union {None}, failed : BOOLEAN]

\* files.path_text is unique, and a rowid is always left to give out.
ASSUME CatalogAssumption ==
    /\ None \notin Row
    /\ \A s \in Starts :
         /\ s[1] \in [Ids -> Row \union {None}]
         /\ s[2] \in [Paths -> Files \union {None}]
         /\ \A i, j \in Ids : s[1][i] # None /\ s[1][j] # None /\ i # j =>
                                  s[1][i].path # s[1][j].path
    /\ IsFiniteSet(Paths)
    /\ IsFiniteSet(Ids) => Cardinality(Paths) <= Cardinality(Ids)

VARIABLES disk,      \* [Paths -> the file there]
          rows,      \* [Ids -> the catalog row, or None]
          paused, cancelled, gpuDead, \* the coordinator, and the process's latch
          deaf,      \* tasks asleep in wait_cancelled that the latch did not wake
          main,      \* what handle_start_scan and ScanSession::run are doing
          pass,      \* 1, or 2 for the follow-up
          unread,    \* directories the walk has not read
          errors,    \* whether the walk met an error
          skip,      \* the skip set
          seen,      \* paths the walk has seen
          healing,   \* rename_heal_enabled
          at,        \* [Paths -> where the file found there is]
          what,      \* [Paths -> the file found there]
          result,    \* [Paths -> what tagging made of it]
          up,        \* tasks that run
          cleared,   \* workers past the check of the pause
          buffer,    \* the writer's batch
          cand,      \* its heal candidates, <<path, id, old path>>
          looked,    \* whether they have been looked up
          status,    \* of each pass's row in scan_sessions
          missed,    \* history: whether a write to scan_sessions failed
          hidden,    \* history: whether this pass hid the missing rows
          outcome,   \* the terminal phase sent to the app
          touched,   \* directories changed since the pass began
          steady,    \* paths that have held a file since the pass began
          troubles   \* faults, pauses, cancels and changes so far

coordinator == <<paused, cancelled, gpuDead, deaf>>
walk == <<unread, errors, skip, seen>>
items == <<at, what, result>>
writer == <<buffer, cand, looked>>
session == <<main, pass, status, missed, hidden, outcome>>
user == <<disk, touched, steady>>
vars == <<coordinator, walk, items, up, cleared, rows, healing, writer, session,
          user, troubles>>

Present == {p \in Paths : disk[p] # None}

Init == /\ \E s \in Starts : rows = s[1] /\ disk = s[2]
        /\ paused = FALSE /\ cancelled = FALSE /\ gpuDead = FALSE /\ deaf = {}
        /\ main = "queued" /\ pass = 1 /\ outcome = "none"
        /\ status = [n \in {1, 2} |-> "none"] /\ missed = FALSE /\ hidden = FALSE
        /\ unread = {} /\ errors = FALSE /\ skip = {} /\ seen = {}
        /\ healing = FALSE
        /\ at = [p \in Paths |-> "none"]
        /\ what = [p \in Paths |-> None]
        /\ result = [p \in Paths |-> "none"]
        /\ up = {} /\ cleared = {}
        /\ buffer = <<>> /\ cand = {} /\ looked = FALSE
        /\ touched = {} /\ steady = {}
        /\ troubles = 0

(***************************************************************************)
(* The coordinator.  Everything that sets a flag wakes the sleepers, but   *)
(* the process-wide latch set from elsewhere does not reach resume_notify. *)
(***************************************************************************)
Stop == cancelled \/ gpuDead

Down(t) == t \notin up
AllDown(T) == T \intersect up = {}
Idle(t) == t \in up /\ \A p \in Paths : at[p] # t
Asleep == {t \in {"pump"} \intersect up : ~Stop} \union {w \in Workers : Idle(w) /\ ~Stop}

Running == main \notin {"queued", "over"}

Trouble == troubles < MaxTroubles /\ troubles' = troubles + 1
Fault(kind) == kind \in Faults /\ Trouble

RequestPause == /\ Running /\ ~paused /\ Trouble
                /\ paused' = TRUE
                /\ UNCHANGED <<cancelled, gpuDead, deaf, walk, items, up, cleared, rows,
                               healing, writer, session, user>>

RequestResume == /\ Running /\ paused
                 /\ paused' = FALSE /\ deaf' = {}
                 /\ UNCHANGED <<cancelled, gpuDead, walk, items, up, cleared, rows,
                                healing, writer, session, user, troubles>>

RequestCancel == /\ main # "over" /\ ~cancelled /\ Trouble
                 /\ cancelled' = TRUE /\ deaf' = {}
                 /\ UNCHANGED <<paused, gpuDead, walk, items, up, cleared, rows, healing,
                                writer, session, user>>

\* classify_inference_error finds the device removed, in this scan or elsewhere.
LatchElsewhere == /\ main # "over" /\ ~gpuDead /\ Fault("gpu")
                  /\ gpuDead' = TRUE
                  /\ \E armed \in SUBSET Asleep : deaf' = deaf \union armed
                  /\ UNCHANGED <<paused, cancelled, walk, items, up, cleared, rows, healing,
                                 writer, session, user>>

\* A worker of this scan has met it: mark_gpu_dead, once the latch is set.
MarkGpuDead == /\ gpuDead /\ ~cancelled /\ cleared \intersect up # {}
               /\ cancelled' = TRUE /\ deaf' = {}
               /\ UNCHANGED <<paused, gpuDead, walk, items, up, cleared, rows, healing,
                              writer, session, user, troubles>>

(***************************************************************************)
(* The walk: directories are read in parallel, ahead of the loop that      *)
(* sends their files on.                                                   *)
(***************************************************************************)
Held(c) == {p \in Paths : at[p] = c}
Room(c) == Cardinality(Held(c)) < Cap

\* Fault injection: any file at the path of an active row is skipped.
CurrentByPath == {rows[i].path : i \in {j \in Ids : rows[j] # None /\ ~rows[j].failed}} \X Files

\* A path is skipped when its row is current: same size and time.
Current == {<<rows[i].path, rows[i].file>> : i \in {j \in Ids : rows[j] # None /\ ~rows[j].failed}}

ReadDir(d) ==
    /\ "walker" \in up /\ ~Stop /\ d \in unread
    /\ LET here == {p \in Present : DirOf[p] = d}
           new == {p \in here : <<p, disk[p]>> \notin skip}
       IN /\ seen' = seen \union here
          /\ at' = [p \in Paths |-> IF p \in new THEN "found" ELSE at[p]]
          /\ what' = [p \in Paths |-> IF p \in new THEN disk[p] ELSE what[p]]
    /\ unread' = unread \ {d}
    /\ UNCHANGED <<coordinator, errors, skip, result, up, cleared, rows, healing, writer,
                   session, user, troubles>>

ListFails(d) == /\ "walker" \in up /\ ~Stop /\ d \in unread /\ Fault("list")
                /\ unread' = unread \ {d} /\ errors' = TRUE
                /\ UNCHANGED <<coordinator, skip, seen, items, up, cleared, rows, healing,
                               writer, session, user>>

\* The file found at p goes from the place it is at to the place c.
Pass(p, c) == /\ at' = [at EXCEPT ![p] = c]
              /\ UNCHANGED <<what, rows, healing, walk, session, user,
                             paused, cancelled, gpuDead>>

Ends(t) == /\ t \in up
           /\ up' = up \ {t} /\ deaf' = deaf \ {t}
           /\ UNCHANGED <<paused, cancelled, gpuDead, walk, items, cleared, rows, healing,
                          writer, session, user>>

Sends(p) == /\ "walker" \in up /\ at[p] = "found"
            /\ "pump" \in up /\ Room("disc")
            /\ Pass(p, "disc")
            /\ UNCHANGED <<deaf, result, up, cleared, writer, troubles>>

\* The walk is over, cancelled, or nobody receives; it is "done" either way.
WalkEnds == /\ \/ Stop
               \/ Held("found") # {} /\ Down("pump")
               \/ Held("found") = {} /\ unread = {}
            /\ Ends("walker") /\ UNCHANGED troubles

Walker == \/ \E d \in Dirs : ReadDir(d) \/ ListFails(d)
          \/ \E p \in Paths : Sends(p)
          \/ WalkEnds

(***************************************************************************)
(* The pump and the decoder threads.  The threads poll the flags.          *)
(***************************************************************************)
PumpTakes(p) == /\ Idle("pump") /\ at[p] = "disc"
                /\ Pass(p, "pump") /\ deaf' = deaf \ {"pump"}
                /\ UNCHANGED <<result, up, cleared, writer, troubles>>

PumpGives(p) == /\ "pump" \in up /\ at[p] = "pump"
                /\ ~AllDown(Decoders) /\ Room("raw")
                /\ Pass(p, "raw") /\ deaf' = deaf \ {"pump"}
                /\ UNCHANGED <<result, up, cleared, writer, troubles>>

PumpEnds == /\ \/ Stop /\ "pump" \notin deaf
               \/ Idle("pump") /\ Held("disc") = {} /\ Down("walker")
               \/ Held("pump") # {} /\ AllDown(Decoders)
            /\ Ends("pump") /\ UNCHANGED troubles

Pump == PumpEnds \/ \E p \in Paths : PumpTakes(p) \/ PumpGives(p)

DecoderTakes(d, p) == /\ Idle(d) /\ ~Stop /\ at[p] = "raw"
                      /\ Pass(p, d)
                      /\ UNCHANGED <<deaf, result, up, cleared, writer, troubles>>

DecoderGives(d, p) == /\ d \in up /\ ~Stop /\ at[p] = d
                      /\ ~AllDown(Workers) /\ Room("pre")
                      /\ Pass(p, "pre")
                      /\ UNCHANGED <<deaf, result, up, cleared, writer, troubles>>

DecoderEnds(d) == /\ \/ Stop
                     \/ Idle(d) /\ Held("raw") = {} /\ Down("pump")
                     \/ Held(d) # {} /\ AllDown(Workers)
                  /\ Ends(d) /\ UNCHANGED troubles

Decoder(d) == DecoderEnds(d) \/ \E p \in Paths : DecoderTakes(d, p) \/ DecoderGives(d, p)

(***************************************************************************)
(* A worker takes a decoded file, waits in check() while the scan is       *)
(* paused, waits for admission, analyses it and sends the row.  An         *)
(* analysis that fails keeps the file's identity; a refusal, a timeout or  *)
(* a panic yields a bare row.                                              *)
(***************************************************************************)
WorkerTakes(w, p) == /\ Idle(w) /\ at[p] = "pre"
                     /\ Pass(p, w) /\ deaf' = deaf \ {w}
                     /\ UNCHANGED <<result, up, cleared, writer, troubles>>

Clears(w) == /\ w \in up \ cleared /\ Held(w) # {}
             /\ ~Stop /\ ~paused
             /\ cleared' = cleared \union {w}
             /\ UNCHANGED <<coordinator, walk, items, up, rows, healing, writer, session,
                            user, troubles>>

Makes(r) == \/ r = "ok" /\ ~gpuDead /\ UNCHANGED troubles
            \/ r = "failed" /\ gpuDead /\ UNCHANGED troubles
            \/ r = "failed" /\ Fault("read")
            \/ r = "bare" /\ Fault("bare")

Tags(w, p) == /\ w \in cleared \intersect up /\ at[p] = w
              /\ "writer" \in up /\ Room("out")
              /\ Pass(p, "out")
              /\ \E r \in {"ok", "failed", "bare"} :
                    Makes(r) /\ result' = [result EXCEPT ![p] = r]
              /\ cleared' = cleared \ {w}
              /\ UNCHANGED <<deaf, up, writer>>

\* Fault injection: a paused check() waits for resume_notify only.
WorkerEndsUnlatched(w) ==
    /\ \/ Idle(w) /\ Held("pre") = {} /\ AllDown(Decoders)
       \/ Idle(w) /\ Stop /\ w \notin deaf
       \/ Held(w) # {} /\ (cancelled \/ (gpuDead /\ ~paused))
       \/ w \in cleared /\ Down("writer")
    /\ Ends(w) /\ UNCHANGED troubles

\* check() arms the latch's own notification, wait_cancelled does not.
WorkerEnds(w) == /\ \/ Idle(w) /\ Held("pre") = {} /\ AllDown(Decoders)
                    \/ Idle(w) /\ Stop /\ w \notin deaf
                    \/ Held(w) # {} /\ Stop
                    \/ w \in cleared /\ Down("writer")
                 /\ Ends(w) /\ UNCHANGED troubles

Worker(w) == \/ Clears(w) \/ WorkerEnds(w)
             \/ \E p \in Paths : WorkerTakes(w, p) \/ Tags(w, p)

(***************************************************************************)
(* The writer.  A row whose file is at a new path is healed: candidates    *)
(* are looked up, and their old paths checked, before the transaction.     *)
(***************************************************************************)
RowAt(r, p) == {i \in Ids : r[i] # None /\ r[i].path = p}
First(S) == CHOOSE i \in S : \A j \in S : i <= j

\* Fault injection: a match heals although its old path is taken.
CandidatesAnywhere == {c \in Held("writer") \X Ids \X Paths :
                  /\ result[c[1]] # "bare"
                  /\ rows[c[2]] # None
                  /\ rows[c[2]].path = c[3] /\ rows[c[2]].file = what[c[1]]
                  /\ c[3] # c[1]}

Candidates == {c \in Held("writer") \X Ids \X Paths :
                  /\ result[c[1]] # "bare"
                  /\ rows[c[2]] # None
                  /\ rows[c[2]].path = c[3] /\ rows[c[2]].file = what[c[1]]
                  /\ c[3] # c[1] /\ disk[c[3]] = None}

\* The heal: the first candidate still at its old path, unless p has a row.
Healed(r, p) ==
    LET still == {c[2] : c \in {b \in cand : b[1] = p /\ r[b[2]].path = b[3]}}
    IN IF still = {} \/ RowAt(r, p) # {} THEN r ELSE [r EXCEPT ![First(still)].path = p]

\* The upsert.  A bare result leaves the identity that is there.
Upserted(r, p) ==
    LET own == RowAt(r, p)
        id == IF own # {} THEN First(own) ELSE First({i \in Ids : r[i] = None})
        old == IF own # {} THEN r[id].file ELSE None
    IN [r EXCEPT ![id] = [path |-> p, failed |-> result[p] # "ok",
                          file |-> IF result[p] = "bare" THEN old ELSE what[p]]]

Stored(r, p) == Upserted(Healed(r, p), p)

WriterTakes(p) == /\ "writer" \in up /\ ~looked /\ Len(buffer) < Batch
                  /\ at[p] = "out" /\ Pass(p, "writer")
                  /\ buffer' = Append(buffer, p)
                  /\ UNCHANGED <<deaf, result, up, cleared, cand, looked, troubles>>

\* The batch is full, FLUSH_INTERVAL is over, the channel closed or the scan stops.
LooksUp == /\ "writer" \in up /\ ~looked /\ buffer # <<>>
           /\ cand' = IF healing THEN Candidates ELSE {}
           /\ looked' = TRUE
           /\ UNCHANGED <<coordinator, walk, items, up, cleared, rows, healing, buffer,
                          session, user, troubles>>

Commits == /\ "writer" \in up /\ looked
           /\ rows' = FoldLeft(Stored, rows, buffer)
           /\ at' = [p \in Paths |-> IF at[p] = "writer" THEN "done" ELSE at[p]]
           /\ buffer' = <<>> /\ cand' = {} /\ looked' = FALSE
           /\ UNCHANGED <<coordinator, walk, what, result, up, cleared, healing, session,
                          user, troubles>>

\* The transaction fails: the rows of the batch are lost with the writer.
CommitFails == looked /\ Ends("writer") /\ Fault("db")

\* Fault injection: an empty channel after the walk ends the writer.
WriterEndsIdle == /\ buffer = <<>>
                  /\ \/ Stop
                     \/ Down("walker") /\ Held("out") = {}
                  /\ Ends("writer") /\ UNCHANGED troubles

WriterEnds == /\ buffer = <<>>
              /\ \/ Stop
                 \/ AllDown(Workers) /\ Held("out") = {}
              /\ Ends("writer") /\ UNCHANGED troubles

Writer == \/ LooksUp \/ Commits \/ CommitFails \/ WriterEnds
          \/ \E p \in Paths : WriterTakes(p)

(***************************************************************************)
(* handle_start_scan and ScanSession::run.                                 *)
(***************************************************************************)
Verdict(dead, stopped, done) == IF gpuDead THEN dead ELSE IF cancelled THEN stopped ELSE done

Finish(phase) == main' = "over" /\ outcome' = phase

\* A write to the row of pass n, whose failure nothing looks at.
Writes(n, s) ==
    \/ status' = [status EXCEPT ![n] = s] /\ UNCHANGED <<missed, troubles>>
    \/ Fault("status") /\ missed' = TRUE /\ UNCHANGED status

\* UPDATE scan_sessions: there may be no row to update.
Updates(s) == Writes(pass, IF status[pass] = "none" THEN "none" ELSE s)

BeginPass(n) ==
    /\ main' = "flow" /\ pass' = n /\ Writes(n, "running") /\ hidden' = FALSE
    /\ unread' = Dirs /\ errors' = FALSE /\ skip' = Current /\ seen' = {}
    /\ healing' = (\E i \in Ids : rows[i] # None)
    /\ at' = [p \in Paths |-> "none"]
    /\ what' = [p \in Paths |-> None]
    /\ result' = [p \in Paths |-> "none"]
    /\ \E threads \in IF "spawn" \in Faults THEN SUBSET Decoders ELSE {Decoders} :
          up' = {"walker", "pump", "writer"} \union threads \union Workers
    /\ cleared' = {} /\ deaf' = {}
    /\ buffer' = <<>> /\ cand' = {} /\ looked' = FALSE
    /\ touched' = {} /\ steady' = Present
    /\ UNCHANGED <<paused, cancelled, gpuDead, rows, disk, outcome>>

Outside == <<coordinator, walk, items, up, cleared, healing, writer, user>>
recorded == <<status, missed>>

Start == /\ main = "queued"
         /\ IF Stop THEN Finish(IF cancelled THEN "Cancelled" ELSE "Failed")
                    ELSE main' = "load" /\ UNCHANGED outcome
         /\ UNCHANGED <<Outside, rows, pass, recorded, hidden, troubles>>

\* The models do not load, time out, or find the GPU dead.
LoadFails == /\ main = "load"
             /\ \/ gpuDead /\ UNCHANGED troubles
                \/ Fault("load")
             /\ Finish("Failed")
             /\ UNCHANGED <<Outside, rows, pass, recorded, hidden>>

Loaded == main = "load" /\ ~gpuDead /\ BeginPass(1)

\* A writer that failed cancels the scan.
Drained == /\ main = "flow" /\ Down("writer")
           /\ main' = "join"
           /\ IF buffer = <<>> THEN UNCHANGED <<cancelled, deaf>>
                               ELSE cancelled' = TRUE /\ deaf' = {}
           /\ UNCHANGED <<paused, gpuDead, walk, items, up, cleared, rows, healing, writer,
                          pass, recorded, hidden, outcome, user, troubles>>

\* Fault injection: errors of the walk are forgotten.
CleanDespiteErrors == ~Stop

\* should_reconcile_missing_rows, once the walk is done.
CleanWalk == ~Stop /\ ~errors

\* Fault injection: a failed writer returns without closing the session row.
JoinedUnstamped ==
    /\ main = "join" /\ Down("walker") /\ (AllDown(Decoders) \/ Stop)
    /\ IF buffer # <<>> THEN Finish("Failed")
       ELSE /\ main' = (IF CleanWalk THEN "clean" ELSE "stamp")
            /\ UNCHANGED outcome
    /\ UNCHANGED <<Outside, rows, pass, recorded, hidden, troubles>>

\* A cancelled scan waits two seconds for its decoders.
Joined == /\ main = "join" /\ Down("walker") /\ (AllDown(Decoders) \/ Stop)
          /\ IF buffer # <<>> THEN Updates("failed") /\ Finish("Failed")
             ELSE /\ main' = (IF CleanWalk THEN "clean" ELSE "stamp")
                  /\ UNCHANGED <<recorded, outcome, troubles>>
          /\ UNCHANGED <<Outside, rows, pass, hidden>>

\* The first pass hands its row over: it is deleted, the second inserts its own.
FollowsUp == /\ main = "clean" /\ pass = 1 /\ touched # {}
             /\ Writes(1, "none")
             /\ main' = "again"
             /\ UNCHANGED <<Outside, rows, pass, hidden, outcome>>

Again == main = "again" /\ BeginPass(2)

\* soft_hide_missing_rows, one transaction; the scan goes on if it fails.
HidesMissing == /\ main = "clean" /\ (pass = 2 \/ touched = {})
                /\ \/ /\ rows' = [i \in Ids |-> IF rows[i] # None /\ rows[i].path \notin seen
                                                THEN [rows[i] EXCEPT !.failed = TRUE]
                                                ELSE rows[i]]
                      /\ hidden' = TRUE /\ UNCHANGED troubles
                   \/ Fault("hide") /\ UNCHANGED <<rows, hidden>>
                /\ main' = "stamp"
                /\ UNCHANGED <<Outside, pass, recorded, outcome>>

\* Fault injection: the row records the name of the phase.
StampsPhase == /\ main = "stamp"
               /\ Updates(Verdict("Failed", "Cancelled", "Completed"))
               /\ main' = "emit"
               /\ UNCHANGED <<Outside, rows, pass, hidden, outcome>>

Stamps == /\ main = "stamp"
          /\ Updates(Verdict("failed", "cancelled", "completed"))
          /\ main' = "emit"
          /\ UNCHANGED <<Outside, rows, pass, hidden, outcome>>

Emits == /\ main = "emit"
         /\ Finish(Verdict("Failed", "Cancelled", "Completed"))
         /\ UNCHANGED <<Outside, rows, pass, recorded, hidden, troubles>>

Main == Start \/ LoadFails \/ Loaded \/ Drained \/ Joined \/ FollowsUp \/ Again
        \/ HidesMissing \/ Stamps \/ Emits

(***************************************************************************)
(* The user's files, while the scan runs.                                  *)
(***************************************************************************)
Changes(old, new) ==
    /\ Running /\ Trouble
    /\ disk' = new
    /\ touched' = touched \union {DirOf[p] : p \in old}
    /\ steady' = {p \in steady : new[p] # None}
    /\ UNCHANGED <<coordinator, walk, items, up, cleared, rows, healing, writer, session>>

Move(p, q) == /\ disk[p] # None /\ disk[q] = None
              /\ Changes({p, q}, [disk EXCEPT ![p] = None, ![q] = disk[p]])

Delete(p) == disk[p] # None /\ Changes({p}, [disk EXCEPT ![p] = None])

Create(p, f) == /\ disk[p] = None /\ \A q \in Paths : disk[q] # f
                /\ Changes({p}, [disk EXCEPT ![p] = f])

User == \E p \in Paths : \/ Delete(p)
                         \/ \E q \in Paths : Move(p, q)
                         \/ \E f \in Files : Create(p, f)

Rest == main = "over" /\ UNCHANGED vars

\* What the runtime and the threads do by themselves.
Task == \/ Walker \/ Pump \/ Writer \/ Main
        \/ \E d \in Decoders : Decoder(d)
        \/ \E w \in Workers : Worker(w)

Next == \/ RequestPause \/ RequestResume \/ RequestCancel \/ LatchElsewhere \/ MarkGpuDead
        \/ Task \/ User \/ Rest

\* Some task that can run is run: each of their steps brings the scan nearer
\* to its end, so nothing stronger is needed.
Spec == Init /\ [][Next]_vars /\ WF_vars(Task)

(***************************************************************************)
(* Properties.                                                             *)
(***************************************************************************)
Places == Channels \union Tasks \union {"none", "done"}

\* Every variable holds the kind of value the code gives it.
TypeOK == /\ disk \in [Paths -> Files \union {None}]
          /\ rows \in [Ids -> Row \union {None}]
          /\ {paused, cancelled, gpuDead, errors, healing, looked, missed, hidden}
                \subseteq BOOLEAN
          /\ deaf \subseteq up /\ up \subseteq Tasks /\ cleared \subseteq Workers
          /\ main \in {"queued", "load", "flow", "join", "clean", "again",
                      "stamp", "emit", "over"}
          /\ pass \in {1, 2}
          /\ unread \subseteq Dirs /\ touched \subseteq Dirs
          /\ seen \subseteq Paths /\ steady \subseteq Paths
          /\ skip \subseteq Paths \X (Files \union {None})
          /\ at \in [Paths -> Places]
          /\ what \in [Paths -> Files \union {None}]
          /\ result \in [Paths -> {"none", "ok", "failed", "bare"}]
          /\ buffer \in Seq(Paths) /\ cand \subseteq Paths \X Ids \X Paths
          /\ status \in [{1, 2} -> {"none", "running", "failed", "cancelled", "completed"}]
          /\ outcome \in {"none", "Failed", "Cancelled", "Completed"}
          /\ troubles \in 0..MaxTroubles

\* A scan that reports Completed has written a row for every file its walk
\* found: nothing was dropped with a channel, a task or a batch on the way
\* (mpsc receivers dropped on cancel, dbwriter.rs' drain arms).
CompletedWhole == outcome = "Completed" => \A p \in Paths : at[p] \in {"none", "done"}

\* After a completed scan that could list every directory, with no change in
\* the folder since its last pass began, the catalog is the folder: each file
\* has a row at its path, and each row that is not failed is at the path of
\* its file, whatever moved before that pass (skip set, heal, follow-up and
\* soft-hide together).  Where the soft-hide failed, as the scan reports
\* Completed all the same, the rows left over are at paths that hold no file:
\* none takes one file for another.
CompletedExact ==
    outcome = "Completed" /\ touched = {} /\ ~errors =>
        /\ \A p \in Present : \E i \in RowAt(rows, p) : rows[i].failed \/ rows[i].file = disk[p]
        /\ \A i \in Ids : rows[i] # None /\ ~rows[i].failed =>
              \/ disk[rows[i].path] = rows[i].file
              \/ ~hidden /\ disk[rows[i].path] = None

\* The terminal phase the app gets is never better than what scan_sessions
\* records, even where the writes to it fail; where none did, no row of either
\* pass is left "running", and a scan that reports Completed has its row say so
\* (scan_session.rs:189-199, 618-629, 709-712, 759-860).
Recorded ==
    main = "over" =>
        /\ status[pass] = "failed" => outcome = "Failed"
        /\ status[pass] = "cancelled" => outcome \in {"Cancelled", "Failed"}
        /\ missed \/ \A n \in {1, 2} : status[n] # "running"
        /\ missed \/ (outcome = "Completed" => status[pass] = "completed")

\* A heal never takes the row of a path that has held a file since the pass
\* began, and no row goes away (heal_candidate_moved, HEAL_UPDATE_SQL's OR ABORT).
StayPut == [][\A i \in Ids : rows[i] # None =>
                 /\ rows'[i] # None
                 /\ rows[i].path \in steady => rows'[i].path = rows[i].path]_vars

\* The row of a path that has held a file since the pass began is never hidden
\* as missing, whatever the walk could not read (should_reconcile_missing_rows).
NotHidden == [][main = "clean" =>
                  \A i \in Ids : rows[i] # None /\ rows[i].path \in steady =>
                                   rows'[i] = rows[i]]_vars

\* A scan ends and so does every one of its tasks, or the next scan would be
\* refused for a stranded decoder, unless the user leaves it paused; a cancel
\* or a dead GPU, found by this scan or elsewhere, ends it even then
\* (coordinator.rs:122, where a waiting task may miss the latch).
Concludes == <>(main = "over" /\ up = {}) \/ <>[](paused /\ ~Stop)
=============================================================================
