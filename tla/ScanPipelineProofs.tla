------------------------- MODULE ScanPipelineProofs -------------------------
(***************************************************************************)
(* What a scan that reports Completed has done, whatever the number of     *)
(* files, tasks and channel slots: nothing was lost between the walk and   *)
(* the catalog, no row of a file that stayed put was hidden or moved, the  *)
(* session row agrees with the phase the app was told, and the catalog is  *)
(* the folder.                                                             *)
(*                                                                         *)
(* The argument: each task of the pipeline ends, unless the scan stops,    *)
(* only when the task before it has ended and left nothing behind.  So a   *)
(* writer that ended by itself has nothing above it, and the walk it ended *)
(* after had read every directory.  A batch is a fold over its rows, of    *)
(* which each gives its path a row and leaves the others' alone.           *)
(***************************************************************************)
EXTENDS ScanPipeline, FoldLemmas

(***************************************************************************)
(* The invariant.                                                          *)
(***************************************************************************)
Empty(c) == \A p \in Paths : at[p] # c

\* Nothing has stopped the scan, and no transaction has failed.
Sound == ~Stop /\ ("writer" \in up \/ buffer = <<>>)

\* The walker hands what it finds straight to the channel "found".
Spots == Places \ {"walker"}

Kinds == /\ at \in [Paths -> Spots]
         /\ up \subseteq Tasks
         /\ buffer \in Seq(Paths)

Batched == /\ buffer = <<>> => Empty("writer")
           /\ looked => buffer # <<>>

\* A task that has ended left nothing behind, and the one before it has ended.
Upstream ==
    Sound => /\ "walker" \notin up => Empty("found") /\ unread = {}
             /\ "pump" \notin up => "walker" \notin up /\ Empty("disc") /\ Empty("pump")
             /\ \A d \in Decoders \ up : "pump" \notin up /\ Empty("raw") /\ Empty(d)
             /\ \A w \in Workers \ up : AllDown(Decoders) /\ Empty("pre") /\ Empty(w)
             /\ "writer" \notin up => AllDown(Workers) /\ Empty("out")

Joining == {"join", "clean", "stamp", "emit"}

\* What ScanSession::run relies on after the writer has returned.
Sequenced == /\ main \in Joining => "writer" \notin up
             /\ main \in Joining /\ ~Stop => buffer = <<>>
             /\ main = "clean" => "walker" \notin up /\ unread = {} /\ ~errors

Concluded == outcome = "Completed" =>
                 /\ main = "over" /\ up = {}
                 /\ \A p \in Paths : at[p] \in {"none", "done"}

\* The walk has seen, or will read, or knows it missed, what stayed put.
Watched == /\ steady \subseteq Present
           /\ \A p \in steady : errors \/ DirOf[p] \in unread \/ p \in seen

\* The rows of the session, on the way to the terminal phase: exactly what the
\* code means them to be, unless a write to them has failed.
Statuses == {"none", "running", "failed", "cancelled", "completed"}

Exact == /\ pass = 2 \/ main = "again" => status[1] = "none"
         /\ main \in {"flow", "join", "clean", "stamp"} => status[pass] = "running"
         /\ main = "emit" => status[pass] \in {"failed", "cancelled", "completed"}

Booked == /\ pass \in {1, 2} /\ status \in [{1, 2} -> Statuses] /\ missed \in BOOLEAN
          /\ main \in {"queued", "load", "again"} => pass = 1
          /\ main \in {"queued", "load"} => status[1] = "none"
          /\ pass = 1 => status[2] = "none"
          /\ main \in {"flow", "join", "clean", "stamp"} => status[pass] \in {"none", "running"}
          /\ main \in {"flow", "join", "clean"} => ~hidden
          /\ main # "over" => outcome = "none"
          /\ main = "emit" => /\ status[pass] = "failed" => gpuDead
                              /\ status[pass] = "cancelled" => cancelled
          /\ missed \/ Exact
          /\ Recorded

(***************************************************************************)
(* Names of tasks and channels.                                            *)
(***************************************************************************)

\* A thread or a worker is none of the named tasks and places.
LEMMA Apart ==
    ASSUME NEW t \in Decoders \union Workers
    PROVE  /\ t \notin {"found", "disc", "raw", "pre", "out"}
           /\ t \notin {"none", "done", "walker", "pump", "writer"}
  BY PlaceAssumption DEF Channels

\* A thread is no worker.
LEMMA NoBoth == ASSUME NEW d \in Decoders, NEW w \in Workers PROVE d # w
  BY PlaceAssumption

(***************************************************************************)
(* Steps that leave the pipeline alone.                                    *)
(***************************************************************************)
Still == /\ UNCHANGED <<at, up, unread, buffer, looked>>
         /\ Stop => Stop'

Aside == \/ RequestPause \/ RequestResume \/ RequestCancel \/ LatchElsewhere \/ MarkGpuDead
         \/ Start \/ LoadFails \/ Drained \/ Joined \/ FollowsUp \/ HidesMissing \/ Stamps
         \/ Emits \/ User \/ Rest \/ (\E w \in Workers : Clears(w))

\* Requests, the session's own steps and the user leave every place as it is.
LEMMA AsideStill == ASSUME Aside \/ UNCHANGED vars PROVE Still
<1>1. CASE RequestPause \/ RequestResume \/ RequestCancel
  BY <1>1 DEF RequestPause, RequestResume, RequestCancel, Still, Stop, walk, items, writer
<1>2. CASE LatchElsewhere \/ MarkGpuDead
  BY <1>2 DEF LatchElsewhere, MarkGpuDead, Still, Stop, walk, items, writer
<1>3. CASE Start \/ LoadFails
  BY <1>3 DEF Start, LoadFails, Still, Stop, Outside, walk, items, writer, coordinator
<1>4. CASE Drained
  BY <1>4 DEF Drained, Still, Stop, walk, items, writer
<1>5. CASE Joined \/ FollowsUp \/ HidesMissing \/ Stamps \/ Emits
  BY <1>5 DEF Joined, FollowsUp, HidesMissing, Stamps, Emits, Still, Stop, Outside, walk, items,
              writer, coordinator
<1>6. CASE User
  BY <1>6 DEF User, Delete, Move, Create, Changes, Still, Stop, walk, items, writer, coordinator
<1>7. CASE Rest \/ UNCHANGED vars
  BY <1>7 DEF Rest, vars, Still, Stop, walk, items, writer, coordinator
<1>8. CASE \E w \in Workers : Clears(w)
  BY <1>8 DEF Clears, Still, Stop, walk, items, writer, coordinator
<1> QED BY <1>1, <1>2, <1>3, <1>4, <1>5, <1>6, <1>7, <1>8 DEF Aside

\* The steps that do not, one by one.
Moves == \/ \E d \in Dirs : ReadDir(d) \/ ListFails(d)
         \/ \E p \in Paths : Sends(p) \/ PumpTakes(p) \/ PumpGives(p) \/ WriterTakes(p)
         \/ \E d \in Decoders, p \in Paths : DecoderTakes(d, p) \/ DecoderGives(d, p)
         \/ \E w \in Workers, p \in Paths : WorkerTakes(w, p) \/ Tags(w, p)
         \/ WalkEnds \/ PumpEnds \/ WriterEnds \/ CommitFails
         \/ \E d \in Decoders : DecoderEnds(d)
         \/ \E w \in Workers : WorkerEnds(w)
         \/ LooksUp \/ Commits

Begins == Loaded \/ Again

\* Every step is of one of the three kinds.
LEMMA Kinded == ASSUME [Next]_vars PROVE Aside \/ UNCHANGED vars \/ Moves \/ Begins
  BY DEF Next, Task, Walker, Pump, Writer, Main, Decoder, Worker, Aside, Moves, Begins

\* What reading a directory does to the places.
LEMMA Finds ==
    ASSUME NEW d \in Dirs, ReadDir(d)
    PROVE  /\ \E new \in SUBSET Paths :
                 at' = [p \in Paths |-> IF p \in new THEN "found" ELSE at[p]]
           /\ "walker" \in up /\ ~Stop
           /\ UNCHANGED <<up, buffer, looked, cancelled, gpuDead>>
<1> DEFINE new == {p \in {q \in Present : DirOf[q] = d} : <<p, disk[p]>> \notin skip}
<1>1. at' = [p \in Paths |-> IF p \in new THEN "found" ELSE at[p]] BY DEF ReadDir
<1>2. new \in SUBSET Paths BY DEF Present
<1> HIDE DEF new
<1> QED BY <1>1, <1>2 DEF ReadDir, writer, coordinator

(***************************************************************************)
(* Kinds and the batch.                                                    *)
(***************************************************************************)
LEMMA KindsInit == Init => Kinds
  BY DEF Init, Kinds, Places, Spots

LEMMA KindsBegin == ASSUME Begins PROVE Kinds'
<1>1. PICK n \in {1, 2} : BeginPass(n) BY DEF Begins, Loaded, Again
<1>2. at' = [p \in Paths |-> "none"] /\ buffer' = <<>> BY <1>1 DEF BeginPass
<1>3. up' \subseteq Tasks BY <1>1 DEF BeginPass, Tasks
<1> QED BY <1>2, <1>3 DEF Kinds, Places, Spots

LEMMA KindsMove == ASSUME Kinds, Moves PROVE Kinds'
<1> USE DEF Kinds
<1>0. Channels \subseteq Spots /\ Tasks \ {"walker"} \subseteq Spots /\ "done" \in Spots
  BY DEF Places, Spots, Channels
<1>1. ASSUME NEW p \in Paths, NEW c \in Spots, Pass(p, c)
      PROVE at' \in [Paths -> Spots]
  BY <1>1 DEF Pass
<1>2. ASSUME NEW t, Ends(t) PROVE Kinds'
  BY <1>2 DEF Ends, items, writer
<1>3. ASSUME NEW d \in Dirs, ReadDir(d) \/ ListFails(d) PROVE Kinds'
  <2>1. CASE ReadDir(d) BY <2>1, <1>0, Finds DEF Channels
  <2>2. CASE ListFails(d) BY <2>2 DEF ListFails, items, writer
  <2> QED BY <1>3, <2>1, <2>2
<1>4. ASSUME NEW p \in Paths, Sends(p) \/ PumpTakes(p) \/ PumpGives(p) PROVE Kinds'
  <2>1. {"disc", "pump", "raw"} \subseteq Spots BY <1>0, Apart DEF Channels, Tasks
  <2> QED BY <1>4, <1>1, <2>1 DEF Sends, PumpTakes, PumpGives, writer
<1>5. ASSUME NEW p \in Paths, WriterTakes(p) PROVE Kinds'
  <2>1. "writer" \in Spots BY <1>0 DEF Tasks
  <2> QED BY <1>5, <1>1, <2>1 DEF WriterTakes
<1>6. ASSUME NEW d \in Decoders, NEW p \in Paths, DecoderTakes(d, p) \/ DecoderGives(d, p)
      PROVE Kinds'
  <2>1. {d, "pre"} \subseteq Spots BY <1>0, Apart DEF Channels, Tasks
  <2> QED BY <1>6, <1>1, <2>1 DEF DecoderTakes, DecoderGives, writer
<1>7. ASSUME NEW w \in Workers, NEW p \in Paths, WorkerTakes(w, p) \/ Tags(w, p)
      PROVE Kinds'
  <2>1. {w, "out"} \subseteq Spots BY <1>0, Apart DEF Channels, Tasks
  <2> QED BY <1>7, <1>1, <2>1 DEF WorkerTakes, Tags, writer
<1>8. CASE WalkEnds \/ PumpEnds \/ WriterEnds \/ CommitFails
           \/ (\E d \in Decoders : DecoderEnds(d)) \/ (\E w \in Workers : WorkerEnds(w))
  BY <1>8, <1>2 DEF WalkEnds, PumpEnds, WriterEnds, CommitFails, DecoderEnds, WorkerEnds
<1>9. CASE LooksUp \/ Commits
  <2>1. CASE LooksUp BY <2>1 DEF LooksUp, items
  <2>2. CASE Commits
    <3>1. UNCHANGED up /\ buffer' = <<>> BY <2>2 DEF Commits
    <3>2. at' \in [Paths -> Spots] BY <2>2, <1>0 DEF Commits
    <3> QED BY <3>1, <3>2
  <2> QED BY <1>9, <2>1, <2>2
<1> QED BY <1>3, <1>4, <1>5, <1>6, <1>7, <1>8, <1>9 DEF Moves

\* The kinds of value the proofs below need.
LEMMA KindsStep == Kinds /\ [Next]_vars => Kinds'
<1> SUFFICES ASSUME Kinds, [Next]_vars PROVE Kinds' OBVIOUS
<1>1. CASE Aside \/ UNCHANGED vars
  <2>1. Still BY <1>1, AsideStill
  <2> QED BY <2>1 DEF Still, Kinds
<1> QED BY <1>1, KindsMove, KindsBegin, Kinded

LEMMA BatchedInit == Init => Batched
  BY DEF Init, Batched, Empty

LEMMA BatchedStep == Kinds /\ Batched /\ [Next]_vars => Batched'
<1> SUFFICES ASSUME Kinds, Batched, [Next]_vars PROVE Batched' OBVIOUS
<1> USE DEF Batched, Empty
<1>1. CASE Aside \/ UNCHANGED vars
  <2>1. Still BY <1>1, AsideStill
  <2> QED BY <2>1 DEF Still
<1>2. CASE Begins
  BY <1>2 DEF Begins, Loaded, Again, BeginPass
<1>3. ASSUME NEW t, Ends(t) PROVE Batched'
  BY <1>3 DEF Ends, items, writer
<1>4. ASSUME NEW p \in Paths, NEW c, c # "writer", Pass(p, c), UNCHANGED writer PROVE Batched'
  BY <1>4 DEF Pass, writer, Kinds
<1>5. CASE Moves
  <2>1. ASSUME NEW d \in Dirs, ReadDir(d) \/ ListFails(d) PROVE Batched'
    <3>1. CASE ReadDir(d) BY <3>1, Finds DEF Kinds
    <3>2. CASE ListFails(d) BY <3>2 DEF ListFails, items, writer
    <3> QED BY <2>1, <3>1, <3>2
  <2>2. ASSUME NEW p \in Paths, Sends(p) \/ PumpTakes(p) \/ PumpGives(p) PROVE Batched'
    BY <2>2, <1>4 DEF Sends, PumpTakes, PumpGives
  <2>3. ASSUME NEW p \in Paths, WriterTakes(p) PROVE Batched'
    BY <2>3 DEF WriterTakes, Kinds
  <2>4. ASSUME NEW d \in Decoders, NEW p \in Paths, DecoderTakes(d, p) \/ DecoderGives(d, p)
        PROVE Batched'
    BY <2>4, <1>4, Apart DEF DecoderTakes, DecoderGives
  <2>5. ASSUME NEW w \in Workers, NEW p \in Paths, WorkerTakes(w, p) \/ Tags(w, p)
        PROVE Batched'
    BY <2>5, <1>4, Apart DEF WorkerTakes, Tags
  <2>6. CASE WalkEnds \/ PumpEnds \/ WriterEnds \/ CommitFails
             \/ (\E d \in Decoders : DecoderEnds(d)) \/ (\E w \in Workers : WorkerEnds(w))
    BY <2>6, <1>3 DEF WalkEnds, PumpEnds, WriterEnds, CommitFails, DecoderEnds, WorkerEnds
  <2>7. CASE LooksUp
    BY <2>7 DEF LooksUp, items
  <2>8. CASE Commits
    BY <2>8 DEF Commits, Kinds
  <2> QED BY <1>5, <2>1, <2>2, <2>3, <2>4, <2>5, <2>6, <2>7, <2>8 DEF Moves
<1> QED BY <1>1, <1>2, <1>5, Kinded

(***************************************************************************)
(* The order in which the tasks end.                                       *)
(***************************************************************************)

\* What has been lost, or stopped, stays so until the next pass.
LEMMA SoundBefore ==
    ASSUME Kinds, Aside \/ UNCHANGED vars \/ Moves, Sound'
    PROVE  Sound
<1> USE DEF Sound, Stop
<1>1. CASE Aside \/ UNCHANGED vars
  <2>1. Still BY <1>1, AsideStill
  <2> QED BY <2>1 DEF Still
<1>2. ASSUME NEW t, Ends(t) PROVE Sound
  BY <1>2 DEF Ends, writer
<1>3. ASSUME NEW p \in Paths, NEW c, Pass(p, c), UNCHANGED <<up, writer>> PROVE Sound
  BY <1>3 DEF Pass, writer
<1>4. CASE Moves
  <2>1. ASSUME NEW d \in Dirs, ReadDir(d) PROVE Sound BY <2>1, Finds
  <2>2. ASSUME NEW d \in Dirs, ListFails(d) PROVE Sound
    BY <2>2 DEF ListFails, writer, coordinator
  <2>3. ASSUME NEW p \in Paths, Sends(p) \/ PumpTakes(p) \/ PumpGives(p) PROVE Sound
    BY <2>3, <1>3 DEF Sends, PumpTakes, PumpGives
  <2>4. ASSUME NEW p \in Paths, WriterTakes(p) PROVE Sound
    BY <2>4 DEF WriterTakes, Pass
  <2>5. ASSUME NEW d \in Decoders, NEW p \in Paths, DecoderTakes(d, p) \/ DecoderGives(d, p)
        PROVE Sound
    BY <2>5, <1>3 DEF DecoderTakes, DecoderGives
  <2>6. ASSUME NEW w \in Workers, NEW p \in Paths, WorkerTakes(w, p) \/ Tags(w, p)
        PROVE Sound
    BY <2>6, <1>3 DEF WorkerTakes, Tags
  <2>7. CASE WalkEnds \/ PumpEnds \/ WriterEnds \/ CommitFails
             \/ (\E d \in Decoders : DecoderEnds(d)) \/ (\E w \in Workers : WorkerEnds(w))
    BY <2>7, <1>2 DEF WalkEnds, PumpEnds, WriterEnds, CommitFails, DecoderEnds, WorkerEnds
  <2>8. CASE LooksUp BY <2>8 DEF LooksUp, coordinator
  <2>9. CASE Commits BY <2>9 DEF Commits, coordinator
  <2> QED BY <1>4, <2>1, <2>2, <2>3, <2>4, <2>5, <2>6, <2>7, <2>8, <2>9 DEF Moves
<1> QED BY <1>1, <1>4

LEMMA UpstreamInit == Init => Upstream
  BY Apart DEF Init, Upstream, Empty, AllDown

LEMMA UpstreamBegin == ASSUME "spawn" \notin Faults, Begins PROVE Upstream'
<1>1. PICK n \in {1, 2} : BeginPass(n) BY DEF Begins, Loaded, Again
<1>2. up' = {"walker", "pump", "writer"} \union Decoders \union Workers
  BY <1>1 DEF BeginPass
<1> QED BY <1>2 DEF Upstream

\* A task that ends by itself ends after the one before it.
LEMMA EndsInOrder ==
    ASSUME Kinds, Batched, Upstream, Sound', Sound,
           \/ WalkEnds \/ PumpEnds \/ WriterEnds \/ CommitFails
           \/ (\E d \in Decoders : DecoderEnds(d)) \/ (\E w \in Workers : WorkerEnds(w))
    PROVE  Upstream'
<1> USE DEF Upstream, Empty, AllDown, Down, Held
<1>1. CASE WalkEnds
  <2>1. up' = up \ {"walker"} /\ UNCHANGED <<at, unread>> /\ "walker" \in up
    BY <1>1 DEF WalkEnds, Ends, items, walk
  <2>2. Empty("found") /\ unread = {}
    BY <1>1 DEF WalkEnds, Sound, Ends
  <2> QED BY <2>1, <2>2, Apart
<1>2. CASE PumpEnds
  <2>1. up' = up \ {"pump"} /\ UNCHANGED <<at, unread>> /\ "pump" \in up
    BY <1>2 DEF PumpEnds, Ends, items, walk
  <2>2. ~AllDown(Decoders) BY <2>1, ScanAssumption
  <2>3. Empty("disc") /\ Empty("pump") /\ "walker" \notin up
    BY <1>2, <2>2 DEF PumpEnds, Sound, Idle
  <2> QED BY <2>1, <2>3, Apart
<1>3. ASSUME NEW d \in Decoders, DecoderEnds(d) PROVE Upstream'
  <2>1. up' = up \ {d} /\ UNCHANGED <<at, unread>> /\ d \in up
    BY <1>3 DEF DecoderEnds, Ends, items, walk
  <2>2. ~AllDown(Workers) BY <2>1, ScanAssumption
  <2>3. Empty("raw") /\ Empty(d) /\ "pump" \notin up
    BY <1>3, <2>2 DEF DecoderEnds, Sound, Idle
  <2> QED BY <2>1, <2>3, Apart, NoBoth
<1>4. ASSUME NEW w \in Workers, WorkerEnds(w) PROVE Upstream'
  <2>1. up' = up \ {w} /\ UNCHANGED <<at, unread>> /\ w \in up
    BY <1>4 DEF WorkerEnds, Ends, items, walk
  <2>2. "writer" \in up BY <2>1
  <2>3. Empty("pre") /\ Empty(w) /\ AllDown(Decoders)
    BY <1>4, <2>2 DEF WorkerEnds, Sound, Idle
  <2> QED BY <2>1, <2>3, Apart, NoBoth
<1>5. CASE WriterEnds
  <2>1. up' = up \ {"writer"} /\ UNCHANGED <<at, unread>>
    BY <1>5 DEF WriterEnds, Ends, items, walk
  <2>2. Empty("out") /\ AllDown(Workers) BY <1>5 DEF WriterEnds, Sound
  <2> QED BY <2>1, <2>2, Apart
<1>6. CASE CommitFails
  <2>1. looked /\ buffer' = buffer /\ "writer" \notin up'
    BY <1>6 DEF CommitFails, Ends, writer
  <2> QED BY <2>1 DEF Batched, Sound
<1> QED BY <1>1, <1>2, <1>3, <1>4, <1>5, <1>6

\* A file moves on to a task that runs, or into a channel that one will read.
LEMMA MovesInOrder ==
    ASSUME Kinds, Upstream, Sound
    PROVE  /\ \A p \in Paths : Sends(p) \/ PumpTakes(p) \/ PumpGives(p) \/ WriterTakes(p)
                                => Upstream'
           /\ \A d \in Decoders, p \in Paths : DecoderTakes(d, p) \/ DecoderGives(d, p)
                                => Upstream'
           /\ \A w \in Workers, p \in Paths : WorkerTakes(w, p) \/ Tags(w, p) => Upstream'
<1> USE DEF Upstream, Empty, AllDown, Down, Kinds
<1>1. ASSUME NEW p \in Paths, NEW c, Pass(p, c)
      PROVE at' = [at EXCEPT ![p] = c] /\ unread' = unread
  BY <1>1 DEF Pass, walk
<1>2. ASSUME NEW p \in Paths, Sends(p) PROVE Upstream'
  <2>1. at' = [at EXCEPT ![p] = "disc"] /\ UNCHANGED <<up, unread>>
        /\ "walker" \in up /\ "pump" \in up
    BY <1>2, <1>1 DEF Sends
  <2> QED BY <2>1, Apart
<1>3. ASSUME NEW p \in Paths, PumpTakes(p) PROVE Upstream'
  <2>1. at' = [at EXCEPT ![p] = "pump"] /\ UNCHANGED <<up, unread>> /\ "pump" \in up
    BY <1>3, <1>1 DEF PumpTakes, Idle
  <2> QED BY <2>1, Apart
<1>4. ASSUME NEW p \in Paths, PumpGives(p) PROVE Upstream'
  <2>1. at' = [at EXCEPT ![p] = "raw"] /\ UNCHANGED <<up, unread>> /\ "pump" \in up
    BY <1>4, <1>1 DEF PumpGives
  <2> QED BY <2>1, Apart
<1>5. ASSUME NEW p \in Paths, WriterTakes(p) PROVE Upstream'
  <2>1. at' = [at EXCEPT ![p] = "writer"] /\ UNCHANGED <<up, unread>> /\ "writer" \in up
    BY <1>5, <1>1 DEF WriterTakes
  <2> QED BY <2>1, Apart
<1>6. ASSUME NEW d \in Decoders, NEW p \in Paths, DecoderTakes(d, p) PROVE Upstream'
  <2>1. at' = [at EXCEPT ![p] = d] /\ UNCHANGED <<up, unread>> /\ d \in up
    BY <1>6, <1>1 DEF DecoderTakes, Idle
  <2> QED BY <2>1, Apart, NoBoth
<1>7. ASSUME NEW d \in Decoders, NEW p \in Paths, DecoderGives(d, p) PROVE Upstream'
  <2>1. at' = [at EXCEPT ![p] = "pre"] /\ UNCHANGED <<up, unread>> /\ d \in up
    BY <1>7, <1>1 DEF DecoderGives
  <2> QED BY <2>1, Apart
<1>8. ASSUME NEW w \in Workers, NEW p \in Paths, WorkerTakes(w, p) PROVE Upstream'
  <2>1. at' = [at EXCEPT ![p] = w] /\ UNCHANGED <<up, unread>> /\ w \in up
    BY <1>8, <1>1 DEF WorkerTakes, Idle
  <2> QED BY <2>1, Apart, NoBoth
<1>9. ASSUME NEW w \in Workers, NEW p \in Paths, Tags(w, p) PROVE Upstream'
  <2>1. at' = [at EXCEPT ![p] = "out"] /\ UNCHANGED <<up, unread>> /\ w \in up
    BY <1>9, <1>1 DEF Tags
  <2> QED BY <2>1, Apart
<1> QED BY <1>2, <1>3, <1>4, <1>5, <1>6, <1>7, <1>8, <1>9

LEMMA UpstreamStep ==
    ASSUME "spawn" \notin Faults
    PROVE  Kinds /\ Batched /\ Upstream /\ [Next]_vars => Upstream'
<1> SUFFICES ASSUME Kinds, Batched, Upstream, [Next]_vars PROVE Upstream' OBVIOUS
<1>1. CASE Begins BY <1>1, UpstreamBegin
<1>2. CASE ~Sound' BY <1>2 DEF Upstream
<1>3. CASE Sound' /\ (Aside \/ UNCHANGED vars)
  <2>1. Still /\ Sound BY <1>3, AsideStill, SoundBefore
  <2> QED BY <2>1 DEF Still, Upstream, Empty, AllDown
<1>4. CASE Sound' /\ Moves
  <2>1. Sound BY <1>4, SoundBefore
  <2>2. ASSUME NEW d \in Dirs, ReadDir(d) PROVE Upstream'
    <3>1. PICK new \in SUBSET Paths :
            at' = [p \in Paths |-> IF p \in new THEN "found" ELSE at[p]]
      BY <2>2, Finds
    <3>2. "walker" \in up /\ up' = up BY <2>2, Finds
    <3> QED BY <2>1, <3>1, <3>2, Apart DEF Upstream, Empty, AllDown
  <2>3. ASSUME NEW d \in Dirs, ListFails(d) PROVE Upstream'
    <3>1. UNCHANGED <<at, up>> /\ "walker" \in up BY <2>3 DEF ListFails, items
    <3> QED BY <2>1, <3>1 DEF Upstream, Empty, AllDown
  <2>4. CASE LooksUp
    <3>1. UNCHANGED <<at, up, unread>> BY <2>4 DEF LooksUp, items, walk
    <3> QED BY <2>1, <3>1 DEF Upstream, Empty, AllDown
  <2>5. CASE Commits
    <3>1. UNCHANGED <<up, unread>> BY <2>5 DEF Commits, walk
    <3>2. at' = [p \in Paths |-> IF at[p] = "writer" THEN "done" ELSE at[p]]
      BY <2>5 DEF Commits
    <3> QED BY <2>1, <3>1, <3>2, Apart DEF Upstream, Empty, AllDown
  <2> QED BY <1>4, <2>1, <2>2, <2>3, <2>4, <2>5, EndsInOrder, MovesInOrder DEF Moves
<1> QED BY <1>1, <1>2, <1>3, <1>4, Kinded

(***************************************************************************)
(* The session around the pipeline.                                        *)
(***************************************************************************)

\* What no step of the pipeline touches, and what one of its tasks must run for.
LEMMA MovesKeep ==
    ASSUME Moves
    PROVE  /\ UNCHANGED <<session, cancelled, gpuDead, steady, touched, disk>>
           /\ up' \subseteq up /\ (errors => errors')
           /\ "writer" \notin up => UNCHANGED <<buffer, rows>>
           /\ "walker" \notin up => UNCHANGED <<unread, errors, seen>>
<1> DEFINE Keep == /\ UNCHANGED <<session, cancelled, gpuDead, steady, touched, disk>>
                   /\ up' \subseteq up /\ (errors => errors')
                   /\ "writer" \notin up => UNCHANGED <<buffer, rows>>
                   /\ "walker" \notin up => UNCHANGED <<unread, errors, seen>>
<1>1. ASSUME NEW t, Ends(t) PROVE Keep
  BY <1>1 DEF Ends, walk, writer, session, user
<1>2. ASSUME NEW p \in Paths, NEW c, Pass(p, c), up' = up, buffer' = buffer PROVE Keep
  BY <1>2 DEF Pass, walk, session, user
<1>3. ASSUME NEW d \in Dirs, ReadDir(d) PROVE Keep
  BY <1>3 DEF ReadDir, coordinator, writer, session, user
<1>4. ASSUME NEW d \in Dirs, ListFails(d) PROVE Keep
  BY <1>4 DEF ListFails, coordinator, writer, session, user
<1>5. ASSUME NEW p \in Paths, Sends(p) \/ PumpTakes(p) \/ PumpGives(p) PROVE Keep
  BY <1>5, <1>2 DEF Sends, PumpTakes, PumpGives, writer
<1>6. ASSUME NEW p \in Paths, WriterTakes(p) PROVE Keep
  BY <1>6 DEF WriterTakes, Pass, walk, session, user
<1>7. ASSUME NEW d \in Decoders, NEW p \in Paths, DecoderTakes(d, p) \/ DecoderGives(d, p)
      PROVE Keep
  BY <1>7, <1>2 DEF DecoderTakes, DecoderGives, writer
<1>8. ASSUME NEW w \in Workers, NEW p \in Paths, WorkerTakes(w, p) \/ Tags(w, p) PROVE Keep
  BY <1>8, <1>2 DEF WorkerTakes, Tags, writer
<1>9. CASE WalkEnds \/ PumpEnds \/ WriterEnds \/ CommitFails
           \/ (\E d \in Decoders : DecoderEnds(d)) \/ (\E w \in Workers : WorkerEnds(w))
  BY <1>9, <1>1 DEF WalkEnds, PumpEnds, WriterEnds, CommitFails, DecoderEnds, WorkerEnds
<1>10. CASE LooksUp
  BY <1>10 DEF LooksUp, coordinator, walk, session, user
<1>11. CASE Commits
  BY <1>11 DEF Commits, coordinator, walk, session, user
<1> QED BY <1>3, <1>4, <1>5, <1>6, <1>7, <1>8, <1>9, <1>10, <1>11 DEF Moves

\* With no task running nothing moves.
LEMMA MovesRun == ASSUME Moves PROVE up # {} \/ at' = at
<1>1. ASSUME NEW d \in Dirs, ReadDir(d) \/ ListFails(d) PROVE up # {}
  BY <1>1 DEF ReadDir, ListFails
<1>2. ASSUME NEW p \in Paths, Sends(p) \/ PumpTakes(p) \/ PumpGives(p) \/ WriterTakes(p)
      PROVE up # {}
  BY <1>2 DEF Sends, PumpTakes, PumpGives, WriterTakes, Idle
<1>3. ASSUME NEW d \in Decoders, NEW p \in Paths, DecoderTakes(d, p) \/ DecoderGives(d, p)
      PROVE up # {}
  BY <1>3 DEF DecoderTakes, DecoderGives, Idle
<1>4. ASSUME NEW w \in Workers, NEW p \in Paths, WorkerTakes(w, p) \/ Tags(w, p) PROVE up # {}
  BY <1>4 DEF WorkerTakes, Tags, Idle
<1>5. CASE WalkEnds \/ PumpEnds \/ WriterEnds \/ CommitFails
           \/ (\E d \in Decoders : DecoderEnds(d)) \/ (\E w \in Workers : WorkerEnds(w))
  BY <1>5 DEF WalkEnds, PumpEnds, WriterEnds, CommitFails, DecoderEnds, WorkerEnds, Ends
<1>6. CASE LooksUp \/ Commits
  BY <1>6 DEF LooksUp, Commits
<1> QED BY <1>1, <1>2, <1>3, <1>4, <1>5, <1>6 DEF Moves

\* The next pass, of a scan that had not ended.
LEMMA BeginsFresh ==
    ASSUME Begins
    PROVE  /\ main \in {"load", "again"} /\ main' = "flow"
           /\ unread' = Dirs /\ steady' = Present /\ UNCHANGED <<outcome, disk, rows>>
  BY DEF Begins, Loaded, Again, BeginPass

LEMMA SequencedInit == Init => Sequenced
  BY DEF Init, Sequenced, Joining

LEMMA SequencedStep == Upstream /\ Sequenced /\ [Next]_vars => Sequenced'
<1> SUFFICES ASSUME Upstream, Sequenced, [Next]_vars PROVE Sequenced' OBVIOUS
<1> USE DEF Sequenced, Joining
<1>1. CASE Begins BY <1>1, BeginsFresh
<1>2. CASE Moves BY <1>2, MovesKeep DEF Stop, session
<1>3. CASE Aside \/ UNCHANGED vars
  <2>1. Still BY <1>3, AsideStill
  <2>2. CASE UNCHANGED <<main, errors>> BY <2>1, <2>2 DEF Still
  <2>3. CASE Joined
    <3>1. main = "join" /\ "walker" \notin up /\ UNCHANGED errors
      BY <2>3 DEF Joined, Outside, walk, Down
    <3>2. CASE main' = "clean"
      <4>1. ~Stop /\ ~errors BY <2>3, <3>2 DEF Joined, CleanWalk, Finish
      <4>2. "writer" \notin up /\ buffer = <<>> BY <3>1, <4>1
      <4>3. unread = {} BY <3>1, <4>1, <4>2 DEF Upstream, Sound
      <4> QED BY <2>1, <3>1, <3>2, <4>1, <4>2, <4>3 DEF Still
    <3>3. CASE main' # "clean"
      BY <2>1, <3>1, <3>3 DEF Still
    <3> QED BY <3>2, <3>3
  <2>4. CASE Drained
    <3>1. main' = "join" /\ "writer" \notin up /\ (buffer # <<>> => cancelled')
      BY <2>4 DEF Drained, Down
    <3> QED BY <2>1, <3>1 DEF Still, Stop
  <2>5. CASE Start \/ LoadFails \/ FollowsUp \/ HidesMissing \/ Stamps \/ Emits
    <3>1. \/ main' \notin Joining
          \/ main \in Joining /\ main' # "clean"
      BY <2>5 DEF Start, LoadFails, FollowsUp, HidesMissing, Stamps, Emits, Finish
    <3> QED BY <2>1, <3>1 DEF Still
  <2>6. CASE RequestPause \/ RequestResume \/ RequestCancel \/ LatchElsewhere \/ MarkGpuDead
    <3>1. UNCHANGED <<main, errors>>
      BY <2>6 DEF RequestPause, RequestResume, RequestCancel, LatchElsewhere, MarkGpuDead,
                  session, walk
    <3> QED BY <3>1, <2>2
  <2>7. CASE User \/ Rest \/ UNCHANGED vars \/ \E w \in Workers : Clears(w)
    <3>1. UNCHANGED <<main, errors>>
      BY <2>7 DEF User, Delete, Move, Create, Changes, Rest, Clears, vars, session, walk
    <3> QED BY <3>1, <2>2
  <2> QED BY <1>3, <2>3, <2>4, <2>5, <2>6, <2>7 DEF Aside
<1> QED BY <1>1, <1>2, <1>3, Kinded

LEMMA ConcludedInit == Init => Concluded
  BY DEF Init, Concluded

\* Behind a writer that ended by itself every task has ended and holds nothing.
LEMMA AllEnded ==
    ASSUME Kinds, Batched, Upstream, ~Stop, "writer" \notin up, buffer = <<>>
    PROVE  up = {} /\ \A p \in Paths : at[p] \in {"none", "done"}
<1>1. Sound BY DEF Sound
<1>2. AllDown(Workers) /\ Empty("out") /\ Empty("writer") BY <1>1 DEF Upstream, Batched
<1>3. \A w \in Workers : w \notin up /\ Empty(w) BY <1>1, <1>2 DEF Upstream, AllDown
<1>4. AllDown(Decoders) /\ Empty("pre")
  BY <1>1, <1>3, ScanAssumption DEF Upstream
<1>5. \A d \in Decoders : d \notin up /\ Empty(d) BY <1>1, <1>4 DEF Upstream, AllDown
<1>6. "pump" \notin up /\ Empty("raw") BY <1>1, <1>5, ScanAssumption DEF Upstream
<1>7. "walker" \notin up /\ Empty("disc") /\ Empty("pump") /\ Empty("found")
  BY <1>1, <1>6 DEF Upstream
<1>8. up = {} BY <1>3, <1>5, <1>6, <1>7 DEF Kinds, Tasks
<1>9. \A p \in Paths : at[p] \in {"none", "done"}
  BY <1>2, <1>3, <1>4, <1>5, <1>6, <1>7 DEF Kinds, Spots, Places, Channels, Tasks, Empty
<1> QED BY <1>8, <1>9

LEMMA ConcludedEmits == ASSUME Kinds, Batched, Upstream, Sequenced, Emits PROVE Concluded'
<1> SUFFICES ASSUME outcome' = "Completed" PROVE Concluded' BY DEF Concluded
<1>1. main = "emit" /\ main' = "over" /\ UNCHANGED <<at, up>>
  BY DEF Emits, Finish, Outside, items
<1>2. ~Stop BY DEF Emits, Finish, Verdict, Stop
<1>3. "writer" \notin up /\ buffer = <<>> BY <1>1, <1>2 DEF Sequenced, Joining
<1> QED BY <1>1, <1>2, <1>3, AllEnded DEF Concluded

LEMMA ConcludedStep ==
    Kinds /\ Batched /\ Upstream /\ Sequenced /\ Booked /\ Concluded /\ [Next]_vars => Concluded'
<1> SUFFICES ASSUME Kinds, Batched, Upstream, Sequenced, Booked, Concluded, [Next]_vars
             PROVE Concluded'
  OBVIOUS
<1>1. CASE Begins BY <1>1, BeginsFresh DEF Booked, Concluded
<1>2. CASE Moves BY <1>2, MovesKeep, MovesRun DEF Concluded, session
<1>3. CASE Emits BY <1>3, ConcludedEmits
<1>4. CASE Aside \/ UNCHANGED vars
  <2>1. Still BY <1>4, AsideStill
  <2>2. CASE UNCHANGED <<main, outcome>> BY <2>1, <2>2 DEF Still, Concluded
  <2>3. CASE Start \/ LoadFails \/ Drained \/ Joined \/ FollowsUp \/ HidesMissing \/ Stamps
    <3>1. outcome' # "Completed"
      BY <2>3 DEF Start, LoadFails, Drained, Joined, FollowsUp, HidesMissing, Stamps, Finish, Booked
    <3> QED BY <3>1 DEF Concluded
  <2>4. CASE RequestPause \/ RequestResume \/ RequestCancel \/ LatchElsewhere \/ MarkGpuDead
    <3>1. UNCHANGED <<main, outcome>>
      BY <2>4 DEF RequestPause, RequestResume, RequestCancel, LatchElsewhere, MarkGpuDead, session
    <3> QED BY <3>1, <2>2
  <2>5. CASE User \/ Rest \/ UNCHANGED vars \/ \E w \in Workers : Clears(w)
    <3>1. UNCHANGED <<main, outcome>>
      BY <2>5 DEF User, Delete, Move, Create, Changes, Rest, Clears, vars, session
    <3> QED BY <3>1, <2>2
  <2> QED BY <1>3, <1>4, <2>3, <2>4, <2>5 DEF Aside
<1> QED BY <1>1, <1>2, <1>4, Kinded

LEMMA WatchedInit == Init => Watched
  BY DEF Init, Watched

LEMMA WatchedStep == Watched /\ [Next]_vars => Watched'
<1> SUFFICES ASSUME Watched, [Next]_vars PROVE Watched' OBVIOUS
<1> USE DEF Watched, Present
<1>1. CASE Begins BY <1>1, BeginsFresh, ScanAssumption
<1>2. CASE UNCHANGED <<disk, steady, walk>> BY <1>2 DEF walk
<1>3. ASSUME NEW old, NEW new, Changes(old, new) PROVE Watched'
  BY <1>3 DEF Changes, walk
<1>4. ASSUME NEW d \in Dirs, ReadDir(d) PROVE Watched'
  <2>1. /\ seen' = seen \union {p \in Present : DirOf[p] = d} /\ unread' = unread \ {d}
        /\ UNCHANGED <<disk, steady, errors>>
    BY <1>4 DEF ReadDir, user
  <2> QED BY <2>1
<1>5. ASSUME NEW d \in Dirs, ListFails(d) PROVE Watched'
  BY <1>5 DEF ListFails, user
<1>6. ASSUME NEW t, Ends(t) PROVE Watched' BY <1>6, <1>2 DEF Ends, user
<1>7. ASSUME NEW p, NEW c, Pass(p, c) PROVE Watched' BY <1>7, <1>2 DEF Pass, user
<1>8. CASE Moves
  <2>1. ASSUME NEW p \in Paths, Sends(p) \/ PumpTakes(p) \/ PumpGives(p) \/ WriterTakes(p)
        PROVE Watched'
    BY <2>1, <1>7 DEF Sends, PumpTakes, PumpGives, WriterTakes
  <2>2. ASSUME NEW d \in Decoders, NEW p \in Paths, DecoderTakes(d, p) \/ DecoderGives(d, p)
        PROVE Watched'
    BY <2>2, <1>7 DEF DecoderTakes, DecoderGives
  <2>3. ASSUME NEW w \in Workers, NEW p \in Paths, WorkerTakes(w, p) \/ Tags(w, p)
        PROVE Watched'
    BY <2>3, <1>7 DEF WorkerTakes, Tags
  <2>4. CASE WalkEnds \/ PumpEnds \/ WriterEnds \/ CommitFails
             \/ (\E d \in Decoders : DecoderEnds(d)) \/ (\E w \in Workers : WorkerEnds(w))
    BY <2>4, <1>6 DEF WalkEnds, PumpEnds, WriterEnds, CommitFails, DecoderEnds, WorkerEnds
  <2>5. CASE LooksUp \/ Commits
    <3>1. UNCHANGED <<disk, steady, walk>> BY <2>5 DEF LooksUp, Commits, user
    <3> QED BY <3>1, <1>2
  <2> QED BY <1>4, <1>5, <1>8, <2>1, <2>2, <2>3, <2>4, <2>5 DEF Moves
<1>9. CASE Aside \/ UNCHANGED vars
  <2>1. CASE User BY <2>1, <1>3 DEF User, Delete, Move, Create
  <2>2. CASE Start \/ LoadFails \/ Drained \/ Joined \/ FollowsUp \/ HidesMissing \/ Stamps \/ Emits
    <3>1. UNCHANGED <<disk, steady, walk>>
      BY <2>2 DEF Start, LoadFails, Drained, Joined, FollowsUp, HidesMissing, Stamps, Emits, Outside,
                  user
    <3> QED BY <3>1, <1>2
  <2>3. CASE RequestPause \/ RequestResume \/ RequestCancel \/ LatchElsewhere \/ MarkGpuDead
    <3>1. UNCHANGED <<disk, steady, walk>>
      BY <2>3 DEF RequestPause, RequestResume, RequestCancel, LatchElsewhere, MarkGpuDead, user
    <3> QED BY <3>1, <1>2
  <2>4. CASE Rest \/ UNCHANGED vars \/ \E w \in Workers : Clears(w)
    <3>1. UNCHANGED <<disk, steady, walk>> BY <2>4 DEF Rest, vars, Clears, user
    <3> QED BY <3>1, <1>2
  <2> QED BY <1>9, <2>1, <2>2, <2>3, <2>4 DEF Aside
<1> QED BY <1>1, <1>8, <1>9, Kinded

\* A write to a row of scan_sessions takes effect or is known to be missed.
LEMMA WritesIs ==
    ASSUME status \in [{1, 2} -> Statuses], missed \in BOOLEAN,
           NEW n \in {1, 2}, NEW s \in Statuses, Writes(n, s)
    PROVE  /\ status' \in [{1, 2} -> Statuses] /\ missed' \in BOOLEAN
           /\ \A k \in {1, 2} \ {n} : status'[k] = status[k]
           /\ \/ status'[n] = s /\ missed' = missed
              \/ status' = status /\ missed' = TRUE
  BY DEF Writes

LEMMA UpdatesIs ==
    ASSUME pass \in {1, 2}, status \in [{1, 2} -> Statuses], missed \in BOOLEAN,
           NEW s \in Statuses, Updates(s)
    PROVE  /\ status' \in [{1, 2} -> Statuses] /\ missed' \in BOOLEAN
           /\ \A k \in {1, 2} \ {pass} : status'[k] = status[k]
           /\ \/ status'[pass] = (IF status[pass] = "none" THEN "none" ELSE s) /\ missed' = missed
              \/ status' = status /\ missed' = TRUE
<1> DEFINE t == IF status[pass] = "none" THEN "none" ELSE s
<1>1. t \in Statuses /\ Writes(pass, t) BY DEF Updates, Statuses
<1> HIDE DEF t
<1>2. /\ status' \in [{1, 2} -> Statuses] /\ missed' \in BOOLEAN
      /\ \A k \in {1, 2} \ {pass} : status'[k] = status[k]
      /\ \/ status'[pass] = t /\ missed' = missed
         \/ status' = status /\ missed' = TRUE
  BY <1>1, WritesIs
<1> QED BY <1>2 DEF t

LEMMA BookedInit == Init => Booked
  BY DEF Init, Booked, Exact, Recorded, Statuses

LEMMA BookedBegin == ASSUME Booked, Begins PROVE Booked'
<1>1. PICK n \in {1, 2} : BeginPass(n) /\ (n = 1 => main = "load") /\ (n = 2 => main = "again")
  <2>1. CASE Loaded BY <2>1 DEF Loaded
  <2>2. CASE Again BY <2>2 DEF Again
  <2> QED BY <2>1, <2>2 DEF Begins
<1>2. /\ main' = "flow" /\ pass' = n /\ hidden' = FALSE /\ UNCHANGED outcome
      /\ Writes(n, "running")
  BY <1>1 DEF BeginPass
<1>3. /\ status' \in [{1, 2} -> Statuses] /\ missed' \in BOOLEAN
      /\ \A k \in {1, 2} \ {n} : status'[k] = status[k]
      /\ \/ status'[n] = "running" /\ missed' = missed
         \/ status' = status /\ missed' = TRUE
  <2>1. "running" \in Statuses BY DEF Statuses
  <2> QED BY <1>2, <2>1, WritesIs DEF Booked
<1>4. status[n] = "none" /\ pass = 1 /\ outcome = "none" BY <1>1 DEF Booked
<1>5. Exact' \/ missed'
  BY <1>1, <1>2, <1>3, <1>4 DEF Booked, Exact
<1> QED BY <1>1, <1>2, <1>3, <1>4, <1>5 DEF Booked, Recorded

\* Nothing but a write to it changes the row, and the flags stay set.
LEMMA BookedQuiet ==
    ASSUME Booked, UNCHANGED session, gpuDead => gpuDead', cancelled => cancelled'
    PROVE  Booked'
  BY DEF Booked, Exact, Recorded, session

LEMMA BookedJoins == ASSUME Booked, Joined PROVE Booked'
<1>1. main = "join" /\ UNCHANGED <<pass, hidden>> BY DEF Joined
<1>2. CASE Updates("failed") /\ Finish("Failed")
  <2>1. /\ status' \in [{1, 2} -> Statuses] /\ missed' \in BOOLEAN
        /\ \A k \in {1, 2} \ {pass} : status'[k] = status[k]
        /\ \/ /\ status'[pass] = IF status[pass] = "none" THEN "none" ELSE "failed"
              /\ missed' = missed
           \/ status' = status /\ missed' = TRUE
    <3>1. "failed" \in Statuses BY DEF Statuses
    <3> QED BY <1>2, <3>1, UpdatesIs DEF Booked
  <2> QED BY <1>1, <1>2, <2>1 DEF Booked, Exact, Recorded, Finish
<1>3. CASE main' \in {"clean", "stamp"} /\ UNCHANGED <<recorded, outcome>>
  BY <1>1, <1>3 DEF Booked, Exact, Recorded, recorded
<1> QED BY <1>2, <1>3 DEF Joined

LEMMA BookedStamps == ASSUME Booked, Stamps PROVE Booked'
<1> DEFINE v == Verdict("failed", "cancelled", "completed")
<1>1. /\ main = "stamp" /\ main' = "emit"
      /\ UNCHANGED <<pass, hidden, outcome, gpuDead, cancelled>> /\ Updates(v)
  BY DEF Stamps, Outside, coordinator
<1>2. /\ v \in {"failed", "cancelled", "completed"} /\ v \in Statuses
      /\ v = "failed" => gpuDead
      /\ v = "cancelled" => cancelled
  BY DEF Verdict, Statuses
<1> HIDE DEF v
<1>3. /\ status' \in [{1, 2} -> Statuses] /\ missed' \in BOOLEAN
      /\ \A k \in {1, 2} \ {pass} : status'[k] = status[k]
      /\ \/ status'[pass] = (IF status[pass] = "none" THEN "none" ELSE v) /\ missed' = missed
         \/ status' = status /\ missed' = TRUE
  BY <1>1, <1>2, UpdatesIs DEF Booked
<1> QED BY <1>1, <1>2, <1>3 DEF Booked, Exact, Recorded

LEMMA BookedFollows == ASSUME Booked, FollowsUp PROVE Booked'
<1>1. /\ main = "clean" /\ main' = "again" /\ pass = 1 /\ Writes(1, "none")
      /\ UNCHANGED <<pass, hidden, outcome>>
  BY DEF FollowsUp
<1>2. /\ status' \in [{1, 2} -> Statuses] /\ missed' \in BOOLEAN
      /\ \A k \in {1, 2} \ {1} : status'[k] = status[k]
      /\ \/ status'[1] = "none" /\ missed' = missed
         \/ status' = status /\ missed' = TRUE
  <2>1. "none" \in Statuses BY DEF Statuses
  <2> QED BY <1>1, <2>1, WritesIs DEF Booked
<1> QED BY <1>1, <1>2 DEF Booked, Exact, Recorded

LEMMA BookedStep == Booked /\ [Next]_vars => Booked'
<1> SUFFICES ASSUME Booked, [Next]_vars PROVE Booked' OBVIOUS
<1>1. CASE Begins BY <1>1, BookedBegin
<1>2. CASE Moves BY <1>2, MovesKeep, BookedQuiet
<1>3. CASE Aside \/ UNCHANGED vars
  <2>1. CASE User
    BY <2>1, BookedQuiet DEF User, Delete, Move, Create, Changes, coordinator
  <2>2. CASE Start
    BY <2>2 DEF Start, Finish, Booked, Exact, Recorded, recorded
  <2>3. CASE LoadFails
    BY <2>3 DEF LoadFails, Finish, Booked, Exact, Recorded, recorded
  <2>4. CASE Drained
    BY <2>4 DEF Drained, Booked, Exact, Recorded, recorded
  <2>5. CASE Joined \/ FollowsUp \/ Stamps
    BY <2>5, BookedJoins, BookedFollows, BookedStamps
  <2>6. CASE HidesMissing
    <3>1. main = "clean" /\ main' = "stamp" /\ UNCHANGED <<pass, recorded, outcome>>
      BY <2>6 DEF HidesMissing
    <3> QED BY <3>1 DEF Booked, Exact, Recorded, recorded
  <2>7. CASE Emits
    <3>1. /\ main = "emit" /\ main' = "over" /\ UNCHANGED <<pass, recorded>>
          /\ outcome' = IF gpuDead THEN "Failed" ELSE IF cancelled THEN "Cancelled" ELSE "Completed"
      BY <2>7 DEF Emits, Verdict, Finish
    <3> QED BY <3>1 DEF Booked, Exact, Recorded, recorded
  <2>8. CASE RequestPause \/ RequestResume \/ RequestCancel \/ LatchElsewhere \/ MarkGpuDead
    BY <2>8, BookedQuiet
       DEF RequestPause, RequestResume, RequestCancel, LatchElsewhere, MarkGpuDead
  <2>9. CASE Rest \/ UNCHANGED vars \/ \E w \in Workers : Clears(w)
    BY <2>9, BookedQuiet DEF Rest, vars, Clears, coordinator
  <2> QED BY <1>3, <2>1, <2>2, <2>3, <2>4, <2>5, <2>6, <2>7, <2>8, <2>9 DEF Aside
<1> QED BY <1>1, <1>2, <1>3, Kinded

(***************************************************************************)
(* Theorems.                                                               *)
(***************************************************************************)

\* The terminal phase the app gets is never better than what scan_sessions
\* records, whichever writes to it fail; and while none has, no row of either
\* pass is left "running" and a scan that reports Completed has its row say so.
THEOREM RecordedCorrect == Spec => []Recorded
<1>1. Init => Booked BY BookedInit
<1>2. Booked /\ [Next]_vars => Booked' BY BookedStep
<1>3. Booked => Recorded BY DEF Booked
<1> QED BY <1>1, <1>2, <1>3, PTL DEF Spec

Flows == Kinds /\ Batched /\ Upstream /\ Sequenced

\* Once its threads have started, the pipeline ends from the walk down.
LEMMA FlowsAlways == ASSUME "spawn" \notin Faults PROVE Spec => []Flows
<1>1. Init => Flows
  BY KindsInit, BatchedInit, UpstreamInit, SequencedInit DEF Flows
<1>2. Flows /\ [Next]_vars => Flows'
  BY KindsStep, BatchedStep, UpstreamStep, SequencedStep DEF Flows
<1> QED BY <1>1, <1>2, PTL DEF Spec

\* A scan that reports Completed has written a row for every file its walk
\* found, however the stages interleave and whatever was paused, refused or
\* failed on the way, provided that its decoder threads started.
THEOREM CompletedWholeCorrect == ASSUME "spawn" \notin Faults PROVE Spec => []CompletedWhole
<1>1. Spec => []Flows BY FlowsAlways
<1>2. Init => Booked /\ Concluded BY BookedInit, ConcludedInit
<1>3. Flows /\ (Booked /\ Concluded) /\ [Next]_vars => (Booked /\ Concluded)'
  BY BookedStep, ConcludedStep DEF Flows
<1>4. Booked /\ Concluded => CompletedWhole BY DEF Concluded, CompletedWhole
<1> QED BY <1>1, <1>2, <1>3, <1>4, PTL DEF Spec

\* The catalog with the rows hidden whose paths the walk did not see.
Hiding == [j \in Ids |-> IF rows[j] # None /\ rows[j].path \notin seen
                         THEN [rows[j] EXCEPT !.failed = TRUE] ELSE rows[j]]

\* The reconciliation hides those rows, or fails and leaves all as they are.
LEMMA HidesOrNot ==
    ASSUME HidesMissing
    PROVE  \/ rows' = Hiding /\ hidden' = TRUE
           \/ rows' = rows /\ hidden' = hidden
  BY DEF HidesMissing, Hiding

\* The only step that hides rows is the reconciliation after a clean walk.
LEMMA HidesUnseen ==
    ASSUME Sequenced, Watched, [Next]_vars, main = "clean",
           NEW i \in Ids, rows[i] # None, rows[i].path \in steady
    PROVE  rows'[i] = rows[i]
<1>1. CASE Begins BY <1>1, BeginsFresh
<1>2. CASE Moves BY <1>2, MovesKeep DEF Sequenced, Joining
<1>3. CASE HidesMissing
  <2>1. rows[i].path \in seen BY DEF Sequenced, Watched
  <2>2. CASE rows' = Hiding
    <3>1. rows'[i] = IF rows[i] # None /\ rows[i].path \notin seen
                     THEN [rows[i] EXCEPT !.failed = TRUE] ELSE rows[i]
      BY <2>2 DEF Hiding
    <3> QED BY <2>1, <3>1
  <2> QED BY <1>3, <2>2, HidesOrNot
<1>4. CASE User
  BY <1>4 DEF User, Delete, Move, Create, Changes
<1>5. CASE Start \/ LoadFails \/ Drained \/ Joined \/ FollowsUp \/ Stamps \/ Emits
  BY <1>5 DEF Start, LoadFails, Drained, Joined, FollowsUp, Stamps, Emits
<1>6. CASE RequestPause \/ RequestResume \/ RequestCancel \/ LatchElsewhere \/ MarkGpuDead
  BY <1>6 DEF RequestPause, RequestResume, RequestCancel, LatchElsewhere, MarkGpuDead
<1>7. CASE Rest \/ UNCHANGED vars \/ \E w \in Workers : Clears(w)
  BY <1>7 DEF Rest, vars, Clears
<1> QED BY <1>1, <1>2, <1>3, <1>4, <1>5, <1>6, <1>7, Kinded DEF Aside

\* No row of a path that has held a file since the pass began is hidden as
\* missing, whatever directory could not be read, provided that the decoder
\* threads started.
THEOREM NotHiddenCorrect == ASSUME "spawn" \notin Faults PROVE Spec => NotHidden
<1>1. Spec => []Flows BY FlowsAlways
<1>2. Init => Watched BY WatchedInit
<1>3. Watched /\ [Next]_vars => Watched' BY WatchedStep
<1>4. Flows /\ Watched /\ [Next]_vars =>
        [main = "clean" => \A i \in Ids : rows[i] # None /\ rows[i].path \in steady =>
                                         rows'[i] = rows[i]]_vars
  BY HidesUnseen DEF Flows
<1> QED BY <1>1, <1>2, <1>3, <1>4, PTL DEF Spec, NotHidden


(***************************************************************************)
(* A transaction of the writer is a fold of Stored over the batch.  What   *)
(* every row leaves true of a catalog, the batch does.                     *)
(***************************************************************************)
LEMMA BatchRuns ==
    ASSUME buffer \in Seq(Paths), NEW V, rows \in V,
           \A v \in V, i \in DOMAIN buffer : Stored(v, buffer[i]) \in V,
           NEW Q, <<{}, rows>> \in Q,
           \A s \in Subsets(DOMAIN buffer), v \in V : \A i \in s :
               <<s \ {i}, v>> \in Q => <<s, Stored(v, buffer[i])>> \in Q
    PROVE  /\ FoldLeft(Stored, rows, buffer) \in V
           /\ <<DOMAIN buffer, FoldLeft(Stored, rows, buffer)>> \in Q
<1> DEFINE D == DOMAIN buffer
           R(g) == [s \in Subsets(D) |->
                       IF s = {} THEN rows ELSE Stored(g[s \ {Max(s)}], buffer[Max(s)])]
           pick == [s \in Subsets(D) |-> Max(s)]
           st == [y \in D \X V |-> Stored(y[2], buffer[y[1]])]
<1>1. IsFiniteSet(D) /\ D \in SUBSET Nat
  <2>1. Len(buffer) \in Nat /\ D = 1..Len(buffer) OBVIOUS
  <2> QED BY <2>1, FS_Interval
<1>2. ASSUME NEW s \in Subsets(D), s # {} PROVE Max(s) \in s /\ Max(s) \in D /\ s \ {Max(s)} \in Subsets(D)
  <2>1. s \in SUBSET Nat /\ IsFiniteSet(s) /\ s \subseteq D BY <1>1, FS_Subset DEF Subsets
  <2>2. Max(s) \in s BY <1>2, <2>1, Greatest
  <2> QED BY <2>1, <2>2 DEF Subsets
<1> HIDE DEF D
<1>3. \E g \in [Subsets(D) -> V] : \A s \in Subsets(D) : FoldsTo(g, s, rows, pick, st)
  <2>1. \A s \in Subsets(D) : s # {} => pick[s] \in s BY <1>2
  <2>2. \A i \in D, v \in V : st[<<i, v>>] \in V BY DEF D
  <2> HIDE DEF pick, st
  <2> QED BY <1>1, <2>1, <2>2, FoldExists DEF Subsets
<1>4. PICK g \in [Subsets(D) -> V] : \A s \in Subsets(D) : FoldsTo(g, s, rows, pick, st) BY <1>3
<1>5. g = R(g)
  <2>1. ASSUME NEW s \in Subsets(D), s # {} PROVE g[s] = Stored(g[s \ {Max(s)}], buffer[Max(s)])
    <3>1. pick[s] = Max(s) /\ Max(s) \in D /\ s \ {Max(s)} \in Subsets(D) BY <1>2, <2>1
    <3>2. g[s] = st[<<Max(s), g[s \ {Max(s)}]>>] BY <1>4, <2>1, <3>1 DEF FoldsTo
    <3> QED BY <3>1, <3>2
  <2>2. \A s \in Subsets(D) : s = {} => g[s] = rows BY <1>4 DEF FoldsTo
  <2>3. g = [s \in Subsets(D) |-> g[s]] OBVIOUS
  <2> HIDE DEF pick, st
  <2> QED BY <2>1, <2>2, <2>3
<1> DEFINE k == CHOOSE h : h = R(h)
<1>6. k = R(k)
  <2> HIDE DEF pick, st
  <2> QED BY <1>5
<1>7. k[D] = FoldLeft(Stored, rows, buffer)
  BY DEF FoldLeft, MapThenFoldSet, Subsets, D
<1> DEFINE T == {s \in Subsets(D) : k[s] \in V /\ <<s, k[s]>> \in Q}
<1>8. ASSUME NEW s \in Subsets(D), \A x \in s : s \ {x} \in T PROVE s \in T
  <2> HIDE DEF k
  <2>1. k[s] = IF s = {} THEN rows ELSE Stored(k[s \ {Max(s)}], buffer[Max(s)]) BY <1>6
  <2>2. CASE s = {} BY <2>1, <2>2
  <2>3. CASE s # {}
    <3> DEFINE m == Max(s)
    <3>1. m \in s /\ m \in D BY <1>2, <2>3
    <3> HIDE DEF m
    <3>2. k[s \ {m}] \in V /\ <<s \ {m}, k[s \ {m}]>> \in Q BY <1>8, <3>1
    <3>3. k[s] = Stored(k[s \ {m}], buffer[m]) BY <2>1, <2>3 DEF m
    <3> QED BY <3>1, <3>2, <3>3 DEF D
  <2> QED BY <2>2, <2>3
<1>9. D \in T
  <2>1. D \in Subsets(D) BY DEF Subsets
  <2> HIDE DEF T
  <2>2. Inductive(D, T) BY <1>8 DEF Inductive, Subsets
  <2> QED BY <1>1, <2>1, <2>2, SubsetInduction
<1> HIDE DEF k
<1> QED BY <1>7, <1>9 DEF D

(***************************************************************************)
(* What one row does to a catalog.                                         *)
(***************************************************************************)
Catalogs == [Ids -> Row \union {None}]
OneEach(r) == \A i, j \in Ids : r[i] # None /\ r[j] # None /\ i # j => r[i].path # r[j].path

\* No row of the catalog goes away, and none leaves a path that stayed put.
Keeping(r) == \A i \in Ids : rows[i] # None =>
                 r[i] # None /\ (rows[i].path \in steady => r[i].path = rows[i].path)
Goods == {r \in Catalogs : OneEach(r) /\ Keeping(r)}

\* A heal may only take a row away from a path that was seen empty.
Cands == \A c \in cand : /\ c[1] \in Paths /\ c[2] \in Ids /\ c[3] \in Paths
                         /\ rows[c[2]] # None /\ c[3] \notin steady

Tagged == what \in [Paths -> Files \union {None}]
          /\ result \in [Paths -> {"none", "ok", "failed", "bare"}]

Settled(r, p) == \E i \in Ids : r[i] # None /\ r[i].path = p /\ (r[i].failed \/ r[i].file = what[p])
LeavesAlone(r, s, p) == \A i \in Ids : r[i] # None /\ r[i].path \in steady /\ r[i].path # p => s[i] = r[i]

LEMMA FirstIs == ASSUME NEW S \in SUBSET Ids, S # {} PROVE First(S) \in S
<1>1. S \in SUBSET Nat BY ScanAssumption
<1>2. \E i \in S : \A j \in S : i <= j BY <1>1, Least
<1> QED BY <1>2 DEF First

\* A path without a row leaves an id to give out.
LEMMA FreeId ==
    ASSUME NEW r \in Catalogs, OneEach(r), NEW p \in Paths, RowAt(r, p) = {}
    PROVE  {i \in Ids : r[i] = None} # {}
<1> SUFFICES ASSUME \A i \in Ids : r[i] # None PROVE FALSE OBVIOUS
<1> DEFINE P == Paths \ {p}
           f == [i \in Ids |-> r[i].path]
<1>1. IsFiniteSet(P) /\ Cardinality(P) = Cardinality(Paths) - 1
      /\ IsFiniteSet(Paths) /\ Cardinality(Paths) \in Nat
  BY CatalogAssumption, FS_RemoveElement, FS_CardinalityType
<1>2. \A i \in Ids : r[i] \in Row /\ r[i].path \in P BY DEF Catalogs, RowAt, Row
<1>3. f \in Injection(Ids, P) BY <1>2 DEF OneEach, Injection, IsInjective
<1> HIDE DEF f, P
<1>4. IsFiniteSet(Ids) /\ Cardinality(Ids) <= Cardinality(P) BY <1>1, <1>3, FS_Injection
<1>5. Cardinality(Ids) \in Nat BY <1>4, FS_CardinalityType
<1> QED BY <1>1, <1>4, <1>5, CatalogAssumption

LEMMA HealedIs ==
    ASSUME Cands, NEW r \in Goods, NEW p \in Paths
    PROVE  \/ Healed(r, p) = r
           \/ /\ RowAt(r, p) = {}
              /\ \E i \in Ids : /\ r[i] # None /\ r[i].path \notin steady
                                /\ Healed(r, p) = [r EXCEPT ![i] = [r[i] EXCEPT !.path = p]]
<1> DEFINE mine == {b \in cand : b[1] = p /\ r[b[2]].path = b[3]}
           still == {c[2] : c \in mine}
<1>1. Healed(r, p) = IF still = {} \/ RowAt(r, p) # {} THEN r ELSE [r EXCEPT ![First(still)].path = p]
  BY DEF Healed
<1>2. still \in SUBSET Ids BY DEF Cands
<1>3. CASE still = {} \/ RowAt(r, p) # {}
  <2> HIDE DEF still
  <2> QED BY <1>1, <1>3
<1>4. CASE still # {} /\ RowAt(r, p) = {}
  <2> DEFINE i == First(still)
  <2>1. i \in still
    <3> HIDE DEF still
    <3> QED BY <1>2, <1>4, FirstIs
  <2>2. PICK c \in cand : i = c[2] /\ r[c[2]].path = c[3] BY <2>1
  <2>3. Healed(r, p) = [r EXCEPT ![i] = [r[i] EXCEPT !.path = p]]
    <3> HIDE DEF still
    <3> QED BY <1>1, <1>4
  <2> HIDE DEF i, still
  <2>4. i \in Ids /\ r[i] # None /\ r[i].path \notin steady BY <2>2 DEF Cands, Goods, Keeping
  <2> QED BY <1>4, <2>3, <2>4
<1> QED BY <1>3, <1>4

LEMMA HealedGood ==
    ASSUME Cands, NEW r \in Goods, NEW p \in Paths
    PROVE  Healed(r, p) \in Goods /\ LeavesAlone(r, Healed(r, p), p)
<1>1. CASE Healed(r, p) = r BY <1>1 DEF LeavesAlone
<1>2. ASSUME RowAt(r, p) = {}, NEW i \in Ids, r[i] # None, r[i].path \notin steady,
             Healed(r, p) = [r EXCEPT ![i] = [r[i] EXCEPT !.path = p]]
      PROVE  Healed(r, p) \in Goods /\ LeavesAlone(r, Healed(r, p), p)
  <2> DEFINE h == Healed(r, p)
             new == [r[i] EXCEPT !.path = p]
  <2>1. r \in Catalogs /\ OneEach(r) /\ Keeping(r) BY DEF Goods
  <2>2. new \in Row /\ new # None /\ new.path = p BY <1>2, <2>1, CatalogAssumption DEF Catalogs, Row
  <2> HIDE DEF new
  <2>3. h = [r EXCEPT ![i] = new] BY <1>2 DEF new
  <2> HIDE DEF h
  <2>4. h \in Catalogs BY <2>1, <2>2, <2>3 DEF Catalogs
  <2>5. \A j \in Ids : h[j] = IF j = i THEN new ELSE r[j] BY <2>1, <2>3 DEF Catalogs
  <2>6. OneEach(h) BY <1>2, <2>1, <2>2, <2>5 DEF OneEach, RowAt
  <2>7. Keeping(h) BY <1>2, <2>1, <2>2, <2>5 DEF Keeping
  <2>8. LeavesAlone(r, h, p) BY <1>2, <2>5 DEF LeavesAlone
  <2> QED BY <2>4, <2>6, <2>7, <2>8 DEF Goods, h
<1> QED BY <1>1, <1>2, HealedIs

LEMMA UpsertedGood ==
    ASSUME Tagged, NEW r \in Goods, NEW p \in Paths
    PROVE  /\ Upserted(r, p) \in Goods
           /\ LeavesAlone(r, Upserted(r, p), p)
           /\ Settled(Upserted(r, p), p)
<1> DEFINE own == RowAt(r, p)
           free == {i \in Ids : r[i] = None}
           id == IF own # {} THEN First(own) ELSE First(free)
           old == IF own # {} THEN r[id].file ELSE None
           new == [path |-> p, failed |-> result[p] # "ok",
                   file |-> IF result[p] = "bare" THEN old ELSE what[p]]
           u == Upserted(r, p)
<1>1. u = [r EXCEPT ![id] = new] BY DEF Upserted
<1>2. r \in Catalogs /\ OneEach(r) /\ Keeping(r) BY DEF Goods
<1>3. own \in SUBSET Ids /\ free \in SUBSET Ids /\ own \subseteq Ids BY DEF RowAt
<1>4. own # {} => First(own) \in own BY <1>3, FirstIs
<1>5. own = {} => First(free) \in free
  <2>1. own = {} => free # {} BY <1>2, FreeId
  <2> HIDE DEF own, free
  <2> QED BY <1>3, <2>1, FirstIs
<1>6. id \in Ids /\ (own # {} => id \in own) /\ (own = {} => r[id] = None)
  <2>1. CASE own # {} BY <1>3, <1>4, <2>1
  <2>2. CASE own = {} BY <1>5, <2>2
  <2> QED BY <2>1, <2>2
<1> HIDE DEF id
<1>7. \A i \in Ids : i \in own <=> r[i] # None /\ r[i].path = p BY DEF RowAt
<1> HIDE DEF own, free, u
<1>8. old \in Files \union {None}
  <2>1. CASE own # {}
    <3>1. r[id] \in Row BY <1>2, <1>6, <1>7, <2>1 DEF Catalogs
    <3> QED BY <2>1, <3>1 DEF Row
  <2>2. CASE own = {} BY <2>2
  <2> QED BY <2>1, <2>2
<1> HIDE DEF old
<1>9. new \in Row /\ new # None /\ new.path = p /\ (new.failed \/ new.file = what[p])
  <2>1. new \in Row BY <1>8 DEF Row, Tagged
  <2>2. new.failed \/ new.file = what[p]
    <3>1. CASE result[p] = "ok" BY <3>1
    <3>2. CASE result[p] # "ok" BY <3>2
    <3> QED BY <3>1, <3>2
  <2> QED BY <2>1, <2>2, CatalogAssumption
<1> HIDE DEF new
<1>10. u \in Catalogs BY <1>1, <1>2, <1>9 DEF Catalogs
<1>11. \A i \in Ids : u[i] = IF i = id THEN new ELSE r[i] BY <1>1, <1>2 DEF Catalogs
<1>12. OneEach(u) BY <1>2, <1>6, <1>7, <1>9, <1>11 DEF OneEach
<1>13. Keeping(u)
  <2> SUFFICES ASSUME NEW i \in Ids, rows[i] # None
               PROVE  u[i] # None /\ (rows[i].path \in steady => u[i].path = rows[i].path)
    BY DEF Keeping
  <2>1. r[i] # None /\ (rows[i].path \in steady => r[i].path = rows[i].path) BY <1>2 DEF Keeping
  <2>2. CASE i = id
    <3>1. r[i].path = p BY <1>6, <1>7, <2>1, <2>2
    <3> QED BY <1>9, <1>11, <2>1, <2>2, <3>1
  <2>3. CASE i # id BY <1>11, <2>1, <2>3
  <2> QED BY <2>2, <2>3
<1>14. LeavesAlone(r, u, p) BY <1>6, <1>7, <1>11 DEF LeavesAlone
<1>15. Settled(u, p) BY <1>6, <1>9, <1>11 DEF Settled
<1> QED BY <1>2, <1>10, <1>12, <1>13, <1>14, <1>15 DEF Goods, u

LEMMA StoredGood ==
    ASSUME Cands, Tagged, NEW r \in Goods, NEW p \in Paths
    PROVE  /\ Stored(r, p) \in Goods
           /\ LeavesAlone(r, Stored(r, p), p)
           /\ Settled(Stored(r, p), p)
<1>1. Healed(r, p) \in Goods /\ LeavesAlone(r, Healed(r, p), p) BY HealedGood
<1>2. /\ Stored(r, p) \in Goods /\ Settled(Stored(r, p), p)
      /\ LeavesAlone(Healed(r, p), Stored(r, p), p)
  BY <1>1, UpsertedGood DEF Stored
<1> QED BY <1>1, <1>2 DEF LeavesAlone

(***************************************************************************)
(* What a batch does to the catalog.                                       *)
(***************************************************************************)
LEMMA BatchGood ==
    ASSUME Cands, Tagged, rows \in Catalogs, OneEach(rows), buffer \in Seq(Paths), Commits
    PROVE  /\ rows' \in Goods
           /\ \A i \in DOMAIN buffer : buffer[i] \in steady => Settled(rows', buffer[i])
           /\ \A j \in Ids : /\ rows[j] # None /\ rows[j].path \in steady
                             /\ \A i \in DOMAIN buffer : rows[j].path # buffer[i]
                             => rows'[j] = rows[j]
<1> DEFINE D == DOMAIN buffer
           Part(s, v) ==
               /\ \A i \in s : buffer[i] \in steady => Settled(v, buffer[i])
               /\ \A j \in Ids : /\ rows[j] # None /\ rows[j].path \in steady
                                 /\ \A i \in s : rows[j].path # buffer[i]
                                 => v[j] = rows[j]
           Q == {q \in Subsets(D) \X Goods : Part(q[1], q[2])}
<1>1. rows \in Goods BY DEF Goods, Keeping
<1>2. \A i \in D : buffer[i] \in Paths OBVIOUS
<1>3. <<{}, rows>> \in Q BY <1>1 DEF Subsets
<1>4. ASSUME NEW s \in Subsets(D), NEW v \in Goods, NEW i \in s, <<s \ {i}, v>> \in Q
      PROVE  <<s, Stored(v, buffer[i])>> \in Q
  <2>1. i \in D /\ buffer[i] \in Paths BY <1>2 DEF Subsets
  <2> DEFINE w == Stored(v, buffer[i])
  <2>2. w \in Goods /\ LeavesAlone(v, w, buffer[i]) /\ Settled(w, buffer[i])
    BY <2>1, StoredGood
  <2> HIDE DEF w
  <2>3. Part(s \ {i}, v) BY <1>4
  <2>4. ASSUME NEW k \in s, buffer[k] \in steady PROVE Settled(w, buffer[k])
    <3>1. CASE buffer[k] = buffer[i] BY <2>2, <3>1
    <3>2. CASE buffer[k] # buffer[i]
      <4>1. Settled(v, buffer[k]) BY <2>3, <2>4, <3>2
      <4> QED BY <2>2, <2>4, <3>2, <4>1 DEF Settled, LeavesAlone
    <3> QED BY <3>1, <3>2
  <2>5. ASSUME NEW j \in Ids, rows[j] # None, rows[j].path \in steady,
               \A k \in s : rows[j].path # buffer[k]
        PROVE  w[j] = rows[j]
    <3>1. v[j] = rows[j] BY <2>3, <2>5
    <3> QED BY <2>2, <2>5, <3>1 DEF LeavesAlone
  <2>6. Part(s, w) BY <2>4, <2>5
  <2> QED BY <2>2, <2>6 DEF w
<1>5. \A v \in Goods, i \in DOMAIN buffer : Stored(v, buffer[i]) \in Goods BY <1>2, StoredGood
<1>6. rows' \in Goods /\ <<D, rows'>> \in Q
  <2>1. rows' = FoldLeft(Stored, rows, buffer) BY DEF Commits
  <2> DEFINE V == Goods
  <2>2. rows \in V /\ \A v \in V, i \in DOMAIN buffer : Stored(v, buffer[i]) \in V BY <1>1, <1>5
  <2>3. \A s \in Subsets(DOMAIN buffer), v \in V : \A i \in s :
               <<s \ {i}, v>> \in Q => <<s, Stored(v, buffer[i])>> \in Q
    BY <1>4
  <2> HIDE DEF Q, V
  <2>4. FoldLeft(Stored, rows, buffer) \in V /\ <<DOMAIN buffer, FoldLeft(Stored, rows, buffer)>> \in Q
    BY <1>3, <2>2, <2>3, BatchRuns
  <2> QED BY <2>1, <2>4 DEF V
<1>7. Part(D, rows') BY <1>6
<1> QED BY <1>6, <1>7

(***************************************************************************)
(* The tables.                                                             *)
(***************************************************************************)
Data == /\ disk \in [Paths -> Files \union {None}]
        /\ rows \in Catalogs /\ OneEach(rows)
        /\ Tagged
        /\ cand \subseteq Paths \X Ids \X Paths /\ Cands

LEMMA DataInit == Init => Data
<1> SUFFICES ASSUME Init PROVE Data OBVIOUS
<1>1. PICK s \in Starts : rows = s[1] /\ disk = s[2] BY DEF Init
<1>2. disk \in [Paths -> Files \union {None}] /\ rows \in Catalogs /\ OneEach(rows)
  BY <1>1, CatalogAssumption DEF Catalogs, OneEach
<1> QED BY <1>2 DEF Init, Data, Tagged, Cands

\* What a step that is none of these leaves as it is.
Quiet == UNCHANGED <<disk, rows, what, result, cand, steady>>

LEMMA QuietKeeps == Data /\ Quiet => Data'
  BY DEF Data, Quiet, Catalogs, OneEach, Tagged, Cands

LEMMA DataBegin == ASSUME Data, Begins PROVE Data'
<1>1. PICK n \in {1, 2} : BeginPass(n) BY DEF Begins, Loaded, Again
<1>2. /\ UNCHANGED <<disk, rows>> /\ cand' = {}
      /\ what' = [p \in Paths |-> None] /\ result' = [p \in Paths |-> "none"]
  BY <1>1 DEF BeginPass
<1> QED BY <1>2 DEF Data, Catalogs, OneEach, Tagged, Cands

LEMMA DataAside == ASSUME Data, Aside \/ UNCHANGED vars PROVE Data'
<1>1. ASSUME NEW old, NEW new \in [Paths -> Files \union {None}], Changes(old, new) PROVE Data'
  <2>1. disk' = new /\ steady' \subseteq steady /\ UNCHANGED <<rows, what, result, cand>>
    BY <1>1 DEF Changes, items, writer
  <2> QED BY <2>1 DEF Data, Catalogs, OneEach, Tagged, Cands
<1>2. CASE User
  <2>1. ASSUME NEW p \in Paths, NEW q \in Paths, Move(p, q) PROVE Data'
    <3> DEFINE new == [disk EXCEPT ![p] = None, ![q] = disk[p]]
    <3>1. new \in [Paths -> Files \union {None}] BY DEF Data
    <3>2. Changes({p, q}, new) BY <2>1 DEF Move
    <3> HIDE DEF new
    <3> QED BY <1>1, <3>1, <3>2
  <2>2. ASSUME NEW p \in Paths, Delete(p) PROVE Data'
    <3> DEFINE new == [disk EXCEPT ![p] = None]
    <3>1. new \in [Paths -> Files \union {None}] BY DEF Data
    <3>2. Changes({p}, new) BY <2>2 DEF Delete
    <3> HIDE DEF new
    <3> QED BY <1>1, <3>1, <3>2
  <2>3. ASSUME NEW p \in Paths, NEW f \in Files, Create(p, f) PROVE Data'
    <3> DEFINE new == [disk EXCEPT ![p] = f]
    <3>1. new \in [Paths -> Files \union {None}] BY DEF Data
    <3>2. Changes({p}, new) BY <2>3 DEF Create
    <3> HIDE DEF new
    <3> QED BY <1>1, <3>1, <3>2
  <2> QED BY <1>2, <2>1, <2>2, <2>3 DEF User
<1>3. CASE HidesMissing /\ rows' = Hiding
  <2>1. /\ rows' = [i \in Ids |-> IF rows[i] # None /\ rows[i].path \notin seen
                                  THEN [rows[i] EXCEPT !.failed = TRUE] ELSE rows[i]]
        /\ UNCHANGED <<disk, what, result, cand, steady>>
    BY <1>3 DEF HidesMissing, Hiding, Outside, items, writer, user
  <2>2. ASSUME NEW i \in Ids
        PROVE  /\ rows'[i] \in Row \union {None}
               /\ rows[i] = None <=> rows'[i] = None
               /\ rows[i] # None => rows'[i].path = rows[i].path
    <3>1. rows[i] \in Row \union {None} BY DEF Data, Catalogs
    <3>2. CASE rows[i] # None /\ rows[i].path \notin seen
      <4>1. rows[i] \in Row /\ rows'[i] = [rows[i] EXCEPT !.failed = TRUE] BY <2>1, <3>1, <3>2
      <4>2. rows'[i] \in Row /\ rows'[i].path = rows[i].path BY <4>1 DEF Row
      <4> QED BY <3>2, <4>2, CatalogAssumption
    <3>3. CASE ~(rows[i] # None /\ rows[i].path \notin seen) BY <2>1, <3>1, <3>3
    <3> QED BY <3>2, <3>3
  <2>3. rows' \in Catalogs
    <3>1. rows' = [i \in Ids |-> rows'[i]] BY <2>1
    <3> QED BY <2>2, <3>1 DEF Catalogs
  <2>4. OneEach(rows)' BY <2>2 DEF Data, OneEach
  <2>5. Cands' BY <2>1, <2>2 DEF Data, Cands
  <2> QED BY <2>1, <2>3, <2>4, <2>5 DEF Data, Tagged, Catalogs
<1>4. CASE Start \/ LoadFails \/ Drained \/ Joined \/ FollowsUp \/ Stamps \/ Emits
           \/ (HidesMissing /\ rows' = rows)
  <2>1. Quiet
    BY <1>4 DEF Start, LoadFails, Drained, Joined, FollowsUp, HidesMissing, Stamps, Emits, Outside,
                Quiet, items, writer, user
  <2> QED BY <2>1, QuietKeeps
<1>5. CASE RequestPause \/ RequestResume \/ RequestCancel \/ LatchElsewhere \/ MarkGpuDead
  <2>1. Quiet
    BY <1>5 DEF RequestPause, RequestResume, RequestCancel, LatchElsewhere, MarkGpuDead, Quiet,
                items, writer, user
  <2> QED BY <2>1, QuietKeeps
<1>6. CASE Rest \/ UNCHANGED vars \/ \E w \in Workers : Clears(w)
  <2>1. Quiet BY <1>6 DEF Rest, vars, Clears, Quiet, items, writer, user
  <2> QED BY <2>1, QuietKeeps
<1> QED BY <1>2, <1>3, <1>4, <1>5, <1>6, HidesOrNot DEF Aside

LEMMA DataMove == ASSUME Data, Kinds, Watched, Moves PROVE Data'
<1>1. ASSUME NEW d \in Dirs, ReadDir(d) PROVE Data'
  <2>1. UNCHANGED <<disk, rows, result, cand, steady>> BY <1>1 DEF ReadDir, writer, user
  <2>2. what' \in [Paths -> Files \union {None}] BY <1>1 DEF ReadDir, Data, Tagged
  <2> QED BY <2>1, <2>2 DEF Data, Tagged, Catalogs, OneEach, Cands
<1>2. ASSUME NEW d \in Dirs, ListFails(d) PROVE Quiet
  BY <1>2 DEF ListFails, items, writer, user, Quiet
<1>3. ASSUME NEW p \in Paths, Sends(p) \/ PumpTakes(p) \/ PumpGives(p) \/ WriterTakes(p) PROVE Quiet
  BY <1>3 DEF Sends, PumpTakes, PumpGives, WriterTakes, Pass, user, writer, Quiet
<1>4. ASSUME NEW d \in Decoders, NEW p \in Paths, DecoderTakes(d, p) \/ DecoderGives(d, p) PROVE Quiet
  BY <1>4 DEF DecoderTakes, DecoderGives, Pass, user, writer, Quiet
<1>5. ASSUME NEW w \in Workers, NEW p \in Paths, WorkerTakes(w, p) PROVE Quiet
  BY <1>5 DEF WorkerTakes, Pass, user, writer, Quiet
<1>6. ASSUME NEW w \in Workers, NEW p \in Paths, Tags(w, p) PROVE Data'
  <2>1. UNCHANGED <<disk, rows, what, cand, steady>> BY <1>6 DEF Tags, Pass, writer, user
  <2>2. result' \in [Paths -> {"none", "ok", "failed", "bare"}] BY <1>6 DEF Tags, Data, Tagged
  <2> QED BY <2>1, <2>2 DEF Data, Tagged, Catalogs, OneEach, Cands
<1>7. ASSUME NEW t, Ends(t) PROVE Quiet BY <1>7 DEF Ends, items, writer, user, Quiet
<1>8. CASE WalkEnds \/ PumpEnds \/ WriterEnds \/ CommitFails
           \/ (\E d \in Decoders : DecoderEnds(d)) \/ (\E w \in Workers : WorkerEnds(w))
  <2>1. Quiet
    BY <1>8, <1>7 DEF WalkEnds, PumpEnds, WriterEnds, CommitFails, DecoderEnds, WorkerEnds
  <2> QED BY <2>1, QuietKeeps
<1>9. CASE LooksUp
  <2>1. UNCHANGED <<disk, rows, what, result, steady>> /\ (cand' = Candidates \/ cand' = {})
    BY <1>9 DEF LooksUp, items, user
  <2>2. ASSUME NEW c \in Candidates
        PROVE  /\ c \in Paths \X Ids \X Paths
               /\ rows[c[2]] # None /\ c[3] \notin steady
    <3>1. c \in Held("writer") \X Ids \X Paths /\ rows[c[2]] # None /\ disk[c[3]] = None
      BY DEF Candidates
    <3> QED BY <3>1 DEF Held, Watched, Present
  <2>3. Candidates \subseteq Paths \X Ids \X Paths BY <2>2
  <2>4. Cands' BY <2>1, <2>2 DEF Cands
  <2> QED BY <2>1, <2>3, <2>4 DEF Data, Tagged, Catalogs, OneEach
<1>10. CASE Commits
  <2>1. rows' \in Goods BY <1>10, BatchGood DEF Data, Kinds
  <2>2. UNCHANGED <<disk, what, result>> /\ cand' = {} BY <1>10 DEF Commits, user
  <2>3. rows' \in Catalogs /\ OneEach(rows)' BY <2>1 DEF Goods, OneEach
  <2> QED BY <2>2, <2>3 DEF Data, Tagged, Catalogs, Cands
<1> QED BY <1>1, <1>2, <1>3, <1>4, <1>5, <1>6, <1>8, <1>9, <1>10, QuietKeeps DEF Moves

LEMMA DataStep == Data /\ Kinds /\ Watched /\ [Next]_vars => Data'
  BY DataBegin, DataAside, DataMove, Kinded

(***************************************************************************)
(* StayPut.                                                                *)
(***************************************************************************)
LEMMA CatalogKept ==
    ASSUME Data, Kinds, [Next]_vars, NEW i \in Ids, rows[i] # None
    PROVE  rows'[i] # None /\ (rows[i].path \in steady => rows'[i].path = rows[i].path)
<1>1. CASE rows' = rows BY <1>1
<1>2. CASE Commits
  <2>1. rows' \in Goods BY <1>2, BatchGood DEF Data, Kinds
  <2> QED BY <2>1 DEF Goods, Keeping
<1>3. CASE rows' = Hiding
  <2>1. rows'[i] = IF rows[i].path \notin seen THEN [rows[i] EXCEPT !.failed = TRUE] ELSE rows[i]
    BY <1>3 DEF Hiding
  <2>2. rows[i] \in Row BY DEF Data, Catalogs
  <2>3. rows'[i] \in Row /\ rows'[i].path = rows[i].path BY <2>1, <2>2 DEF Row
  <2> QED BY <2>3, CatalogAssumption
<1>4. ASSUME NEW t, Ends(t) PROVE rows' = rows BY <1>4 DEF Ends
<1>5. ASSUME NEW p, NEW c, Pass(p, c) PROVE rows' = rows BY <1>5 DEF Pass
<1>6. CASE Moves /\ ~Commits
  <2>1. ASSUME NEW d \in Dirs, ReadDir(d) \/ ListFails(d) PROVE rows' = rows
    BY <2>1 DEF ReadDir, ListFails
  <2>2. ASSUME NEW p \in Paths, Sends(p) \/ PumpTakes(p) \/ PumpGives(p) \/ WriterTakes(p) PROVE rows' = rows
    BY <2>2, <1>5 DEF Sends, PumpTakes, PumpGives, WriterTakes
  <2>3. ASSUME NEW d \in Decoders, NEW p \in Paths, DecoderTakes(d, p) \/ DecoderGives(d, p) PROVE rows' = rows
    BY <2>3, <1>5 DEF DecoderTakes, DecoderGives
  <2>4. ASSUME NEW w \in Workers, NEW p \in Paths, WorkerTakes(w, p) \/ Tags(w, p) PROVE rows' = rows
    BY <2>4, <1>5 DEF WorkerTakes, Tags
  <2>5. CASE WalkEnds \/ PumpEnds \/ WriterEnds \/ CommitFails
             \/ (\E d \in Decoders : DecoderEnds(d)) \/ (\E w \in Workers : WorkerEnds(w))
    BY <2>5, <1>4, <1>1 DEF WalkEnds, PumpEnds, WriterEnds, CommitFails, DecoderEnds, WorkerEnds
  <2>6. CASE LooksUp BY <2>6, <1>1 DEF LooksUp
  <2> QED BY <1>1, <1>6, <2>1, <2>2, <2>3, <2>4, <2>5, <2>6 DEF Moves
<1>7. CASE Begins BY <1>1, <1>7, BeginsFresh
<1>8. CASE (Aside \/ UNCHANGED vars) /\ ~HidesMissing
  <2>1. rows' = rows
    <3>1. CASE User BY <3>1 DEF User, Delete, Move, Create, Changes
    <3>2. CASE Start \/ LoadFails \/ Drained \/ Joined \/ FollowsUp \/ Stamps \/ Emits
      BY <3>2 DEF Start, LoadFails, Drained, Joined, FollowsUp, Stamps, Emits
    <3>3. CASE RequestPause \/ RequestResume \/ RequestCancel \/ LatchElsewhere \/ MarkGpuDead
      BY <3>3 DEF RequestPause, RequestResume, RequestCancel, LatchElsewhere, MarkGpuDead
    <3>4. CASE Rest \/ UNCHANGED vars \/ \E w \in Workers : Clears(w)
      BY <3>4 DEF Rest, vars, Clears
    <3> QED BY <1>8, <3>1, <3>2, <3>3, <3>4 DEF Aside
  <2> QED BY <1>1, <2>1
<1> QED BY <1>1, <1>2, <1>3, <1>6, <1>7, <1>8, HidesOrNot, Kinded

Tables == Kinds /\ Watched /\ Data

LEMMA TablesAlways == Spec => []Tables
<1>1. Init => Tables BY KindsInit, WatchedInit, DataInit DEF Tables
<1>2. Tables /\ [Next]_vars => Tables' BY KindsStep, WatchedStep, DataStep DEF Tables
<1> QED BY <1>1, <1>2, PTL DEF Spec

\* A heal never takes the row of a path that has held a file since the pass
\* began, and no row goes away, for any catalog, batch size and faults, and
\* however the user's moves interleave with the writer's lookups.
THEOREM StayPutCorrect == Spec => StayPut
<1>1. Tables /\ [Next]_vars =>
        [\A i \in Ids : rows[i] # None =>
             /\ rows'[i] # None
             /\ rows[i].path \in steady => rows'[i].path = rows[i].path]_vars
  BY CatalogKept DEF Tables
<1> QED BY <1>1, TablesAlways, PTL DEF Spec, StayPut

(***************************************************************************)
(* Types.                                                                  *)
(***************************************************************************)
Mains == {"queued", "load", "flow", "join", "clean", "again", "stamp", "emit", "over"}

Flags == /\ {paused, cancelled, gpuDead, errors, healing, looked} \subseteq BOOLEAN
         /\ deaf \subseteq up /\ cleared \subseteq Workers
         /\ unread \subseteq Dirs /\ seen \subseteq Paths
         /\ skip \subseteq Paths \X (Files \union {None})
         /\ troubles \in 0..MaxTroubles
Phases == /\ main \in Mains /\ pass \in {1, 2}
          /\ status \in [{1, 2} -> Statuses] /\ {missed, hidden} \subseteq BOOLEAN
          /\ outcome \in {"none", "Failed", "Cancelled", "Completed"}
          /\ touched \subseteq Dirs /\ steady \subseteq Paths

LEMMA TypesInit == Init => Flags /\ Phases
<1> SUFFICES ASSUME Init PROVE Flags /\ Phases OBVIOUS
<1>1. Phases BY DEF Init, Phases, Mains, Statuses
<1>2. 0 \in 0..MaxTroubles BY ScanAssumption
<1>3. Flags BY <1>2 DEF Init, Flags
<1> QED BY <1>1, <1>3

LEMMA TroubleCounted ==
    ASSUME troubles \in 0..MaxTroubles, UNCHANGED troubles \/ Trouble
    PROVE  troubles' \in 0..MaxTroubles
  BY ScanAssumption DEF Trouble

\* The skip set is read off the catalog.
LEMMA CurrentTyped == Data => Current \subseteq Paths \X (Files \union {None})
<1> SUFFICES ASSUME Data, NEW c \in Current PROVE c \in Paths \X (Files \union {None}) OBVIOUS
<1>1. PICK i \in Ids : rows[i] # None /\ c = <<rows[i].path, rows[i].file>> BY DEF Current
<1>2. rows[i] \in Row BY <1>1 DEF Data, Catalogs
<1> QED BY <1>1, <1>2 DEF Row

LEMMA FlagsBegin == ASSUME Data, Flags, Begins PROVE Flags'
<1>1. PICK n \in {1, 2} : BeginPass(n) BY DEF Begins, Loaded, Again
<1>2. /\ unread' = Dirs /\ errors' = FALSE /\ skip' = Current /\ seen' = {}
      /\ healing' \in BOOLEAN /\ cleared' = {} /\ deaf' = {} /\ looked' = FALSE
      /\ UNCHANGED <<paused, cancelled, gpuDead>>
  BY <1>1 DEF BeginPass
<1>3. UNCHANGED troubles \/ Trouble BY <1>1 DEF BeginPass, Writes, Fault
<1> QED BY <1>2, <1>3, CurrentTyped, TroubleCounted DEF Flags

LEMMA FlagsAside == ASSUME Kinds, Flags, Aside \/ UNCHANGED vars PROVE Flags'
<1> USE DEF Flags
<1>1. CASE User
  BY <1>1, TroubleCounted DEF User, Delete, Move, Create, Changes, coordinator, walk, writer
<1>2. CASE RequestPause \/ RequestResume \/ RequestCancel \/ MarkGpuDead
  <2>1. UNCHANGED <<errors, healing, looked, up, cleared, unread, seen, skip>>
    BY <1>2 DEF RequestPause, RequestResume, RequestCancel, MarkGpuDead, walk, writer
  <2>2. /\ {paused', cancelled', gpuDead'} \subseteq BOOLEAN
        /\ deaf' \subseteq deaf
    BY <1>2 DEF RequestPause, RequestResume, RequestCancel, MarkGpuDead
  <2>3. UNCHANGED troubles \/ Trouble
    BY <1>2 DEF RequestPause, RequestResume, RequestCancel, MarkGpuDead
  <2> QED BY <2>1, <2>2, <2>3, TroubleCounted
<1>3. CASE LatchElsewhere
  <2>1. UNCHANGED <<paused, cancelled, errors, healing, looked, up, cleared, unread, seen, skip>>
        /\ gpuDead' = TRUE /\ Trouble
    BY <1>3 DEF LatchElsewhere, Fault, walk, writer
  <2>2. Asleep \subseteq up BY DEF Asleep, Idle
  <2>3. deaf' \subseteq up BY <1>3, <2>2 DEF LatchElsewhere
  <2> QED BY <2>1, <2>3, TroubleCounted
<1>4. CASE Start \/ LoadFails
  <2>1. UNCHANGED <<coordinator, walk, up, cleared, healing, writer>>
    BY <1>4 DEF Start, LoadFails, Outside
  <2>2. UNCHANGED troubles \/ Trouble BY <1>4 DEF Start, LoadFails, Fault
  <2> QED BY <2>1, <2>2, TroubleCounted DEF coordinator, walk, writer
<1>5. CASE Drained
  BY <1>5 DEF Drained, walk, writer
<1>6. CASE Joined \/ FollowsUp \/ HidesMissing \/ Stamps \/ Emits
  <2>1. UNCHANGED <<coordinator, walk, up, cleared, healing, writer>>
    BY <1>6 DEF Joined, FollowsUp, HidesMissing, Stamps, Emits, Outside
  <2>2. UNCHANGED troubles \/ Trouble
    BY <1>6 DEF Joined, FollowsUp, HidesMissing, Stamps, Emits, Updates, Writes, Fault
  <2> QED BY <2>1, <2>2, TroubleCounted DEF coordinator, walk, writer
<1>7. CASE Rest \/ UNCHANGED vars
  BY <1>7 DEF Rest, vars, coordinator, walk, writer
<1>8. CASE \E w \in Workers : Clears(w)
  <2>1. PICK w \in Workers : Clears(w) BY <1>8
  <2> QED BY <2>1 DEF Clears, coordinator, walk, writer
<1> QED BY <1>1, <1>2, <1>3, <1>4, <1>5, <1>6, <1>7, <1>8 DEF Aside

LEMMA FlagsMove == ASSUME Kinds, Flags, Moves PROVE Flags'
<1> USE DEF Flags
<1>1. ASSUME NEW d \in Dirs, ReadDir(d) PROVE Flags'
  <2>1. /\ UNCHANGED <<paused, cancelled, gpuDead, deaf, errors, skip, up, cleared, healing, looked, troubles>>
        /\ unread' \subseteq unread /\ seen' \subseteq seen \union Present
    BY <1>1 DEF ReadDir, coordinator, writer
  <2> QED BY <2>1 DEF Present
<1>2. ASSUME NEW d \in Dirs, ListFails(d) PROVE Flags'
  <2>1. /\ UNCHANGED <<paused, cancelled, gpuDead, deaf, seen, skip, up, cleared, healing, looked>>
        /\ unread' \subseteq unread /\ errors' = TRUE /\ Trouble
    BY <1>2 DEF ListFails, Fault, coordinator, writer
  <2> QED BY <2>1, TroubleCounted
<1>3. ASSUME NEW p \in Paths, NEW c, Pass(p, c), deaf' \subseteq deaf, UNCHANGED <<up, looked>>,
             cleared' \subseteq cleared, UNCHANGED troubles \/ Trouble
      PROVE  Flags'
  <2>1. UNCHANGED <<paused, cancelled, gpuDead, errors, unread, seen, skip, healing>>
    BY <1>3 DEF Pass, walk
  <2>2. troubles' \in 0..MaxTroubles BY <1>3, TroubleCounted
  <2> QED BY <1>3, <2>1, <2>2
<1>4. ASSUME NEW p \in Paths, Sends(p) \/ PumpTakes(p) \/ PumpGives(p) \/ WriterTakes(p) PROVE Flags'
  BY <1>4, <1>3 DEF Sends, PumpTakes, PumpGives, WriterTakes, writer
<1>5. ASSUME NEW d \in Decoders, NEW p \in Paths, DecoderTakes(d, p) \/ DecoderGives(d, p) PROVE Flags'
  BY <1>5, <1>3 DEF DecoderTakes, DecoderGives, writer
<1>6. ASSUME NEW w \in Workers, NEW p \in Paths, WorkerTakes(w, p) \/ Tags(w, p) PROVE Flags'
  <2>1. CASE WorkerTakes(w, p) BY <1>3, <2>1 DEF WorkerTakes, writer
  <2>2. CASE Tags(w, p)
    <3>1. UNCHANGED troubles \/ Trouble BY <2>2 DEF Tags, Makes, Fault
    <3>2. Pass(p, "out") /\ UNCHANGED <<deaf, up, looked>> /\ cleared' \subseteq cleared
      BY <2>2 DEF Tags, writer
    <3> QED BY <1>3, <3>1, <3>2
  <2> QED BY <1>6, <2>1, <2>2
<1>7. ASSUME NEW t, Ends(t), UNCHANGED troubles \/ Trouble PROVE Flags'
  <2>1. /\ up' = up \ {t} /\ deaf' = deaf \ {t}
        /\ UNCHANGED <<paused, cancelled, gpuDead, errors, unread, seen, skip, healing, looked, cleared>>
    BY <1>7 DEF Ends, walk, writer
  <2> QED BY <1>7, <2>1, TroubleCounted
<1>8. CASE WalkEnds \/ PumpEnds \/ WriterEnds \/ CommitFails
           \/ (\E d \in Decoders : DecoderEnds(d)) \/ (\E w \in Workers : WorkerEnds(w))
  BY <1>8, <1>7 DEF WalkEnds, PumpEnds, WriterEnds, CommitFails, DecoderEnds, WorkerEnds, Fault
<1>9. CASE LooksUp \/ Commits
  BY <1>9 DEF LooksUp, Commits, coordinator, walk
<1> QED BY <1>1, <1>2, <1>4, <1>5, <1>6, <1>8, <1>9 DEF Moves

LEMMA PhasesStep == ASSUME Data, Phases, [Next]_vars PROVE Phases'
<1> USE DEF Phases, Mains
<1>1. CASE UNCHANGED <<session, touched, steady>> BY <1>1 DEF session
<1>2. CASE Begins
  <2>1. PICK n \in {1, 2} : BeginPass(n) BY <1>2 DEF Begins, Loaded, Again
  <2>2. /\ main' = "flow" /\ pass' = n /\ hidden' = FALSE /\ UNCHANGED outcome
        /\ touched' = {} /\ steady' = Present
    BY <2>1 DEF BeginPass
  <2>3. status' \in [{1, 2} -> Statuses] /\ missed' \in BOOLEAN
    BY <2>1, WritesIs DEF BeginPass, Statuses
  <2> QED BY <2>2, <2>3 DEF Present
<1>3. ASSUME NEW old \in SUBSET Paths, NEW new, Changes(old, new) PROVE Phases'
  <2>1. /\ touched' = touched \union {DirOf[p] : p \in old} /\ steady' \subseteq steady
        /\ UNCHANGED session
    BY <1>3 DEF Changes
  <2> QED BY <2>1, ScanAssumption DEF session
<1>4. CASE Moves
  <2>1. ASSUME NEW t, Ends(t) PROVE UNCHANGED <<session, user>> BY <2>1 DEF Ends
  <2>2. ASSUME NEW p, NEW c, Pass(p, c) PROVE UNCHANGED <<session, user>> BY <2>2 DEF Pass
  <2>3. UNCHANGED <<session, user>>
    <3>1. ASSUME NEW d \in Dirs, ReadDir(d) \/ ListFails(d) PROVE UNCHANGED <<session, user>>
      BY <3>1 DEF ReadDir, ListFails
    <3>2. ASSUME NEW p \in Paths, Sends(p) \/ PumpTakes(p) \/ PumpGives(p) \/ WriterTakes(p)
          PROVE UNCHANGED <<session, user>>
      BY <3>2, <2>2 DEF Sends, PumpTakes, PumpGives, WriterTakes
    <3>3. ASSUME NEW d \in Decoders, NEW p \in Paths, DecoderTakes(d, p) \/ DecoderGives(d, p)
          PROVE UNCHANGED <<session, user>>
      BY <3>3, <2>2 DEF DecoderTakes, DecoderGives
    <3>4. ASSUME NEW w \in Workers, NEW p \in Paths, WorkerTakes(w, p) \/ Tags(w, p)
          PROVE UNCHANGED <<session, user>>
      BY <3>4, <2>2 DEF WorkerTakes, Tags
    <3>5. CASE WalkEnds \/ PumpEnds \/ WriterEnds \/ CommitFails
               \/ (\E d \in Decoders : DecoderEnds(d)) \/ (\E w \in Workers : WorkerEnds(w))
      BY <3>5, <2>1 DEF WalkEnds, PumpEnds, WriterEnds, CommitFails, DecoderEnds, WorkerEnds
    <3>6. CASE LooksUp \/ Commits BY <3>6 DEF LooksUp, Commits
    <3> QED BY <1>4, <3>1, <3>2, <3>3, <3>4, <3>5, <3>6 DEF Moves
  <2> QED BY <1>1, <2>3 DEF session, user
<1>5. CASE User BY <1>5, <1>3 DEF User, Delete, Move, Create
<1>6. CASE Start \/ LoadFails \/ Drained \/ Joined \/ FollowsUp \/ HidesMissing \/ Stamps \/ Emits
  <2>1. UNCHANGED <<touched, steady, pass>>
    BY <1>6 DEF Start, LoadFails, Drained, Joined, FollowsUp, HidesMissing, Stamps, Emits, Outside,
                user
  <2>2. CASE Start BY <2>1, <2>2 DEF Start, Finish, recorded
  <2>3. CASE LoadFails \/ Drained BY <2>1, <2>3 DEF LoadFails, Drained, Finish, recorded
  <2>4. CASE Joined
    <3>1. CASE Updates("failed")
      <4>1. status' \in [{1, 2} -> Statuses] /\ missed' \in BOOLEAN
        BY <3>1, UpdatesIs DEF Statuses
      <4> QED BY <2>1, <2>4, <4>1 DEF Joined, Finish
    <3>2. CASE UNCHANGED <<recorded, outcome>> BY <2>1, <2>4, <3>2 DEF Joined, Finish, recorded
    <3> QED BY <2>4, <3>1, <3>2 DEF Joined
  <2>5. CASE FollowsUp
    <3>1. status' \in [{1, 2} -> Statuses] /\ missed' \in BOOLEAN
      BY <2>5, WritesIs DEF FollowsUp, Statuses
    <3> QED BY <2>1, <2>5, <3>1 DEF FollowsUp
  <2>6. CASE HidesMissing
    <3>1. main' = "stamp" /\ UNCHANGED <<recorded, outcome>> BY <2>6 DEF HidesMissing
    <3> QED BY <2>1, <2>6, <3>1, HidesOrNot DEF recorded
  <2>7. CASE Stamps
    <3>1. status' \in [{1, 2} -> Statuses] /\ missed' \in BOOLEAN
      BY <2>7, UpdatesIs DEF Stamps, Statuses, Verdict
    <3> QED BY <2>1, <2>7, <3>1 DEF Stamps
  <2>8. CASE Emits BY <2>1, <2>8 DEF Emits, Finish, Verdict, recorded
  <2> QED BY <1>6, <2>2, <2>3, <2>4, <2>5, <2>6, <2>7, <2>8
<1>7. CASE RequestPause \/ RequestResume \/ RequestCancel \/ LatchElsewhere \/ MarkGpuDead
  BY <1>7, <1>1 DEF RequestPause, RequestResume, RequestCancel, LatchElsewhere, MarkGpuDead,
                    session, user
<1>8. CASE Rest \/ UNCHANGED vars \/ \E w \in Workers : Clears(w)
  BY <1>8, <1>1 DEF Rest, vars, Clears, session, user
<1> QED BY <1>2, <1>4, <1>5, <1>6, <1>7, <1>8, Kinded DEF Aside

\* Every variable holds the kind of value the code gives it, for any catalog
\* and folder the scan may find; a task that waits unheard is one that runs.
THEOREM TypeCorrect == Spec => []TypeOK
<1>1. Init => Flags /\ Phases BY TypesInit
<1>2. Tables /\ (Flags /\ Phases) /\ [Next]_vars => (Flags /\ Phases)'
  BY FlagsBegin, FlagsAside, FlagsMove, PhasesStep, Kinded DEF Tables
<1>3. Tables /\ (Flags /\ Phases) => TypeOK
  BY DEF Tables, Kinds, Data, Tagged, Catalogs, Flags, Phases, Mains, Statuses, TypeOK, Spots
<1> QED BY <1>1, <1>2, <1>3, TablesAlways, PTL DEF Spec

(***************************************************************************)
(* CompletedExact.  While nothing changes in the folder, what a pass found *)
(* is what is there; a file it skipped has its row already, and one that   *)
(* went through the pipeline gets it with its batch.                       *)
(***************************************************************************)
Scanning == {"flow", "join", "clean"}
Calm == main \in Scanning /\ touched = {}

\* A path is found once, when its directory is read.
Unfound == \A p \in Paths : DirOf[p] \in unread => at[p] = "none"

\* The batch lists what the writer holds.
Listing == \A p \in Paths : at[p] = "writer" <=> \E i \in DOMAIN buffer : buffer[i] = p

InCatalog(p) == \E i \in Ids : /\ rows[i] # None /\ ~rows[i].failed
                               /\ rows[i].path = p /\ rows[i].file = disk[p]

Faithful == /\ steady = Present /\ seen \subseteq Present
            /\ \A p \in Paths : at[p] # "none" =>
                   p \in seen /\ what[p] = disk[p] /\ <<p, disk[p]>> \notin skip
            /\ \A p \in seen : at[p] # "none" \/ <<p, disk[p]>> \in skip
            /\ \A p \in Present : <<p, disk[p]>> \in skip => InCatalog(p)
            /\ \A p \in Paths : at[p] = "done" => Settled(rows, p)

Found == Unfound /\ Listing /\ (Calm => Faithful)

\* The end of it: the catalog is the folder.
Matches == /\ \A p \in Present : \E i \in RowAt(rows, p) : rows[i].failed \/ rows[i].file = disk[p]
           /\ \A i \in Ids : rows[i] # None /\ ~rows[i].failed =>
                 \/ disk[rows[i].path] = rows[i].file
                 \/ ~hidden /\ disk[rows[i].path] = None
Closing == /\ touched = {} /\ ~errors
           /\ (main \in {"stamp", "emit"} /\ ~Stop) \/ outcome = "Completed"
Ending == Closing => Matches

\* A file goes from one place to the next, short of the writer.
Handing(p, c) == /\ Pass(p, c) /\ buffer' = buffer
                 /\ at[p] \notin {"none", "done", "writer"} /\ c \notin {"none", "done", "writer"}

LEMMA Hands ==
    /\ \A p \in Paths : Sends(p) \/ PumpTakes(p) \/ PumpGives(p) => \E c : Handing(p, c)
    /\ \A d \in Decoders, p \in Paths : DecoderTakes(d, p) \/ DecoderGives(d, p) => \E c : Handing(p, c)
    /\ \A w \in Workers, p \in Paths : WorkerTakes(w, p) => \E c : Handing(p, c)
<1>1. ASSUME NEW p \in Paths, Sends(p) \/ PumpTakes(p) \/ PumpGives(p) PROVE \E c : Handing(p, c)
  BY <1>1 DEF Sends, PumpTakes, PumpGives, Handing, writer
<1>2. ASSUME NEW d \in Decoders, NEW p \in Paths, DecoderTakes(d, p) \/ DecoderGives(d, p)
      PROVE \E c : Handing(p, c)
  <2>1. d \notin {"none", "done", "writer"} BY Apart
  <2>2. CASE DecoderTakes(d, p)
    <3>1. Handing(p, d) BY <2>1, <2>2 DEF DecoderTakes, Handing, writer
    <3> QED BY <3>1
  <2>3. CASE DecoderGives(d, p)
    <3>1. Handing(p, "pre") BY <2>1, <2>3 DEF DecoderGives, Handing, writer
    <3> QED BY <3>1
  <2> QED BY <1>2, <2>2, <2>3
<1>3. ASSUME NEW w \in Workers, NEW p \in Paths, WorkerTakes(w, p) PROVE \E c : Handing(p, c)
  <2>1. w \notin {"none", "done", "writer"} BY Apart
  <2>2. Handing(p, w) BY <1>3, <2>1 DEF WorkerTakes, Handing, writer
  <2> QED BY <2>2
<1> QED BY <1>1, <1>2, <1>3

LEMMA Tagging == ASSUME NEW w \in Workers, NEW p \in Paths, Tags(w, p) PROVE Handing(p, "out")
<1>1. w \notin {"none", "done", "writer"} BY Apart
<1> QED BY <1>1 DEF Tags, Handing, writer

LEMMA FoundInit == Init => Found
  BY DEF Init, Found, Unfound, Listing, Calm, Scanning

LEMMA FoundBegin == ASSUME Begins PROVE Found'
<1>1. PICK n \in {1, 2} : BeginPass(n) BY DEF Begins, Loaded, Again
<1>2. /\ at' = [p \in Paths |-> "none"] /\ buffer' = <<>> /\ seen' = {} /\ skip' = Current
      /\ steady' = Present /\ UNCHANGED <<rows, disk>>
  BY <1>1 DEF BeginPass
<1>3. Unfound' /\ Listing' BY <1>2 DEF Unfound, Listing
<1>4. ASSUME NEW p \in Present, <<p, disk[p]>> \in Current PROVE InCatalog(p)
  BY <1>4 DEF Current, InCatalog
<1>5. Faithful' BY <1>2, <1>4 DEF Faithful, Present, InCatalog
<1> QED BY <1>3, <1>5 DEF Found

\* Nothing of it changes.
LEMMA FoundQuiet ==
    ASSUME Found, UNCHANGED <<at, what, rows, buffer, disk, steady, touched, seen, skip>>,
           unread' \subseteq unread, main' \in Scanning => main \in Scanning
    PROVE  Found'
  BY DEF Found, Unfound, Listing, Calm, Faithful, Present, InCatalog, Settled

LEMMA FoundHands == ASSUME Found, Kinds, NEW p \in Paths, NEW c, Handing(p, c) PROVE Found'
<1>1. /\ at' = [at EXCEPT ![p] = c]
      /\ UNCHANGED <<what, rows, buffer, disk, steady, touched, seen, skip, unread, main>>
  BY DEF Handing, Pass, walk, session, user
<1>2. \A q \in Paths : /\ at'[q] = IF q = p THEN c ELSE at[q]
                       /\ \A x \in {"none", "done", "writer"} : at'[q] = x <=> at[q] = x
  BY <1>1 DEF Handing, Kinds
<1>3. Unfound' /\ Listing' BY <1>1, <1>2 DEF Found, Unfound, Listing
<1>4. ASSUME Calm' PROVE Faithful'
  <2>1. Faithful BY <1>1, <1>4 DEF Found, Calm
  <2> QED BY <1>1, <1>2, <2>1 DEF Faithful, Present, InCatalog, Settled
<1> QED BY <1>3, <1>4 DEF Found

LEMMA FoundTakes == ASSUME Found, Kinds, NEW p \in Paths, WriterTakes(p) PROVE Found'
<1>1. /\ at[p] = "out" /\ at' = [at EXCEPT ![p] = "writer"] /\ buffer' = Append(buffer, p)
      /\ UNCHANGED <<what, rows, disk, steady, touched, seen, skip, unread, main>>
  BY DEF WriterTakes, Pass, walk, session, user
<1>2. \A q \in Paths : at'[q] = IF q = p THEN "writer" ELSE at[q] BY <1>1 DEF Kinds
<1>3. Unfound' BY <1>1, <1>2 DEF Found, Unfound
<1>4. Listing'
  <2>1. /\ DOMAIN buffer = 1..Len(buffer) /\ Len(buffer) \in Nat
        /\ DOMAIN buffer' = 1..(Len(buffer) + 1)
        /\ \A i \in 1..Len(buffer) : buffer'[i] = buffer[i]
        /\ buffer'[Len(buffer) + 1] = p
    BY <1>1 DEF Kinds
  <2>2. \A q \in Paths : (\E i \in DOMAIN buffer' : buffer'[i] = q)
                            <=> q = p \/ \E i \in DOMAIN buffer : buffer[i] = q
    BY <2>1
  <2> QED BY <1>2, <2>2 DEF Found, Listing
<1>5. ASSUME Calm' PROVE Faithful'
  <2>1. Faithful BY <1>1, <1>5 DEF Found, Calm
  <2> QED BY <1>1, <1>2, <2>1 DEF Faithful, Present, InCatalog, Settled
<1> QED BY <1>3, <1>4, <1>5 DEF Found

LEMMA FoundReads == ASSUME Found, Kinds, NEW d \in Dirs, ReadDir(d) PROVE Found'
<1> DEFINE here == {p \in Present : DirOf[p] = d}
           new == {p \in here : <<p, disk[p]>> \notin skip}
<1>1. /\ d \in unread /\ unread' = unread \ {d} /\ seen' = seen \union here
      /\ at' = [p \in Paths |-> IF p \in new THEN "found" ELSE at[p]]
      /\ what' = [p \in Paths |-> IF p \in new THEN disk[p] ELSE what[p]]
      /\ UNCHANGED <<rows, buffer, disk, steady, touched, skip, main>>
  BY DEF ReadDir, writer, user, session
<1>2. here \subseteq Paths /\ here \subseteq Present /\ new \subseteq here
      /\ (\A p \in here : DirOf[p] = d) /\ (\A p \in here : p \in new <=> <<p, disk[p]>> \notin skip)
  BY DEF Present
<1>3. \A p \in new : at[p] = "none" BY <1>1, <1>2 DEF Found, Unfound
<1> HIDE DEF new, here
<1>4. Unfound' BY <1>1, <1>2 DEF Found, Unfound
<1>5. Listing' BY <1>1, <1>3 DEF Found, Listing
<1>6. ASSUME Calm' PROVE Faithful'
  <2>1. Faithful BY <1>1, <1>6 DEF Found, Calm
  <2>2. steady' = Present' /\ seen' \subseteq Present' /\ Present' = Present
    BY <1>1, <1>2, <2>1 DEF Faithful, Present
  <2>3. \A p \in Paths : at'[p] # "none" =>
            p \in seen' /\ what'[p] = disk'[p] /\ <<p, disk'[p]>> \notin skip'
    BY <1>1, <1>2, <2>1 DEF Faithful
  <2>4. \A p \in seen' : at'[p] # "none" \/ <<p, disk'[p]>> \in skip'
    BY <1>1, <1>2, <2>1 DEF Faithful, Present
  <2>5. \A p \in Present : <<p, disk[p]>> \in skip => InCatalog(p)' BY <1>1, <2>1 DEF Faithful, InCatalog
  <2>6. \A p \in Paths : at'[p] = "done" => Settled(rows, p)'
    <3> SUFFICES ASSUME NEW p \in Paths, at'[p] = "done" PROVE Settled(rows, p)' OBVIOUS
    <3>1. p \notin new /\ at[p] = "done" /\ what'[p] = what[p] BY <1>1
    <3>2. Settled(rows, p) BY <2>1, <3>1 DEF Faithful
    <3> QED BY <1>1, <3>1, <3>2 DEF Settled
  <2> QED BY <1>1, <2>2, <2>3, <2>4, <2>5, <2>6 DEF Faithful
<1> QED BY <1>4, <1>5, <1>6 DEF Found

LEMMA FoundCommits == ASSUME Found, Kinds, Data, Commits PROVE Found'
<1>1. /\ at' = [p \in Paths |-> IF at[p] = "writer" THEN "done" ELSE at[p]]
      /\ buffer' = <<>>
      /\ UNCHANGED <<what, disk, steady, touched, seen, skip, unread, main>>
  BY DEF Commits, walk, session, user
<1>2. Unfound' BY <1>1 DEF Found, Unfound
<1>3. Listing' BY <1>1 DEF Listing
<1>4. /\ \A i \in DOMAIN buffer : buffer[i] \in steady => Settled(rows', buffer[i])
      /\ \A j \in Ids : /\ rows[j] # None /\ rows[j].path \in steady
                        /\ \A i \in DOMAIN buffer : rows[j].path # buffer[i]
                        => rows'[j] = rows[j]
  BY BatchGood DEF Data, Kinds
<1>5. ASSUME Calm' PROVE Faithful'
  <2>1. Faithful BY <1>1, <1>5 DEF Found, Calm
  <2>2. Present' = Present /\ steady = Present BY <1>1, <2>1 DEF Present, Faithful
  <2>3. \A p \in Paths : at[p] # "writer" => \A i \in DOMAIN buffer : p # buffer[i]
    BY DEF Found, Listing
  <2>4. ASSUME NEW p \in Present, <<p, disk[p]>> \in skip PROVE InCatalog(p)'
    <3>1. p \in Paths /\ p \in steady BY <2>2 DEF Present
    <3>2. at[p] = "none" BY <2>1, <2>4, <3>1 DEF Faithful
    <3>3. PICK i \in Ids : /\ rows[i] # None /\ ~rows[i].failed
                           /\ rows[i].path = p /\ rows[i].file = disk[p]
      BY <2>1, <2>4 DEF Faithful, InCatalog
    <3>4. rows'[i] = rows[i] BY <1>4, <2>3, <3>1, <3>2, <3>3
    <3> QED BY <1>1, <3>3, <3>4 DEF InCatalog
  <2>5. ASSUME NEW p \in Paths, at'[p] = "done" PROVE Settled(rows, p)'
    <3>1. p \in steady /\ (at[p] = "done" \/ at[p] = "writer")
      BY <1>1, <2>1, <2>5 DEF Faithful
    <3>2. Settled(rows', p)
      <4>1. CASE at[p] = "writer"
        <5>1. PICK i \in DOMAIN buffer : buffer[i] = p BY <4>1 DEF Found, Listing
        <5> QED BY <1>4, <3>1, <5>1
      <4>2. CASE at[p] = "done"
        <5>1. PICK i \in Ids : /\ rows[i] # None /\ rows[i].path = p
                               /\ rows[i].failed \/ rows[i].file = what[p]
          BY <2>1, <4>2 DEF Faithful, Settled
        <5>2. rows'[i] = rows[i] BY <1>4, <2>3, <3>1, <4>2, <5>1
        <5> QED BY <5>1, <5>2 DEF Settled
      <4> QED BY <3>1, <4>1, <4>2
    <3> QED BY <1>1, <3>2 DEF Settled
  <2>6. \A p \in Paths : at'[p] # "none" <=> at[p] # "none" BY <1>1
  <2> QED BY <1>1, <2>1, <2>2, <2>4, <2>5, <2>6 DEF Faithful, Present
<1> QED BY <1>2, <1>3, <1>5 DEF Found

LEMMA FoundMove == ASSUME Found, Kinds, Data, Moves PROVE Found'
<1>1. ASSUME NEW d \in Dirs, ListFails(d) PROVE Found'
  BY <1>1, FoundQuiet DEF ListFails, items, writer, session, user
<1>2. ASSUME NEW t, Ends(t) PROVE Found'
  BY <1>2, FoundQuiet DEF Ends, items, walk, writer, session, user
<1>3. CASE WalkEnds \/ PumpEnds \/ WriterEnds \/ CommitFails
           \/ (\E d \in Decoders : DecoderEnds(d)) \/ (\E w \in Workers : WorkerEnds(w))
  BY <1>3, <1>2 DEF WalkEnds, PumpEnds, WriterEnds, CommitFails, DecoderEnds, WorkerEnds
<1>4. CASE LooksUp
  BY <1>4, FoundQuiet DEF LooksUp, items, walk, session, user
<1> QED BY <1>1, <1>3, <1>4, Hands, Tagging, FoundHands, FoundTakes, FoundReads, FoundCommits DEF Moves

LEMMA FoundAside == ASSUME Found, Aside \/ UNCHANGED vars PROVE Found'
<1>1. CASE User
  <2>1. ASSUME NEW old \in (SUBSET Paths) \ {{}}, NEW new, Changes(old, new) PROVE Found'
    <3>1. UNCHANGED <<at, buffer, unread>> /\ touched' # {}
      BY <2>1 DEF Changes, items, writer, walk
    <3> QED BY <3>1 DEF Found, Unfound, Listing, Calm
  <2> QED BY <1>1, <2>1 DEF User, Delete, Move, Create
<1>2. CASE Start \/ LoadFails \/ FollowsUp \/ HidesMissing \/ Stamps \/ Emits
  <2>1. main' \notin Scanning
    BY <1>2 DEF Start, LoadFails, FollowsUp, HidesMissing, Stamps, Emits, Finish, Scanning
  <2>2. UNCHANGED <<at, buffer, unread>>
    BY <1>2 DEF Start, LoadFails, FollowsUp, HidesMissing, Stamps, Emits, Outside, items, writer, walk
  <2> QED BY <2>1, <2>2 DEF Found, Unfound, Listing, Calm
<1>3. CASE Drained \/ Joined
  <2>1. main \in Scanning BY <1>3 DEF Drained, Joined, Scanning
  <2>2. UNCHANGED <<at, what, rows, buffer, disk, steady, touched, seen, skip, unread>>
    BY <1>3 DEF Drained, Joined, Outside, items, writer, walk, user
  <2> QED BY <2>1, <2>2, FoundQuiet
<1>4. CASE RequestPause \/ RequestResume \/ RequestCancel \/ LatchElsewhere \/ MarkGpuDead
  BY <1>4, FoundQuiet DEF RequestPause, RequestResume, RequestCancel, LatchElsewhere, MarkGpuDead,
                          items, writer, walk, user, session
<1>5. CASE Rest \/ UNCHANGED vars \/ \E w \in Workers : Clears(w)
  BY <1>5, FoundQuiet DEF Rest, vars, Clears, items, writer, walk, user, session
<1> QED BY <1>1, <1>2, <1>3, <1>4, <1>5 DEF Aside

LEMMA FoundStep == Found /\ Kinds /\ Data /\ [Next]_vars => Found'
  BY FoundBegin, FoundMove, FoundAside, Kinded

\* What the reconciliation leaves is the folder, but for the rows it failed to hide.
LEMMA HidesExactly ==
    ASSUME Flows, Watched, Booked, Data, Found, HidesMissing, Closing' PROVE Matches'
<1>1. /\ main = "clean" /\ touched = {} /\ ~errors /\ ~Stop /\ main' = "stamp"
      /\ UNCHANGED <<disk, outcome>>
  <2>1. main = "clean" BY DEF HidesMissing
  <2>2. "walker" \notin up /\ ~errors BY <2>1 DEF Flows, Sequenced
  <2>3. UNCHANGED <<touched, errors, disk, outcome, cancelled, gpuDead>> /\ main' = "stamp"
    BY DEF HidesMissing, Outside, user, walk, coordinator
  <2>4. ~Stop \/ outcome' = "Completed" BY <2>3 DEF Closing, Stop
  <2>5. touched = {} BY <2>3 DEF Closing
  <2>6. ~Stop BY <2>1, <2>3, <2>4 DEF Booked
  <2> QED BY <2>1, <2>2, <2>3, <2>5, <2>6
<1>2. Faithful BY <1>1 DEF Found, Calm, Scanning
<1>3. \A p \in Paths : at[p] \in {"none", "done"}
  <2>1. "writer" \notin up /\ buffer = <<>> BY <1>1 DEF Flows, Sequenced, Joining
  <2> QED BY <1>1, <2>1, AllEnded DEF Flows
<1>4. seen = Present
  <2>1. unread = {} BY <1>1 DEF Flows, Sequenced
  <2>2. \A p \in Present : p \in seen BY <1>1, <1>2, <2>1 DEF Watched, Faithful
  <2> QED BY <1>2, <2>2 DEF Faithful
\* The row of a path that holds a file is hidden or about that file.
<1>5. ASSUME NEW p \in Present
      PROVE  \E i \in Ids : /\ rows[i] # None /\ rows[i].path = p
                            /\ rows[i].failed \/ rows[i].file = disk[p]
  <2>1. p \in Paths BY DEF Present
  <2>2. CASE at[p] = "done"
    <3>1. Settled(rows, p) /\ what[p] = disk[p] BY <1>2, <2>1, <2>2 DEF Faithful
    <3> QED BY <3>1 DEF Settled
  <2>3. CASE at[p] = "none"
    <3>1. InCatalog(p) BY <1>2, <1>4, <2>3 DEF Faithful
    <3> QED BY <3>1 DEF InCatalog
  <2> QED BY <1>3, <2>1, <2>2, <2>3
\* Whether it hides rows or fails, the rows of paths that hold a file stay.
<1>6. ASSUME NEW i \in Ids
      PROVE  /\ rows[i] # None /\ rows[i].path \in Present => rows'[i] = rows[i]
             /\ rows'[i] # None /\ ~rows'[i].failed =>
                   /\ rows[i] # None /\ rows'[i] = rows[i]
                   /\ rows[i].path \in Present \/ ~hidden'
  <2>1. CASE rows' = Hiding
    <3>1. rows'[i] = IF rows[i] # None /\ rows[i].path \notin seen
                     THEN [rows[i] EXCEPT !.failed = TRUE] ELSE rows[i]
      BY <2>1 DEF Hiding
    <3>2. rows[i] # None => rows[i] \in Row BY DEF Data, Catalogs
    <3> QED BY <1>4, <3>1, <3>2 DEF Row
  <2>2. CASE rows' = rows /\ hidden' = hidden
    <3>1. ~hidden BY <1>1 DEF Booked
    <3> QED BY <2>2, <3>1
  <2> QED BY <2>1, <2>2, HidesOrNot
<1>7. ASSUME NEW p \in Present PROVE \E i \in RowAt(rows', p) : rows'[i].failed \/ rows'[i].file = disk[p]
  <2>1. PICK i \in Ids : rows[i] # None /\ rows[i].path = p /\ (rows[i].failed \/ rows[i].file = disk[p])
    BY <1>5
  <2>2. rows'[i] = rows[i] BY <1>6, <2>1
  <2> QED BY <2>1, <2>2 DEF RowAt
<1>8. ASSUME NEW i \in Ids, rows'[i] # None, ~rows'[i].failed
      PROVE  \/ disk[rows'[i].path] = rows'[i].file
             \/ ~hidden' /\ disk[rows'[i].path] = None
  <2>1. rows[i] # None /\ rows'[i] = rows[i] /\ (rows[i].path \in Present \/ ~hidden')
    BY <1>6, <1>8
  <2>2. CASE rows[i].path \in Present
    <3>1. PICK j \in Ids : /\ rows[j] # None /\ rows[j].path = rows[i].path
                           /\ rows[j].failed \/ rows[j].file = disk[rows[i].path]
      BY <1>5, <2>2
    <3>2. j = i BY <2>1, <3>1 DEF Data, OneEach
    <3> QED BY <1>8, <2>1, <3>1, <3>2
  <2>3. CASE rows[i].path \notin Present
    <3>1. rows[i].path \in Paths BY <2>1 DEF Data, Catalogs, Row
    <3> QED BY <2>1, <2>3, <3>1 DEF Present
  <2> QED BY <2>2, <2>3
<1> QED BY <1>1, <1>7, <1>8 DEF Matches, Present, RowAt

LEMMA EndingInit == Init => Ending
  BY DEF Init, Ending, Closing

\* Nothing else brings the end nearer, and afterwards nothing changes unnoticed.
LEMMA EndingStep ==
    Flows /\ Watched /\ Booked /\ Concluded /\ Data /\ Found /\ Ending /\ [Next]_vars => Ending'
<1> SUFFICES ASSUME Flows, Watched, Booked, Concluded, Data, Found, Ending, [Next]_vars, Closing'
             PROVE  Matches'
  BY DEF Ending
<1>1. ASSUME Closing, UNCHANGED <<rows, disk, hidden>> PROVE Matches'
  BY <1>1 DEF Ending, Matches, Present, RowAt
<1>2. CASE Begins BY <1>2, BeginsFresh DEF Closing, Booked
<1>3. CASE Moves
  <2>1. UNCHANGED <<main, outcome, hidden, cancelled, gpuDead, disk, touched>> /\ (errors => errors')
    BY <1>3, MovesKeep DEF session
  <2>2. Closing BY <2>1 DEF Closing, Stop
  <2>3. CASE main \in {"stamp", "emit"}
    <3>1. "writer" \notin up BY <2>3 DEF Flows, Sequenced, Joining
    <3>2. UNCHANGED rows BY <1>3, <3>1, MovesKeep
    <3> QED BY <1>1, <2>1, <2>2, <3>2
  <2>4. CASE outcome = "Completed"
    <3>1. up = {} BY <2>4 DEF Concluded
    <3>2. UNCHANGED rows BY <1>3, <3>1, MovesKeep
    <3> QED BY <1>1, <2>1, <2>2, <3>2
  <2> QED BY <2>2, <2>3, <2>4 DEF Closing
<1>4. CASE HidesMissing BY <1>4, HidesExactly
<1>5. CASE User
  BY <1>5 DEF User, Delete, Move, Create, Changes, Closing
<1>6. CASE Start \/ LoadFails \/ Drained \/ FollowsUp
  BY <1>6 DEF Start, LoadFails, Drained, FollowsUp, Closing, Finish, Booked
<1>7. CASE Joined
  <2>1. /\ main = "join" /\ main' # "emit" /\ outcome' # "Completed"
        /\ main' = "stamp" => ~CleanWalk
        /\ UNCHANGED <<errors, cancelled, gpuDead>>
    BY <1>7 DEF Joined, Finish, Outside, walk, coordinator, Booked
  <2> QED BY <2>1 DEF Closing, CleanWalk, Stop
<1>8. CASE Stamps
  <2>1. /\ main = "stamp" /\ main' = "emit" /\ UNCHANGED <<outcome, rows, disk, hidden, touched, errors, cancelled, gpuDead>>
    BY <1>8 DEF Stamps, Outside, user, walk, coordinator
  <2>2. Closing BY <2>1 DEF Closing, Stop
  <2> QED BY <1>1, <2>1, <2>2
<1>9. CASE Emits
  <2>1. /\ main = "emit" /\ main' = "over" /\ UNCHANGED <<rows, disk, hidden, touched, errors>>
        /\ outcome' = "Completed" => ~Stop
    BY <1>9 DEF Emits, Outside, user, walk, coordinator, Finish, Verdict, Stop
  <2>2. Closing BY <2>1 DEF Closing
  <2> QED BY <1>1, <2>1, <2>2
<1>10. CASE RequestPause \/ RequestResume \/ RequestCancel \/ LatchElsewhere \/ MarkGpuDead
  <2>1. UNCHANGED <<main, outcome, hidden, touched, errors, rows, disk>> /\ (Stop => Stop')
    BY <1>10 DEF RequestPause, RequestResume, RequestCancel, LatchElsewhere, MarkGpuDead, session,
                 user, walk, Stop
  <2>2. Closing BY <2>1 DEF Closing
  <2> QED BY <1>1, <2>1, <2>2
<1>11. CASE Rest \/ UNCHANGED vars \/ \E w \in Workers : Clears(w)
  <2>1. UNCHANGED <<main, outcome, hidden, touched, errors, rows, disk, cancelled, gpuDead>>
    BY <1>11 DEF Rest, vars, Clears, session, user, walk, coordinator
  <2>2. Closing BY <2>1 DEF Closing, Stop
  <2> QED BY <1>1, <2>1, <2>2
<1> QED BY <1>2, <1>3, <1>4, <1>5, <1>6, <1>7, <1>8, <1>9, <1>10, <1>11, Kinded DEF Aside

\* After a completed scan that could list every directory, with no change in
\* the folder since its last pass began, the catalog is the folder: for any
\* catalog it began with, whatever moved before that pass, in whatever order
\* the files went through the pipeline, provided the decoder threads started.
\* Where the reconciliation failed, the rows left over name paths without a file.
THEOREM CompletedExactCorrect == ASSUME "spawn" \notin Faults PROVE Spec => []CompletedExact
<1>1. Spec => []Flows BY FlowsAlways
<1>2. Spec => []Tables BY TablesAlways
<1> DEFINE Ends3 == Booked /\ Concluded /\ Found /\ Ending
<1>3. Init => Ends3 BY BookedInit, ConcludedInit, FoundInit, EndingInit
<1>4. Flows /\ Tables /\ Ends3 /\ [Next]_vars => Ends3'
  BY BookedStep, ConcludedStep, FoundStep, EndingStep DEF Flows, Tables
<1>5. Ends3 => CompletedExact BY DEF Ending, Closing, Matches, CompletedExact
<1> HIDE DEF Ends3
<1> QED BY <1>1, <1>2, <1>3, <1>4, <1>5, PTL DEF Spec
=============================================================================
