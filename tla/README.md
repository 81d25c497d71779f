# Verification of the FileID engine

FileID organises a photo and document library. Native applications (SwiftUI,
WinUI, GTK), a CLI and a TUI each start an *engine* as a child process and talk
to it in lines of JSON over stdin and stdout; the engine owns the SQLite
catalog, runs the models, and is the only one to move, rename or trash files.
There are two engines of one protocol, one in Swift for macOS and one in Rust
for everything else. This directory models the Rust engine
(`src/platforms/windows/src/engine/src`, called `engine/` below).

The subject is what is hard to test there: an organizing run that can be killed
between any two durable steps and must still be undone; the admission of work to
a machine that several models share; the ordering of commands, cancellations and a
shutdown around one mutation gate; a trash that hides files before it deletes
them and must bring them back; and a scan whose stages pass files through bounded
channels while the folder changes under them.

## Inventory

| Component | State it keeps | Operations | Hard part | Correct when |
|---|---|---|---|---|
| Restructure apply and undo, `engine/pipeline/restructure_apply.rs` | files on disk, `files.path_text`, the undo journal and its set-aside predecessor, the recovery records | apply, undo, recovery before both, reconciliation at launch | crashes and failures between durable steps, dependent moves, two journals | nothing is overwritten; what was moved can be moved back; rows follow files |
| Resource scheduler, `engine/resource_scheduler.rs` | waiting and active tables | reserve (three waiting modes), release, retain memory | a condition variable, priorities, residents that never leave, changing memory | never over capacity; no stranded waiter; interactive first |
| Command server, `engine/server.rs`, `job_queue.rs`, `commands/wipe.rs` | mutation gate, single-flight flags, cancel flags and tokens, sidebar queue | dispatch, pause, resume, cancel, wipe, shutdown | a loop, a task per operation, the main task and a watchdog interleave | one mutation at a time; a wipe finds quiet; cancels arrive and only where aimed; everything is answered |
| Scan coordinator and entry, `engine/coordinator.rs`, `commands/scan.rs` | paused, cancelled, GPU latch, the slot | start, pause, resume, cancel, check | flags read and set from several tasks, wake-ups | a cancel is never lost; a paused scan can be resumed |
| Scan pipeline, `engine/scan_session.rs`, `pipeline/{discovery,tagging,dbwriter}.rs` | channels, batch buffer, skip set, scan status | walk, decode, tag, flush, heal renames, follow up, hide missing rows | bounded channels, a lock released between a check and its use, files moving under the walk | nothing found is lost; no present file is hidden; a terminal phase follows and no task stays |
| Trash, restore, bulk, `engine/commands/{trash,trash_log,bulk}.rs`, `util/file_move.rs` | the signed log, claim files, merge log | trash, restore, revert, rename, tag | a crash between claim and trash, a trimmed or torn log, the user working on the same files | every file is in its place, claimed, or in the Trash; only the indexed file is trashed; no row goes before its receipt |
| Model processes, `engine/models/{resident_service,native_process,idle}.rs` | resident entry, process registry | checkout, retire, shutdown | close while a checkout awaits | no process outlives the owner; memory is counted once |
| Downloads, `engine/downloader.rs`, `commands/prewarm.rs` | part files, cancel registry | fetch, resume, cancel, verify | resumes, stale parts, retry budget | only verified bytes are installed |
| Catalog index, `engine/catalog_index.rs` | index, checkpoint, revision | build, advance, search | built while the catalog changes | answers come from a revision it really has |
| Timeline jobs, `engine/commands/timeline.rs` | persisted job table | enqueue, run, interrupt, recover | restarts | a job runs to an end |
| IPC, `engine/ipc` | output channel | frame, send, try_send | back-pressure | terminal events are never dropped |
| Clients, `engine/client.rs`, GTK and WinUI `engine_client` | respawn budget, life-cycle state | spawn, route, respawn | crash loops, expected exits | bounded restarts |
| Planning heuristics, inference, decoding, user interfaces | data | - | numeric or visual | outside a model checker's use |

How they interact: the clients' commands reach the **command server**, which
gives each operation a task behind the mutation gate; a **restructure** request
or a **scan** is such an operation. Scan files, searches, index builds and
models take leases from the **resource scheduler**. A wipe, a cancel and a
shutdown reach the operations through shared flags, tokens and the coordinator.
All rows pass through one writer connection.

`PROJECT.json` lists the components with what each leaves out, and every hazard
at its line.

## The modules

| Module | Models |
|---|---|
| `RestructureApply` | organizing runs, undo, recovery, launch reconciliation |
| `UndoLog` | what "Undo last run" promises; implemented by `RestructureApply` |
| `ResourceScheduler` | admission of work |
| `CommandDispatch` | the loop, the gate, cancellation, wipe, shutdown |
| `TrashLog` | trash, undo of trash, recovery of a launch, and the user |
| `ScanPipeline` | one scan from the queued command to its terminal phase |
| `MC...` | constants of the small instances |
| `...Proofs` | theorems with their proofs: `RestructureApplyProofs`, `UndoLogProofs`, `ResourceSchedulerProofs`, `CommandDispatchProofs`, `TrashLogProofs`, `ScanPipelineProofs` |
| `LineLemmas` | what appending to and removing from a line without duplicates does; used for the scheduler's tables, the gate and the job queue |
| `FoldLemmas` | induction over the subsets of a finite set, folds, sums, and the ends of sets of numbers; used for the scheduler's sums and the writer's batches |

`CommandDispatch` is what makes the other operation modules sequential: it shows
that one operation holds the library at a time, so `RestructureApply` and
`TrashLog` run one request after another and `ScanPipeline` one scan, while the
user, a kill and the scan's own tasks interleave with them.

Definitions named *fault injection* are not part of a specification: each is a
plausible bug, used to confirm that a property notices it.

### RestructureApply

A step is one durable effect (a rename, a synced journal line, a removed
journal, an updated row), so a kill can come between any two. `pc` is the next
effect; `run` and `handle` are memory and die with the process; `loc`, `row`,
`journal`, `backup`, `pending` and `tail` are the disk and the catalog. `pending`
are the readable lines of the recovery file and `tail` how that file ends, since
a line written behind one without its newline is joined to it and both are lost.
`forgotten` is a history variable: the files whose own recovery record is known
to be lost.

* `StartApply`, `ApplyReject`, `ApplyReserve`, `AppendAhead`, `MoveFile`,
  `Commit`, `UpdateRow`, `ApplyEnds` and `ApplyEndsUnmoved` follow
  `apply_iter_with`; the first real move opens the journal (`SetAside`,
  `CreateJournal`, `WriteHeader` = `open_replacing`).
* `StartUndo`, `ScanJournal`, the `Undo...` actions and `UndoEnds` follow
  `undo_last`, newest entry first.
* `Recover...` and `Reinstate` follow `recover_prior_undo_journal`, which both
  begin with; `Restart` and `Reconcile...` are a kill or quit and the launch.
* The constant `Faults` names the failures an instance allows: of a journal file,
  an append, a rename, a rollback's truncation, the plan's stream and a row
  update; of a recovery record, not written or cut short ("record"); of the
  recovery file at launch, not read, not removed, or truncated and rewritten in
  part ("sidecar", `RewriteCut`); and of what a launch asks about a record: the
  library is offline, or its row, root or identity cannot be had ("unproven"), for
  which the code drops the record. All of these are best effort, as in the code.

`StaleRowKept` says what is left of the recovery records under all of them: a row
that is behind its file has its record, unless that file is `forgotten`. So one
record's loss costs no other file its own, however the records conflict, are
joined, kept over launches and rewritten. `Unstuck` says why keeping them helps:
files whose rows are behind never name each other's paths in a ring, which plans
that swap names could build if a file whose row is behind were moved again.

Files are identities; collision names are the free paths of the root; a plan is
any well-formed one, stale or not, because plans come from an older catalog.

### UndoLog

The state is where the files are and the set of inverse moves still owed. A
move enters its inverse in the same step; the first move of a run forgets the
run before; only putting a file back clears an entry. `RestructureApply` maps
`owed` to what recovery would read off the disk: the set-aside journal until the
first move of the new one is on disk, then the new one. Crashes, journal
failures and recoveries are stutters. Checked as the property `ImplementsUndoLog`.

### ResourceScheduler

Each pass of `reserve_internal` runs under one mutex and is one action
(`Enter`, `Wake`); between passes a waiter sleeps 50 ms at most, so a pass can
come at any time. The three waiting modes are the sets `Patient`, `Queued` and
the rest. Memory is counted in units of 512 MiB so that every clamp of
`model_memory.rs` is a whole number. The free-memory probe may change.

### CommandDispatch

`loop` is the stdio loop inside `handle_line`; `task[r]` the task of an
operation; `gate` the tokio mutex with its FIFO; `owed[r]` the RAII guards a
task still has to drop, in Rust's order: the operation's locals before its
captures. `main` is the main task after it is woken. `coord`, `cancel`, `active`
and `jobs` are the shared flags and the queue.

A step is what happens between two points where another thread can run, so
`reserve_scan`'s compare-exchange and its reset of the cancel flag are two steps
(`Accept`, `Arm`), and so are the push and the promotion of a job. `Registered`
is the one-shot message with which a task tells the loop that it stands in the
gate's line. `LoopAborted` is the abort after two seconds; it lands where the
loop awaits, and a wipe's blocking thread survives it.

Times (the 2 s status interval, 10 s for a wipe, 2 s for the join, 30 s for the
gate) are choices: a timer may fire at any moment it is armed. A panic in an
operation ends it like `End`. Not modelled: commands outside the gate, refusals
for a missing database or a dead GPU, a model loader that outlives its timeout,
and the events sent to the client. `asked` is a history variable.

### TrashLog

A place (`orig`, the hidden sibling name `claim` of each batch, the Recycle Bin
item `bin` of each batch) holds "own", the indexed file, or "other", a file the
user saved at its path. `job` is the operation that runs and dies with the
process; `log` is `trash_log.json`, whose last line may be `torn`; `row` is the
identity in the catalog; `offered` the batches the app knows it may undo.

* `StartTrash`, `JournalTrash`, `CheckOriginal`, `Claim`, `CheckClaim`,
  `SendToBin`, `BindReceipts` and `CommitTrash` follow `handle_trash_files_with`
  (`bulk.rs`): a signed line before any rename, a check of the original, a rename
  to a hidden name, the same check again on what was really claimed, the shell's
  delete, the receipts journaled, and only then the rows.
* `StartRestore`, `Survey`, `PersistReceipts`, `Restore` and `CommitRestore`
  follow `restoreFromTrash` (`trash.rs`).
* `Kill`, `Launch`, `RecoverClaim`, `RecoverNext` and `Recovered` are a kill at
  any step and `recover_claims_in` (`trash_log.rs`), line by line.
* `Save`, `Delete`, `ExplorerRestores` and `EmptyBin` are the user, at any time.

The files of a batch are worked on in any order, more freely than the code does.
An append, a rename (also the one that puts a claim back), a delete, a lookup in the bin and a commit may each fail,
the delete also after it moved the file. Left out: the Linux and macOS trash, the
revalidation of an exact duplicate's keeper, path containment, and I/O errors of
the recovery's own renames. Scans cannot index a claim, since
discovery skips dotfiles and the gate keeps scans out of a batch.

### ScanPipeline

A file found by the walk is in one place, `at[p]`: a channel, the task that
holds it, or done; `up` are the tasks that run, `main` the step of
`handle_start_scan` and `ScanSession::run`, `buffer` and `cand` the writer's
batch and its rename candidates.

* The coordinator: `RequestPause`, `RequestResume`, `RequestCancel`,
  `LatchElsewhere` and `MarkGpuDead`. `check` arms the process-wide GPU latch,
  `wait_cancelled` only its own notification, so `deaf` holds the sleepers that
  a latch set elsewhere did not wake.
* The stages: `ReadDir`, `ListFails`, `Sends`, `WalkEnds`; `PumpTakes`,
  `PumpGives`, `PumpEnds`; `DecoderTakes`, `DecoderGives`, `DecoderEnds`;
  `WorkerTakes`, `Clears`, `Tags`, `WorkerEnds`; `WriterTakes`, `LooksUp`,
  `Commits`, `CommitFails`, `WriterEnds`. A send needs room and a receiver; each
  stage ends when its input is closed and empty, its receiver is gone, or the
  scan stops.
* `LooksUp` and `Commits` are the two halves of a flush: the heal candidates
  and the check of their old paths come before the transaction that uses them.
* The session: `Start`, `LoadFails`, `Loaded`, `Drained`, `Joined`, `FollowsUp`,
  `Again`, `HidesMissing`, `Stamps`, `Emits`. Each pass has its own row in
  `scan_sessions` (`status`), and the code looks at no error of the writes to it:
  each may fail (`Writes`, `Updates`), after which the scan goes on. So may the
  transaction that hides the missing rows. `missed` and `hidden` are history
  variables: whether a write to `scan_sessions` failed, and whether the last pass
  hid the missing rows.
* `Move`, `Delete` and `Create` change the folder under the walk.

Identity is one value (size, `file_ref` and hash together) with one path, so
edits in place and copies are outside the model; a channel gives its entries in
any order. Left out: zero-byte files, exclusions, forced rescans, capture dates,
face crops, the decode byte budget, progress events, the update of
`library_roots`, and a read of the skip set that fails (the code goes on with an
empty one, which only visits more).

## The runs

| Run | Question | Result |
|---|---|---|
| `restructure_crash` | kills and journal, append, move, truncate, stream and record failures over three requests, for two library roots, and two launches | the journals implement `UndoLog`; `RetryCanFinish` |
| `restructure_rows` | every failure and kills over two requests and three launches, name conflicts and lost recovery records among them | `StaleRowKept`, `Unstuck`, `JournalExact` |
| `restructure_kill_window` | a kill between rename and row update | violated: no recovery record |
| `restructure_header_gap` | a kill between creating a journal and its header | violated: the older journal is refused for ever |
| `restructure_partial_undo` | one inverse move fails | violated: a dependent file is stranded under a sibling name |
| `scheduler_mixed` | a scan file, two models, an index build, free memory changing | `Ledger`, `WithinCapacity`, `InteractiveFirst`, `NobodyStranded`, `PatienceKept` |
| `dispatch_gate` | scan, Deep Analyze, apply and wipe, two controls, shutdown at any time | `Serialized`, `WipeLast`, `CancelDelivered`, `CancelAimed`, `SidebarTruth` |
| `dispatch_answers` | scan, Deep Analyze, wipe, two controls | `Answered`, `LoopServes`, `ShutdownEnds` |
| `dispatch_shutdown_race` | the parent exits while a scan is being accepted | violated: the cancellation is overwritten |
| `trash_custody` | two batches and an undo over two files, one without a `file_ref`, every failure, two kills, one act of the user | `NothingLost`, `OnlyIndexed`, `ReceiptFirst`, `ClaimJournaled`, `Reachable`, `StrandedReturns` |
| `trash_torn` | an append stops inside its line and the engine is used again | violated: the next batch is joined to the torn line, and a kill strands its claims |
| `scan_pipeline` | a scan of two directories and its follow-up from four catalogs, with any two disturbances, a failed reconciliation and failed status writes among them | `CompletedWhole`, `CompletedExact`, `Recorded`, `StayPut`, `NotHidden`, `Concludes` |

The five violations are statements of the repository's own comments or README
that the code does not keep; `PROJECT.json` quotes each. Three more divergences
of the same kind were seen while modelling and are only recorded here:

* A run on a second library root that dies before its first move leaves a
  preserved journal of one root and a current journal of another;
  `RecoveryRefused` then holds for both roots (`restructure_apply.rs:625`). Two
  roots with a path or two each and one kill are enough to see it.
* `resource_scheduler.rs:12` says that a `Wait::Immediate` call fails while an
  interactive lease is active or memory is tight. It also fails when no lease is
  active at all (line 268), which happens between the drop of a lease and the
  pass of the waiter in front.
* After a shutdown has aborted the loop inside a wipe (`server.rs:590`), the gate
  is free although the wipe's blocking thread may still wait for the writer lock;
  the engine then logs a quiescent checkpoint (653) with the wipe behind it.
  `LoopAborted`, `WipeLocks` and `MainQuiesces` are those steps.

### Bounds and why they suffice

* Two files, three paths, plans of two moves: the smallest instance with swaps,
  dependent moves (A to X, B to A), taken destinations, sibling names and a
  unique-path conflict. A second root, without files, makes requests that the
  journal's owner check must refuse.
* Three requests and two launches: a journal, one that replaces it, and an undo
  of either, with a kill in both. `MaxPlan`, `MaxRuns`, `MaxRestarts` are the
  only counters. The row run takes two requests and three launches: a record
  is written, kept by a launch, lost or cut short by the next, and behind it
  another; a kill costs the file in hand its record and no other file, and
  `restructure_kill_window` shows that loss alone.
* Scheduler: two processor slots, one disk slot, three accelerator units and a
  budget of 24 units against models of 14 each, so that two models never fit
  together, a model and an index do, and every kind of refusal occurs. The free
  memory changes once (`MaxChanges`), between plenty and too little.
* Dispatch: one request of each kind that differs in flags, token or tracking;
  `MaxControls` = 2 allows pause-cancel, pause-resume and cancel-cancel.
* Trash: two batches so that a claim of one meets the journal of another, one
  undo, a log of at most four lines so that the trim happens, two kills so that a
  recovery can be killed too, and one act of the user, which is enough for each
  of its races (save between check and claim, empty the bin before an undo,
  restore a claim under its hidden name). `trash_torn` needs one kill and no user.
* Scan: two files, paths and directories, five ids, one task of each kind,
  channels of one entry and batches of two, so that every channel fills, every
  stage blocks on its successor and a batch mixes a moved file with a new one.
  `MaxTroubles` = 2 allows any two of the faults, pauses, cancels and folder
  changes together; two decoders and two workers were also checked, with one
  disturbance. Four starting catalogs: empty, a moved file, one moved onto the
  path of a failed row, one moved while another file took its path.
* Deadlock is checked except in the trash runs; the explicit `Done`, `Exited` and
  `Rest` steps are the intended ends. `TrashLog` stops when its bounds are used
  up, or when the user has destroyed every file, and nothing remains to be done.

### Fairness

`RestructureApply` is checked for safety only: nobody promises that a user asks
again. In `ResourceScheduler` the wait times out every 50 ms, so a waiter makes
another pass; deadlines pass; work that holds concurrency ends; a resident need
not retire and a caller need not cancel. In `CommandDispatch` the runtime polls
what is ready, timers fire and operations end, a paused scan only when resumed
or cancelled; nobody has to send a command or close the engine. Fairness is per
operation, and once the process has exited nothing is owed. In `TrashLog` the app
starts a dead engine again and a launch recovers before it serves; no command and
no act of the user is owed. In `ScanPipeline` some task that can run is run
(`WF_vars(Task)`); since each step of a task brings the scan nearer to its end
nothing stronger is needed, and nobody has to resume a paused scan.

## The proofs

TLC covers small instances; the theorems below hold for every value of the
constants that satisfies the assumptions of the module (`ConstantsAssumption`,
`SchedulerAssumption`, `DispatchAssumption`, `TrashAssumption`, `ScanAssumption`,
`PlaceAssumption`, `CatalogAssumption`), all of which TLC evaluates on the small
instances. `CatalogAssumption` says what the schema promises of the catalog a
scan begins with, one row per path (`files.path_text` is UNIQUE), and that a new
row finds an unused rowid. A theorem that leaves a fault out says so in its
hypotheses, and a run or *Not shown* shows what happens with it.

* `RestructureApplyProofs`
  * `TypeCorrect`: `Spec => []TypeOK`. `TypeOK` alone is not inductive, since
    a step that works on a move needs one in hand: `TypeInv` adds `InHand`,
    which says at which steps `run.todo` is not empty.
  * `JournalNeverInvents`: `Spec => []JournalExact`. The open journal is
    exact only because of facts about the whole run, gathered in `JournalInv`:
    where the handle can be open (`HandleInv`), that a plan names a file once
    (`OnceEach`), that the move in progress has not happened (`StakeInv`), and
    what each line of the journal claims (`LinesInv`).
  * `StaleRowsKept`: `Spec => []StaleRowKept`, whatever fails and whenever the
    engine is killed. The property speaks of the time between runs; `RowInv` says
    what holds during one: a row may also be behind because its file is in hand
    (`Stale`, `Ahead`), what a replay has claimed stands on disk (`Claims`), and a
    launch holds the records it has yet to look at and those it keeps
    (`Relaunch`). Its corollary `StaleRowsRecorded`, `Spec => []StaleRowRecorded`,
    leaves out "kill" (`restructure_kill_window`), "record", "sidecar" and
    "unproven", where no record is ever lost.
  * `NoRing`: `Spec => []Unstuck`, for rings of any length. That some row can be
    updated must hold again once it has been, so `Untangled` says it of every set
    of files whose rows are behind; a file that moves joins such a set and none
    of the set waits for it, because its row names the path it left
    (`LeavesItsRow`, from `RowInv` and `Apart`: two files are never at one path).
* `UndoLogProofs`, where no inverse move fails by itself ("moveback";
  `restructure_partial_undo` shows what one failure does):
  * `UndoLogImplemented`: `Spec => ImplementsUndoLog`, step by step. The set of
    moves still owed is read off the two journals, so each step must keep what
    recovery would read: `Journals` and `Replacing` say which journal that is.
  * `RetryAlwaysCanFinish`: `Spec => []RetryCanFinish`. Both rest on
    `Replayable`: each entry's file is at one end of its move (`Traceable`), no
    two entries share a file or a destination (`Separate`), and whoever stands
    where a file must return to left that place by a later entry that is due too
    (`Unblocked`), so that the newest-first replay never needs a sibling name.
* `ResourceSchedulerProofs`
  * `TypeCorrect` and `LedgerKept`: `Spec => []Ledger`; the ledger is
    inductive with the types, by a lemma on what removing one element of a
    duplicate-free sequence leaves.
  * `InteractiveServedFirst`: `Spec => InteractiveFirst`. `First` is a CHOOSE,
    so the proof shows that such a waiter exists, the least index of the
    highest priority, by well-founded induction over the table's finite domain.
  * `CapacityKept`: `Spec => []WithinCapacity`, for any demands, capacities and
    memory readings: the sum over the active calls changes by one lease at a
    time (`FoldLemmas`), and a lease is given only where it fits.
  * `PatienceCorrect`: `Spec => PatienceKept`.
* `CommandDispatchProofs`, from three inductive invariants.
  * `Inv`: the types; `Line` (the gate's line has no duplicates and holds exactly
    the operations that wait or work, the ones inside at its head); `Loop` (what
    the loop has in hand at each of its points); `Alone` (a wipe that was
    dispatched finds every other operation over or not yet taken). It gives
    `TypeCorrect`, `SerializedCorrect` and `WipeLastCorrect`.
  * `CInv` adds `Owned` (which guards a task still has to drop, hence which flags
    and tokens are its own), `Aim` (a set flag or token belongs to a command that
    came later) and `Reach` (an operation covered by a cancel has its flag, its
    token or its coordinator set). It gives `CancelDeliveredCorrect` and
    `CancelAimedCorrect`.
  * `JobsInv`: a job is listed once and as long as its guard is owed (`Listed`),
    a tracked operation owes its guard from the push on (`Tracking`), and whoever
    is listed ahead came to the gate first (`SameOrder`). It gives
    `SidebarCorrect`: the queue of jobs and the gate's line are two tables kept
    by two threads, and it is their common order that makes the sidebar true.
* `TrashLogProofs`
  * `TypeCorrect`; a job's items are those of its batch.
  * From `CInv`: a batch not yet begun has put nothing anywhere (`Fresh`), a
    claimed item holds what the job says of it (`Carried`), and the running batch
    has a signed line (`Lined`). It gives `NothingLostCorrect`, by a lemma on
    moving one content between two places, `OnlyIndexedCorrect`,
    `ReceiptFirstCorrect`, and `ClaimJournaledCorrect` on the assumption that an
    append never leaves a torn line; `trash_torn` shows why it is needed.
  * `ReachableCorrect`: `Spec => []Reachable`. Until the log is trimmed, the lines
    of one batch agree on its files and a signed one is the last (`Agreed`), an
    item in progress has the identity its line will name (`Underway`), and a file
    without a row that a batch holds is named by that batch (`Kept`).
* `ScanPipelineProofs`, for any number of tasks, slots, files and faults:
  * `TypeCorrect` and `StayPutCorrect`, from `Data`: the catalog keeps one row per
    path, and a heal candidate was never read from a steady path. A committed
    batch is a fold over the buffer; that it keeps this is an induction over the
    batch, and that an insert finds an unused rowid an injection from the rows
    into the paths.
  * `RecordedCorrect`, for any writes to `scan_sessions` that fail, from `Booked`:
    what the code means the rows to be at each step of `main` (`Exact`), and that
    they are just that unless a write was missed (`Statuses`).
  * `CompletedWholeCorrect` and `NotHiddenCorrect`, provided the decoder threads
    started. The invariant says that a stage that is down while the scan is sound
    has nothing upstream of it (`Upstream`), that an empty buffer means nothing
    is held (`Batched`), which steps of `main` come after the writer (`Sequenced`,
    `Concluded`) and that a steady path the walk has passed is seen (`Watched`).
  * `CompletedExactCorrect`, under the same proviso: `Found` says, while the
    folder is at rest, what the walk has listed and that each listed file is
    either on its way, settled in the catalog, or skipped because the catalog has
    it already; `Ending` that the catalog is the folder once the missing rows are
    hidden, and where hiding them failed, that the rows left over name paths
    without a file.
* `LineLemmas`: removing, appending, heads and order in sequences without
  duplicates. `FoldLemmas`: the induction over the subsets of a finite set on
  which sums and batches rest, and the greatest and least of a set of numbers.

So every safety property of a passing run, invariant or action property, is
also a theorem. Model-checked only are the liveness properties `NobodyStranded`,
`Answered`, `LoopServes`, `ShutdownEnds`, `StrandedReturns` and `Concludes`: the
prover does not treat fairness and ENABLED.

### Not shown

With "spawn" among the `Faults` of `ScanPipeline`, the case in which no decoder
thread can be started (`tagging.rs:1101`), the pump ends at its first file. The
walk then stops as if it were done and without an error, so a scan may report
Completed although found files were dropped: `CompletedWhole` is violated on the
instance of `scan_pipeline`, and `NotHidden` with three directories, one of them
never read. Thread creation fails only when the system is out of resources; the
passing run and the three theorems that need it (`CompletedWholeCorrect`,
`NotHiddenCorrect`, `CompletedExactCorrect`) leave this fault out, and say so.

Some failures weaken what the properties promise rather than violate them, by
what the code chooses to do. A scan whose reconciliation failed still reports
Completed (`scan_session.rs:731`), with rows of missing files active. A scan
whose writes to `scan_sessions` failed can report Completed with a row that says
"running", and a first pass whose row was not deleted leaves it so; only the next
launch sets such rows to "failed" (`db/mod.rs`), which is not modelled. A record
that a launch cannot prove is dropped with its row still behind
(`restructure_apply.rs:3804` says so); a rescan's rename heal or an undo is then
the way back. `Reachable` promises nothing once the log of the trash has reached
its cap, where the trim drops the oldest lines by design.

## What is not modelled

Power loss that reorders writes (only the process dies; the code syncs before it
relies on order); a user or another program changing files during a run;
symlink and shortcut mode of a restructure; re-binding of journal entries after
a wipe and a rescan; a recovery record cut inside a multi-byte character, which
makes the whole recovery file unreadable (`read_to_string`); more than one
set-aside journal; empty-directory cleanup; companions. In the server: the
commands outside the gate and the event stream. Bulk rename, tag and merge, and
the copy, publish and remove of a cross-volume move (`util/file_move.rs`), which
is one step that succeeds or fails here. What the modules on the trash and the
scan leave out is named with them. The components without a module are in the
plan below or, where they are pure data (planning heuristics, inference,
decoding, user interfaces), left to the unit tests. The Swift engine is a second
implementation of the protocol and would need a project of its own.

## Plan

In order of importance, each with its own module, runs and theorems.

1. **Resident models** (`ResidentService`): checkout, close, retire, failure;
   then composed with `ResourceScheduler` for the memory it retains.
2. **Downloads and prewarm**: resume, retry budget, cancel registry.
3. **Engine supervision**: respawn budget and expected exits of the clients.
4. **Catalog index**: checkpoints and revisions under scans and wipes.
5. **Timeline jobs**: the persisted job table and its recovery at launch.
