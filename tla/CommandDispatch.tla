--------------------------- MODULE CommandDispatch ---------------------------
(***************************************************************************)
(* How the engine serves commands (engine/src/server.rs): one stdio loop   *)
(* dispatches them in order, each operation runs in a task of its own and  *)
(* takes the mutation gate (a FIFO tokio mutex), wipe is awaited by the    *)
(* loop itself, and the main task shuts everything down.  A step is what   *)
(* one of these does to shared state between two points where another can  *)
(* run.  A paused or cancelled scan is seen through its ScanCoordinator    *)
(* (coordinator.rs), the sidebar through the JobQueue (job_queue.rs).      *)
(***************************************************************************)
EXTENDS Naturals, SequencesExt

CONSTANTS Requests,     \* commands that start an operation, each sent once
          KindOf,       \* [Requests -> Kinds]
          Main, None,   \* the main task in the gate; no request
          MaxControls   \* pause, resume and cancel commands

Kinds == {"scan", "deep", "faces", "restructure", "plan", "bulk", "wipe"}
SingleFlight == {"scan", "deep", "faces", "restructure"}  \* an *_active flag
Tracked == {"scan", "deep", "faces"}                      \* a JobTrackGuard
Tokened == {"restructure", "plan"}                        \* a cancel token

ASSUME DispatchAssumption ==
    /\ KindOf \in [Requests -> Kinds]
    /\ Main \notin Requests /\ None \notin Requests
    /\ MaxControls \in Nat

VARIABLES loop,      \* the stdio loop: where it is, and with which request
          task,      \* [Requests -> where the operation is]
          owed,      \* [Requests -> the RAII guards it still holds]
          gate,      \* mutation_gate: the holder, then the waiters
          active,    \* the single-flight flags that are set
          cancel,    \* scan_cancel_requested, deep_analyze_cancel, set tokens
          coord,     \* scan_state: the coordinator of the scan
          jobs,      \* JobQueue
          main,      \* the main task
          asked,     \* history: operations a cancellation was aimed at
          controls   \* bound

vars == <<loop, task, owed, gate, active, cancel, coord, jobs, main, asked, controls>>

NoCoord == [there |-> FALSE, paused |-> FALSE, cancelled |-> FALSE]
Reading == [at |-> "reading", req |-> None]
Stopped == [at |-> "stopped", req |-> None]

Init == /\ loop = Reading
        /\ task = [r \in Requests |-> "new"]
        /\ owed = [r \in Requests |-> {}]
        /\ gate = <<>>
        /\ active = {}
        /\ cancel = [scan |-> FALSE, deep |-> FALSE, tokens |-> {}]
        /\ coord = NoCoord
        /\ jobs = [running |-> None, pending |-> <<>>]
        /\ main = "serving"
        /\ asked = [command |-> {}, shutdown |-> {}]
        /\ controls = 0

At(stage) == loop.at = stage
GoTo(stage) == loop' = [loop EXCEPT !.at = stage]
Becomes(r, s) == task' = [task EXCEPT ![r] = s]
Holder(r) == gate # <<>> /\ Head(gate) = r
\* The line of the gate and the pending jobs list nobody twice.
PlaceOf(r, s) == CHOOSE k \in DOMAIN s : s[k] = r
Without(s, r) == IF r \in Range(s) THEN RemoveAt(s, PlaceOf(r, s)) ELSE s

\* Accepted and not over: what a cancellation is aimed at.
Live == {"accepted", "spawned", "queued", "leaving", "entered", "running"}
InFlight(kinds) == {r \in Requests : KindOf[r] \in kinds /\ task[r] \in Live}
Ask(who, kinds) == asked' = [asked EXCEPT ![who] = @ \cup InFlight(kinds)]
TokensOf(S) == {r \in S : "token" \in owed[r]}
\* Fault injection: the token of the line being read, not those registered.
CancelTokensOfLine(c) == [c EXCEPT !.tokens = @ \cup {loop.req}]
CancelTokens(c) == [c EXCEPT !.tokens = @ \cup TokensOf(Requests)]
CancelCoord == coord' = [coord EXCEPT !.cancelled = @ \/ coord.there]

(***************************************************************************)
(* The stdio loop: handle_line, one command at a time.                     *)
(***************************************************************************)
Bounce(r) ==
    /\ At("reading") /\ task[r] = "new"
    /\ KindOf[r] \in active
    /\ Becomes(r, "bounced")
    /\ UNCHANGED <<loop, owed, gate, active, cancel, coord, jobs, main, asked, controls>>

\* compare_exchange on the single-flight flag.
Accept(r) ==
    /\ At("reading") /\ task[r] = "new"
    /\ KindOf[r] # "wipe" /\ KindOf[r] \notin active
    /\ loop' = [at |-> "arm", req |-> r]
    /\ Becomes(r, "accepted")
    /\ active' = active \cup ({KindOf[r]} \cap SingleFlight)
    /\ owed' = [owed EXCEPT ![r] = IF KindOf[r] \in SingleFlight THEN {"active"} ELSE {}]
    /\ UNCHANGED <<gate, cancel, coord, jobs, main, asked, controls>>

\* Fault injection: the flag of the run before is not rearmed.
ArmNothing(r) ==
    /\ At("arm") /\ loop.req = r
    /\ owed' = [owed EXCEPT ![r] = @ \cup (IF KindOf[r] \in Tokened THEN {"token"} ELSE {})]
    /\ GoTo(IF KindOf[r] \in Tracked THEN "push" ELSE "spawn")
    /\ UNCHANGED <<task, gate, active, cancel, coord, jobs, main, asked, controls>>

\* The cancel flag is rearmed, or a fresh token registered.
Arm(r) ==
    /\ At("arm") /\ loop.req = r
    /\ cancel' = [cancel EXCEPT !.scan = @ /\ KindOf[r] # "scan",
                                !.deep = @ /\ KindOf[r] # "deep"]
    /\ owed' = [owed EXCEPT ![r] = @ \cup (IF KindOf[r] \in Tokened THEN {"token"} ELSE {})]
    /\ GoTo(IF KindOf[r] \in Tracked THEN "push" ELSE "spawn")
    /\ UNCHANGED <<task, gate, active, coord, jobs, main, asked, controls>>

\* JobTrackGuard::start takes the queue's lock twice.
Push(r) ==
    /\ At("push") /\ loop.req = r
    /\ jobs' = [jobs EXCEPT !.pending = Append(@, r)]
    /\ owed' = [owed EXCEPT ![r] = @ \cup {"track"}]
    /\ GoTo("promote")
    /\ UNCHANGED <<task, gate, active, cancel, coord, main, asked, controls>>

Promoted(j) == IF j.pending = <<>> THEN j
               ELSE [running |-> Head(j.pending), pending |-> Tail(j.pending)]
PromoteNext(r) ==
    /\ At("promote") /\ loop.req = r
    /\ jobs' = IF jobs.running = None THEN Promoted(jobs) ELSE jobs
    /\ GoTo("spawn")
    /\ UNCHANGED <<task, owed, gate, active, cancel, coord, main, asked, controls>>

Spawn(r) ==
    /\ At("spawn") /\ loop.req = r
    /\ Becomes(r, "spawned")
    /\ GoTo("register")
    /\ UNCHANGED <<owed, gate, active, cancel, coord, jobs, main, asked, controls>>

\* Fault injection: the loop goes on before the task has polled the gate.
RegisteredAtOnce(r) ==
    /\ At("register") /\ loop.req = r
    /\ loop' = Reading
    /\ UNCHANGED <<task, owed, gate, active, cancel, coord, jobs, main, asked, controls>>

\* Fault injection: the handshake is a level that is missed if the task has
\* moved on, not a message.
RegisteredLevel(r) ==
    /\ At("register") /\ loop.req = r /\ task[r] = "queued"
    /\ loop' = Reading
    /\ UNCHANGED <<task, owed, gate, active, cancel, coord, jobs, main, asked, controls>>

\* registered_rx: the loop goes on once the task stands in the gate's queue.
Registered(r) ==
    /\ At("register") /\ loop.req = r /\ task[r] # "spawned"
    /\ loop' = Reading
    /\ UNCHANGED <<task, owed, gate, active, cancel, coord, jobs, main, asked, controls>>

(***************************************************************************)
(* Control commands.                                                       *)
(***************************************************************************)
Control == At("reading") /\ controls < MaxControls /\ controls' = controls + 1

PauseScan ==
    /\ Control /\ coord.there
    /\ coord' = [coord EXCEPT !.paused = TRUE]
    /\ UNCHANGED <<loop, task, owed, gate, active, cancel, jobs, main, asked>>

ResumeScan ==
    /\ Control /\ coord.there
    /\ coord' = [coord EXCEPT !.paused = FALSE]
    /\ UNCHANGED <<loop, task, owed, gate, active, cancel, jobs, main, asked>>

\* CancelScan sets the flag first, then tells the coordinator in the slot.
CancelScan ==
    /\ Control
    /\ cancel' = [cancel EXCEPT !.scan = TRUE]
    /\ Ask("command", {"scan"})
    /\ GoTo("cancel")
    /\ UNCHANGED <<task, owed, gate, active, coord, jobs, main>>

CancelCoordinator ==
    /\ At("cancel")
    /\ CancelCoord
    /\ loop' = Reading
    /\ UNCHANGED <<task, owed, gate, active, cancel, jobs, main, asked, controls>>

DeepAnalyzeCancel ==
    /\ Control
    /\ cancel' = [cancel EXCEPT !.deep = TRUE]
    /\ Ask("command", {"deep"})
    /\ UNCHANGED <<loop, task, owed, gate, active, coord, jobs, main>>

CancelRestructure ==
    /\ Control
    /\ cancel' = CancelTokens(cancel)
    /\ Ask("command", Tokened)
    /\ UNCHANGED <<loop, task, owed, gate, active, coord, jobs, main>>

(***************************************************************************)
(* wipeLibrary: the loop cancels everything, then waits for the gate.      *)
(***************************************************************************)
Wipe(r) ==
    /\ At("reading") /\ task[r] = "new" /\ KindOf[r] = "wipe"
    /\ cancel' = [CancelTokens(cancel) EXCEPT !.scan = TRUE]
    /\ Ask("command", Tokened \cup {"scan"})
    /\ loop' = [at |-> "wipe", req |-> r]
    /\ UNCHANGED <<task, owed, gate, active, coord, jobs, main, controls>>

WipeQueues(r) ==
    /\ At("wipe") /\ loop.req = r
    /\ CancelCoord
    /\ cancel' = [cancel EXCEPT !.deep = TRUE]
    /\ Ask("command", {"deep"})
    /\ gate' = Append(gate, r)
    /\ Becomes(r, "queued")
    /\ GoTo("wipewait")
    /\ UNCHANGED <<owed, active, jobs, main, controls>>

WipeTimesOut(r) ==
    /\ At("wipewait") /\ loop.req = r /\ ~Holder(r)
    /\ gate' = Without(gate, r)
    /\ Becomes(r, "failed")
    /\ loop' = Reading
    /\ UNCHANGED <<owed, active, cancel, coord, jobs, main, asked, controls>>

\* Fault injection: the time-out is taken for the permit.
WipeStartsUnheld(r) ==
    /\ At("wipewait") /\ loop.req = r
    /\ Becomes(r, "dispatched")
    /\ GoTo("wiping")
    /\ UNCHANGED <<owed, gate, active, cancel, coord, jobs, main, asked, controls>>

\* A blocking thread is dispatched, which the loop awaits.
WipeStarts(r) ==
    /\ At("wipewait") /\ loop.req = r /\ Holder(r)
    /\ Becomes(r, "dispatched")
    /\ GoTo("wiping")
    /\ UNCHANGED <<owed, gate, active, cancel, coord, jobs, main, asked, controls>>

\* The thread takes the catalog's writer lock and holds it through wipe_all.
WipeLocks(r) ==
    /\ task[r] = "dispatched"
    /\ Becomes(r, "wiping")
    /\ UNCHANGED <<loop, owed, gate, active, cancel, coord, jobs, main, asked, controls>>

WipeEnds(r) ==
    /\ task[r] = "wiping"
    /\ Becomes(r, "wiped")
    /\ IF At("wiping") THEN loop' = Reading /\ gate' = Tail(gate)
       ELSE UNCHANGED <<loop, gate>>
    /\ UNCHANGED <<owed, active, cancel, coord, jobs, main, asked, controls>>

(***************************************************************************)
(* The task of one operation (spawn_mutation_with_interval).  The mutex    *)
(* hands its permit to the first waiter in line.                           *)
(***************************************************************************)
Register(r) ==
    /\ task[r] = "spawned"
    /\ gate' = Append(gate, r)
    /\ Becomes(r, "queued")
    /\ UNCHANGED <<loop, owed, active, cancel, coord, jobs, main, asked, controls>>

\* Fault injection: the test for a paused scan is the wrong way round.
TimesOutRunning(r) ==
    /\ task[r] = "queued" /\ KindOf[r] # "wipe"
    /\ coord.there /\ ~coord.paused
    /\ Becomes(r, "leaving")
    /\ UNCHANGED <<loop, owed, gate, active, cancel, coord, jobs, main, asked, controls>>

\* The 2 s status interval ends while a scan is paused: library_busy.  The
\* task still stands in line, and can be handed the permit, until it returns.
TimesOut(r) ==
    /\ task[r] = "queued" /\ KindOf[r] # "wipe"
    /\ coord.there /\ coord.paused
    /\ Becomes(r, "leaving")
    /\ UNCHANGED <<loop, owed, gate, active, cancel, coord, jobs, main, asked, controls>>

Leave(r) ==
    /\ task[r] = "leaving"
    /\ gate' = Without(gate, r)
    /\ Becomes(r, "left")
    /\ UNCHANGED <<loop, owed, active, cancel, coord, jobs, main, asked, controls>>

\* A scan parks a fresh coordinator in the slot.
Start(r) ==
    /\ task[r] = "queued" /\ KindOf[r] # "wipe" /\ Holder(r)
    /\ IF KindOf[r] = "scan"
       THEN coord' = [NoCoord EXCEPT !.there = TRUE] /\ Becomes(r, "entered")
       ELSE UNCHANGED coord /\ Becomes(r, "running")
    /\ UNCHANGED <<loop, owed, gate, active, cancel, jobs, main, asked, controls>>

\* Fault injection: a cancellation of the queued scan is not looked at.
ScanEntersUnchecked(r) ==
    /\ task[r] = "entered"
    /\ \/ Becomes(r, "running") /\ UNCHANGED coord
       \/ Becomes(r, "ended") /\ coord' = NoCoord
    /\ UNCHANGED <<loop, owed, gate, active, cancel, jobs, main, asked, controls>>

\* It then looks at the flag; other early returns end it here too.
ScanEnters(r) ==
    /\ task[r] = "entered"
    /\ \/ ~cancel.scan /\ Becomes(r, "running") /\ UNCHANGED coord
       \/ Becomes(r, "ended") /\ coord' = NoCoord
    /\ UNCHANGED <<loop, owed, gate, active, cancel, jobs, main, asked, controls>>

\* A paused scan does not end unless it is cancelled.
End(r) ==
    /\ task[r] = "running"
    /\ IF KindOf[r] = "scan"
       THEN (coord.paused => coord.cancelled) /\ coord' = NoCoord
       ELSE UNCHANGED coord
    /\ Becomes(r, "ended")
    /\ UNCHANGED <<loop, owed, gate, active, cancel, jobs, main, asked, controls>>

\* Fault injection: finish does not promote the next job.
FinishNoPromote(j, r) ==
    IF j.running = r THEN [j EXCEPT !.running = None]
    ELSE [j EXCEPT !.pending = Without(@, r)]

Finish(j, r) ==
    IF j.running = r THEN Promoted([j EXCEPT !.running = None])
    ELSE [j EXCEPT !.pending = Without(@, r)]

\* The operation's locals drop last to first, its captures first to last.
MayDrop(r, g) == IF task[r] = "ended" THEN g # "active" \/ owed[r] = {"active"}
                 ELSE g = "active" \/ "active" \notin owed[r]
DropGuard(r, g) ==
    /\ task[r] \in {"ended", "left"} /\ g \in owed[r] /\ MayDrop(r, g)
    /\ owed' = [owed EXCEPT ![r] = @ \ {g}]
    /\ active' = IF g = "active" THEN active \ {KindOf[r]} ELSE active
    /\ jobs' = IF g = "track" THEN Finish(jobs, r) ELSE jobs
    /\ UNCHANGED <<loop, task, gate, cancel, coord, main, asked, controls>>

Release(r) ==
    /\ task[r] = "ended" /\ owed[r] = {}
    /\ gate' = Tail(gate)
    /\ Becomes(r, "done")
    /\ UNCHANGED <<loop, owed, active, cancel, coord, jobs, main, asked, controls>>

(***************************************************************************)
(* Shutdown.  notify_waiters wakes the main task, which registered at the  *)
(* start, and a loop that stands at its select, never one inside a line.   *)
(***************************************************************************)
Woken == main' = IF main = "serving" THEN "cancelscan" ELSE main

\* End of input, a read error or a shutdown command.
LoopStops ==
    /\ At("reading")
    /\ loop' = Stopped
    /\ Woken
    /\ UNCHANGED <<task, owed, gate, active, cancel, coord, jobs, asked, controls>>

ParentExits ==
    /\ main = "serving"
    /\ Woken
    /\ loop' = IF At("reading") THEN Stopped ELSE loop
    /\ UNCHANGED <<task, owed, gate, active, cancel, coord, jobs, asked, controls>>

MainCancelsScan ==
    /\ main = "cancelscan"
    /\ cancel' = [cancel EXCEPT !.scan = TRUE]
    /\ Ask("shutdown", {"scan"})
    /\ main' = "cancelcoord"
    /\ UNCHANGED <<loop, task, owed, gate, active, coord, jobs, controls>>

MainCancelsCoordinator ==
    /\ main = "cancelcoord"
    /\ CancelCoord
    /\ asked' = [asked EXCEPT !.shutdown = @ \cup {r \in InFlight({"scan"}) : coord.there}]
    /\ main' = "cancelrest"
    /\ UNCHANGED <<loop, task, owed, gate, active, cancel, jobs, controls>>

MainCancelsRest ==
    /\ main = "cancelrest"
    /\ cancel' = [CancelTokens(cancel) EXCEPT !.deep = TRUE]
    /\ Ask("shutdown", Tokened \cup {"deep"})
    /\ main' = "join"
    /\ UNCHANGED <<loop, task, owed, gate, active, coord, jobs, controls>>

MainQueues ==
    /\ gate' = Append(gate, Main)
    /\ main' = "gate"

LoopJoined ==
    /\ main = "join" /\ At("stopped")
    /\ MainQueues
    /\ UNCHANGED <<loop, task, owed, active, cancel, coord, jobs, asked, controls>>

\* Fault injection: the loop is joined without a deadline.
LoopAbortedNever == LoopJoined

\* After 2 s the loop is aborted where it awaits: a wipe drops its permit, or
\* its place in line, and its blocking thread goes on.
LoopAborted ==
    /\ main = "join" /\ loop.at \in {"reading", "register", "wipewait", "wiping"}
    /\ loop' = Stopped
    /\ gate' = Append(IF loop.at \in {"wipewait", "wiping"} THEN Without(gate, loop.req) ELSE gate, Main)
    /\ task' = IF At("wipewait") THEN [task EXCEPT ![loop.req] = "failed"] ELSE task
    /\ main' = "gate"
    /\ UNCHANGED <<owed, active, cancel, coord, jobs, asked, controls>>

\* The gate within 30 s, and a checkpoint under the writer lock; or neither.
MainQuiesces ==
    /\ main = "gate" /\ Holder(Main)
    /\ \A r \in Requests : task[r] # "wiping"
    /\ main' = "clean"
    /\ UNCHANGED <<loop, task, owed, gate, active, cancel, coord, jobs, asked, controls>>

MainGivesUp ==
    /\ main = "gate" /\ ~Holder(Main)
    /\ main' = "unclean"
    /\ gate' = Without(gate, Main)
    /\ UNCHANGED <<loop, task, owed, active, cancel, coord, jobs, asked, controls>>

Alive == main \notin {"clean", "unclean"}

LoopStep(r) == Arm(r) \/ Push(r) \/ PromoteNext(r) \/ Spawn(r) \/ Registered(r)
WipeStep(r) == WipeQueues(r) \/ WipeTimesOut(r) \/ WipeStarts(r) \/ WipeLocks(r) \/ WipeEnds(r)
TaskStep(r) == \/ Register(r) \/ TimesOut(r) \/ Leave(r) \/ Start(r) \/ ScanEnters(r) \/ End(r)
               \/ \E g \in {"active", "track", "token"} : DropGuard(r, g)
               \/ Release(r)
ControlStep == PauseScan \/ ResumeScan \/ CancelScan \/ DeepAnalyzeCancel \/ CancelRestructure
MainStep == MainCancelsScan \/ MainCancelsCoordinator \/ MainCancelsRest \/ LoopJoined
            \/ LoopAborted \/ MainQuiesces \/ MainGivesUp

Exited == ~Alive /\ UNCHANGED vars

Next == \/ Alive /\ \E r \in Requests : Bounce(r) \/ Accept(r) \/ Wipe(r)
                                        \/ LoopStep(r) \/ WipeStep(r) \/ TaskStep(r)
        \/ Alive /\ (ControlStep \/ CancelCoordinator \/ LoopStops \/ ParentExits \/ MainStep)
        \/ Exited

\* The runtime polls every task that can go on and its timers fire; an
\* operation ends, a paused scan only if it is resumed or cancelled.  Nobody
\* has to send a command or close the engine.
Fairness == /\ \A r \in Requests : /\ WF_vars(Alive /\ LoopStep(r))
                                   /\ WF_vars(Alive /\ WipeStep(r))
                                   /\ WF_vars(Alive /\ TaskStep(r))
            /\ WF_vars(Alive /\ CancelCoordinator)
            /\ WF_vars(Alive /\ MainStep)

Spec == Init /\ [][Next]_vars /\ Fairness

(***************************************************************************)
(* Correctness.                                                            *)
(***************************************************************************)
Stages == {"reading", "arm", "push", "promote", "spawn", "register", "cancel",
           "wipe", "wipewait", "wiping", "stopped"}
TaskStates == Live \cup {"new", "bounced", "left", "ended", "done", "failed", "dispatched", "wiping", "wiped"}
Guards == {"active", "track", "token"}

\* Every variable has the type its declaration names.
TypeOK ==
    /\ loop \in [at : Stages, req : Requests \cup {None}]
    /\ task \in [Requests -> TaskStates]
    /\ owed \in [Requests -> SUBSET Guards]
    /\ gate \in Seq(Requests \cup {Main})
    /\ active \subseteq SingleFlight
    /\ cancel \in [scan : BOOLEAN, deep : BOOLEAN, tokens : SUBSET Requests]
    /\ coord \in [there : BOOLEAN, paused : BOOLEAN, cancelled : BOOLEAN]
    /\ jobs \in [running : Requests \cup {None}, pending : Seq(Requests)]
    /\ main \in {"serving", "cancelscan", "cancelcoord", "cancelrest", "join", "gate", "clean", "unclean"}
    /\ asked \in [{"command", "shutdown"} -> SUBSET Requests]
    /\ controls \in 0..MaxControls

\* The library is changed by one operation at a time, although rejected tasks
\* leave the line in the middle and a loop is aborted while it waits in it.
Working == {r \in Requests : task[r] \in {"entered", "running", "dispatched", "wiping"}}
Serialized == \A q, r \in Working : q = r

\* A wipe finds a quiescent library: every operation dispatched before it has
\* run or has been turned away, so none of them writes to the wiped catalog.
WipeLast ==
    \A w \in Requests : task[w] \in {"dispatched", "wiping"} =>
        \A r \in Requests : task[r] \notin {"accepted", "spawned", "queued", "entered", "running"}

\* What an operation sees when it asks whether it was cancelled.
Cancelled(r) == CASE KindOf[r] = "scan" -> coord.cancelled
                  [] KindOf[r] = "deep" -> cancel.deep
                  [] OTHER -> r \in cancel.tokens

\* A cancel or wipe command reaches every operation accepted before it, also
\* one still in line, or one between parking its coordinator and looking at
\* the flag: none of them goes on working uncancelled.
CancelDelivered ==
    \A r \in asked.command :
        (task[r] = "running" /\ loop.at \notin {"cancel", "wipe"}) => Cancelled(r)

\* And nobody else: no operation that starts is cancelled by a command that
\* came before it was accepted.
CancelAimed ==
    \A r \in Requests : (task[r] = "running" /\ KindOf[r] \in {"scan", "deep"} \cup Tokened /\ Cancelled(r)) =>
        r \in asked.command \cup asked.shutdown

\* The sidebar shows the tracked operation that runs, and no job that is over,
\* as soon as the guards of operations that are over have been dropped.
SidebarTruth ==
    (\A r \in Requests : task[r] \in {"left", "ended"} => "track" \notin owed[r]) =>
        /\ \A r \in Requests : task[r] \in {"entered", "running"} /\ KindOf[r] \in Tracked => jobs.running = r
        /\ jobs.running # None => task[jobs.running] \in Live

\* Every accepted operation is answered: it runs, or is turned away with
\* library_busy; it never waits for ever, behind a paused scan or a task that
\* left the line.
Answered == \A r \in Requests :
    task[r] \in {"accepted", "spawned", "queued", "leaving"} ~>
        task[r] \notin {"accepted", "spawned", "queued", "leaving"} \/ ~Alive

\* The loop always comes back to read the next command (a cancel, say).
LoopServes == loop.at # "reading" ~> loop.at \in {"reading", "stopped"} \/ ~Alive

\* A shutdown always ends, whatever is running, paused or waiting.
ShutdownEnds == main # "serving" ~> ~Alive

\* The same as CancelDelivered for the cancellation of a shutdown.
ShutdownDelivered ==
    \A r \in asked.shutdown :
        (task[r] = "running" /\ main \notin {"cancelscan", "cancelcoord", "cancelrest"}) => Cancelled(r)
=============================================================================
