----------------------- MODULE CommandDispatchProofs -----------------------
(***************************************************************************)
(* Proofs about CommandDispatch, for any set of requests of any kinds and  *)
(* any number of control commands.                                         *)
(***************************************************************************)
EXTENDS CommandDispatch, LineLemmas

USE DispatchAssumption

(***************************************************************************)
(* The inductive invariant.                                                *)
(***************************************************************************)
Waiting == {"queued", "leaving"}
Inside == {"entered", "running", "ended"}
Wiper == {"dispatched", "wiping"}
Over == {"bounced", "left", "done", "failed", "wiped"}
Taking == {"arm", "push", "promote", "spawn"}

\* The gate's line lists nobody twice; an operation stands in it from the poll
\* of the lock on, and whoever works has the permit.
Line ==
    /\ Once(gate)
    /\ Main \in Range(gate) => main \in {"gate", "clean"}
    /\ \A r \in Requests :
        /\ r \in Range(gate) => task[r] \in Waiting \cup Inside \cup Wiper
        /\ task[r] \in Waiting \cup Inside => r \in Range(gate)
        /\ task[r] \in Inside => HeadIs(gate, r)

\* The loop is in one line at a time: nobody else is on the way to the gate.
Loop ==
    /\ loop.at \in Taking \cup {"register", "wipe", "wipewait", "wiping"} => loop.req \in Requests
    /\ loop.at \in {"wipe", "wipewait"} => KindOf[loop.req] = "wipe"
    /\ main \in {"gate", "clean", "unclean"} => At("stopped")
    /\ At("wipewait") => task[loop.req] = "queued" /\ LastIs(gate, loop.req)
    /\ At("wiping") => task[loop.req] \in Wiper /\ HeadIs(gate, loop.req)
    /\ \A r \in Requests :
        /\ task[r] = "accepted" <=> loop.at \in Taking /\ loop.req = r
        /\ task[r] = "spawned" => (At("register") /\ loop.req = r) \/ At("stopped")
        /\ task[r] \in {"accepted", "spawned"} => KindOf[r] # "wipe"
        /\ task[r] \in Wiper => \/ At("wiping") /\ loop.req = r
                                \/ At("stopped") /\ r \notin Range(gate)
        /\ At("wipe") /\ loop.req = r => task[r] = "new"
        /\ task[r] = "queued" /\ KindOf[r] = "wipe" => At("wipewait") /\ loop.req = r

\* While a wipe works every other operation is over, or was never taken.
Alone == \A w \in Requests : task[w] \in Wiper =>
            \A r \in Requests \ {w} : task[r] \in Over \cup {"new"}

Inv == TypeOK /\ Line /\ Loop /\ Alone

(***************************************************************************)
(* The line when somebody leaves it, whether or not he stands in it.       *)
(***************************************************************************)
LEMMA WithoutLine ==
    ASSUME NEW S, NEW s \in Seq(S), NEW r
    PROVE  /\ Without(s, r) \in Seq(S)
           /\ Once(s) => Once(Without(s, r)) /\ Range(Without(s, r)) = Range(s) \ {r}
           /\ \A x : x # r => /\ HeadIs(s, x) => HeadIs(Without(s, r), x)
                              /\ LastIs(s, x) => LastIs(Without(s, r), x)
<1>1. CASE r \in Range(s)
  <2>1. PlaceOf(r, s) \in DOMAIN s /\ s[PlaceOf(r, s)] = r
    BY <1>1 DEF PlaceOf, Range
  <2>2. PlaceOf(r, s) \in 1..Len(s)
    BY <2>1
  <2> QED
    BY <1>1, <2>1, <2>2, RemoveAtElements, RemovePlace, RemoveEnds DEF Without
<1>2. CASE r \notin Range(s)
  BY <1>2 DEF Without
<1> QED
  BY <1>1, <1>2

\* What the invariant says of the gate, for use with the lemmas on lines.
LEMMA GateFacts ==
    ASSUME Inv
    PROVE  /\ gate \in Seq(Requests \cup {Main}) /\ Once(gate)
           /\ \A r : Holder(r) <=> HeadIs(gate, r)
           /\ \A r \in Requests : r \in Range(gate) \/ HeadIs(gate, r) =>
                 task[r] \in Waiting \cup Inside \cup Wiper
<1>1. gate \in Seq(Requests \cup {Main}) /\ Once(gate)
  BY DEF Inv, TypeOK, Line
<1>2. \A r : Holder(r) <=> HeadIs(gate, r)
  BY DEF Holder, HeadIs
<1> QED
  BY <1>1, <1>2, AloneInLine DEF Inv, Line

LEMMA InitInv == Init => Inv
<1> SUFFICES ASSUME Init PROVE Inv
  OBVIOUS
<1>1. <<>> \in Seq(Requests \cup {Main}) /\ <<>> \in Seq(Requests) /\ DOMAIN <<>> = {}
  OBVIOUS
<1>2. TypeOK
  BY <1>1 DEF Init, TypeOK, Reading, NoCoord, Stages, TaskStates
<1>3. Line /\ Loop /\ Alone
  <2>1. Once(gate) /\ Range(gate) = {}
    BY <1>1 DEF Init, Once, Range
  <2> QED
    BY <2>1 DEF Init, Line, Loop, Alone, Reading, At, Waiting, Inside, Wiper, Taking
<1> QED
  BY <1>2, <1>3 DEF Inv

(***************************************************************************)
(* Steps that leave the gate, and every operation, where they are.         *)
(***************************************************************************)
LEMMA QuietStep ==
    ASSUME Inv, TypeOK', UNCHANGED <<task, gate>>,
           \/ UNCHANGED loop
           \/ loop' = Stopped /\ loop.at \in {"reading", "register"}
           \/ loop'.at \in {"reading", "cancel"} /\ loop.at \in {"reading", "cancel"}
           \/ loop' = Reading /\ At("register") /\ task[loop.req] # "spawned"
           \/ loop.at \in Taking /\ loop'.at \in Taking /\ loop'.req = loop.req,
           main' = main \/ main \notin {"gate", "clean"},
           main' \in {"gate", "clean", "unclean"} => At("stopped")
    PROVE  Inv'
<1>1. Line'
  BY DEF Inv, Line
<1>2. Alone'
  BY DEF Inv, Alone
<1>3. Loop'
  BY DEF Inv, Loop, At, Stopped, Reading, Taking, Wiper
<1> QED
  BY <1>1, <1>2, <1>3 DEF Inv

\* The requests and guards a cancellation or a drop can name.
LEMMA HelperTypes ==
    ASSUME TypeOK
    PROVE  /\ \A kinds : InFlight(kinds) \subseteq Requests
           /\ CancelTokens(cancel) \in [scan : BOOLEAN, deep : BOOLEAN, tokens : SUBSET Requests]
           /\ \A who \in {"command", "shutdown"} : \A kinds :
                 Ask(who, kinds) => asked' \in [{"command", "shutdown"} -> SUBSET Requests]
           /\ CancelCoord => coord' \in [there : BOOLEAN, paused : BOOLEAN, cancelled : BOOLEAN]
           /\ Control => controls' \in 0..MaxControls /\ At("reading")
<1>1. \A kinds : InFlight(kinds) \subseteq Requests
  BY DEF InFlight
<1>2. CancelTokens(cancel) \in [scan : BOOLEAN, deep : BOOLEAN, tokens : SUBSET Requests]
  BY DEF TypeOK, CancelTokens, TokensOf
<1>3. ASSUME NEW who \in {"command", "shutdown"}, NEW kinds, Ask(who, kinds)
      PROVE  asked' \in [{"command", "shutdown"} -> SUBSET Requests]
  BY <1>1, <1>3 DEF TypeOK, Ask
<1>4. CancelCoord => coord' \in [there : BOOLEAN, paused : BOOLEAN, cancelled : BOOLEAN]
  BY DEF TypeOK, CancelCoord
<1>5. Control => controls' \in 0..MaxControls /\ At("reading")
  BY DEF TypeOK, Control
<1> QED
  BY <1>1, <1>2, <1>3, <1>4, <1>5

LEMMA JobTypes ==
    ASSUME TypeOK, NEW r \in Requests
    PROVE  /\ Promoted(jobs) \in [running : Requests \cup {None}, pending : Seq(Requests)]
           /\ Finish(jobs, r) \in [running : Requests \cup {None}, pending : Seq(Requests)]
           /\ [jobs EXCEPT !.pending = Append(@, r)] \in
                 [running : Requests \cup {None}, pending : Seq(Requests)]
<1> DEFINE J == [running : Requests \cup {None}, pending : Seq(Requests)]
<1>1. jobs \in J
  BY DEF TypeOK
<1>2. ASSUME NEW j \in J PROVE Promoted(j) \in J
  <2>1. CASE j.pending = <<>>
    BY <2>1 DEF Promoted
  <2>2. CASE j.pending # <<>>
    <3>1. j.pending \in Seq(Requests)
      OBVIOUS
    <3>2. Head(j.pending) \in Requests /\ Tail(j.pending) \in Seq(Requests)
      BY <2>2, <3>1, HeadTailProperties
    <3> QED
      BY <2>2, <3>2 DEF Promoted
  <2> QED
    BY <2>1, <2>2
<1>3. Finish(jobs, r) \in J
  <2>1. CASE jobs.running = r
    <3>1. [jobs EXCEPT !.running = None] \in J
      BY <1>1
    <3> QED
      BY <2>1, <3>1, <1>2 DEF Finish
  <2>2. CASE jobs.running # r
    <3>1. Without(jobs.pending, r) \in Seq(Requests)
      BY <1>1, WithoutLine
    <3> QED
      BY <2>2, <3>1, <1>1 DEF Finish
  <2> QED
    BY <2>1, <2>2
<1>4. [jobs EXCEPT !.pending = Append(@, r)] \in J
  <2>1. jobs.pending \in Seq(Requests)
    BY <1>1
  <2>2. Append(jobs.pending, r) \in Seq(Requests)
    BY <2>1
  <2> QED
    BY <1>1, <2>2
<1> QED
  BY <1>1, <1>2, <1>3, <1>4

LEMMA LineQuiet ==
    ASSUME Inv, NEW r \in Requests,
           Arm(r) \/ Push(r) \/ PromoteNext(r) \/ Registered(r)
    PROVE  Inv'
<1>0. TypeOK
  BY DEF Inv
<1>1. CASE Arm(r)
  <2>1. TypeOK'
    BY <1>0, <1>1 DEF Arm, TypeOK, GoTo, At, Stages, Guards
  <2> QED
    BY <1>1, <2>1, QuietStep DEF Arm, GoTo, At, Taking, Inv, TypeOK, Loop
<1>2. CASE Push(r)
  <2>1. TypeOK'
    BY <1>0, <1>2, JobTypes DEF Push, TypeOK, GoTo, At, Stages, Guards
  <2> QED
    BY <1>2, <2>1, QuietStep DEF Push, GoTo, At, Taking, Inv, TypeOK, Loop
<1>3. CASE PromoteNext(r)
  <2>1. TypeOK'
    BY <1>0, <1>3, JobTypes DEF PromoteNext, TypeOK, GoTo, At, Stages
  <2> QED
    BY <1>3, <2>1, QuietStep DEF PromoteNext, GoTo, At, Taking, Inv, TypeOK, Loop
<1>4. CASE Registered(r)
  <2>1. TypeOK'
    BY <1>0, <1>4 DEF Registered, TypeOK, Reading, Stages
  <2> QED
    BY <1>4, <2>1, QuietStep DEF Registered, At, Reading, Inv, TypeOK, Loop
<1> QED
  BY <1>1, <1>2, <1>3, <1>4

LEMMA DropQuiet ==
    ASSUME Inv, NEW r \in Requests, NEW g, DropGuard(r, g)
    PROVE  Inv'
<1>1. TypeOK
  BY DEF Inv
<1>2. TypeOK'
  BY <1>1, JobTypes DEF DropGuard, TypeOK
<1> QED
  BY <1>2, QuietStep DEF DropGuard, Inv, TypeOK, Loop

LEMMA ControlQuiet ==
    ASSUME Inv, ControlStep \/ CancelCoordinator PROVE Inv'
<1>0. TypeOK
  BY DEF Inv
<1>1. CASE PauseScan \/ ResumeScan
  <2>1. TypeOK'
    BY <1>0, <1>1, HelperTypes DEF PauseScan, ResumeScan, TypeOK
  <2> QED
    BY <1>1, <2>1, QuietStep DEF PauseScan, ResumeScan, Control, Inv, Loop
<1>2. CASE CancelScan
  <2>1. TypeOK'
    BY <1>0, <1>2, HelperTypes DEF CancelScan, GoTo, TypeOK, Stages
  <2> QED
    BY <1>2, <2>1, QuietStep DEF CancelScan, Control, GoTo, At, Inv, TypeOK, Loop
<1>3. CASE DeepAnalyzeCancel
  <2>1. TypeOK'
    BY <1>0, <1>3, HelperTypes DEF DeepAnalyzeCancel, TypeOK
  <2> QED
    BY <1>3, <2>1, QuietStep DEF DeepAnalyzeCancel, Control, Inv, Loop
<1>4. CASE CancelRestructure
  <2>1. TypeOK'
    BY <1>0, <1>4, HelperTypes DEF CancelRestructure, TypeOK
  <2> QED
    BY <1>4, <2>1, QuietStep DEF CancelRestructure, Control, Inv, Loop
<1>5. CASE CancelCoordinator
  <2>1. TypeOK'
    BY <1>0, <1>5, HelperTypes DEF CancelCoordinator, Reading, TypeOK, Stages
  <2> QED
    BY <1>5, <2>1, QuietStep DEF CancelCoordinator, Reading, At, Inv, TypeOK, Loop
<1> QED
  BY <1>1, <1>2, <1>3, <1>4, <1>5 DEF ControlStep

LEMMA MainQuiet ==
    ASSUME Inv, \/ LoopStops \/ ParentExits \/ MainCancelsScan
                \/ MainCancelsCoordinator \/ MainCancelsRest \/ MainQuiesces
    PROVE  Inv'
<1>0. TypeOK
  BY DEF Inv
<1>1. CASE LoopStops \/ ParentExits
  <2>1. TypeOK'
    BY <1>0, <1>1 DEF LoopStops, ParentExits, Woken, Stopped, TypeOK, Stages
  <2> QED
    BY <1>1, <2>1, QuietStep DEF LoopStops, ParentExits, Woken, At, Stopped, Inv, Loop
<1>2. CASE MainCancelsScan
  <2>1. TypeOK'
    BY <1>0, <1>2, HelperTypes DEF MainCancelsScan, TypeOK
  <2> QED
    BY <1>2, <2>1, QuietStep DEF MainCancelsScan
<1>3. CASE MainCancelsCoordinator
  <2>1. TypeOK'
    BY <1>0, <1>3, HelperTypes DEF MainCancelsCoordinator, TypeOK
  <2> QED
    BY <1>3, <2>1, QuietStep DEF MainCancelsCoordinator
<1>4. CASE MainCancelsRest
  <2>1. TypeOK'
    BY <1>0, <1>4, HelperTypes DEF MainCancelsRest, TypeOK
  <2> QED
    BY <1>4, <2>1, QuietStep DEF MainCancelsRest
<1>5. CASE MainQuiesces
  <2>1. TypeOK'
    BY <1>0, <1>5 DEF MainQuiesces, TypeOK
  <2>2. At("stopped")
    BY <1>5 DEF MainQuiesces, Inv, Loop
  <2>3. Line' /\ Loop' /\ Alone'
    BY <1>5, <2>2 DEF MainQuiesces, Inv, Line, Loop, Alone, At
  <2> QED
    BY <2>1, <2>3 DEF Inv
<1> QED
  BY <1>1, <1>2, <1>3, <1>4, <1>5

(***************************************************************************)
(* Steps of one operation that leave the gate as it is.                    *)
(***************************************************************************)
Moves(r, s) ==
    \/ task[r] = "new" /\ s = "bounced" /\ At("reading")
    \/ task[r] = "queued" /\ KindOf[r] # "wipe" /\ s = "leaving"
    \/ task[r] = "queued" /\ KindOf[r] # "wipe" /\ HeadIs(gate, r) /\ s \in {"entered", "running"}
    \/ task[r] = "entered" /\ s \in {"running", "ended"}
    \/ task[r] = "running" /\ s = "ended"
    \/ task[r] = "dispatched" /\ s = "wiping"

LEMMA MoveStep ==
    ASSUME Inv, NEW r \in Requests, NEW s, Moves(r, s), Becomes(r, s), TypeOK',
           UNCHANGED <<loop, gate, main>>
    PROVE  Inv'
<1>0. TypeOK /\ Line /\ Loop /\ Alone
  BY DEF Inv
<1>1. /\ task' \in [Requests -> TaskStates] /\ task'[r] = s
      /\ \A q \in Requests \ {r} : task'[q] = task[q]
  BY <1>0 DEF Becomes, TypeOK
<1>3. Line'
  <2>1. ASSUME NEW q \in Requests
        PROVE  /\ q \in Range(gate') => task'[q] \in Waiting \cup Inside \cup Wiper
               /\ task'[q] \in Waiting \cup Inside => q \in Range(gate')
               /\ task'[q] \in Inside => HeadIs(gate', q)
    <3>1. CASE q # r
      BY <3>1, <1>0, <1>1 DEF Line
    <3>2. CASE q = r
      BY <3>2, <1>0, <1>1 DEF Line, Moves, Waiting, Inside, Wiper
    <3> QED
      BY <3>1, <3>2
  <2> QED
    BY <2>1, <1>0 DEF Line
<1>4. Loop'
  <2>1. ASSUME NEW q \in Requests
        PROVE  /\ task'[q] = "accepted" <=> loop'.at \in Taking /\ loop'.req = q
               /\ task'[q] = "spawned" => (At("register") /\ loop.req = q)' \/ At("stopped")'
               /\ task'[q] \in {"accepted", "spawned"} => KindOf[q] # "wipe"
               /\ task'[q] \in Wiper => \/ (At("wiping") /\ loop.req = q)'
                                        \/ (At("stopped") /\ q \notin Range(gate))'
               /\ (At("wipe") /\ loop.req = q)' => task'[q] = "new"
               /\ task'[q] = "queued" /\ KindOf[q] = "wipe" => (At("wipewait") /\ loop.req = q)'
    <3>1. CASE q # r
      BY <3>1, <1>0, <1>1 DEF Loop, At
    <3>2. CASE q = r
      BY <3>2, <1>0, <1>1 DEF Loop, At, Moves, Wiper, Taking
    <3> QED
      BY <3>1, <3>2
  <2>2. loop.at \in {"wipewait", "wiping"} => loop.req \in Requests
    BY <1>0 DEF Loop
  <2>3. At("wipewait")' => task'[loop'.req] = "queued" /\ LastIs(gate', loop'.req)
    BY <1>0, <1>1, <2>2 DEF Loop, At, Moves
  <2>4. At("wiping")' => task'[loop'.req] \in Wiper /\ HeadIs(gate', loop'.req)
    BY <1>0, <1>1, <2>2 DEF Loop, At, Moves, Wiper
  <2>5. /\ (loop.at \in Taking \cup {"register", "wipe", "wipewait", "wiping"} => loop.req \in Requests)'
        /\ (loop.at \in {"wipe", "wipewait"} => KindOf[loop.req] = "wipe")'
        /\ (main \in {"gate", "clean", "unclean"} => At("stopped"))'
    <3>1. loop' = loop /\ main' = main
      OBVIOUS
    <3> QED
      BY <3>1, <1>0 DEF Loop, At
  <2> QED
    BY <2>1, <2>3, <2>4, <2>5 DEF Loop
<1>5. Alone'
  <2>1. ASSUME NEW w \in Requests, task'[w] \in Wiper, NEW q \in Requests \ {w}
        PROVE  task'[q] \in Over \cup {"new"}
    <3>1. task[w] \in Wiper
      BY <2>1, <1>1 DEF Moves, Wiper
    <3> QED
      BY <2>1, <3>1, <1>0, <1>1 DEF Alone, Moves, Over
  <2> QED
    BY <2>1 DEF Alone
<1> QED
  BY <1>3, <1>4, <1>5 DEF Inv

LEMMA MoveTypes ==
    ASSUME TypeOK, NEW r \in Requests, NEW s \in TaskStates, Becomes(r, s),
           coord' = coord \/ coord' = NoCoord,
           UNCHANGED <<loop, owed, gate, active, cancel, jobs, main, asked, controls>>
    PROVE  TypeOK'
<1>1. task' \in [Requests -> TaskStates]
  BY DEF Becomes, TypeOK
<1>2. NoCoord \in [there : BOOLEAN, paused : BOOLEAN, cancelled : BOOLEAN]
  BY DEF NoCoord
<1>3. coord \in [there : BOOLEAN, paused : BOOLEAN, cancelled : BOOLEAN]
  BY DEF TypeOK
<1>4. coord' \in [there : BOOLEAN, paused : BOOLEAN, cancelled : BOOLEAN]
  BY <1>2, <1>3
<1> QED
  BY <1>1, <1>4 DEF TypeOK

LEMMA TaskMoves ==
    ASSUME Inv, NEW r \in Requests,
           \/ Bounce(r)
           \/ TimesOut(r) \/ Start(r) \/ ScanEnters(r) \/ End(r) \/ WipeLocks(r)
    PROVE  Inv'
<1>0. TypeOK
  BY DEF Inv
<1>1. CASE Bounce(r)
  <2>1. TypeOK'
    BY <1>0, <1>1 DEF Bounce, Becomes, TypeOK, TaskStates
  <2> QED
    BY <1>1, <2>1, MoveStep DEF Bounce, Moves
<1>2. CASE TimesOut(r)
  <2>1. TypeOK'
    BY <1>0, <1>2 DEF TimesOut, Becomes, TypeOK, TaskStates, Live
  <2> QED
    BY <1>2, <2>1, MoveStep DEF TimesOut, Moves
<1>3. CASE Start(r)
  <2>1. TypeOK'
    <3>1. task' \in [Requests -> TaskStates]
      <4>1. \E s \in {"entered", "running"} : task' = [task EXCEPT ![r] = s]
        BY <1>3 DEF Start, Becomes
      <4> QED
        BY <1>0, <4>1 DEF TypeOK, TaskStates, Live
    <3>2. coord' \in [there : BOOLEAN, paused : BOOLEAN, cancelled : BOOLEAN]
      <4>1. coord' = coord \/ coord' = [NoCoord EXCEPT !.there = TRUE]
        BY <1>3 DEF Start
      <4> QED
        BY <1>0, <4>1 DEF NoCoord, TypeOK
    <3> QED
      BY <1>0, <1>3, <3>1, <3>2 DEF Start, TypeOK
  <2> QED
    BY <1>3, <2>1, MoveStep DEF Start, Moves, Holder, HeadIs
<1>4. CASE ScanEnters(r)
  <2>0. /\ coord' = coord \/ coord' = NoCoord
        /\ UNCHANGED <<loop, owed, gate, active, cancel, jobs, main, asked, controls>>
        /\ \E s \in {"running", "ended"} : Becomes(r, s)
    BY <1>4, Zenon DEF ScanEnters
  <2>1. TypeOK'
    BY <1>0, <2>0, MoveTypes DEF TaskStates, Live
  <2> QED
    BY <1>4, <2>0, <2>1, MoveStep DEF ScanEnters, Moves
<1>5. CASE End(r)
  <2>0. /\ coord' = coord \/ coord' = NoCoord
        /\ UNCHANGED <<loop, owed, gate, active, cancel, jobs, main, asked, controls>>
        /\ Becomes(r, "ended")
    BY <1>5, Zenon DEF End
  <2>1. TypeOK'
    BY <1>0, <2>0, MoveTypes DEF TaskStates, Live
  <2> QED
    BY <1>5, <2>0, <2>1, MoveStep DEF End, Moves
<1>6. CASE WipeLocks(r)
  <2>1. TypeOK'
    BY <1>0, <1>6 DEF WipeLocks, Becomes, TypeOK, TaskStates
  <2> QED
    BY <1>6, <2>1, MoveStep DEF WipeLocks, Moves
<1> QED
  BY <1>1, <1>2, <1>3, <1>4, <1>5, <1>6

(***************************************************************************)
(* The loop takes a line up, hands it to a task, or starts the wipe.       *)
(***************************************************************************)
LEMMA LoopTakes ==
    ASSUME Inv, NEW r \in Requests, Accept(r) \/ Spawn(r) \/ Wipe(r)
    PROVE  Inv'
<1>0. TypeOK /\ Line /\ Loop /\ Alone
  BY DEF Inv
<1>1. CASE Accept(r)
  <2>1. TypeOK'
    BY <1>0, <1>1 DEF Accept, Becomes, TypeOK, Stages, TaskStates, Live, Guards, SingleFlight
  <2>2. /\ KindOf[r] # "wipe" /\ task[r] = "new" /\ task'[r] = "accepted" /\ At("reading") /\ gate' = gate /\ main' = main
        /\ \A q \in Requests \ {r} : task'[q] = task[q]
        /\ loop'.at = "arm" /\ loop'.req = r
    BY <1>0, <1>1 DEF Accept, Becomes, TypeOK
  <2>3. Line'
    BY <1>0, <2>2 DEF Line, Waiting, Inside, Wiper
  <2>4. Loop'
    BY <1>0, <2>2 DEF Loop, At, Taking, Wiper
  <2>5. \A w \in Requests : task[w] \notin Wiper
    BY <1>0, <2>2 DEF Loop, At
  <2>6. Alone'
    BY <2>2, <2>5 DEF Alone, Wiper
  <2> QED
    BY <2>1, <2>3, <2>4, <2>6 DEF Inv
<1>2. CASE Spawn(r)
  <2>1. TypeOK'
    BY <1>0, <1>2 DEF Spawn, GoTo, Becomes, TypeOK, Stages, TaskStates, Live
  <2>2. /\ task[r] = "accepted" /\ task'[r] = "spawned" /\ At("spawn") /\ gate' = gate /\ main' = main
        /\ \A q \in Requests \ {r} : task'[q] = task[q]
        /\ loop'.at = "register" /\ loop'.req = r /\ loop.req = r
    BY <1>0, <1>2 DEF Spawn, GoTo, Becomes, TypeOK, Loop, Taking, At
  <2>3. Line'
    BY <1>0, <2>2 DEF Line, Waiting, Inside, Wiper
  <2>4. Loop'
    BY <1>0, <2>2 DEF Loop, At, Taking, Wiper
  <2>5. \A w \in Requests : task[w] \notin Wiper
    BY <1>0, <2>2 DEF Loop, At
  <2>6. Alone'
    BY <2>2, <2>5 DEF Alone, Wiper
  <2> QED
    BY <2>1, <2>3, <2>4, <2>6 DEF Inv
<1>3. CASE Wipe(r)
  <2>1. TypeOK'
    BY <1>0, <1>3, HelperTypes DEF Wipe, TypeOK, Stages
  <2>2. /\ task[r] = "new" /\ task' = task /\ At("reading") /\ gate' = gate /\ main' = main
        /\ loop'.at = "wipe" /\ loop'.req = r /\ KindOf[r] = "wipe"
    BY <1>3 DEF Wipe
  <2>3. Line' /\ Alone'
    BY <1>0, <2>2 DEF Line, Alone
  <2>4. Loop'
    BY <1>0, <2>2 DEF Loop, At, Taking, Wiper
  <2> QED
    BY <2>1, <2>3, <2>4 DEF Inv
<1> QED
  BY <1>1, <1>2, <1>3

(***************************************************************************)
(* Steps that change the line.                                             *)
(***************************************************************************)
LEMMA JoinsLine ==
    ASSUME Inv, NEW x \in Requests \cup {Main}, x \notin Range(gate), NEW g, g = Append(gate, x)
    PROVE  /\ g \in Seq(Requests \cup {Main}) /\ Once(g) /\ Range(g) = Range(gate) \cup {x}
           /\ LastIs(g, x) /\ \A y : HeadIs(gate, y) => HeadIs(g, y)
BY GateFacts, AppendLine, AppendEnds

LEMMA QuitsLine ==
    ASSUME Inv, NEW x, NEW g, g = Without(gate, x)
    PROVE  /\ g \in Seq(Requests \cup {Main}) /\ Once(g) /\ Range(g) = Range(gate) \ {x}
           /\ \A y : y # x => /\ HeadIs(gate, y) => HeadIs(g, y)
                              /\ LastIs(gate, y) => LastIs(g, y)
BY GateFacts, WithoutLine

LEMMA HandsOn ==
    ASSUME Inv, NEW x, HeadIs(gate, x), NEW g, g = Tail(gate)
    PROVE  /\ g \in Seq(Requests \cup {Main}) /\ Once(g) /\ Range(g) = Range(gate) \ {x}
           /\ \A y : HeadIs(gate, y) => y = x
           /\ \A y : y # x /\ LastIs(gate, y) => LastIs(g, y)
<1>1. gate # <<>> /\ Head(gate) = x
  BY DEF HeadIs
<1> QED
  BY <1>1, GateFacts, TailLine DEF HeadIs

LEMMA RegisterInv ==
    ASSUME Inv, NEW r \in Requests, Register(r) PROVE Inv'
<1>0. TypeOK /\ Line /\ Loop /\ Alone
  BY DEF Inv
<1>1. /\ task[r] = "spawned" /\ task'[r] = "queued" /\ task' \in [Requests -> TaskStates]
      /\ \A q \in Requests \ {r} : task'[q] = task[q]
      /\ loop' = loop /\ main' = main /\ gate' = Append(gate, r)
  BY <1>0 DEF Register, Becomes, TypeOK, TaskStates, Live
<1>2. r \notin Range(gate)
  BY <1>0, <1>1 DEF Line, Waiting, Inside, Wiper
<1>3. /\ gate' \in Seq(Requests \cup {Main}) /\ Once(gate') /\ Range(gate') = Range(gate) \cup {r}
      /\ \A y : HeadIs(gate, y) => HeadIs(gate', y)
  BY <1>1, <1>2, JoinsLine
<1>4. TypeOK'
  BY <1>0, <1>1, <1>3 DEF Register, TypeOK
<1>5. Line'
  BY <1>0, <1>1, <1>3 DEF Line, Waiting, Inside, Wiper
<1>6. KindOf[r] # "wipe" /\ loop.at \notin {"wipewait", "wiping"}
  BY <1>0, <1>1 DEF Loop, At
<1>7. Loop'
  BY <1>0, <1>1, <1>3, <1>6 DEF Loop, At, Taking, Wiper
<1>8. Alone'
  BY <1>0, <1>1 DEF Alone, Wiper, Over
<1> QED
  BY <1>4, <1>5, <1>7, <1>8 DEF Inv

LEMMA LeaveInv ==
    ASSUME Inv, NEW r \in Requests, Leave(r) PROVE Inv'
<1>0. TypeOK /\ Line /\ Loop /\ Alone
  BY DEF Inv
<1>1. /\ task[r] = "leaving" /\ task'[r] = "left" /\ task' \in [Requests -> TaskStates]
      /\ \A q \in Requests \ {r} : task'[q] = task[q]
      /\ loop' = loop /\ main' = main /\ gate' = Without(gate, r)
  BY <1>0 DEF Leave, Becomes, TypeOK, TaskStates
<1>3. /\ gate' \in Seq(Requests \cup {Main}) /\ Once(gate') /\ Range(gate') = Range(gate) \ {r}
      /\ \A y : y # r => /\ HeadIs(gate, y) => HeadIs(gate', y)
                         /\ LastIs(gate, y) => LastIs(gate', y)
  BY <1>1, QuitsLine
<1>4. TypeOK'
  BY <1>0, <1>1, <1>3 DEF Leave, TypeOK
<1>5. Line'
  BY <1>0, <1>1, <1>3 DEF Line, Waiting, Inside, Wiper
<1>7. Loop'
  BY <1>0, <1>1, <1>3 DEF Loop, At, Taking, Wiper
<1>8. Alone'
  BY <1>0, <1>1 DEF Alone, Wiper, Over
<1> QED
  BY <1>4, <1>5, <1>7, <1>8 DEF Inv

LEMMA ReleaseInv ==
    ASSUME Inv, NEW r \in Requests, Release(r) PROVE Inv'
<1>0. TypeOK /\ Line /\ Loop /\ Alone
  BY DEF Inv
<1>1. /\ task[r] = "ended" /\ task'[r] = "done" /\ task' \in [Requests -> TaskStates]
      /\ \A q \in Requests \ {r} : task'[q] = task[q]
      /\ loop' = loop /\ main' = main /\ gate' = Tail(gate)
  BY <1>0 DEF Release, Becomes, TypeOK, TaskStates
<1>2. HeadIs(gate, r)
  BY <1>0, <1>1 DEF Line, Inside
<1>3. /\ gate' \in Seq(Requests \cup {Main}) /\ Once(gate') /\ Range(gate') = Range(gate) \ {r}
      /\ \A y : HeadIs(gate, y) => y = r
      /\ \A y : y # r /\ LastIs(gate, y) => LastIs(gate', y)
  BY <1>1, <1>2, HandsOn
<1>4. TypeOK'
  BY <1>0, <1>1, <1>3 DEF Release, TypeOK
<1>5. Line'
  BY <1>0, <1>1, <1>3 DEF Line, Waiting, Inside, Wiper
<1>6. ~At("wiping")
  BY <1>0, <1>1, <1>3 DEF Loop, At, Wiper
<1>7. Loop'
  BY <1>0, <1>1, <1>3, <1>6 DEF Loop, At, Taking, Wiper
<1>8. Alone'
  BY <1>0, <1>1 DEF Alone, Wiper, Over
<1> QED
  BY <1>4, <1>5, <1>7, <1>8 DEF Inv

LEMMA WipeQueuesInv ==
    ASSUME Inv, NEW r \in Requests, WipeQueues(r) PROVE Inv'
<1>0. TypeOK /\ Line /\ Loop /\ Alone
  BY DEF Inv
<1>1. /\ At("wipe") /\ loop.req = r /\ loop'.at = "wipewait" /\ loop'.req = r
      /\ task'[r] = "queued" /\ task' \in [Requests -> TaskStates]
      /\ \A q \in Requests \ {r} : task'[q] = task[q]
      /\ main' = main /\ gate' = Append(gate, r)
  BY <1>0 DEF WipeQueues, GoTo, At, Becomes, TypeOK, TaskStates, Live
<1>2. task[r] = "new" /\ KindOf[r] = "wipe" /\ r \notin Range(gate)
  BY <1>0, <1>1 DEF Line, Loop, At, Waiting, Inside, Wiper
<1>3. /\ gate' \in Seq(Requests \cup {Main}) /\ Once(gate') /\ Range(gate') = Range(gate) \cup {r}
      /\ LastIs(gate', r) /\ \A y : HeadIs(gate, y) => HeadIs(gate', y)
  BY <1>1, <1>2, JoinsLine
<1>4. TypeOK'
  <2>1. asked' \in [{"command", "shutdown"} -> SUBSET Requests]
        /\ coord' \in [there : BOOLEAN, paused : BOOLEAN, cancelled : BOOLEAN]
    BY <1>0, HelperTypes DEF WipeQueues
  <2>2. loop' \in [at : Stages, req : Requests \cup {None}]
    BY <1>0 DEF WipeQueues, GoTo, TypeOK, Stages
  <2> QED
    BY <1>0, <1>1, <1>3, <2>1, <2>2 DEF WipeQueues, TypeOK
<1>5. Line'
  BY <1>0, <1>1, <1>2, <1>3 DEF Line, Waiting, Inside, Wiper
<1>6. \A w \in Requests : task[w] \notin Wiper
  BY <1>0, <1>1 DEF Loop, At
<1>7. Loop'
  BY <1>0, <1>1, <1>2, <1>3, <1>6 DEF Loop, At, Taking, Wiper
<1>8. Alone'
  BY <1>1, <1>6 DEF Alone, Wiper
<1> QED
  BY <1>4, <1>5, <1>7, <1>8 DEF Inv

LEMMA WipeTimesOutInv ==
    ASSUME Inv, NEW r \in Requests, WipeTimesOut(r) PROVE Inv'
<1>0. TypeOK /\ Line /\ Loop /\ Alone
  BY DEF Inv
<1>1. /\ At("wipewait") /\ loop.req = r /\ loop' = Reading
      /\ task'[r] = "failed" /\ task' \in [Requests -> TaskStates]
      /\ \A q \in Requests \ {r} : task'[q] = task[q]
      /\ main' = main /\ gate' = Without(gate, r)
  BY <1>0 DEF WipeTimesOut, At, Becomes, TypeOK, TaskStates
<1>2. task[r] = "queued"
  BY <1>0, <1>1 DEF Loop, At
<1>3. /\ gate' \in Seq(Requests \cup {Main}) /\ Once(gate') /\ Range(gate') = Range(gate) \ {r}
      /\ \A y : y # r => (HeadIs(gate, y) => HeadIs(gate', y))
  BY <1>1, QuitsLine
<1>4. TypeOK'
  BY <1>0, <1>1, <1>3 DEF WipeTimesOut, TypeOK, Reading, Stages
<1>5. Line'
  BY <1>0, <1>1, <1>3 DEF Line, Waiting, Inside, Wiper
<1>7. Loop'
  BY <1>0, <1>1, <1>2 DEF Loop, At, Taking, Wiper, Reading
<1>8. Alone'
  BY <1>0, <1>1 DEF Alone, Wiper, Over
<1> QED
  BY <1>4, <1>5, <1>7, <1>8 DEF Inv

\* The wipe stands last since it queued: holding the permit, it stands alone.
LEMMA WipeStartsInv ==
    ASSUME Inv, NEW r \in Requests, WipeStarts(r) PROVE Inv'
<1>0. TypeOK /\ Line /\ Loop /\ Alone
  BY DEF Inv
<1>1. /\ At("wipewait") /\ loop.req = r /\ loop'.at = "wiping" /\ loop'.req = r
      /\ task'[r] = "dispatched" /\ task' \in [Requests -> TaskStates]
      /\ \A q \in Requests \ {r} : task'[q] = task[q]
      /\ main' = main /\ gate' = gate
  BY <1>0 DEF WipeStarts, GoTo, At, Becomes, TypeOK, TaskStates
<1>2. HeadIs(gate, r)
  BY GateFacts DEF WipeStarts
<1>3. task[r] = "queued" /\ Range(gate) = {r}
  BY <1>0, <1>1, <1>2, GateFacts, AloneInLine DEF Loop, At
<1>4. TypeOK'
  BY <1>0, <1>1 DEF WipeStarts, GoTo, TypeOK, Stages
<1>5. Line'
  BY <1>0, <1>1, <1>2, <1>3 DEF Line, Waiting, Inside, Wiper
<1>6. \A q \in Requests \ {r} : task[q] \in Over \cup {"new"}
  <2>1. ASSUME NEW q \in Requests \ {r} PROVE task[q] \in Over \cup {"new"}
    <3>1. task[q] \notin Waiting \cup Inside
      BY <1>0, <1>3 DEF Line
    <3>2. task[q] \notin {"accepted", "spawned"} \cup Wiper
      BY <1>0, <1>1 DEF Loop, At, Taking
    <3> QED
      BY <1>0, <3>1, <3>2 DEF TypeOK, TaskStates, Live, Waiting, Inside, Wiper, Over
  <2> QED
    BY <2>1
<1>7. Loop'
  BY <1>0, <1>1, <1>2, <1>3, <1>6 DEF Loop, At, Taking, Wiper, Over
<1>8. Alone'
  <2>1. \A w \in Requests : task'[w] \in Wiper => w = r
    BY <1>1, <1>6 DEF Wiper, Over
  <2> QED
    BY <1>1, <1>6, <2>1 DEF Alone
<1> QED
  BY <1>4, <1>5, <1>7, <1>8 DEF Inv

LEMMA WipeEndsInv ==
    ASSUME Inv, NEW r \in Requests, WipeEnds(r) PROVE Inv'
<1>0. TypeOK /\ Line /\ Loop /\ Alone
  BY DEF Inv
<1>1. /\ task[r] = "wiping" /\ task'[r] = "wiped" /\ task' \in [Requests -> TaskStates]
      /\ \A q \in Requests \ {r} : task'[q] = task[q]
      /\ main' = main
  BY <1>0 DEF WipeEnds, Becomes, TypeOK, TaskStates
<1>2. \A q \in Requests \ {r} : task[q] \in Over \cup {"new"}
  BY <1>0, <1>1 DEF Alone, Wiper
<1>3. Alone'
  BY <1>1, <1>2 DEF Alone, Wiper, Over
<1>4. CASE At("wiping")
  <2>1. loop' = Reading /\ gate' = Tail(gate) /\ HeadIs(gate, r)
    BY <1>0, <1>1, <1>4 DEF WipeEnds, Loop, At, Wiper
  <2>2. gate' \in Seq(Requests \cup {Main}) /\ Once(gate') /\ Range(gate') = Range(gate) \ {r}
    BY <2>1, HandsOn
  <2>3. TypeOK'
    BY <1>0, <1>1, <2>1, <2>2 DEF WipeEnds, TypeOK, Reading, Stages
  <2>4. Line'
    BY <1>0, <1>1, <1>2, <2>2 DEF Line, Waiting, Inside, Wiper, Over
  <2>5. Loop'
    BY <1>0, <1>1, <1>2, <1>4, <2>1 DEF Loop, At, Taking, Wiper, Reading, Over
  <2> QED
    BY <1>3, <2>3, <2>4, <2>5 DEF Inv
<1>5. CASE ~At("wiping")
  <2>1. loop' = loop /\ gate' = gate /\ At("stopped") /\ r \notin Range(gate)
    BY <1>0, <1>1, <1>5 DEF WipeEnds, Loop, Wiper
  <2>2. TypeOK'
    BY <1>0, <1>1, <2>1 DEF WipeEnds, TypeOK
  <2>4. Line'
    BY <1>0, <1>1, <1>2, <2>1 DEF Line, Waiting, Inside, Wiper, Over
  <2>5. Loop'
    BY <1>0, <1>1, <1>2, <2>1 DEF Loop, At, Taking, Wiper, Over
  <2> QED
    BY <1>3, <2>2, <2>4, <2>5 DEF Inv
<1> QED
  BY <1>4, <1>5

LEMMA LoopJoinedInv ==
    ASSUME Inv, LoopJoined PROVE Inv'
<1>0. TypeOK /\ Line /\ Loop /\ Alone
  BY DEF Inv
<1>1. /\ main = "join" /\ At("stopped") /\ main' = "gate" /\ loop' = loop /\ task' = task
      /\ gate' = Append(gate, Main)
  BY DEF LoopJoined, MainQueues
<1>2. Main \notin Range(gate)
  BY <1>0, <1>1 DEF Line
<1>3. /\ gate' \in Seq(Requests \cup {Main}) /\ Once(gate') /\ Range(gate') = Range(gate) \cup {Main}
      /\ \A y : HeadIs(gate, y) => HeadIs(gate', y)
  BY <1>1, <1>2, JoinsLine
<1>4. TypeOK'
  BY <1>0, <1>1, <1>3 DEF LoopJoined, TypeOK
<1>5. Line'
  BY <1>0, <1>1, <1>3 DEF Line
<1>6. Loop' /\ Alone'
  BY <1>0, <1>1, <1>3 DEF Loop, Alone, At
<1> QED
  BY <1>4, <1>5, <1>6 DEF Inv

LEMMA MainGivesUpInv ==
    ASSUME Inv, MainGivesUp PROVE Inv'
<1>0. TypeOK /\ Line /\ Loop /\ Alone
  BY DEF Inv
<1>1. /\ main = "gate" /\ main' = "unclean" /\ loop' = loop /\ task' = task
      /\ gate' = Without(gate, Main)
  BY DEF MainGivesUp
<1>3. /\ gate' \in Seq(Requests \cup {Main}) /\ Once(gate') /\ Range(gate') = Range(gate) \ {Main}
      /\ \A y : y # Main => (HeadIs(gate, y) => HeadIs(gate', y))
  BY <1>1, QuitsLine
<1>4. TypeOK'
  BY <1>0, <1>1, <1>3 DEF MainGivesUp, TypeOK
<1>5. Line'
  BY <1>0, <1>1, <1>3 DEF Line
<1>6. Loop' /\ Alone'
  BY <1>0, <1>1, <1>3 DEF Loop, Alone, At
<1> QED
  BY <1>4, <1>5, <1>6 DEF Inv

\* The line the main task joins when it has aborted the loop: a wipe the loop
\* awaited has left it.
LEMMA AbortedLine ==
    ASSUME Inv, LoopAborted,
           NEW L, L = IF loop.at \in {"wipewait", "wiping"} THEN {loop.req} ELSE {}
    PROVE  /\ gate' \in Seq(Requests \cup {Main}) /\ Once(gate')
           /\ Range(gate') = (Range(gate) \ L) \cup {Main}
           /\ \A y : y \notin L => (HeadIs(gate, y) => HeadIs(gate', y))
<1> DEFINE g == IF loop.at \in {"wipewait", "wiping"} THEN Without(gate, loop.req) ELSE gate
<1>1. gate' = Append(g, Main) /\ main = "join"
  BY DEF LoopAborted
<1>2. /\ g \in Seq(Requests \cup {Main}) /\ Once(g) /\ Range(g) = Range(gate) \ L
      /\ \A y : y \notin L => (HeadIs(gate, y) => HeadIs(g, y))
  BY GateFacts, QuitsLine
<1>3. Main \notin Range(g)
  BY <1>1, <1>2 DEF Inv, Line
<1> HIDE DEF g
<1> QED
  BY <1>1, <1>2, <1>3, AppendLine, AppendEnds

LEMMA LoopAbortedInv ==
    ASSUME Inv, LoopAborted PROVE Inv'
<1> DEFINE L == IF loop.at \in {"wipewait", "wiping"} THEN {loop.req} ELSE {}
<1>0. TypeOK /\ Line /\ Loop /\ Alone
  BY DEF Inv
<1>1. /\ main = "join" /\ main' = "gate" /\ loop'.at = "stopped" /\ loop' = Stopped
      /\ loop.at \in {"reading", "register", "wipewait", "wiping"}
  BY DEF LoopAborted, Stopped
<1>2. /\ task' \in [Requests -> TaskStates]
      /\ \A q \in Requests : task'[q] = IF At("wipewait") /\ q = loop.req THEN "failed" ELSE task[q]
  BY <1>0 DEF LoopAborted, TypeOK, TaskStates
<1>3. /\ gate' \in Seq(Requests \cup {Main}) /\ Once(gate')
      /\ Range(gate') = (Range(gate) \ L) \cup {Main}
      /\ \A y : y \notin L => (HeadIs(gate, y) => HeadIs(gate', y))
  BY AbortedLine
<1>4. TypeOK'
  BY <1>0, <1>1, <1>2, <1>3 DEF LoopAborted, Stopped, TypeOK, Stages
<1>5. Line'
  <2>1. ASSUME NEW q \in Requests
        PROVE  /\ q \in Range(gate') => task'[q] \in Waiting \cup Inside \cup Wiper
               /\ task'[q] \in Waiting \cup Inside => q \in Range(gate')
               /\ task'[q] \in Inside => HeadIs(gate', q)
    <3>1. CASE q \in L
      <4>1. task'[q] \in Wiper \cup {"failed"} /\ q \notin Range(gate')
        BY <3>1, <1>0, <1>2, <1>3 DEF Loop, At
      <4> QED
        BY <4>1 DEF Waiting, Inside, Wiper
    <3>2. CASE q \notin L
      BY <3>2, <1>0, <1>2, <1>3 DEF Line, At
    <3> QED
      BY <3>1, <3>2
  <2> QED
    BY <2>1, <1>1, <1>3 DEF Line
<1>6. Loop'
  <2>1. ASSUME NEW q \in Requests
        PROVE  /\ task'[q] # "accepted"
               /\ task'[q] = "spawned" => KindOf[q] # "wipe"
               /\ task'[q] \in Wiper => q \notin Range(gate')
               /\ task'[q] = "queued" => KindOf[q] # "wipe"
    BY <1>0, <1>1, <1>2, <1>3 DEF Loop, At, Taking, Wiper
  <2> QED
    BY <2>1, <1>1 DEF Loop, At, Taking
<1>7. Alone'
  BY <1>0, <1>2 DEF Alone, Wiper, Over
<1> QED
  BY <1>4, <1>5, <1>6, <1>7 DEF Inv

LEMMA InvStep == Inv /\ [Next]_vars => Inv'
<1> SUFFICES ASSUME Inv, [Next]_vars PROVE Inv'
  OBVIOUS
<1>1. ASSUME NEW r \in Requests, Bounce(r) \/ Accept(r) \/ Wipe(r) PROVE Inv'
  BY <1>1, TaskMoves, LoopTakes
<1>2. ASSUME NEW r \in Requests, LoopStep(r) PROVE Inv'
  BY <1>2, LineQuiet, LoopTakes DEF LoopStep
<1>3. ASSUME NEW r \in Requests, WipeStep(r) PROVE Inv'
  BY <1>3, WipeQueuesInv, WipeTimesOutInv, WipeStartsInv, TaskMoves, WipeEndsInv DEF WipeStep
<1>4. ASSUME NEW r \in Requests, TaskStep(r) PROVE Inv'
  BY <1>4, RegisterInv, LeaveInv, TaskMoves, DropQuiet, ReleaseInv DEF TaskStep
<1>5. CASE ControlStep \/ CancelCoordinator \/ LoopStops \/ ParentExits
  BY <1>5, ControlQuiet, MainQuiet
<1>6. CASE MainStep
  BY <1>6, MainQuiet, LoopJoinedInv, LoopAbortedInv, MainGivesUpInv DEF MainStep
<1>7. CASE Exited \/ UNCHANGED vars
  <2>1. UNCHANGED vars
    BY <1>7 DEF Exited
  <2> QED
    BY <2>1 DEF vars, Inv, TypeOK, Line, Loop, Alone, At
<1> QED
  BY <1>1, <1>2, <1>3, <1>4, <1>5, <1>6, <1>7 DEF Next

\* The lists, flags and the gate keep their types: the permit is handed on
\* only by somebody who has it.
THEOREM TypeCorrect == Spec => []TypeOK
<1>1. Inv => TypeOK
  BY DEF Inv
<1> QED
  BY <1>1, InitInv, InvStep, PTL DEF Spec

\* The library is changed by one operation at a time, whoever leaves the line
\* in the middle and wherever the loop is aborted (server.rs, mutation_gate).
THEOREM SerializedCorrect == Spec => []Serialized
<1>1. Inv => Serialized
  <2> SUFFICES ASSUME Inv, NEW q \in Working, NEW r \in Working PROVE q = r
    BY DEF Serialized
  <2>1. task[q] \in Wiper \/ task[r] \in Wiper => q = r
    BY DEF Inv, Alone, Working, Wiper, Over
  <2>2. HeadIs(gate, q) /\ HeadIs(gate, r) => q = r
    BY DEF HeadIs
  <2> QED
    BY <2>1, <2>2 DEF Inv, Line, Working, Wiper, Inside
<1> QED
  BY <1>1, InitInv, InvStep, PTL DEF Spec

\* A wipe finds every operation dispatched before it over, for any number of
\* operations (commands/wipe.rs, handle_wipe_library).
THEOREM WipeLastCorrect == Spec => []WipeLast
<1>1. Inv => WipeLast
  BY DEF Inv, Alone, WipeLast, Wiper, Over
<1> QED
  BY <1>1, InitInv, InvStep, PTL DEF Spec

(***************************************************************************)
(* The sidebar: the jobs stand in the order in which the operations take   *)
(* the gate, so that the one shown as running is the one that has it.      *)
(***************************************************************************)
InJobs(r) == r = jobs.running \/ r \in Range(jobs.pending)
Ahead(q, r) == \/ q = jobs.running /\ r \in Range(jobs.pending)
               \/ Before(jobs.pending, q, r)

\* A job is listed, once, as long as its guard is owed; only a job pushed into
\* an idle queue waits there for its promotion.
Listed ==
    /\ Once(jobs.pending)
    /\ jobs.running \notin Range(jobs.pending)
    /\ \A r \in Requests : InJobs(r) <=> "track" \in owed[r]
    /\ \A r \in Range(jobs.pending) :
          jobs.running = None => At("promote") /\ loop.req = r

\* A tracked operation owes its guard from the push on.
Tracking ==
    /\ loop.at \in {"push", "promote"} => KindOf[loop.req] \in Tracked
    /\ loop.at \in {"arm", "push"} => "track" \notin owed[loop.req]
    /\ \A r \in Requests :
        /\ "track" \in owed[r] => KindOf[r] \in Tracked /\ task[r] \in Live \cup {"left", "ended"}
        /\ task[r] \in Live /\ KindOf[r] \in Tracked =>
              "track" \in owed[r] \/ (loop.at \in {"arm", "push"} /\ loop.req = r)

\* Whoever is listed ahead came to the gate first.
SameOrder == \A q, r \in Requests : Ahead(q, r) =>
    task[q] \notin {"accepted", "spawned"} /\ ~Before(gate, r, q)

JobsInv == Listed /\ Tracking /\ SameOrder

LEMMA JobsTyped ==
    ASSUME TypeOK
    PROVE  /\ jobs.pending \in Seq(Requests) /\ Range(jobs.pending) \subseteq Requests
           /\ jobs.running \in Requests \cup {None}
           /\ jobs = [running |-> jobs.running, pending |-> jobs.pending]
           /\ jobs.pending # <<>> => Head(jobs.pending) \in Range(jobs.pending)
<1>1. /\ jobs.pending \in Seq(Requests) /\ jobs.running \in Requests \cup {None}
      /\ jobs = [running |-> jobs.running, pending |-> jobs.pending]
  BY DEF TypeOK
<1>2. \A i \in DOMAIN jobs.pending : jobs.pending[i] \in Requests
  BY <1>1
<1>3. jobs.pending # <<>> => Head(jobs.pending) = jobs.pending[1] /\ 1 \in DOMAIN jobs.pending
  BY <1>1
<1> QED
  BY <1>1, <1>2, <1>3 DEF Range

\* Being ahead of somebody means being listed.
LEMMA AheadListed ==
    ASSUME TypeOK, Listed, NEW q \in Requests, NEW r \in Requests, Ahead(q, r)
    PROVE  "track" \in owed[q] /\ "track" \in owed[r]
<1>1. InJobs(q) /\ InJobs(r)
  BY JobsTyped, BeforeEnds DEF Ahead, InJobs
<1> QED
  BY <1>1 DEF Listed

LEMMA WithoutBefore ==
    ASSUME NEW S, NEW s \in Seq(S), NEW r, NEW x, NEW y, Before(Without(s, r), x, y)
    PROVE  Before(s, x, y)
<1>1. CASE r \in Range(s)
  <2>1. PlaceOf(r, s) \in DOMAIN s
    BY <1>1 DEF PlaceOf, Range
  <2> QED
    BY <1>1, <2>1, BeforeKept DEF Without
<1> QED
  BY <1>1 DEF Without

LEMMA InitJobs == Init => JobsInv
<1> SUFFICES ASSUME Init PROVE JobsInv
  OBVIOUS
<1>1. /\ jobs.pending = <<>> /\ jobs.running = None /\ DOMAIN jobs.pending = {}
      /\ Range(jobs.pending) = {}
  BY DEF Init, Range
<1>2. Listed /\ SameOrder
  BY <1>1 DEF Init, Listed, SameOrder, Ahead, Before, InJobs, Once
<1>3. Tracking
  BY DEF Init, Tracking, Reading, Live
<1> QED
  BY <1>2, <1>3 DEF JobsInv

\* A step that keeps the list and the guards: the operations in the list may
\* move on, and the gate's line may be left, or joined by one that was spawned
\* or is not tracked.
LEMMA ListKept ==
    ASSUME Inv, JobsInv, UNCHANGED <<jobs, owed>>,
           loop' = loop \/ (loop.at \notin Taking /\ loop'.at \notin Taking),
           \A q \in Requests :
              \/ task'[q] = task[q]
              \/ /\ task'[q] \notin {"accepted", "spawned"}
                 /\ task'[q] \in Live => task[q] \in Live \/ KindOf[q] \notin Tracked
                 /\ "track" \in owed[q] => task'[q] \in Live \cup {"left", "ended"},
           \A x, y \in Requests : Before(gate', x, y) =>
              Before(gate, x, y) \/ task[y] = "spawned" \/ KindOf[y] \notin Tracked
    PROVE  JobsInv'
<1>1. Listed'
  BY DEF JobsInv, Listed, InJobs, At, Taking
<1>2. Tracking'
  BY DEF JobsInv, Tracking, Taking
<1>3. SameOrder'
  <2> SUFFICES ASSUME NEW q \in Requests, NEW r \in Requests, Ahead(q, r)
               PROVE  task'[q] \notin {"accepted", "spawned"} /\ ~Before(gate', r, q)
    BY DEF SameOrder, Ahead
  <2>1. "track" \in owed[q]
    BY AheadListed DEF Inv, JobsInv
  <2>2. KindOf[q] \in Tracked
    BY <2>1 DEF JobsInv, Tracking
  <2>3. task[q] \notin {"accepted", "spawned"} /\ ~Before(gate, r, q)
    BY DEF JobsInv, SameOrder
  <2> QED
    BY <2>2, <2>3
<1> QED
  BY <1>1, <1>2, <1>3 DEF JobsInv

\* What the gate's line may become in a step that keeps the list.
LEMMA GateKept ==
    ASSUME Inv, NEW x \in Requests, NEW y \in Requests
    PROVE  /\ \A q : Before(Without(gate, q), x, y) => Before(gate, x, y)
           /\ gate # <<>> /\ Before(Tail(gate), x, y) => Before(gate, x, y)
           /\ \A q \in Requests \cup {Main} :
                 Before(Append(gate, q), x, y) => Before(gate, x, y) \/ y = q
           /\ \A q : Before(Append(Without(gate, q), Main), x, y) => Before(gate, x, y)
<1>1. gate \in Seq(Requests \cup {Main})
  BY DEF Inv, TypeOK
<1>2. \A q : Without(gate, q) \in Seq(Requests \cup {Main})
  BY <1>1, WithoutLine
<1>3. \A q : Before(Without(gate, q), x, y) => Before(gate, x, y)
  BY <1>1, WithoutBefore
<1>4. \A q : Before(Append(Without(gate, q), Main), x, y) => Before(Without(gate, q), x, y)
  BY <1>2, BeforeKept
<1> QED
  BY <1>1, <1>3, <1>4, BeforeKept

\* One operation moves on, the gate's line with it.
LEMMA OneMoves ==
    ASSUME Inv, JobsInv, NEW r \in Requests, NEW s, Becomes(r, s),
           s \notin {"accepted", "spawned"},
           s \in Live => task[r] \in Live \/ KindOf[r] \notin Tracked,
           "track" \in owed[r] => s \in Live \cup {"left", "ended"},
           UNCHANGED <<jobs, owed>>,
           loop' = loop \/ (loop.at \notin Taking /\ loop'.at \notin Taking),
           \/ gate' = gate
           \/ gate' = Without(gate, r)
           \/ gate # <<>> /\ gate' = Tail(gate)
           \/ gate' = Append(gate, r) /\ (task[r] = "spawned" \/ KindOf[r] \notin Tracked)
    PROVE  JobsInv'
<1>1. task'[r] = s /\ \A q \in Requests \ {r} : task'[q] = task[q]
  BY DEF Inv, TypeOK, Becomes
<1>2. \A x, y \in Requests : Before(gate', x, y) =>
         Before(gate, x, y) \/ task[y] = "spawned" \/ KindOf[y] \notin Tracked
  BY GateKept
<1>3. \A q \in Requests :
         \/ task'[q] = task[q]
         \/ /\ task'[q] \notin {"accepted", "spawned"}
            /\ task'[q] \in Live => task[q] \in Live \/ KindOf[q] \notin Tracked
            /\ "track" \in owed[q] => task'[q] \in Live \cup {"left", "ended"}
  BY <1>1
<1> QED
  BY <1>2, <1>3, ListKept

LEMMA OperationJobs ==
    ASSUME Inv, JobsInv, NEW r \in Requests,
           \/ Bounce(r) \/ Register(r) \/ TimesOut(r) \/ Leave(r) \/ Start(r)
           \/ ScanEnters(r) \/ End(r) \/ Release(r)
    PROVE  JobsInv'
<1>1. CASE Bounce(r)
  <2>1. "track" \notin owed[r]
    BY <1>1 DEF Bounce, JobsInv, Tracking, Live
  <2> QED
    BY <1>1, <2>1, OneMoves DEF Bounce, Live
<1>2. CASE Register(r)
  BY <1>2, OneMoves DEF Register, Live
<1>3. CASE TimesOut(r)
  BY <1>3, OneMoves DEF TimesOut, Live
<1>4. CASE Leave(r)
  BY <1>4, OneMoves DEF Leave, Live
<1>5. CASE Start(r)
  BY <1>5, OneMoves DEF Start, Live
<1>6. CASE ScanEnters(r)
  BY <1>6, OneMoves DEF ScanEnters, Live
<1>7. CASE End(r)
  <2>1. Becomes(r, "ended") /\ UNCHANGED <<loop, owed, gate, jobs>>
    BY <1>7, Zenon DEF End
  <2> QED
    BY <2>1, OneMoves DEF Live
<1>8. CASE Release(r)
  <2>1. gate # <<>>
    BY <1>8 DEF Release, Inv, Line, Inside, HeadIs
  <2> QED
    BY <1>8, <2>1, OneMoves DEF Release, Live
<1> QED
  BY <1>1, <1>2, <1>3, <1>4, <1>5, <1>6, <1>7, <1>8

LEMMA WipeJobs ==
    ASSUME Inv, JobsInv, NEW r \in Requests, WipeStep(r)
    PROVE  JobsInv'
<1>1. KindOf[r] = "wipe" => KindOf[r] \notin Tracked
  BY DEF Tracked
<1>2. CASE WipeQueues(r)
  <2>1. KindOf[r] = "wipe" /\ task[r] = "new"
    BY <1>2 DEF WipeQueues, Inv, Loop, At
  <2>2. "track" \notin owed[r]
    BY <2>1 DEF JobsInv, Tracking, Live
  <2>3. loop.at \notin Taking /\ loop'.at \notin Taking
    BY <1>2 DEF WipeQueues, At, GoTo, Inv, TypeOK, Taking
  <2> QED
    BY <1>1, <1>2, <2>1, <2>2, <2>3, OneMoves DEF WipeQueues
<1>3. CASE WipeTimesOut(r)
  <2>1. KindOf[r] = "wipe"
    BY <1>3 DEF WipeTimesOut, Inv, Loop, At
  <2>2. "track" \notin owed[r]
    BY <1>1, <2>1 DEF JobsInv, Tracking
  <2> QED
    BY <1>3, <2>2, OneMoves DEF WipeTimesOut, At, Reading, Taking, Live
<1>4. CASE WipeStarts(r)
  <2>1. KindOf[r] = "wipe"
    BY <1>4 DEF WipeStarts, Inv, Loop, At
  <2>2. "track" \notin owed[r]
    BY <1>1, <2>1 DEF JobsInv, Tracking
  <2>3. loop.at \notin Taking /\ loop'.at \notin Taking
    BY <1>4 DEF WipeStarts, At, GoTo, Inv, TypeOK, Taking
  <2> QED
    BY <1>4, <2>2, <2>3, OneMoves DEF WipeStarts, Live
<1>5. CASE WipeLocks(r)
  <2>1. "track" \notin owed[r]
    BY <1>5 DEF WipeLocks, JobsInv, Tracking, Live
  <2> QED
    BY <1>5, <2>1, OneMoves DEF WipeLocks, Live
<1>6. CASE WipeEnds(r)
  <2>1. "track" \notin owed[r]
    BY <1>6 DEF WipeEnds, JobsInv, Tracking, Live
  <2>2. CASE At("wiping")
    <3>1. gate # <<>>
      BY <2>2 DEF Inv, Loop, HeadIs
    <3>2. /\ Becomes(r, "wiped") /\ loop' = Reading /\ gate' = Tail(gate)
          /\ UNCHANGED <<owed, jobs>>
      BY <1>6, <2>2 DEF WipeEnds
    <3>3. loop.at \notin Taking /\ loop'.at \notin Taking
      BY <2>2, <3>2 DEF At, Reading, Taking
    <3> QED
      BY <2>1, <3>1, <3>2, <3>3, OneMoves DEF Live
  <2>3. CASE ~At("wiping")
    BY <1>6, <2>1, <2>3, OneMoves DEF WipeEnds, Live
  <2> QED
    BY <2>2, <2>3
<1> QED
  BY <1>2, <1>3, <1>4, <1>5, <1>6 DEF WipeStep

\* Nobody moves on: the loop, the control commands and the main task.
LEMMA QuietJobs ==
    ASSUME Inv, JobsInv, UNCHANGED <<jobs, owed, task>>,
           loop' = loop \/ (loop.at \notin Taking /\ loop'.at \notin Taking),
           \/ gate' = gate
           \/ gate' = Append(gate, Main)
           \/ gate' = Without(gate, Main)
    PROVE  JobsInv'
<1>1. \A x, y \in Requests : Before(gate', x, y) => Before(gate, x, y)
  BY GateKept
<1> QED
  BY <1>1, ListKept

LEMMA RestJobs ==
    ASSUME Inv, JobsInv,
           \/ \E r \in Requests : Wipe(r) \/ Registered(r)
           \/ ControlStep \/ CancelCoordinator \/ LoopStops \/ ParentExits \/ MainStep
    PROVE  JobsInv'
<1>1. ASSUME NEW r \in Requests, Wipe(r) \/ Registered(r) PROVE JobsInv'
  BY <1>1, QuietJobs DEF Wipe, Registered, At, Reading, Taking
<1>2. CASE ControlStep
  <2>1. UNCHANGED <<jobs, owed, task, gate>>
    BY <1>2 DEF ControlStep, PauseScan, ResumeScan, CancelScan, DeepAnalyzeCancel, CancelRestructure
  <2>2. loop' = loop \/ (loop.at \notin Taking /\ loop'.at \notin Taking)
    BY <1>2 DEF ControlStep, PauseScan, ResumeScan, CancelScan, DeepAnalyzeCancel,
                CancelRestructure, Control, GoTo, At, Taking, Inv, TypeOK
  <2> QED
    BY <2>1, <2>2, QuietJobs
<1>3. CASE CancelCoordinator
  BY <1>3, QuietJobs DEF CancelCoordinator, At, Reading, Taking
<1>4. CASE LoopStops \/ ParentExits
  BY <1>4, QuietJobs DEF LoopStops, ParentExits, At, Stopped, Taking
<1>5. CASE LoopAborted
  <2>1. loop.at \notin Taking /\ loop'.at \notin Taking
    BY <1>5 DEF LoopAborted, Stopped, Taking
  <2>2. \A x, y \in Requests : Before(gate', x, y) => Before(gate, x, y)
    BY <1>5, GateKept DEF LoopAborted
  <2>3. \A q \in Requests : task'[q] = task[q] \/
           (task'[q] = "failed" /\ "track" \notin owed[q])
    <3>1. At("wipewait") => KindOf[loop.req] \notin Tracked /\ loop.req \in Requests
      BY DEF Inv, Loop, At, Tracked
    <3> QED
      BY <1>5, <3>1 DEF LoopAborted, Inv, TypeOK, JobsInv, Tracking
  <2>4. UNCHANGED <<jobs, owed>>
    BY <1>5 DEF LoopAborted
  <2> QED
    BY <2>1, <2>2, <2>3, <2>4, ListKept DEF Live
<1>6. CASE MainStep /\ ~LoopAborted
  <2>1. UNCHANGED <<jobs, owed, task, loop>>
    BY <1>6 DEF MainStep, MainCancelsScan, MainCancelsCoordinator, MainCancelsRest,
                LoopJoined, MainQuiesces, MainGivesUp
  <2>2. gate' \in {gate, Append(gate, Main), Without(gate, Main)}
    BY <1>6 DEF MainStep, MainCancelsScan, MainCancelsCoordinator, MainCancelsRest,
                LoopJoined, MainQueues, MainQuiesces, MainGivesUp
  <2> QED
    BY <2>1, <2>2, QuietJobs
<1> QED
  BY <1>1, <1>2, <1>3, <1>4, <1>5, <1>6

(***************************************************************************)
(* The loop takes a command up: it lists the operation before it spawns    *)
(* its task.                                                               *)
(***************************************************************************)
LEMMA AcceptJobs ==
    ASSUME Inv, JobsInv, NEW r \in Requests, Accept(r)
    PROVE  JobsInv'
<1>1. /\ task[r] = "new" /\ task'[r] = "accepted" /\ \A q \in Requests \ {r} : task'[q] = task[q]
      /\ "track" \notin owed'[r] /\ \A q \in Requests \ {r} : owed'[q] = owed[q]
      /\ loop.at = "reading" /\ loop'.at = "arm" /\ loop'.req = r
      /\ jobs' = jobs /\ gate' = gate
  BY DEF Accept, Becomes, At, Inv, TypeOK
<1>2. "track" \notin owed[r]
  BY <1>1 DEF JobsInv, Tracking, Live
<1>3. Listed'
  BY <1>1, <1>2 DEF JobsInv, Listed, InJobs, At
<1>4. Tracking'
  BY <1>1, <1>2 DEF JobsInv, Tracking
<1>5. SameOrder'
  <2> SUFFICES ASSUME NEW q \in Requests, NEW p \in Requests, Ahead(q, p)
               PROVE  task'[q] \notin {"accepted", "spawned"} /\ ~Before(gate, p, q)
    BY <1>1 DEF SameOrder, Ahead
  <2>1. q # r
    BY <1>2, AheadListed DEF Inv, JobsInv
  <2> QED
    BY <1>1, <2>1 DEF JobsInv, SameOrder
<1> QED
  BY <1>3, <1>4, <1>5 DEF JobsInv

LEMMA ArmJobs ==
    ASSUME Inv, JobsInv, NEW r \in Requests, Arm(r)
    PROVE  JobsInv'
<1>1. /\ "track" \in owed'[r] <=> "track" \in owed[r]
      /\ \A q \in Requests \ {r} : owed'[q] = owed[q]
      /\ loop.at = "arm" /\ loop.req = r /\ loop'.req = r
      /\ loop'.at = IF KindOf[r] \in Tracked THEN "push" ELSE "spawn"
      /\ jobs' = jobs /\ gate' = gate /\ task' = task
  BY DEF Arm, GoTo, At, Inv, TypeOK
<1>3. Listed'
  BY <1>1 DEF JobsInv, Listed, InJobs, At
<1>4. Tracking'
  BY <1>1 DEF JobsInv, Tracking
<1>5. SameOrder'
  BY <1>1 DEF JobsInv, SameOrder, Ahead
<1> QED
  BY <1>3, <1>4, <1>5 DEF JobsInv

\* Everybody listed has been spawned and waits at the gate, or is over: the
\* newcomer comes after them in both.
LEMMA PushJobs ==
    ASSUME Inv, JobsInv, NEW r \in Requests, Push(r)
    PROVE  JobsInv'
<1>1. /\ "track" \in owed'[r] /\ \A q \in Requests \ {r} : owed'[q] = owed[q]
      /\ loop.at = "push" /\ loop.req = r /\ loop'.req = r /\ loop'.at = "promote"
      /\ jobs'.pending = Append(jobs.pending, r) /\ jobs'.running = jobs.running
      /\ gate' = gate /\ task' = task
  BY DEF Push, GoTo, At, Inv, TypeOK
<1>2. task[r] = "accepted" /\ "track" \notin owed[r] /\ KindOf[r] \in Tracked
  BY <1>1 DEF Inv, Loop, Taking, JobsInv, Tracking
<1>3. ~InJobs(r)
  BY <1>2 DEF JobsInv, Listed
<1>4. /\ Once(jobs'.pending) /\ Range(jobs'.pending) = Range(jobs.pending) \cup {r}
      /\ \A x, y : Before(jobs'.pending, x, y) =>
            Before(jobs.pending, x, y) \/ (y = r /\ x \in Range(jobs.pending))
  BY <1>1, <1>3, JobsTyped, AppendLine, BeforeKept DEF Inv, JobsInv, Listed, InJobs
<1>5. Listed'
  <2>1. \A q \in Requests : InJobs(q)' <=> "track" \in owed'[q]
    BY <1>1, <1>4 DEF JobsInv, Listed, InJobs
  <2>2. jobs'.running \notin Range(jobs'.pending)
    BY <1>1, <1>3, <1>4 DEF JobsInv, Listed, InJobs
  <2>3. \A q \in Range(jobs'.pending) : jobs'.running = None => q = r
    BY <1>1, <1>4 DEF JobsInv, Listed, At
  <2> QED
    BY <1>1, <1>4, <2>1, <2>2, <2>3 DEF Listed, At
<1>6. Tracking'
  BY <1>1, <1>2 DEF JobsInv, Tracking, Live
<1>7. SameOrder'
  <2> SUFFICES ASSUME NEW q \in Requests, NEW p \in Requests, Ahead(q, p)'
               PROVE  task[q] \notin {"accepted", "spawned"} /\ ~Before(gate, p, q)
    BY <1>1 DEF SameOrder
  <2>1. CASE Ahead(q, p)
    BY <2>1 DEF JobsInv, SameOrder
  <2>2. CASE ~Ahead(q, p)
    <3>1. p = r /\ InJobs(q)
      BY <1>1, <1>4, <2>2 DEF Ahead, InJobs
    <3>2. q # r
      BY <1>3, <3>1
    <3>3. task[q] \notin {"accepted", "spawned"}
      BY <1>1, <3>2 DEF Inv, Loop, At
    <3>4. r \notin Range(gate)
      BY <1>2 DEF Inv, Line, Waiting, Inside, Wiper
    <3>5. ~Before(gate, r, q)
      BY <3>4, BeforeEnds DEF Inv, TypeOK
    <3> QED
      BY <3>1, <3>3, <3>5
  <2> QED
    BY <2>1, <2>2
<1> QED
  BY <1>5, <1>6, <1>7 DEF JobsInv

\* Promoting the first of the list lists the same jobs in the same order.
LEMMA PromotedJobs ==
    ASSUME NEW j \in [running : Requests \cup {None}, pending : Seq(Requests)], j.running = None, Once(j.pending), NEW p, p = Promoted(j)
    PROVE  /\ Once(p.pending) /\ p.running \notin Range(p.pending)
           /\ p.running = None => Range(p.pending) = {}
           /\ \A q \in Requests : q = p.running \/ q \in Range(p.pending) <=> q \in Range(j.pending)
           /\ \A x, y \in Requests :
                 (x = p.running /\ y \in Range(p.pending)) \/ Before(p.pending, x, y) =>
                    Before(j.pending, x, y)
<1>0. j.pending \in Seq(Requests) /\ j = [running |-> None, pending |-> j.pending]
  OBVIOUS
<1>1. CASE j.pending = <<>>
  <2>1. Promoted(j) = j /\ Range(j.pending) = {}
    BY <1>1 DEF Promoted, Range
  <2>2. \A x, y : ~Before(j.pending, x, y)
    BY <1>1 DEF Before
  <2> QED
    BY <1>0, <1>1, <2>1, <2>2
<1>2. CASE j.pending # <<>>
  <2> DEFINE h == Head(j.pending)
             t == Tail(j.pending)
  <2>1. Promoted(j).running = h /\ Promoted(j).pending = t
    BY <1>2 DEF Promoted
  <2>2. t \in Seq(Requests) /\ Once(t) /\ Range(t) = Range(j.pending) \ {h}
    BY <1>0, <1>2, TailLine
  <2>3. HeadIs(j.pending, h) /\ h \in Range(j.pending) /\ h \in Requests
    <3>1. j.pending[1] = h /\ 1 \in DOMAIN j.pending /\ h \in Requests
      BY <1>0, <1>2
    <3> QED
      BY <1>2, <3>1 DEF HeadIs, Range
  <2>4. \A x, y : Before(t, x, y) => Before(j.pending, x, y)
    BY <1>0, <1>2, BeforeKept
  <2>5. \A y \in Range(t) : Before(j.pending, h, y)
    BY <1>0, <2>2, <2>3, BeforeEnds
  <2> HIDE DEF h, t
  <2> QED
    BY <2>1, <2>2, <2>3, <2>4, <2>5
<1> QED
  BY <1>1, <1>2

LEMMA PromoteJobs ==
    ASSUME Inv, JobsInv, NEW r \in Requests, PromoteNext(r)
    PROVE  JobsInv'
<1> DEFINE J == [running : Requests \cup {None}, pending : Seq(Requests)]
<1>1. /\ loop.at = "promote" /\ loop.req = r /\ loop'.req = r /\ loop'.at = "spawn"
      /\ gate' = gate /\ task' = task /\ owed' = owed
      /\ jobs' = IF jobs.running = None THEN Promoted(jobs) ELSE jobs
  BY DEF PromoteNext, GoTo, At, Inv, TypeOK
<1>2. jobs \in J
  BY DEF Inv, TypeOK
<1>3. /\ Once(jobs'.pending) /\ jobs'.running \notin Range(jobs'.pending)
      /\ jobs'.running = None => Range(jobs'.pending) = {}
      /\ \A q \in Requests : InJobs(q)' <=> InJobs(q)
      /\ \A x, y \in Requests : Ahead(x, y)' => Ahead(x, y)
  <2>1. CASE jobs.running = None
    <3>1. jobs' = Promoted(jobs) /\ Once(jobs.pending)
      BY <1>1, <2>1 DEF JobsInv, Listed
    <3>2. /\ Once(jobs'.pending) /\ jobs'.running \notin Range(jobs'.pending)
          /\ jobs'.running = None => Range(jobs'.pending) = {}
          /\ \A q \in Requests :
                q = jobs'.running \/ q \in Range(jobs'.pending) <=> q \in Range(jobs.pending)
          /\ \A x, y \in Requests :
                (x = jobs'.running /\ y \in Range(jobs'.pending)) \/ Before(jobs'.pending, x, y) =>
                   Before(jobs.pending, x, y)
      BY <1>2, <2>1, <3>1, PromotedJobs
    <3> QED
      BY <2>1, <3>2 DEF InJobs, Ahead
  <2>2. CASE jobs.running # None
    BY <1>1, <2>2 DEF JobsInv, Listed, InJobs, Ahead
  <2> QED
    BY <2>1, <2>2
<1>4. Listed'
  BY <1>1, <1>3 DEF JobsInv, Listed
<1>5. Tracking'
  BY <1>1 DEF JobsInv, Tracking
<1>6. SameOrder'
  BY <1>1, <1>3 DEF JobsInv, SameOrder
<1> QED
  BY <1>4, <1>5, <1>6 DEF JobsInv

LEMMA SpawnJobs ==
    ASSUME Inv, JobsInv, NEW r \in Requests, Spawn(r)
    PROVE  JobsInv'
<1>1. /\ task'[r] = "spawned" /\ \A q \in Requests \ {r} : task'[q] = task[q]
      /\ loop.at = "spawn" /\ loop.req = r /\ loop'.req = r /\ loop'.at = "register"
      /\ jobs' = jobs /\ gate' = gate /\ owed' = owed
  BY DEF Spawn, Becomes, GoTo, At, Inv, TypeOK
<1>2. task[r] = "accepted"
  BY <1>1 DEF Inv, Loop, Taking
<1>3. Listed'
  BY <1>1 DEF JobsInv, Listed, InJobs, At
<1>4. Tracking'
  BY <1>1, <1>2 DEF JobsInv, Tracking, Live
<1>5. SameOrder'
  BY <1>1, <1>2 DEF JobsInv, SameOrder, Ahead
<1> QED
  BY <1>3, <1>4, <1>5 DEF JobsInv

\* A job that is over leaves the list wherever it stands in it.
LEMMA DropJobs ==
    ASSUME Inv, JobsInv, NEW r \in Requests, NEW g, DropGuard(r, g)
    PROVE  JobsInv'
<1> DEFINE J == [running : Requests \cup {None}, pending : Seq(Requests)]
<1>0. loop.at \in {"arm", "push"} => loop.req \in Requests
  BY DEF Inv, Loop, Taking
<1>1. /\ task[r] \in {"ended", "left"} /\ g \in owed[r]
      /\ loop' = loop /\ gate' = gate /\ task' = task
      /\ owed'[r] = owed[r] \ {g} /\ \A q \in Requests \ {r} : owed'[q] = owed[q]
      /\ jobs' = IF g = "track" THEN Finish(jobs, r) ELSE jobs
  BY DEF DropGuard, Inv, TypeOK
<1>2. r \in Requests /\ r # None /\ task[r] \notin Live
  BY <1>1 DEF Live
<1>3. CASE g # "track"
  <2>1. Listed'
    BY <1>1, <1>3 DEF JobsInv, Listed, InJobs, At
  <2>2. Tracking'
    BY <1>0, <1>1, <1>3 DEF JobsInv, Tracking, Live
  <2>3. SameOrder'
    BY <1>1, <1>3 DEF JobsInv, SameOrder, Ahead
  <2> QED
    BY <2>1, <2>2, <2>3 DEF JobsInv
<1>4. CASE g = "track"
  <2>0. jobs \in J /\ InJobs(r)
    BY <1>1, <1>4 DEF Inv, TypeOK, JobsInv, Listed
  <2>1. /\ Once(jobs'.pending) /\ jobs'.running \notin Range(jobs'.pending)
        /\ \A q \in Requests : InJobs(q)' <=> InJobs(q) /\ q # r
        /\ \A x, y \in Requests : Ahead(x, y)' => Ahead(x, y)
        /\ jobs'.running = None => Range(jobs'.pending) \subseteq Range(jobs.pending)
                                   /\ (Range(jobs'.pending) # {} => jobs.running = None)
    <3>1. CASE jobs.running = r
      <4> DEFINE j == [running |-> None, pending |-> jobs.pending]
      <4>1. jobs' = Promoted(j)
        BY <1>1, <1>4, <2>0, <3>1 DEF Finish
      <4>2. j \in J /\ j.running = None /\ Once(j.pending) /\ r \notin Range(j.pending)
        BY <2>0, <3>1 DEF JobsInv, Listed
      <4>3. j.pending = jobs.pending
        OBVIOUS
      <4>4. /\ Once(jobs'.pending) /\ jobs'.running \notin Range(jobs'.pending)
            /\ jobs'.running = None => Range(jobs'.pending) = {}
            /\ \A q \in Requests :
                  q = jobs'.running \/ q \in Range(jobs'.pending) <=> q \in Range(jobs.pending)
            /\ \A x, y \in Requests :
                  (x = jobs'.running /\ y \in Range(jobs'.pending)) \/ Before(jobs'.pending, x, y) =>
                     Before(jobs.pending, x, y)
        <5> HIDE DEF j
        <5> QED
          BY <4>1, <4>2, <4>3, PromotedJobs
      <4> QED
        BY <3>1, <4>2, <4>3, <4>4, <1>2 DEF InJobs, Ahead
    <3>2. CASE jobs.running # r
      <4>1. jobs' = [running |-> jobs.running, pending |-> Without(jobs.pending, r)]
        BY <1>1, <1>4, <2>0, <3>2 DEF Finish
      <4>2. /\ Once(Without(jobs.pending, r))
            /\ Range(Without(jobs.pending, r)) = Range(jobs.pending) \ {r}
        BY <2>0, WithoutLine DEF JobsInv, Listed
      <4>3. \A x, y : Before(Without(jobs.pending, r), x, y) => Before(jobs.pending, x, y)
        BY <2>0, WithoutBefore
      <4> QED
        BY <3>2, <4>1, <4>2, <4>3 DEF JobsInv, Listed, InJobs, Ahead
    <3> QED
      BY <3>1, <3>2
  <2>2. Listed'
    <3>1. \A q \in Requests : InJobs(q)' <=> "track" \in owed'[q]
      BY <1>1, <1>4, <2>1 DEF JobsInv, Listed
    <3>2. \A q \in Range(jobs'.pending) : jobs'.running = None => (At("promote") /\ loop.req = q)'
      BY <1>1, <2>1 DEF JobsInv, Listed, At
    <3> QED
      BY <2>1, <3>1, <3>2 DEF Listed
  <2>3. Tracking'
    BY <1>0, <1>1, <1>2, <1>4 DEF JobsInv, Tracking
  <2>4. SameOrder'
    BY <1>1, <2>1 DEF JobsInv, SameOrder
  <2> QED
    BY <2>2, <2>3, <2>4 DEF JobsInv
<1> QED
  BY <1>3, <1>4

LEMMA JobsStep == Inv /\ JobsInv /\ [Next]_vars => JobsInv'
<1> SUFFICES ASSUME Inv, JobsInv, [Next]_vars PROVE JobsInv'
  OBVIOUS
<1>1. ASSUME NEW r \in Requests, Bounce(r) \/ Accept(r) \/ Wipe(r) PROVE JobsInv'
  BY <1>1, OperationJobs, AcceptJobs, RestJobs
<1>2. ASSUME NEW r \in Requests, LoopStep(r) PROVE JobsInv'
  BY <1>2, ArmJobs, PushJobs, PromoteJobs, SpawnJobs, RestJobs DEF LoopStep
<1>3. ASSUME NEW r \in Requests, WipeStep(r) PROVE JobsInv'
  BY <1>3, WipeJobs
<1>4. ASSUME NEW r \in Requests, TaskStep(r) PROVE JobsInv'
  BY <1>4, OperationJobs, DropJobs DEF TaskStep
<1>5. CASE ControlStep \/ CancelCoordinator \/ LoopStops \/ ParentExits \/ MainStep
  BY <1>5, RestJobs
<1>6. CASE Exited \/ UNCHANGED vars
  <2>1. UNCHANGED vars
    BY <1>6 DEF Exited
  <2> QED
    BY <2>1, QuietJobs DEF vars
<1> QED
  BY <1>1, <1>2, <1>3, <1>4, <1>5, <1>6 DEF Next

\* The sidebar shows the tracked operation that works, and no job that is over
\* once its guard has been dropped, although guards drop after the permit's
\* next holder is known, rejected tasks leave the list in its middle and two
\* locks are taken to list one job (job_queue.rs, JobTrackGuard).
THEOREM SidebarCorrect == Spec => []SidebarTruth
<1>1. Inv /\ JobsInv => SidebarTruth
  <2> SUFFICES ASSUME Inv, JobsInv,
                      \A r \in Requests : task[r] \in {"left", "ended"} => "track" \notin owed[r]
               PROVE  /\ \A r \in Requests : task[r] \in {"entered", "running"} /\ KindOf[r] \in Tracked => jobs.running = r
                      /\ jobs.running # None => task[jobs.running] \in Live
    BY DEF SidebarTruth
  <2>1. \A q \in Requests : InJobs(q) => task[q] \in Live
    BY DEF JobsInv, Listed, Tracking
  <2>2. jobs.running # None => task[jobs.running] \in Live
    BY <2>1, JobsTyped DEF Inv, InJobs
  <2>3. ASSUME NEW r \in Requests, task[r] \in {"entered", "running"}, KindOf[r] \in Tracked,
               jobs.running # r
        PROVE  FALSE
    <3>1. HeadIs(gate, r) /\ ~(loop.at \in Taking /\ loop.req = r)
      BY <2>3 DEF Inv, Line, Loop, Inside
    <3>2. "track" \in owed[r]
      BY <2>3, <3>1 DEF JobsInv, Tracking, Live, Taking
    <3>3. r \in Range(jobs.pending)
      BY <2>3, <3>2 DEF JobsInv, Listed, InJobs
    <3>4. jobs.running # None
      BY <3>1, <3>3 DEF JobsInv, Listed, At, Taking
    <3> DEFINE q == jobs.running
    <3>5. q \in Requests /\ Ahead(q, r) /\ task[q] \in Live
      BY <2>1, <3>3, <3>4, JobsTyped DEF Inv, Ahead, InJobs
    <3>6. task[q] \notin {"accepted", "spawned"} /\ ~Before(gate, r, q)
      BY <3>5 DEF JobsInv, SameOrder
    <3>7. q \in Range(gate)
      BY <3>5, <3>6 DEF Live, Inv, Line, Waiting, Inside
    <3> QED
      BY <2>3, <3>1, <3>6, <3>7, BeforeEnds DEF Inv, TypeOK
  <2> QED
    BY <2>2, <2>3
<1> QED
  BY <1>1, InitInv, InvStep, InitJobs, JobsStep, PTL DEF Spec


(***************************************************************************)
(* A cancellation reaches every operation it was aimed at, and no other:   *)
(* the inductive invariant.                                                *)
(***************************************************************************)
Asked == asked.command \cup asked.shutdown
Arming(r) == At("arm") /\ loop.req = r
Between == loop.at \in {"cancel", "wipe"}   \* flag set, coordinator not told

\* An operation owes the guards its kind has, and a single-flight flag has one
\* owner.
Owned ==
    /\ \A r \in Requests :
        /\ task[r] \in Live /\ KindOf[r] \in SingleFlight => "active" \in owed[r]
        /\ task[r] \in Live /\ KindOf[r] \in Tokened => "token" \in owed[r] \/ Arming(r)
        /\ "active" \in owed[r] => KindOf[r] \in active
        /\ "token" \in owed[r] => KindOf[r] \in Tokened
        /\ task[r] = "new" => "token" \notin owed[r]
    /\ \A q, r \in Requests :
        "active" \in owed[q] /\ "active" \in owed[r] /\ KindOf[q] = KindOf[r] => q = r

\* What is set was set for everybody it now concerns.
Aim ==
    /\ \A r \in Requests :
        /\ r \in cancel.tokens /\ task[r] \in Live \cup {"new"} => r \in Asked
        /\ cancel.deep = TRUE /\ task[r] \in Live /\ KindOf[r] = "deep" => r \in Asked \/ Arming(r)
        /\ Between /\ task[r] \in Live /\ KindOf[r] = "scan" => r \in asked.command
        /\ coord.cancelled = TRUE /\ task[r] \in {"entered", "running"} /\ KindOf[r] = "scan" => r \in Asked

\* Whoever was asked to stop is past the rearming of his flag, and finds the
\* flag, the token or the coordinator set when he looks.
Reach ==
    /\ \A r \in Requests :
        /\ task[r] \in {"entered", "running"} /\ KindOf[r] = "scan" => coord.there = TRUE
        /\ task[r] = "entered" => KindOf[r] = "scan"
    /\ \A r \in asked.command :
        /\ KindOf[r] \in Tokened \cup {"scan", "deep"} /\ ~Arming(r) /\ task[r] # "new"
        /\ task[r] \in Live /\ KindOf[r] \in Tokened => r \in cancel.tokens
        /\ task[r] \in Live /\ KindOf[r] = "deep" => cancel.deep = TRUE
        /\ task[r] \in Live \ {"running"} /\ KindOf[r] = "scan" => cancel.scan = TRUE
        /\ task[r] = "running" /\ KindOf[r] = "scan" => coord.cancelled = TRUE \/ Between

CInv == Inv /\ Owned /\ Aim /\ Reach

LEMMA InitCInv == Init => CInv
BY InitInv DEF Init, CInv, Owned, Aim, Reach, Asked, Arming, Between, At, Reading, NoCoord, Live

(***************************************************************************)
(* Steps that touch no flag, no token and no coordinator, and start no     *)
(* scan.                                                                   *)
(***************************************************************************)
Calm(q) == \/ task'[q] = task[q]
           \/ task'[q] \notin Live \cup {"new"}
           \/ /\ {task[q], task'[q]} \subseteq Live /\ task'[q] # "entered"
              /\ KindOf[q] = "scan" => task[q] # "running" /\ task'[q] # "running"

LEMMA CalmStep ==
    ASSUME CInv, Inv', \A q \in Requests : Calm(q),
           \A q \in Requests : "active" \in owed'[q] <=> "active" \in owed[q],
           \A q \in Requests : "token" \in owed'[q] <=> "token" \in owed[q],
           UNCHANGED <<active, cancel, asked>>,
           coord'.there = coord.there, coord'.cancelled = coord.cancelled,
           Between' <=> Between,
           \A q \in Requests : Arming(q)' <=> Arming(q)
    PROVE  CInv'
<1>1. asked.command \subseteq Requests
  BY DEF CInv, Inv, TypeOK
<1>2. ASSUME NEW r \in Requests
      PROVE  \/ task'[r] = task[r]
             \/ task'[r] \notin Live \cup {"new"}
             \/ /\ {task[r], task'[r]} \subseteq Live /\ task'[r] # "entered"
                /\ KindOf[r] = "scan" => task[r] # "running" /\ task'[r] # "running"
  BY DEF Calm
<1>3. Owned'
  <2>1. ASSUME NEW r \in Requests
        PROVE  /\ task'[r] \in Live /\ KindOf[r] \in SingleFlight => "active" \in owed'[r]
               /\ task'[r] \in Live /\ KindOf[r] \in Tokened => "token" \in owed'[r] \/ Arming(r)'
               /\ "active" \in owed'[r] => KindOf[r] \in active'
               /\ "token" \in owed'[r] => KindOf[r] \in Tokened
               /\ task'[r] = "new" => "token" \notin owed'[r]
    BY <1>2 DEF CInv, Owned, Live
  <2>2. ASSUME NEW q \in Requests, NEW r \in Requests,
               "active" \in owed'[q] /\ "active" \in owed'[r] /\ KindOf[q] = KindOf[r]
        PROVE  q = r
    BY <2>2 DEF CInv, Owned
  <2> QED
    BY <2>1, <2>2 DEF Owned
<1>4. Aim'
  <2>1. ASSUME NEW r \in Requests
        PROVE  /\ r \in cancel'.tokens /\ task'[r] \in Live \cup {"new"} => r \in Asked'
               /\ cancel'.deep = TRUE /\ task'[r] \in Live /\ KindOf[r] = "deep" => r \in Asked' \/ Arming(r)'
               /\ Between' /\ task'[r] \in Live /\ KindOf[r] = "scan" => r \in asked'.command
               /\ coord'.cancelled = TRUE /\ task'[r] \in {"entered", "running"} /\ KindOf[r] = "scan"
                     => r \in Asked'
    BY <1>2 DEF CInv, Aim, Asked, Live
  <2> QED
    BY <2>1 DEF Aim
<1>5. Reach'
  <2>1. ASSUME NEW r \in Requests
        PROVE  /\ task'[r] \in {"entered", "running"} /\ KindOf[r] = "scan" => coord'.there = TRUE
               /\ task'[r] = "entered" => KindOf[r] = "scan"
    BY <1>2 DEF CInv, Reach, Live
  <2>2. ASSUME NEW r \in asked'.command
        PROVE  /\ KindOf[r] \in Tokened \cup {"scan", "deep"} /\ ~Arming(r)' /\ task'[r] # "new"
               /\ task'[r] \in Live /\ KindOf[r] \in Tokened => r \in cancel'.tokens
               /\ task'[r] \in Live /\ KindOf[r] = "deep" => cancel'.deep = TRUE
               /\ task'[r] \in Live \ {"running"} /\ KindOf[r] = "scan" => cancel'.scan = TRUE
               /\ task'[r] = "running" /\ KindOf[r] = "scan" => coord'.cancelled = TRUE \/ Between'
    BY <1>1, <1>2 DEF CInv, Reach, Live
  <2> QED
    BY <2>1, <2>2 DEF Reach
<1> QED
  BY <1>3, <1>4, <1>5 DEF CInv

\* The loop's and the main task's own steps.
LEMMA CalmLoop ==
    ASSUME CInv, Inv',
           \/ \E r \in Requests : Push(r) \/ PromoteNext(r) \/ Registered(r)
           \/ PauseScan \/ ResumeScan \/ LoopStops \/ ParentExits
           \/ LoopJoined \/ MainQuiesces \/ MainGivesUp
    PROVE  CInv'
<1>0. TypeOK /\ Loop
  BY DEF CInv, Inv
<1>1. ASSUME NEW r \in Requests, Push(r) PROVE CInv'
  <2>1. \A q \in Requests : owed'[q] = IF q = r THEN owed[q] \cup {"track"} ELSE owed[q]
    BY <1>0, <1>1 DEF Push, TypeOK
  <2>2. loop.at = "push" /\ loop'.at = "promote" /\ loop'.req = loop.req
    BY <1>0, <1>1 DEF Push, At, GoTo, TypeOK
  <2> QED
    BY <1>1, <2>1, <2>2, CalmStep DEF Push, Calm, Between, Arming, At
<1>2. ASSUME NEW r \in Requests, PromoteNext(r) PROVE CInv'
  <2>1. loop.at = "promote" /\ loop'.at = "spawn" /\ loop'.req = loop.req
    BY <1>0, <1>2 DEF PromoteNext, At, GoTo, TypeOK
  <2> QED
    BY <1>2, <2>1, CalmStep DEF PromoteNext, Calm, Between, Arming, At
<1>3. ASSUME NEW r \in Requests, Registered(r) PROVE CInv'
  <2>1. loop.at = "register" /\ loop'.at = "reading"
    BY <1>3 DEF Registered, At, Reading
  <2> QED
    BY <1>3, <2>1, CalmStep DEF Registered, Calm, Between, Arming, At
<1>4. CASE PauseScan \/ ResumeScan
  <2>1. coord'.there = coord.there /\ coord'.cancelled = coord.cancelled
    BY <1>0, <1>4 DEF PauseScan, ResumeScan, TypeOK
  <2> QED
    BY <1>4, <2>1, CalmStep DEF PauseScan, ResumeScan, Calm, Between, Arming, At
<1>5. CASE LoopStops \/ ParentExits
  <2>1. loop' = loop \/ (loop.at = "reading" /\ loop'.at = "stopped")
    BY <1>5 DEF LoopStops, ParentExits, At, Stopped
  <2>2. UNCHANGED <<task, owed, active, cancel, coord, asked>>
    BY <1>5 DEF LoopStops, ParentExits
  <2>3. (Between' <=> Between) /\ \A q \in Requests : Arming(q)' <=> Arming(q)
    BY <2>1 DEF Between, Arming, At
  <2> QED
    BY <2>2, <2>3, CalmStep DEF Calm
<1>6. CASE LoopJoined \/ MainQuiesces \/ MainGivesUp
  BY <1>6, CalmStep DEF LoopJoined, MainQueues, MainQuiesces, MainGivesUp, Calm, Between, Arming, At
<1> QED
  BY <1>1, <1>2, <1>3, <1>4, <1>5, <1>6

\* An operation moves on, or a scan into the gate's line.
LEMMA CalmMove ==
    ASSUME CInv, Inv', NEW r \in Requests,
           task' \in [Requests -> TaskStates],
           \A q \in Requests \ {r} : task'[q] = task[q],
           Calm(r), UNCHANGED <<owed, active, cancel, asked, coord>>,
           Between' <=> Between,
           \A q \in Requests : Arming(q)' <=> Arming(q)
    PROVE  CInv'
<1>1. \A q \in Requests : Calm(q)
  BY DEF Calm
<1> QED
  BY <1>1, CalmStep

LEMMA CalmTask ==
    ASSUME CInv, Inv', NEW r \in Requests,
           \/ Bounce(r) \/ Spawn(r) \/ WipeTimesOut(r) \/ WipeStarts(r) \/ WipeLocks(r) \/ WipeEnds(r)
           \/ Register(r) \/ TimesOut(r) \/ Leave(r) \/ Release(r)
           \/ Start(r) /\ KindOf[r] # "scan"
           \/ End(r) /\ KindOf[r] # "scan"
    PROVE  CInv'
<1>0. TypeOK /\ Loop
  BY DEF CInv, Inv
<1>1. CASE Bounce(r)
  <2>1. task' \in [Requests -> TaskStates] /\ task'[r] = "bounced" /\ \A q \in Requests \ {r} : task'[q] = task[q]
    BY <1>0, <1>1 DEF Bounce, Becomes, TypeOK, TaskStates
  <2> QED
    BY <1>1, <2>1, CalmMove DEF Bounce, Calm, Live, Between, Arming, At
<1>2. CASE Spawn(r)
  <2>1. /\ task' \in [Requests -> TaskStates] /\ task'[r] = "spawned" /\ task[r] = "accepted"
        /\ \A q \in Requests \ {r} : task'[q] = task[q]
        /\ loop.at = "spawn" /\ loop'.at = "register"
    BY <1>0, <1>2 DEF Spawn, Becomes, TypeOK, TaskStates, Live, At, GoTo, Loop, Taking
  <2> QED
    BY <1>2, <2>1, CalmMove DEF Spawn, Calm, Live, Between, Arming, At
<1>3. CASE WipeTimesOut(r)
  <2>1. /\ task' \in [Requests -> TaskStates] /\ task'[r] = "failed"
        /\ \A q \in Requests \ {r} : task'[q] = task[q]
        /\ loop.at = "wipewait" /\ loop'.at = "reading"
    BY <1>0, <1>3 DEF WipeTimesOut, Becomes, TypeOK, TaskStates, At, Reading
  <2> QED
    BY <1>3, <2>1, CalmMove DEF WipeTimesOut, Calm, Live, Between, Arming, At
<1>4. CASE WipeStarts(r)
  <2>1. /\ task' \in [Requests -> TaskStates] /\ task'[r] = "dispatched"
        /\ \A q \in Requests \ {r} : task'[q] = task[q]
        /\ loop.at = "wipewait" /\ loop'.at = "wiping"
    BY <1>0, <1>4 DEF WipeStarts, Becomes, TypeOK, TaskStates, At, GoTo
  <2> QED
    BY <1>4, <2>1, CalmMove DEF WipeStarts, Calm, Live, Between, Arming, At
<1>5. CASE WipeLocks(r)
  <2>1. /\ task' \in [Requests -> TaskStates] /\ task'[r] = "wiping"
        /\ \A q \in Requests \ {r} : task'[q] = task[q]
    BY <1>0, <1>5 DEF WipeLocks, Becomes, TypeOK, TaskStates
  <2> QED
    BY <1>5, <2>1, CalmMove DEF WipeLocks, Calm, Live, Between, Arming, At
<1>6. CASE WipeEnds(r)
  <2>1. /\ task' \in [Requests -> TaskStates] /\ task'[r] = "wiped"
        /\ \A q \in Requests \ {r} : task'[q] = task[q]
        /\ loop' = loop \/ (loop.at = "wiping" /\ loop'.at = "reading")
    BY <1>0, <1>6 DEF WipeEnds, Becomes, TypeOK, TaskStates, At, Reading
  <2> QED
    BY <1>6, <2>1, CalmMove DEF WipeEnds, Calm, Live, Between, Arming, At
<1>7. CASE Register(r)
  <2>1. /\ task' \in [Requests -> TaskStates] /\ task'[r] = "queued" /\ task[r] = "spawned"
        /\ \A q \in Requests \ {r} : task'[q] = task[q]
    BY <1>0, <1>7 DEF Register, Becomes, TypeOK, TaskStates, Live
  <2> QED
    BY <1>7, <2>1, CalmMove DEF Register, Calm, Live, Between, Arming, At
<1>8. CASE TimesOut(r)
  <2>1. /\ task' \in [Requests -> TaskStates] /\ task'[r] = "leaving" /\ task[r] = "queued"
        /\ \A q \in Requests \ {r} : task'[q] = task[q]
    BY <1>0, <1>8 DEF TimesOut, Becomes, TypeOK, TaskStates, Live
  <2> QED
    BY <1>8, <2>1, CalmMove DEF TimesOut, Calm, Live, Between, Arming, At
<1>9. CASE Leave(r)
  <2>1. /\ task' \in [Requests -> TaskStates] /\ task'[r] = "left"
        /\ \A q \in Requests \ {r} : task'[q] = task[q]
    BY <1>0, <1>9 DEF Leave, Becomes, TypeOK, TaskStates
  <2> QED
    BY <1>9, <2>1, CalmMove DEF Leave, Calm, Live, Between, Arming, At
<1>10. CASE Release(r)
  <2>1. /\ task' \in [Requests -> TaskStates] /\ task'[r] = "done"
        /\ \A q \in Requests \ {r} : task'[q] = task[q]
    BY <1>0, <1>10 DEF Release, Becomes, TypeOK, TaskStates
  <2> QED
    BY <1>10, <2>1, CalmMove DEF Release, Calm, Live, Between, Arming, At
<1>11. CASE Start(r) /\ KindOf[r] # "scan"
  <2>1. /\ task' \in [Requests -> TaskStates] /\ task'[r] = "running" /\ task[r] = "queued"
        /\ \A q \in Requests \ {r} : task'[q] = task[q]
    BY <1>0, <1>11 DEF Start, Becomes, TypeOK, TaskStates, Live
  <2> QED
    BY <1>11, <2>1, CalmMove DEF Start, Calm, Live, Between, Arming, At
<1>12. CASE End(r) /\ KindOf[r] # "scan"
  <2>0. Becomes(r, "ended") /\ UNCHANGED <<loop, owed, active, cancel, coord, asked>>
    BY <1>12, Zenon DEF End
  <2>1. /\ task' \in [Requests -> TaskStates] /\ task'[r] = "ended"
        /\ \A q \in Requests \ {r} : task'[q] = task[q]
    BY <1>0, <2>0 DEF Becomes, TypeOK, TaskStates
  <2> QED
    BY <2>0, <2>1, CalmMove DEF Calm, Live, Between, Arming, At
<1> QED
  BY <1>1, <1>2, <1>3, <1>4, <1>5, <1>6, <1>7, <1>8, <1>9, <1>10, <1>11, <1>12

\* Aborted while it awaits a wipe, the loop gives the wipe up.
LEMMA CalmAbort ==
    ASSUME CInv, Inv', LoopAborted PROVE CInv'
<1>1. /\ task' = task \/ (loop.req \in Requests /\ task' \in [Requests -> TaskStates]
                          /\ task'[loop.req] = "failed"
                          /\ \A q \in Requests \ {loop.req} : task'[q] = task[q])
      /\ loop.at \in {"reading", "register", "wipewait", "wiping"} /\ loop'.at = "stopped"
  BY DEF LoopAborted, Stopped, At, CInv, Inv, Loop, TypeOK, TaskStates
<1>2. \A q \in Requests : Calm(q)
  BY <1>1 DEF Calm, Live
<1>3. (Between' <=> Between) /\ \A q \in Requests : Arming(q)' <=> Arming(q)
  BY <1>1 DEF Between, Arming, At
<1> QED
  BY <1>2, <1>3, CalmStep DEF LoopAborted

(***************************************************************************)
(* The steps that set, clear or look at a flag.                            *)
(***************************************************************************)
LEMMA AcceptCInv ==
    ASSUME CInv, Inv', NEW r \in Requests, Accept(r) PROVE CInv'
<1>0. TypeOK /\ Loop /\ Owned /\ Aim /\ Reach
  BY DEF CInv, Inv
<1>1. /\ task[r] = "new" /\ task'[r] = "accepted" /\ \A q \in Requests \ {r} : task'[q] = task[q]
      /\ \A q \in Requests \ {r} : owed'[q] = owed[q]
      /\ owed'[r] = IF KindOf[r] \in SingleFlight THEN {"active"} ELSE {}
      /\ KindOf[r] \notin active /\ active' = active \cup ({KindOf[r]} \cap SingleFlight)
      /\ loop.at = "reading" /\ loop'.at = "arm" /\ loop'.req = r
      /\ UNCHANGED <<cancel, coord, asked>>
  BY <1>0 DEF Accept, At, Becomes, TypeOK
<1>2. \A q \in Requests : ~Arming(q) /\ (Arming(q)' <=> q = r) /\ ~Between /\ ~Between'
  BY <1>1 DEF Arming, Between, At
<1>3. Owned'
  BY <1>0, <1>1, <1>2 DEF Owned, Live
<1>4. Aim'
  BY <1>0, <1>1, <1>2 DEF Aim, Asked, Live
<1>5. Reach'
  BY <1>0, <1>1, <1>2 DEF Reach, Live, TypeOK
<1> QED
  BY <1>3, <1>4, <1>5 DEF CInv

LEMMA ArmCInv ==
    ASSUME CInv, Inv', NEW r \in Requests, Arm(r) PROVE CInv'
<1>0. TypeOK /\ Loop /\ Owned /\ Aim /\ Reach
  BY DEF CInv, Inv
<1>1. /\ task[r] = "accepted" /\ task' = task /\ UNCHANGED <<coord, asked, active>>
      /\ \A q \in Requests \ {r} : owed'[q] = owed[q]
      /\ owed'[r] = owed[r] \cup (IF KindOf[r] \in Tokened THEN {"token"} ELSE {})
      /\ cancel'.tokens = cancel.tokens
      /\ KindOf[r] = "deep" => cancel'.deep = FALSE
      /\ KindOf[r] # "deep" => cancel'.deep = cancel.deep
      /\ KindOf[r] # "scan" => cancel'.scan = cancel.scan
      /\ loop.at = "arm" /\ loop'.at \in {"push", "spawn"} /\ loop'.req = r /\ loop.req = r
  <2>1. loop.at = "arm" /\ loop'.at \in {"push", "spawn"} /\ loop'.req = r /\ loop.req = r
    BY <1>0 DEF Arm, At, GoTo, TypeOK
  <2>2. task[r] = "accepted" /\ task' = task /\ UNCHANGED <<coord, asked, active>>
    BY <1>0, <2>1 DEF Arm, Loop, Taking
  <2>3. /\ \A q \in Requests \ {r} : owed'[q] = owed[q]
        /\ owed'[r] = owed[r] \cup (IF KindOf[r] \in Tokened THEN {"token"} ELSE {})
    BY <1>0 DEF Arm, TypeOK
  <2>4. /\ cancel'.tokens = cancel.tokens
        /\ KindOf[r] = "deep" => cancel'.deep = FALSE
        /\ KindOf[r] # "deep" => cancel'.deep = cancel.deep
        /\ KindOf[r] # "scan" => cancel'.scan = cancel.scan
    BY <1>0 DEF Arm, TypeOK
  <2> QED
    BY <2>1, <2>2, <2>3, <2>4
<1>2. \A q \in Requests : (Arming(q) <=> q = r) /\ ~Arming(q)' /\ ~Between /\ ~Between'
  BY <1>1 DEF Arming, Between, At
<1>3. Owned'
  BY <1>0, <1>1, <1>2 DEF Owned, Live, Tokened, SingleFlight
<1>4. Aim'
  BY <1>0, <1>1, <1>2 DEF Aim, Asked, Live
<1>5. Reach'
  <2>1. asked.command \subseteq Requests \ {r}
    BY <1>0, <1>2 DEF Reach, TypeOK
  <2>2. ASSUME NEW q \in asked.command, task[q] \in Live, KindOf[q] \in {"scan", "deep"}
        PROVE  KindOf[q] # KindOf[r]
    BY <1>0, <1>1, <2>1, <2>2 DEF Owned, Live, SingleFlight
  <2> QED
    BY <1>0, <1>1, <1>2, <2>1, <2>2 DEF Reach, Live
<1> QED
  BY <1>3, <1>4, <1>5 DEF CInv

LEMMA DropCInv ==
    ASSUME CInv, Inv', NEW r \in Requests, NEW g \in Guards, DropGuard(r, g) PROVE CInv'
<1>0. TypeOK /\ Loop /\ Owned /\ Aim /\ Reach
  BY DEF CInv, Inv
<1>1. /\ task[r] \notin Live \cup {"new"} /\ UNCHANGED <<task, loop, coord, cancel, asked>>
      /\ \A q \in Requests \ {r} : owed'[q] = owed[q]
      /\ owed'[r] = owed[r] \ {g} /\ g \in owed[r]
      /\ g # "active" => active' = active
      /\ g = "active" => active' = active \ {KindOf[r]}
  BY <1>0 DEF DropGuard, TypeOK, Live
<1>2. \A q \in Requests : (Arming(q)' <=> Arming(q)) /\ (Between' <=> Between)
  BY <1>1 DEF Arming, Between, At
<1>3. Owned'
  <2>1. ASSUME NEW q \in Requests
        PROVE  /\ task'[q] \in Live /\ KindOf[q] \in SingleFlight => "active" \in owed'[q]
               /\ task'[q] \in Live /\ KindOf[q] \in Tokened => "token" \in owed'[q] \/ Arming(q)'
               /\ "active" \in owed'[q] => KindOf[q] \in active'
               /\ "token" \in owed'[q] => KindOf[q] \in Tokened
               /\ task'[q] = "new" => "token" \notin owed'[q]
    BY <1>0, <1>1, <1>2 DEF Owned
  <2> QED
    BY <2>1, <1>0, <1>1 DEF Owned
<1>4. Aim'
  BY <1>0, <1>1, <1>2 DEF Aim, Asked
<1>5. Reach'
  BY <1>0, <1>1, <1>2 DEF Reach, TypeOK
<1> QED
  BY <1>3, <1>4, <1>5 DEF CInv

\* A scan takes the permit, looks at the flag, and ends.
LEMMA ScanCInv ==
    ASSUME CInv, Inv', NEW r \in Requests, KindOf[r] = "scan",
           Start(r) \/ ScanEnters(r) \/ End(r)
    PROVE  CInv'
<1>0. TypeOK /\ Line /\ Owned /\ Aim /\ Reach
  BY DEF CInv, Inv
<1>1. /\ UNCHANGED <<loop, owed, gate, active, cancel, asked>>
      /\ \/ task[r] = "queued" /\ Becomes(r, "entered") /\ coord' = [NoCoord EXCEPT !.there = TRUE] /\ Holder(r)
         \/ task[r] = "entered" /\ cancel.scan # TRUE /\ Becomes(r, "running") /\ coord' = coord
         \/ task[r] \in {"entered", "running"} /\ Becomes(r, "ended") /\ coord' = NoCoord
  BY Zenon DEF Start, ScanEnters, End
<1>2. \A q \in Requests : (Arming(q)' <=> Arming(q)) /\ (Between' <=> Between)
  BY <1>1 DEF Arming, Between, At
<1>3. HeadIs(gate, r)
  BY <1>0, <1>1 DEF Holder, HeadIs, Line, Inside
<1>4. \A q \in Requests \ {r} : task[q] \notin {"entered", "running"}
  BY <1>0, <1>3 DEF HeadIs, Line, Inside
<1>5. \A q \in Requests \ {r} : task'[q] = task[q]
  BY <1>0, <1>1 DEF Becomes, TypeOK
<1>6. /\ task[r] \in Live
      /\ task'[r] \in {"entered", "running", "ended"}
      /\ task'[r] \in {"entered", "running"} => coord'.there = TRUE /\ task[r] # "running"
      /\ coord'.cancelled = TRUE /\ task'[r] = "running" => coord.cancelled = TRUE /\ task[r] = "entered"
      /\ task'[r] = "entered" => coord'.cancelled = FALSE
      /\ task'[r] = "running" => cancel.scan # TRUE /\ task[r] = "entered"
  <2>1. CASE task[r] = "queued" /\ Becomes(r, "entered") /\ coord' = [NoCoord EXCEPT !.there = TRUE]
    <3>1. task'[r] = "entered"
      BY <1>0, <2>1 DEF Becomes, TypeOK
    <3>2. coord'.there = TRUE /\ coord'.cancelled = FALSE
      BY <2>1 DEF NoCoord
    <3> QED
      BY <2>1, <3>1, <3>2 DEF Live
  <2>2. CASE task[r] = "entered" /\ cancel.scan # TRUE /\ Becomes(r, "running") /\ coord' = coord
    <3>1. task'[r] = "running"
      BY <1>0, <2>2 DEF Becomes, TypeOK
    <3> QED
      BY <1>0, <2>2, <3>1 DEF Live, Reach
  <2>3. CASE task[r] \in {"entered", "running"} /\ Becomes(r, "ended") /\ coord' = NoCoord
    <3>1. task'[r] = "ended"
      BY <1>0, <2>3 DEF Becomes, TypeOK
    <3> QED
      BY <2>3, <3>1 DEF Live
  <2> QED
    BY <1>1, <2>1, <2>2, <2>3
<1>7. Owned'
  BY <1>0, <1>1, <1>2, <1>5, <1>6 DEF Owned, Live
<1>8. Aim'
  BY <1>0, <1>1, <1>2, <1>4, <1>5, <1>6 DEF Aim, Asked, Live
<1>9. Reach'
  <2>1. asked.command \subseteq Requests
    BY <1>0 DEF TypeOK
  <2>2. ASSUME NEW q \in asked'.command
        PROVE  /\ KindOf[q] \in Tokened \cup {"scan", "deep"} /\ ~Arming(q)' /\ task'[q] # "new"
               /\ task'[q] \in Live /\ KindOf[q] \in Tokened => q \in cancel'.tokens
               /\ task'[q] \in Live /\ KindOf[q] = "deep" => cancel'.deep = TRUE
               /\ task'[q] \in Live \ {"running"} /\ KindOf[q] = "scan" => cancel'.scan = TRUE
               /\ task'[q] = "running" /\ KindOf[q] = "scan" => coord'.cancelled = TRUE \/ Between'
    <3>1. CASE q = r
      BY <3>1, <1>0, <1>1, <1>2, <1>6 DEF Reach, Live, Tokened
    <3>2. CASE q # r
      BY <3>2, <2>1, <1>0, <1>1, <1>2, <1>4, <1>5 DEF Reach
    <3> QED
      BY <3>1, <3>2
  <2>3. ASSUME NEW q \in Requests, task'[q] \in {"entered", "running"} PROVE q = r
    BY <2>3, <1>4, <1>5
  <2> QED
    BY <2>2, <2>3, <1>6 DEF Reach
<1> QED
  BY <1>7, <1>8, <1>9 DEF CInv

\* What asking writes down, and which tokens are set.
LEMMA AskEffect ==
    ASSUME TypeOK, NEW kinds
    PROVE  /\ Ask("command", kinds) =>
                 /\ asked'.command = asked.command \cup {q \in Requests : KindOf[q] \in kinds /\ task[q] \in Live}
                 /\ asked'.shutdown = asked.shutdown
           /\ Ask("shutdown", kinds) =>
                 /\ asked'.shutdown = asked.shutdown \cup {q \in Requests : KindOf[q] \in kinds /\ task[q] \in Live}
                 /\ asked'.command = asked.command
           /\ asked.command \subseteq Requests
           /\ TokensOf(Requests) = {q \in Requests : "token" \in owed[q]}
BY DEF Ask, InFlight, TypeOK, TokensOf

\* At the start of a line nobody is between his flag and the gate's line.
LEMMA ReadingFacts ==
    ASSUME CInv, At("reading") PROVE ~Between /\ \A q \in Requests : ~Arming(q)
BY DEF At, Between, Arming

LEMMA CommandCInv ==
    ASSUME CInv, Inv', CancelScan \/ DeepAnalyzeCancel \/ CancelRestructure PROVE CInv'
<1>0. TypeOK /\ Loop /\ Owned /\ Aim /\ Reach
  BY DEF CInv, Inv
<1>1. At("reading") /\ UNCHANGED <<task, owed, active, coord>>
  BY HelperTypes, <1>0 DEF CancelScan, DeepAnalyzeCancel, CancelRestructure
<1>2. ~Between /\ \A q \in Requests : ~Arming(q) /\ ~Arming(q)'
  BY <1>1, ReadingFacts, <1>0 DEF CancelScan, DeepAnalyzeCancel, CancelRestructure, GoTo, Arming, At, TypeOK
<1>3. Owned'
  BY <1>0, <1>1, <1>2 DEF Owned
<1>4. CASE CancelScan
  <2>1. /\ asked'.command = asked.command \cup {q \in Requests : KindOf[q] \in {"scan"} /\ task[q] \in Live}
        /\ asked'.shutdown = asked.shutdown /\ asked.command \subseteq Requests
        /\ cancel'.scan = TRUE /\ cancel'.deep = cancel.deep /\ cancel'.tokens = cancel.tokens
        /\ Between'
    BY <1>0, <1>4, AskEffect DEF CancelScan, GoTo, Between, TypeOK
  <2>2. Aim'
    BY <1>0, <1>1, <1>2, <2>1 DEF Aim, Asked
  <2>3. Reach'
    BY <1>0, <1>1, <1>2, <2>1 DEF Reach, Live, Tokened
  <2> QED
    BY <1>3, <2>2, <2>3 DEF CInv
<1>5. CASE DeepAnalyzeCancel
  <2>1. /\ asked'.command = asked.command \cup {q \in Requests : KindOf[q] \in {"deep"} /\ task[q] \in Live}
        /\ asked'.shutdown = asked.shutdown /\ asked.command \subseteq Requests
        /\ cancel'.scan = cancel.scan /\ cancel'.deep = TRUE /\ cancel'.tokens = cancel.tokens
        /\ ~Between'
    BY <1>0, <1>2, <1>5, AskEffect DEF DeepAnalyzeCancel, Between, TypeOK
  <2>2. Aim'
    BY <1>0, <1>1, <1>2, <2>1 DEF Aim, Asked
  <2>3. Reach'
    BY <1>0, <1>1, <1>2, <2>1 DEF Reach, Live, Tokened
  <2> QED
    BY <1>3, <2>2, <2>3 DEF CInv
<1>6. CASE CancelRestructure
  <2>1. /\ asked'.command = asked.command \cup {q \in Requests : KindOf[q] \in Tokened /\ task[q] \in Live}
        /\ asked'.shutdown = asked.shutdown /\ asked.command \subseteq Requests
        /\ cancel'.scan = cancel.scan /\ cancel'.deep = cancel.deep
        /\ cancel'.tokens = cancel.tokens \cup {q \in Requests : "token" \in owed[q]}
        /\ ~Between'
    BY <1>0, <1>2, <1>6, AskEffect DEF CancelRestructure, CancelTokens, Between, TypeOK
  <2>2. Aim'
    BY <1>0, <1>1, <1>2, <2>1 DEF Aim, Asked, Owned
  <2>3. Reach'
    BY <1>0, <1>1, <1>2, <2>1 DEF Reach, Live, Tokened, Owned
  <2> QED
    BY <1>3, <2>2, <2>3 DEF CInv
<1> QED
  BY <1>4, <1>5, <1>6

LEMMA CoordEffect ==
    ASSUME TypeOK, CancelCoord
    PROVE  /\ coord'.there = coord.there
           /\ coord.there = TRUE => coord'.cancelled = TRUE
           /\ coord.cancelled = TRUE => coord'.cancelled = TRUE
           /\ coord'.cancelled = TRUE => coord.cancelled = TRUE \/ coord.there = TRUE
<1>1. coord.there \in BOOLEAN /\ coord.cancelled \in BOOLEAN
  BY DEF TypeOK
<1>2. coord' = [coord EXCEPT !.cancelled = coord.cancelled \/ coord.there]
  BY DEF CancelCoord
<1>3. coord'.there = coord.there /\ coord'.cancelled = (coord.cancelled \/ coord.there)
  BY <1>2 DEF TypeOK
<1> QED
  BY <1>1, <1>3

LEMMA CoordinatorCInv ==
    ASSUME CInv, Inv', CancelCoordinator PROVE CInv'
<1>0. TypeOK /\ Loop /\ Owned /\ Aim /\ Reach
  BY DEF CInv, Inv
<1>1. /\ At("cancel") /\ loop' = Reading /\ UNCHANGED <<task, owed, active, cancel, asked>>
      /\ CancelCoord
  BY DEF CancelCoordinator
<1>2. Between /\ ~Between' /\ \A q \in Requests : ~Arming(q) /\ ~Arming(q)'
  BY <1>1 DEF Between, At, Arming, Reading
<1>3. Owned'
  BY <1>0, <1>1, <1>2 DEF Owned
<1>4. Aim'
  BY <1>0, <1>1, <1>2, CoordEffect DEF Aim, Asked, Live
<1>5. Reach'
  BY <1>0, <1>1, <1>2, CoordEffect DEF Reach, TypeOK
<1> QED
  BY <1>3, <1>4, <1>5 DEF CInv

LEMMA WipeCInv ==
    ASSUME CInv, Inv', NEW r \in Requests, Wipe(r) PROVE CInv'
<1>0. TypeOK /\ Loop /\ Owned /\ Aim /\ Reach
  BY DEF CInv, Inv
<1>1. At("reading") /\ loop' = [at |-> "wipe", req |-> r] /\ UNCHANGED <<task, owed, active, coord>>
  BY DEF Wipe
<1>2. ~Between /\ Between' /\ \A q \in Requests : ~Arming(q) /\ ~Arming(q)'
  BY <1>1, ReadingFacts DEF Between, Arming, At
<1>3. /\ asked'.command = asked.command
                 \cup {q \in Requests : KindOf[q] \in Tokened \cup {"scan"} /\ task[q] \in Live}
      /\ asked'.shutdown = asked.shutdown /\ asked.command \subseteq Requests
      /\ cancel'.scan = TRUE /\ cancel'.deep = cancel.deep
      /\ cancel'.tokens = cancel.tokens \cup {q \in Requests : "token" \in owed[q]}
  BY <1>0, AskEffect DEF Wipe, CancelTokens, TypeOK
<1>4. Owned'
  BY <1>0, <1>1, <1>2 DEF Owned
<1>5. Aim'
  BY <1>0, <1>1, <1>2, <1>3 DEF Aim, Asked, Owned
<1>6. Reach'
  BY <1>0, <1>1, <1>2, <1>3 DEF Reach, Live, Tokened, Owned
<1> QED
  BY <1>4, <1>5, <1>6 DEF CInv

LEMMA WipeQueuesCInv ==
    ASSUME CInv, Inv', NEW r \in Requests, WipeQueues(r) PROVE CInv'
<1>0. TypeOK /\ Loop /\ Owned /\ Aim /\ Reach
  BY DEF CInv, Inv
<1>1. /\ At("wipe") /\ loop'.at = "wipewait" /\ CancelCoord /\ UNCHANGED <<owed, active>>
      /\ task'[r] = "queued" /\ \A q \in Requests \ {r} : task'[q] = task[q]
      /\ task[r] = "new" /\ KindOf[r] = "wipe"
  BY <1>0 DEF WipeQueues, GoTo, Becomes, TypeOK, Loop, At
<1>2. Between /\ ~Between' /\ \A q \in Requests : ~Arming(q) /\ ~Arming(q)'
  BY <1>1 DEF Between, At, Arming
<1>3. /\ asked'.command = asked.command
                 \cup {q \in Requests : KindOf[q] \in {"deep"} /\ task[q] \in Live}
      /\ asked'.shutdown = asked.shutdown /\ asked.command \subseteq Requests
      /\ cancel'.scan = cancel.scan /\ cancel'.deep = TRUE /\ cancel'.tokens = cancel.tokens
  BY <1>0, AskEffect DEF WipeQueues, TypeOK
<1>4. Owned'
  BY <1>0, <1>1, <1>2 DEF Owned, SingleFlight, Tokened
<1>5. Aim'
  BY <1>0, <1>1, <1>2, <1>3, CoordEffect DEF Aim, Asked, Live
<1>6. Reach'
  <2>1. r \notin asked'.command
    BY <1>0, <1>1, <1>3 DEF Reach, Live
  <2>2. coord'.there = coord.there /\ (coord.there = TRUE => coord'.cancelled = TRUE)
    BY <1>0, <1>1, CoordEffect
  <2>3. ASSUME NEW q \in asked'.command
        PROVE  /\ KindOf[q] \in Tokened \cup {"scan", "deep"} /\ task'[q] # "new"
               /\ task'[q] \in Live /\ KindOf[q] \in Tokened => q \in cancel'.tokens
               /\ task'[q] \in Live \ {"running"} /\ KindOf[q] = "scan" => cancel'.scan = TRUE
               /\ task'[q] = "running" /\ KindOf[q] = "scan" => coord'.cancelled = TRUE
    BY <1>0, <1>1, <1>3, <2>1, <2>2 DEF Reach, Live, Tokened
  <2>4. ASSUME NEW q \in Requests
        PROVE  /\ task'[q] \in {"entered", "running"} /\ KindOf[q] = "scan" => coord'.there = TRUE
               /\ task'[q] = "entered" => KindOf[q] = "scan"
    BY <1>0, <1>1, <2>2 DEF Reach
  <2> QED
    BY <1>0, <1>2, <1>3, <2>3, <2>4 DEF Reach
<1> QED
  BY <1>4, <1>5, <1>6 DEF CInv

LEMMA MainCInv ==
    ASSUME CInv, Inv', MainCancelsScan \/ MainCancelsCoordinator \/ MainCancelsRest PROVE CInv'
<1>0. TypeOK /\ Loop /\ Owned /\ Aim /\ Reach
  BY DEF CInv, Inv
<1>1. UNCHANGED <<task, owed, active, loop>>
  BY DEF MainCancelsScan, MainCancelsCoordinator, MainCancelsRest
<1>2. (Between' <=> Between) /\ \A q \in Requests : Arming(q)' <=> Arming(q)
  BY <1>1 DEF Between, Arming, At
<1>3. Owned'
  BY <1>0, <1>1, <1>2 DEF Owned
<1>4. CASE MainCancelsScan
  <2>1. /\ asked'.command = asked.command /\ asked.shutdown \subseteq asked'.shutdown
        /\ asked.command \subseteq Requests /\ coord' = coord
        /\ cancel'.scan = TRUE /\ cancel'.deep = cancel.deep /\ cancel'.tokens = cancel.tokens
    BY <1>0, <1>4, AskEffect DEF MainCancelsScan, TypeOK
  <2>2. Aim'
    BY <1>0, <1>1, <1>2, <2>1 DEF Aim, Asked
  <2>3. Reach'
    BY <1>0, <1>1, <1>2, <2>1 DEF Reach
  <2> QED
    BY <1>3, <2>2, <2>3 DEF CInv
<1>5. CASE MainCancelsCoordinator
  <2>1. /\ asked'.command = asked.command /\ asked.shutdown \subseteq asked'.shutdown
        /\ asked.command \subseteq Requests /\ cancel' = cancel /\ CancelCoord
        /\ coord.there = TRUE =>
              \A q \in Requests : KindOf[q] = "scan" /\ task[q] \in Live => q \in asked'.shutdown
    BY <1>0, <1>5 DEF MainCancelsCoordinator, InFlight, TypeOK
  <2>2. Aim'
    BY <1>0, <1>1, <1>2, <2>1, CoordEffect DEF Aim, Asked, Live
  <2>3. Reach'
    BY <1>0, <1>1, <1>2, <2>1, CoordEffect DEF Reach
  <2> QED
    BY <1>3, <2>2, <2>3 DEF CInv
<1>6. CASE MainCancelsRest
  <2>1. /\ asked'.command = asked.command /\ asked.command \subseteq Requests /\ coord' = coord
        /\ asked'.shutdown = asked.shutdown
                 \cup {q \in Requests : KindOf[q] \in Tokened \cup {"deep"} /\ task[q] \in Live}
        /\ cancel'.scan = cancel.scan /\ cancel'.deep = TRUE
        /\ cancel'.tokens = cancel.tokens \cup {q \in Requests : "token" \in owed[q]}
    BY <1>0, <1>6, AskEffect DEF MainCancelsRest, CancelTokens, TypeOK
  <2>2. Aim'
    BY <1>0, <1>1, <1>2, <2>1 DEF Aim, Asked, Owned
  <2>3. Reach'
    BY <1>0, <1>1, <1>2, <2>1 DEF Reach
  <2> QED
    BY <1>3, <2>2, <2>3 DEF CInv
<1> QED
  BY <1>4, <1>5, <1>6

LEMMA CInvStep == CInv /\ [Next]_vars => CInv'
<1> SUFFICES ASSUME CInv, [Next]_vars PROVE CInv'
  OBVIOUS
<1>0. Inv'
  BY InvStep DEF CInv
<1>1. ASSUME NEW r \in Requests, Bounce(r) \/ Accept(r) \/ Wipe(r) PROVE CInv'
  BY <1>0, <1>1, CalmTask, AcceptCInv, WipeCInv
<1>2. ASSUME NEW r \in Requests, LoopStep(r) PROVE CInv'
  BY <1>0, <1>2, ArmCInv, CalmLoop, CalmTask DEF LoopStep
<1>3. ASSUME NEW r \in Requests, WipeStep(r) PROVE CInv'
  BY <1>0, <1>3, WipeQueuesCInv, CalmTask DEF WipeStep
<1>4. ASSUME NEW r \in Requests, TaskStep(r) PROVE CInv'
  <2>1. ScanEnters(r) => KindOf[r] = "scan"
    BY Zenon DEF ScanEnters, CInv, Reach
  <2> QED
    BY <1>0, <1>4, <2>1, CalmTask, ScanCInv, DropCInv DEF TaskStep, Guards
<1>5. CASE ControlStep \/ CancelCoordinator \/ LoopStops \/ ParentExits
  BY <1>0, <1>5, CalmLoop, CommandCInv, CoordinatorCInv DEF ControlStep
<1>6. CASE MainStep
  BY <1>0, <1>6, CalmLoop, CalmAbort, MainCInv DEF MainStep
<1>7. CASE Exited \/ UNCHANGED vars
  <2>1. UNCHANGED vars
    BY <1>7 DEF Exited
  <2> QED
    BY <1>0, <2>1 DEF vars, CInv, Owned, Aim, Reach, Asked, Arming, Between, At
<1> QED
  BY <1>1, <1>2, <1>3, <1>4, <1>5, <1>6, <1>7 DEF Next

\* A cancel or wipe command reaches every operation accepted before it, for
\* any number of operations and commands (server.rs and commands/wipe.rs).
THEOREM CancelDeliveredCorrect == Spec => []CancelDelivered
<1>1. CInv => CancelDelivered
  <2> SUFFICES ASSUME CInv, NEW r \in asked.command, task[r] = "running", ~Between
               PROVE  Cancelled(r)
    BY DEF CancelDelivered, Between
  <2>1. /\ KindOf[r] \in Tokened \cup {"scan", "deep"}
        /\ KindOf[r] \in Tokened => r \in cancel.tokens
        /\ KindOf[r] = "deep" => cancel.deep = TRUE
        /\ KindOf[r] = "scan" => coord.cancelled = TRUE
    BY DEF CInv, Reach, Live
  <2> QED
    BY <2>1 DEF Cancelled, Tokened
<1> QED
  BY <1>1, InitCInv, CInvStep, PTL DEF Spec

\* No operation that starts is cancelled by a command that came before it.
THEOREM CancelAimedCorrect == Spec => []CancelAimed
<1>1. CInv => CancelAimed
  <2> SUFFICES ASSUME CInv, NEW r \in Requests, task[r] = "running",
                      KindOf[r] \in {"scan", "deep"} \cup Tokened, Cancelled(r)
               PROVE  r \in Asked
    BY DEF CancelAimed, Asked
  <2>1. /\ r \in cancel.tokens => r \in Asked
        /\ cancel.deep = TRUE /\ KindOf[r] = "deep" => r \in Asked
        /\ coord.cancelled = TRUE /\ KindOf[r] = "scan" => r \in Asked
    BY DEF CInv, Aim, Live, Inv, Loop, Arming, At, Taking
  <2>2. cancel.deep \in BOOLEAN /\ coord.cancelled \in BOOLEAN
    BY DEF CInv, Inv, TypeOK
  <2> QED
    BY <2>1, <2>2 DEF Cancelled, Tokened
<1> QED
  BY <1>1, InitCInv, CInvStep, PTL DEF Spec
=============================================================================
