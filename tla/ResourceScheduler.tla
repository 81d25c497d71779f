-------------------------- MODULE ResourceScheduler --------------------------
(***************************************************************************)
(* The process-wide admission of model, scan and index work                *)
(* (engine/src/resource_scheduler.rs).  Every pass of the loop in          *)
(* reserve_internal runs under one mutex and is one action; between two    *)
(* passes a waiter sleeps on a condition variable with a 50 ms timeout, so *)
(* a pass of any waiter can come at any time.  Memory is counted in units  *)
(* of 512 MiB, in which every clamp of the code is a whole number.         *)
(***************************************************************************)
EXTENDS Naturals, SequencesExt

CONSTANTS Requests,     \* the calls of reserve*, each made once
          Interactive,  \* those of Priority::Interactive
          Patient,      \* Wait::Until
          Queued,       \* Wait::Queued; the others are Wait::Immediate
          Demand,       \* [Requests -> [mem, cpu, io, gpu]]
          Cpu, Io, Gpu, \* capacities
          Total,        \* physical memory
          Readings,     \* values the free-memory probe can return
          MaxChanges    \* changes of the free-memory reading

ASSUME SchedulerAssumption ==
    /\ Interactive \subseteq Requests /\ Patient \subseteq Requests
    /\ Queued \subseteq Requests /\ Patient \cap Queued = {}
    /\ Demand \in [Requests -> [mem : Nat, cpu : Nat, io : Nat, gpu : Nat]]
    /\ Cpu \in Nat \ {0} /\ Io \in Nat \ {0} /\ Gpu \in Nat
    /\ Total \in Nat /\ Readings \subseteq Nat /\ Readings # {}
    /\ MaxChanges \in Nat

VARIABLES state,        \* [Requests -> where the call is]
          waiting,      \* the ids in State.waiting, oldest first
          active,       \* the ids in State.active
          retained,     \* active leases whose retain_memory was called
          available,    \* the free-memory probe
          cancelled,    \* calls whose cancelled() answers true
          expired,      \* patient calls past their deadline
          changes       \* bound

vars == <<state, waiting, active, retained, available, cancelled, expired, changes>>

States == {"new", "checked", "waiting", "leased", "released", "refused", "cancelled"}

Init == /\ state = [q \in Requests |-> "new"]
        /\ waiting = <<>>
        /\ active = {}
        /\ retained = {}
        /\ available \in Readings
        /\ cancelled = {}
        /\ expired = {}
        /\ changes = 0

(***************************************************************************)
(* util/model_memory.rs: what fits in this machine, and what fits now.     *)
(***************************************************************************)
Clamp(x, lo, hi) == IF x < lo THEN lo ELSE IF x > hi THEN hi ELSE x
Reserve == Clamp(Total \div 4, 4, 16)
FreeFloor == Clamp(Total \div 16, 1, 4)
Budget == IF Total > Reserve THEN Total - Reserve ELSE 0

NeverFits(mem) == mem > Budget
Free == IF available < Total THEN available ELSE Total
Rejected(mem) == mem = 0 \/ available = 0 \/ NeverFits(mem) \/ Free < FreeFloor \/ mem > Free - FreeFloor

(***************************************************************************)
(* What the active leases hold.  A lease kept for its memory gives its     *)
(* concurrency back; one with neither cpu nor io is a resident.            *)
(***************************************************************************)
Held(q) == IF q \in retained THEN [Demand[q] EXCEPT !.cpu = 0, !.io = 0] ELSE Demand[q]
MemOf == [q \in Requests |-> Held(q).mem]
CpuOf == [q \in Requests |-> Held(q).cpu]
IoOf == [q \in Requests |-> Held(q).io]
GpuOf == [q \in Requests |-> Held(q).gpu]
UsedMem == SumFunctionOnSet(MemOf, active)
UsedCpu == SumFunctionOnSet(CpuOf, active)
UsedIo == SumFunctionOnSet(IoOf, active)
UsedGpu == SumFunctionOnSet(GpuOf, active)

Residents == {q \in active : Held(q).cpu = 0 /\ Held(q).io = 0}
ResidentMem == SumFunctionOnSet(MemOf, Residents)

\* Fault injection: only free memory is looked at, not what is lent already.
MemoryOkAlone(q) == Demand[q].mem = 0 \/ ~Rejected(Demand[q].mem)

MemoryOk(q) == Demand[q].mem = 0 \/ (~Rejected(Demand[q].mem) /\ Demand[q].mem + UsedMem <= Budget)
AcceleratorOk(q) == Demand[q].gpu = 0 \/ UsedGpu + Demand[q].gpu <= Gpu
Fits(q) == /\ AcceleratorOk(q) /\ MemoryOk(q)
           /\ UsedCpu + Demand[q].cpu <= Cpu
           /\ UsedIo + Demand[q].io <= Io

\* max_by_key((priority, Reverse(id))): the oldest of the highest priority.
Outranks(q, r) == q \in Interactive /\ r \notin Interactive

\* Fault injection: strictly first come, first served.
FirstCome(w) == Head(w)

First(w) == w[CHOOSE i \in DOMAIN w :
                  \A j \in DOMAIN w : ~Outranks(w[j], w[i]) /\ (j < i => Outranks(w[i], w[j]))]

\* Fault injection: a resident that fills the budget is waited for.
NeverStuck(q) == FALSE

StuckOnResidents(q) ==
    \/ active = Residents /\ (~AcceleratorOk(q) \/ ~MemoryOk(q))
    \/ Demand[q].mem > 0 /\ Demand[q].mem + ResidentMem > Budget
Busy(q) == \/ active = {}
           \/ q \notin Interactive \cup Patient \cup Queued /\ active \cap Interactive # {}

\* Fault injection: a patient call fails like any other.
GivesUpAtOnce(q) == StuckOnResidents(q) \/ Busy(q)

GivesUp(q) == /\ StuckOnResidents(q) \/ Busy(q)
              /\ q \in Patient => q \in expired

(***************************************************************************)
(* One pass of the loop for the waiter q, w being the waiting table.       *)
(***************************************************************************)
PlaceOf(q, w) == CHOOSE i \in DOMAIN w : w[i] = q

\* Fault injection: a refused or cancelled waiter stays listed.
LeaveListed(q, w, s) == /\ waiting' = IF s = "leased" THEN RemoveAt(w, PlaceOf(q, w)) ELSE w
                        /\ state' = [state EXCEPT ![q] = s]

Leave(q, w, s) == /\ waiting' = RemoveAt(w, PlaceOf(q, w))
                  /\ state' = [state EXCEPT ![q] = s]
Admitted(q, w) == First(w) = q /\ Fits(q)

Pass(q, w) ==
    \/ /\ q \in cancelled
       /\ Leave(q, w, "cancelled")
       /\ UNCHANGED active
    \/ /\ q \notin cancelled /\ Admitted(q, w)
       /\ Leave(q, w, "leased")
       /\ active' = active \cup {q}
    \/ /\ q \notin cancelled /\ ~Admitted(q, w) /\ GivesUp(q)
       /\ Leave(q, w, "refused")
       /\ UNCHANGED active
    \/ /\ q \notin cancelled /\ ~Admitted(q, w) /\ ~GivesUp(q)
       /\ waiting' = w
       /\ state' = [state EXCEPT ![q] = "waiting"]
       /\ UNCHANGED active

\* The checks before the mutex is taken.
Impossible(q) ==
    \/ Demand[q].gpu > Gpu
    \/ Demand[q].mem = 0 /\ Demand[q].cpu = 0 /\ Demand[q].io = 0
    \/ Demand[q].cpu > Cpu \/ Demand[q].io > Io
    \/ Demand[q].mem > 0 /\ NeverFits(Demand[q].mem)
Unlikely(q) == q \notin Patient /\ Demand[q].mem > 0 /\ Rejected(Demand[q].mem)

Check(q) == /\ state[q] = "new"
            /\ state' = [state EXCEPT ![q] = IF Impossible(q) \/ Unlikely(q)
                                             THEN "refused" ELSE "checked"]
            /\ UNCHANGED <<waiting, active, retained, available, cancelled, expired, changes>>

\* The id is drawn, the waiter listed and the first pass made under one lock.
Enter(q) == /\ state[q] = "checked"
            /\ Pass(q, Append(waiting, q))
            /\ UNCHANGED <<retained, available, cancelled, expired, changes>>

Wake(q) == /\ state[q] = "waiting"
           /\ Pass(q, waiting)
           /\ UNCHANGED <<retained, available, cancelled, expired, changes>>

\* Lease::drop and Lease::retain_memory.
Release(q) == /\ state[q] = "leased"
              /\ active' = active \ {q}
              /\ retained' = retained \ {q}
              /\ state' = [state EXCEPT ![q] = "released"]
              /\ UNCHANGED <<waiting, available, cancelled, expired, changes>>

RetainMemory(q) == /\ state[q] = "leased" /\ q \notin retained
                   /\ retained' = retained \cup {q}
                   /\ UNCHANGED <<state, waiting, active, available, cancelled, expired, changes>>

(***************************************************************************)
(* The callers and the machine.                                            *)
(***************************************************************************)
Cancel(q) == /\ state[q] \in {"new", "checked", "waiting"} /\ q \notin cancelled
             /\ cancelled' = cancelled \cup {q}
             /\ UNCHANGED <<state, waiting, active, retained, available, expired, changes>>

\* Fault injection: every waiter has a deadline.
ExpireAny(q) == /\ state[q] = "waiting" /\ q \notin expired
                /\ expired' = expired \cup {q}
                /\ UNCHANGED <<state, waiting, active, retained, available, cancelled, changes>>

Expire(q) == /\ q \in Patient /\ state[q] = "waiting" /\ q \notin expired
             /\ expired' = expired \cup {q}
             /\ UNCHANGED <<state, waiting, active, retained, available, cancelled, changes>>

MemoryChanges == /\ changes < MaxChanges
                 /\ available' \in Readings \ {available}
                 /\ changes' = changes + 1
                 /\ UNCHANGED <<state, waiting, active, retained, cancelled, expired>>

Done == /\ \A q \in Requests : state[q] \in {"leased", "released", "refused", "cancelled"}
        /\ UNCHANGED vars

Next == \/ \E q \in Requests : Check(q) \/ Enter(q) \/ Wake(q) \/ Release(q) \/ RetainMemory(q)
                               \/ Cancel(q) \/ Expire(q)
        \/ MemoryChanges
        \/ Done

\* The wait has a 50 ms timeout, a deadline passes, and work that holds
\* concurrency ends.  Nobody promises that a resident retires.
Works(q) == ~(Held(q).cpu = 0 /\ Held(q).io = 0)
Fairness == \A q \in Requests : /\ WF_vars(Check(q)) /\ WF_vars(Enter(q)) /\ WF_vars(Wake(q))
                                /\ WF_vars(Expire(q))
                                /\ WF_vars(Works(q) /\ (Release(q) \/ RetainMemory(q)))

Spec == Init /\ [][Next]_vars /\ Fairness

(***************************************************************************)
(* Correctness.                                                            *)
(***************************************************************************)
\* Every variable has the type its declaration names.
TypeOK == /\ state \in [Requests -> States]
          /\ waiting \in Seq(Requests)
          /\ active \subseteq Requests
          /\ retained \subseteq Requests
          /\ available \in Readings
          /\ cancelled \subseteq Requests
          /\ expired \subseteq Patient
          /\ changes \in 0..MaxChanges

\* The two tables of the scheduler list exactly the calls that wait and those
\* that hold a lease, each once: a call that was cancelled or refused leaves
\* no waiter behind to block those after it, and no lease outlives its drop.
Ledger == /\ active = {q \in Requests : state[q] = "leased"}
          /\ retained \subseteq active
          /\ {waiting[i] : i \in DOMAIN waiting} = {q \in Requests : state[q] = "waiting"}
          /\ \A i, j \in DOMAIN waiting : waiting[i] = waiting[j] => i = j

\* The active leases never hold more than the machine has to lend, however
\* requests, releases, retained models and memory readings interleave.
WithinCapacity == /\ UsedCpu <= Cpu
                  /\ UsedIo <= Io
                  /\ UsedGpu <= Gpu
                  /\ UsedMem <= Budget

\* No call waits for ever, not even behind residents that never retire: it is
\* admitted, refused or cancelled.
NobodyStranded == \A q \in Requests : state[q] = "waiting" ~> state[q] # "waiting"

\* No background call is admitted while an interactive one waits, in whatever
\* order they came and whichever of them wakes first.
InteractiveFirst ==
    [][\A q, r \in Requests :
           (state[q] # "leased" /\ state'[q] = "leased" /\ r # q /\ state[r] = "waiting") =>
               ~Outranks(r, q)]_vars

\* A patient call (a scan file) that could fit this machine is refused only
\* once its patience has run out, whatever the other calls and the memory do.
PatienceKept ==
    [][\A q \in Patient : (state[q] # "refused" /\ state'[q] = "refused") =>
           Impossible(q) \/ q \in expired]_vars
=============================================================================
