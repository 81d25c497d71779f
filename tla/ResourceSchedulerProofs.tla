---------------------- MODULE ResourceSchedulerProofs ----------------------
(***************************************************************************)
(* Proofs about ResourceScheduler, for any set of calls, demands,          *)
(* capacities and memory readings.                                         *)
(***************************************************************************)
EXTENDS ResourceScheduler, LineLemmas, FoldLemmas

USE SchedulerAssumption

(***************************************************************************)
(* Types and the ledger.  Neither is inductive alone: a removal is only    *)
(* sound for an id that is listed, and listed once.                        *)
(***************************************************************************)
Inv == TypeOK /\ Ledger

LEMMA LedgerListed ==
    Ledger <=> /\ active = {q \in Requests : state[q] = "leased"}
               /\ retained \subseteq active
               /\ Range(waiting) = {q \in Requests : state[q] = "waiting"}
               /\ Once(waiting)
BY DEF Ledger, Range, Once

\* A call that leaves the table is in it no more, and the others still are.
LEMMA RemoveListed ==
    ASSUME NEW S, NEW w \in Seq(S), Once(w), NEW q \in Range(w)
    PROVE  LET v == RemoveAt(w, PlaceOf(q, w))
           IN  v \in Seq(S) /\ Once(v) /\ Range(v) = Range(w) \ {q}
<1>1. PlaceOf(q, w) \in DOMAIN w /\ w[PlaceOf(q, w)] = q
  BY DEF PlaceOf, Range
<1> QED
  BY <1>1, RemovePlace

LEMMA InitInv == Init => Inv
<1> SUFFICES ASSUME Init PROVE Inv
  OBVIOUS
<1>1. <<>> \in Seq(Requests) /\ DOMAIN <<>> = {}
  OBVIOUS
<1>2. TypeOK
  BY <1>1 DEF Init, TypeOK, States
<1>3. Range(waiting) = {} /\ Once(waiting)
  BY <1>1 DEF Init, Range, Once
<1>4. Ledger
  BY <1>3, LedgerListed DEF Init
<1> QED
  BY <1>2, <1>4 DEF Inv

\* One pass of the loop, made for a call that is in the table w it sees.
LEMMA PassInv ==
    ASSUME Inv, NEW q \in Requests, NEW w \in Seq(Requests), Once(w), q \in Range(w),
           Range(w) \ {q} = Range(waiting) \ {q},
           state[q] \in {"checked", "waiting"}, Pass(q, w),
           UNCHANGED <<retained, available, cancelled, expired, changes>>
    PROVE  Inv'
<1>1. /\ state \in [Requests -> States] /\ active = {r \in Requests : state[r] = "leased"}
      /\ retained \subseteq active
      /\ Range(waiting) = {r \in Requests : state[r] = "waiting"}
  BY LedgerListed DEF Inv, TypeOK
<1>2. CASE \E s \in {"cancelled", "refused"} : Leave(q, w, s) /\ UNCHANGED active
  <2>1. PICK s \in {"cancelled", "refused"} : Leave(q, w, s) /\ UNCHANGED active
    BY <1>2
  <2>2. waiting' \in Seq(Requests) /\ Once(waiting') /\ Range(waiting') = Range(w) \ {q}
    BY <2>1, RemoveListed DEF Leave
  <2>3. state' = [state EXCEPT ![q] = s]
    BY <2>1 DEF Leave
  <2>4. state' \in [Requests -> States]
    BY <1>1, <2>3 DEF States
  <2>5. /\ Range(waiting') = {r \in Requests : state'[r] = "waiting"}
        /\ active' = {r \in Requests : state'[r] = "leased"}
    BY <1>1, <2>1, <2>2, <2>3
  <2>6. Ledger'
    BY <1>1, <2>1, <2>2, <2>5 DEF Ledger, Range, Once
  <2> QED
    BY <2>1, <2>2, <2>4, <2>6, <1>1 DEF Inv, TypeOK
<1>3. CASE Leave(q, w, "leased") /\ active' = active \cup {q}
  <2>2. waiting' \in Seq(Requests) /\ Once(waiting') /\ Range(waiting') = Range(w) \ {q}
    BY <1>3, RemoveListed DEF Leave
  <2>3. state' = [state EXCEPT ![q] = "leased"]
    BY <1>3 DEF Leave
  <2>4. state' \in [Requests -> States]
    BY <1>1, <2>3 DEF States
  <2>5. /\ Range(waiting') = {r \in Requests : state'[r] = "waiting"}
        /\ active' = {r \in Requests : state'[r] = "leased"}
    BY <1>1, <1>3, <2>2, <2>3
  <2>6. Ledger'
    BY <1>1, <1>3, <2>2, <2>5 DEF Ledger, Range, Once
  <2> QED
    BY <1>3, <2>2, <2>4, <2>6, <1>1 DEF Inv, TypeOK
<1>4. CASE waiting' = w /\ state' = [state EXCEPT ![q] = "waiting"] /\ UNCHANGED active
  <2>4. state' \in [Requests -> States]
    BY <1>1, <1>4 DEF States
  <2>5. /\ Range(waiting') = {r \in Requests : state'[r] = "waiting"}
        /\ active' = {r \in Requests : state'[r] = "leased"}
    BY <1>1, <1>4
  <2>6. Ledger'
    BY <1>1, <1>4, <2>5 DEF Ledger, Range, Once
  <2> QED
    BY <1>4, <2>4, <2>6, <1>1 DEF Inv, TypeOK
<1> QED
  BY <1>2, <1>3, <1>4 DEF Pass

\* The table the pass of an entering or of a woken call sees.
LEMMA EntersListed ==
    ASSUME Inv, NEW q \in Requests, state[q] = "checked"
    PROVE  /\ Append(waiting, q) \in Seq(Requests) /\ Once(Append(waiting, q))
           /\ q \in Range(Append(waiting, q))
           /\ Range(Append(waiting, q)) \ {q} = Range(waiting) \ {q}
<1>1. waiting \in Seq(Requests) /\ Once(waiting) /\ q \notin Range(waiting)
  BY LedgerListed DEF Inv, TypeOK
<1> QED
  BY <1>1, AppendLine

LEMMA InvStep == Inv /\ [Next]_vars => Inv'
<1> SUFFICES ASSUME Inv, [Next]_vars PROVE Inv'
  OBVIOUS
<1>0. /\ TypeOK /\ active = {r \in Requests : state[r] = "leased"} /\ retained \subseteq active
      /\ Range(waiting) = {r \in Requests : state[r] = "waiting"} /\ Once(waiting)
  BY LedgerListed DEF Inv
<1>1. ASSUME NEW q \in Requests, Check(q) PROVE Inv'
  <2>1. TypeOK'
    BY <1>0, <1>1 DEF Check, TypeOK, States
  <2>2. /\ Range(waiting)' = {r \in Requests : state'[r] = "waiting"}
        /\ active' = {r \in Requests : state'[r] = "leased"}
    <3>1. /\ state[q] = "new" /\ state'[q] \in {"refused", "checked"} /\ active' = active
          /\ \A r \in Requests \ {q} : state'[r] = state[r]
      BY <1>0, <1>1 DEF Check, TypeOK
    <3>2. Range(waiting)' = Range(waiting)
      BY <1>1 DEF Check, Range
    <3> QED
      BY <1>0, <3>1, <3>2
  <2>3. Ledger'
    BY <1>0, <1>1, <2>2 DEF Check, Ledger, Range, Once
  <2> QED
    BY <2>1, <2>3 DEF Inv
<1>2. ASSUME NEW q \in Requests, Enter(q) PROVE Inv'
  BY <1>2, EntersListed, PassInv DEF Enter
<1>3. ASSUME NEW q \in Requests, Wake(q) PROVE Inv'
  BY <1>0, <1>3, PassInv DEF Wake, TypeOK
<1>4. ASSUME NEW q \in Requests, Release(q) PROVE Inv'
  <2>1. TypeOK'
    BY <1>0, <1>4 DEF Release, TypeOK, States
  <2>2. /\ Range(waiting)' = {r \in Requests : state'[r] = "waiting"}
        /\ active' = {r \in Requests : state'[r] = "leased"}
    <3>1. /\ state[q] = "leased" /\ state'[q] \in {"released"} /\ active' = active \ {q}
          /\ \A r \in Requests \ {q} : state'[r] = state[r]
      BY <1>0, <1>4 DEF Release, TypeOK
    <3>2. Range(waiting)' = Range(waiting)
      BY <1>4 DEF Release, Range
    <3> QED
      BY <1>0, <3>1, <3>2
  <2>3. Ledger'
    BY <1>0, <1>4, <2>2 DEF Release, Ledger, Range, Once
  <2> QED
    BY <2>1, <2>3 DEF Inv
<1>5. ASSUME NEW q \in Requests, RetainMemory(q) PROVE Inv'
  <2>1. /\ UNCHANGED <<state, waiting, active, available, cancelled, expired, changes>>
        /\ retained' \subseteq active /\ retained' \subseteq Requests
    BY <1>0, <1>5 DEF RetainMemory, Inv, TypeOK, Ledger
  <2>2. TypeOK'
    BY <1>0, <2>1 DEF Inv, TypeOK
  <2>3. Ledger'
    BY <1>0, <2>1 DEF Inv, Ledger
  <2> QED
    BY <2>2, <2>3 DEF Inv
<1>6. ASSUME NEW q \in Requests, Cancel(q) PROVE Inv'
  <2>1. UNCHANGED <<state, waiting, active, retained, available, expired, changes>> /\ cancelled' \subseteq Requests
    BY <1>0, <1>6 DEF Cancel, Inv, TypeOK
  <2>2. TypeOK'
    BY <1>0, <2>1 DEF Inv, TypeOK
  <2>3. Ledger'
    BY <1>0, <2>1 DEF Inv, Ledger
  <2> QED
    BY <2>2, <2>3 DEF Inv
<1>7. ASSUME NEW q \in Requests, Expire(q) PROVE Inv'
  <2>1. TypeOK'
    BY <1>0, <1>7 DEF Expire, TypeOK
  <2>2. Ledger'
    BY <1>7 DEF Expire, Inv, Ledger
  <2> QED
    BY <2>1, <2>2 DEF Inv
<1>8. CASE MemoryChanges
  <2>1. TypeOK'
    BY <1>0, <1>8 DEF MemoryChanges, TypeOK
  <2>2. Ledger'
    BY <1>8 DEF MemoryChanges, Inv, Ledger
  <2> QED
    BY <2>1, <2>2 DEF Inv
<1>9. CASE UNCHANGED vars
  BY <1>9 DEF vars, Inv, TypeOK, Ledger, Range
<1> QED
  BY <1>1, <1>2, <1>3, <1>4, <1>5, <1>6, <1>7, <1>8, <1>9 DEF Next, Done

LEMMA InvAlways == Spec => []Inv
BY InitInv, InvStep, PTL DEF Spec

\* TypeOK of ResourceScheduler: every table keeps its type.
THEOREM TypeCorrect == Spec => []TypeOK
BY InvAlways, PTL DEF Inv

\* Ledger of ResourceScheduler: no refused or cancelled call stays listed and
\* no lease outlives its drop.
THEOREM LedgerKept == Spec => []Ledger
BY InvAlways, PTL DEF Inv

(***************************************************************************)
(* Priority.  First is the oldest of the most urgent ids listed, and the   *)
(* ledger says every waiting call is listed.                               *)
(***************************************************************************)
\* Every nonempty set of indices has a least one: the initial segments of
\* the set are finite, and strict inclusion of finite sets is well-founded.
LEMMA LeastIndex ==
    ASSUME NEW n \in Nat, NEW T \in SUBSET (1..n), T # {}
    PROVE  \E i \in T : \A j \in T : i <= j
<1> DEFINE Upto(i) == {j \in T : j <= i}
           Segments == {Upto(i) : i \in T}
<1>1. IsFiniteSet(1..n)
  BY FS_Interval
<1>2. Segments \subseteq FiniteSubsetsOf(1..n) /\ Segments # {}
  <2>1. ASSUME NEW s \in Segments PROVE s \in FiniteSubsetsOf(1..n)
    <3>1. s \subseteq 1..n
      OBVIOUS
    <3>2. IsFiniteSet(s)
      BY <1>1, <3>1, FS_Subset
    <3> QED
      BY <3>1, <3>2 DEF FiniteSubsetsOf
  <2>2. PICK k \in T : TRUE
    OBVIOUS
  <2>3. Upto(k) \in Segments
    OBVIOUS
  <2> QED
    BY <2>1, <2>3
<1>3. IsWellFoundedOn(StrictSubsetOrdering(1..n), FiniteSubsetsOf(1..n))
  BY FS_StrictSubsetOrderingWellFounded
<1>4. PICK s \in Segments : \A t \in Segments : <<t, s>> \notin StrictSubsetOrdering(1..n)
  <2> HIDE DEF Segments
  <2> QED
    BY <1>2, <1>3, WFMin
<1>5. PICK i \in T : s = Upto(i)
  OBVIOUS
<1>6. ASSUME NEW j \in T, j < i PROVE FALSE
  <2>1. Upto(j) \in Segments
    OBVIOUS
  <2>2. Upto(j) \subseteq Upto(i) /\ i \in Upto(i) /\ i \notin Upto(j)
    <3>1. i \in Int /\ j \in Int /\ \A m \in T : m \in Int
      OBVIOUS
    <3>2. i <= i /\ ~(i <= j) /\ \A m \in T : m <= j => m <= i
      BY <3>1, <1>6
    <3>3. Upto(j) \subseteq Upto(i)
      BY <3>2
    <3>4. i \in Upto(i)
      BY <3>2
    <3>5. i \notin Upto(j)
      BY <3>2
    <3> QED
      BY <3>3, <3>4, <3>5
  <2>3. <<Upto(j), s>> \in StrictSubsetOrdering(1..n)
    <3>1. Upto(j) \in SUBSET (1..n) /\ s \in SUBSET (1..n) /\ Upto(j) \subseteq s /\ Upto(j) # s
      BY <1>5, <2>2
    <3> HIDE DEF Upto
    <3> QED
      BY <3>1 DEF StrictSubsetOrdering
  <2> QED
    BY <1>4, <2>1, <2>3
<1>7. \A j \in T : i <= j
  <2>1. \A m \in T : m \in Nat
    OBVIOUS
  <2> QED
    BY <2>1, <1>6
<1> QED
  BY <1>5, <1>7

\* The index First chooses exists: the least index of the most urgent class.
LEMMA FirstExists ==
    ASSUME NEW w \in Seq(Requests), w # <<>>
    PROVE  \E i \in DOMAIN w :
              \A j \in DOMAIN w : ~Outranks(w[j], w[i]) /\ (j < i => Outranks(w[i], w[j]))
<1>1. DOMAIN w = 1..Len(w) /\ Len(w) \in Nat \ {0}
  BY EmptySeq
<1> DEFINE U == {i \in DOMAIN w : w[i] \in Interactive}
           T == IF U # {} THEN U ELSE DOMAIN w
<1>2. T # {} /\ T \subseteq 1..Len(w) /\ Len(w) \in Nat
  <2>1. 1 \in DOMAIN w /\ U \subseteq 1..Len(w)
    BY <1>1
  <2> HIDE DEF U
  <2> QED
    BY <1>1, <2>1
<1> HIDE DEF T
<1>3. PICK i \in T : \A j \in T : i <= j
  BY <1>2, LeastIndex
<1>4. ASSUME NEW j \in DOMAIN w
      PROVE  ~Outranks(w[j], w[i]) /\ (j < i => Outranks(w[i], w[j]))
  <2>1. i \in Nat /\ j \in Nat
    BY <1>1, <1>2
  <2>2. CASE U # {}
    BY <1>3, <2>1, <2>2 DEF Outranks, T
  <2>3. CASE U = {}
    <3>1. T = DOMAIN w
      BY <2>3 DEF T
    <3>2. w[j] \notin Interactive /\ i <= j
      BY <1>3, <2>3, <3>1
    <3> QED
      BY <2>1, <3>2 DEF Outranks
  <2> QED
    BY <2>2, <2>3
<1> QED
  BY <1>1, <1>2, <1>4

LEMMA FirstUrgent ==
    ASSUME NEW w \in Seq(Requests), w # <<>>, NEW r \in Range(w)
    PROVE  ~Outranks(r, First(w))
BY FirstExists DEF First, Range

\* A pass only leases the call it is made for, and only as the first one.
LEMMA PassLeases ==
    ASSUME Inv, NEW q \in Requests, NEW w \in Seq(Requests), q \in Range(w),
           Range(w) \ {q} = Range(waiting) \ {q}, Pass(q, w),
           NEW p \in Requests, NEW r \in Requests,
           state[p] # "leased", state'[p] = "leased", r # p, state[r] = "waiting"
    PROVE  ~Outranks(r, p)
<1>1. state \in [Requests -> States] /\ Range(waiting) = {x \in Requests : state[x] = "waiting"}
  BY LedgerListed DEF Inv, TypeOK
<1>2. p = q /\ First(w) = q
  BY <1>1 DEF Pass, Leave, Admitted
<1>3. r \in Range(w) /\ w # <<>>
  <2>1. r \in Range(w)
    BY <1>1, <1>2
  <2> QED
    BY <2>1, EmptySeq DEF Range
<1> QED
  BY <1>2, <1>3, FirstUrgent

LEMMA PriorityStep ==
    ASSUME Inv, [Next]_vars, NEW p \in Requests, NEW r \in Requests,
           state[p] # "leased", state'[p] = "leased", r # p, state[r] = "waiting"
    PROVE  ~Outranks(r, p)
<1>0. /\ waiting \in Seq(Requests) /\ state \in [Requests -> States]
      /\ Range(waiting) = {x \in Requests : state[x] = "waiting"}
  BY LedgerListed DEF Inv, TypeOK
<1>1. ASSUME NEW q \in Requests, Enter(q) PROVE ~Outranks(r, p)
  BY <1>1, EntersListed, PassLeases DEF Enter
<1>2. ASSUME NEW q \in Requests, Wake(q) PROVE ~Outranks(r, p)
  BY <1>0, <1>2, PassLeases DEF Wake
<1>3. ASSUME NEW q \in Requests,
             Check(q) \/ Release(q) \/ RetainMemory(q) \/ Cancel(q) \/ Expire(q)
      PROVE  FALSE
  BY <1>0, <1>3 DEF Check, Release, RetainMemory, Cancel, Expire
<1>4. CASE MemoryChanges \/ UNCHANGED vars
  BY <1>4 DEF MemoryChanges, vars
<1> QED
  BY <1>1, <1>2, <1>3, <1>4 DEF Next, Done

\* InteractiveFirst of ResourceScheduler: whichever waiter wakes first, no
\* background call is admitted past an interactive one that waits.
THEOREM InteractiveServedFirst == Spec => InteractiveFirst
<1>1. Inv /\ [Next]_vars =>
        \A q, r \in Requests :
           (state[q] # "leased" /\ state'[q] = "leased" /\ r # q /\ state[r] = "waiting") =>
               ~Outranks(r, q)
  BY PriorityStep
<1> QED
  BY <1>1, InvAlways, PTL DEF Spec, InteractiveFirst

(***************************************************************************)
(* Patience.                                                               *)
(***************************************************************************)
LEMMA PatienceStep ==
    ASSUME Inv, [Next]_vars, NEW q \in Patient, state[q] # "refused", state'[q] = "refused"
    PROVE  Impossible(q) \/ q \in expired
<1>0. q \in Requests /\ state \in [Requests -> States] BY DEF Inv, TypeOK
<1>1. ASSUME NEW r \in Requests, Check(r) PROVE Impossible(q)
  <2>1. r = q BY <1>0, <1>1 DEF Check
  <2> QED BY <1>0, <1>1, <2>1 DEF Check, Unlikely
<1>2. ASSUME NEW r \in Requests, NEW w, Pass(r, w) PROVE q \in expired
  <2>1. PICK s \in {"cancelled", "leased", "refused", "waiting"} : state' = [state EXCEPT ![r] = s]
    BY <1>2 DEF Pass, Leave
  <2>2. r = q /\ s = "refused" BY <1>0, <2>1
  <2>3. GivesUp(q)
    <3>1. \A t \in {"cancelled", "leased", "waiting"} : state' # [state EXCEPT ![q] = t] BY <1>0, <2>1, <2>2
    <3> QED BY <1>2, <2>2, <3>1 DEF Pass, Leave
  <2> QED BY <2>3 DEF GivesUp
<1>3. ASSUME NEW r \in Requests, Release(r) PROVE FALSE BY <1>0, <1>3 DEF Release
<1>4. ASSUME state' = state PROVE FALSE BY <1>4
<1> QED
  BY <1>1, <1>2, <1>3, <1>4
  DEF Next, Enter, Wake, RetainMemory, Cancel, Expire, MemoryChanges, Done, vars

\* PatienceKept of ResourceScheduler: a scan file that could fit this machine
\* is refused only once its patience has run out.
THEOREM PatienceCorrect == Spec => PatienceKept
<1>1. Inv /\ [Next]_vars =>
        [\A q \in Patient : (state[q] # "refused" /\ state'[q] = "refused") => Impossible(q) \/ q \in expired]_vars
  BY PatienceStep
<1> QED BY <1>1, InvAlways, PTL DEF Spec, PatienceKept

(***************************************************************************)
(* Capacity.  Leases come and go one at a time, so that finitely many are  *)
(* active; one is added after its demand was compared with what the others *)
(* hold, and a lease only ever comes to hold less.                         *)
(***************************************************************************)
Lends(F, S) == SumFunctionOnSet(F, S)

LEMMA LendMore ==
    ASSUME NEW F \in [Requests -> Nat], NEW G \in [Requests -> Nat], NEW S \in SUBSET Requests, IsFiniteSet(S),
           NEW q \in Requests \ S, \A x \in S : G[x] = F[x]
    PROVE  Lends(F, S) \in Nat /\ Lends(G, S \cup {q}) = G[q] + Lends(F, S)
<1> DEFINE U == S \cup {q}
<1>1. IsFiniteSet(U) /\ q \in U /\ U \ {q} = S /\ \A x \in U : G[x] \in Nat BY FS_AddElement
<1> HIDE DEF U
<1>2. SumFunctionOnSet(G, U) = G[q] + SumFunctionOnSet(G, U \ {q}) BY <1>1, SumRemove
<1>3. (\A x \in S : F[x] \in Nat /\ G[x] = F[x]) /\ \A x \in S : F[x] \in Nat OBVIOUS
<1>4. SumFunctionOnSet(F, S) = SumFunctionOnSet(G, S) BY <1>3, SumAgree
<1>5. SumFunctionOnSet(F, S) \in Nat BY <1>3, SumFirst
<1> QED BY <1>1, <1>2, <1>4, <1>5 DEF Lends, U

LEMMA LendOne ==
    ASSUME NEW F \in [Requests -> Nat], NEW S \in SUBSET Requests, IsFiniteSet(S), NEW q \in Requests \ S
    PROVE  Lends(F, S) \in Nat /\ Lends(F, S \cup {q}) = F[q] + Lends(F, S)
<1> DEFINE U == S \cup {q}
<1>1. IsFiniteSet(U) /\ q \in U /\ U \ {q} = S /\ \A x \in U : F[x] \in Nat BY FS_AddElement
<1> HIDE DEF U
<1>2. SumFunctionOnSet(F, U) = F[q] + SumFunctionOnSet(F, U \ {q}) BY <1>1, SumRemove
<1>3. \A x \in S : F[x] \in Nat OBVIOUS
<1>4. SumFunctionOnSet(F, S) \in Nat BY <1>3, SumFirst
<1> QED BY <1>1, <1>2, <1>4 DEF Lends, U

LEMMA LendLess ==
    ASSUME NEW F \in [Requests -> Nat], NEW G \in [Requests -> Nat], NEW S \in SUBSET Requests, IsFiniteSet(S),
           NEW q \in S, \A x \in S \ {q} : G[x] = F[x], NEW c \in Nat, Lends(F, S) <= c
    PROVE  /\ Lends(G, S \ {q}) <= c
           /\ G[q] <= F[q] => Lends(G, S) <= c
<1> DEFINE T == S \ {q}
<1>1. IsFiniteSet(T) /\ T \subseteq S BY FS_Subset
<1>2. (\A x \in S : F[x] \in Nat /\ G[x] \in Nat) /\ (\A x \in T : F[x] \in Nat /\ G[x] = F[x])
      /\ \A x \in T : G[x] \in Nat
  OBVIOUS
<1>3. SumFunctionOnSet(F, S) = F[q] + SumFunctionOnSet(F, T) BY <1>2, SumRemove
<1>4. SumFunctionOnSet(G, S) = G[q] + SumFunctionOnSet(G, T) BY <1>2, SumRemove
<1> HIDE DEF T
<1>5. SumFunctionOnSet(F, T) = SumFunctionOnSet(G, T) BY <1>1, <1>2, SumAgree
<1>6. SumFunctionOnSet(G, T) \in Nat BY <1>1, <1>2, SumFirst
<1>7. F[q] \in Nat /\ G[q] \in Nat OBVIOUS
<1> QED BY <1>3, <1>4, <1>5, <1>6, <1>7 DEF Lends, T

Capped == IsFiniteSet(active) /\ WithinCapacity

\* What the leases hold, in numbers.
LEMMA HeldIs ==
    ASSUME NEW q \in Requests
    PROVE  /\ Held(q).mem = Demand[q].mem /\ Held(q).gpu = Demand[q].gpu
           /\ Held(q).cpu = IF q \in retained THEN 0 ELSE Demand[q].cpu
           /\ Held(q).io = IF q \in retained THEN 0 ELSE Demand[q].io
           /\ Demand[q].mem \in Nat /\ Demand[q].cpu \in Nat /\ Demand[q].io \in Nat /\ Demand[q].gpu \in Nat
BY DEF Held

LEMMA AmountTypes ==
    /\ MemOf \in [Requests -> Nat] /\ CpuOf \in [Requests -> Nat]
    /\ IoOf \in [Requests -> Nat] /\ GpuOf \in [Requests -> Nat]
    /\ Budget \in Nat
BY HeldIs DEF MemOf, CpuOf, IoOf, GpuOf, Budget, Reserve, Clamp

LEMMA AmountTypesNext ==
    /\ MemOf' \in [Requests -> Nat] /\ CpuOf' \in [Requests -> Nat]
    /\ IoOf' \in [Requests -> Nat] /\ GpuOf' \in [Requests -> Nat]
    /\ MemOf' = MemOf /\ GpuOf' = GpuOf
    /\ \A q \in Requests : /\ CpuOf'[q] = IF q \in retained' THEN 0 ELSE Demand[q].cpu
                           /\ IoOf'[q] = IF q \in retained' THEN 0 ELSE Demand[q].io
    /\ \A q \in Requests : /\ CpuOf[q] = IF q \in retained THEN 0 ELSE Demand[q].cpu
                           /\ IoOf[q] = IF q \in retained THEN 0 ELSE Demand[q].io
                           /\ GpuOf[q] = Demand[q].gpu /\ MemOf[q] = Demand[q].mem
<1>1. \A q \in Requests :
         /\ Held(q)'.mem = Demand[q].mem /\ Held(q)'.gpu = Demand[q].gpu
         /\ Held(q)'.cpu = IF q \in retained' THEN 0 ELSE Demand[q].cpu
         /\ Held(q)'.io = IF q \in retained' THEN 0 ELSE Demand[q].io
         /\ Demand[q].mem \in Nat /\ Demand[q].cpu \in Nat /\ Demand[q].io \in Nat /\ Demand[q].gpu \in Nat
  BY DEF Held
<1> QED BY <1>1, HeldIs DEF MemOf, CpuOf, IoOf, GpuOf

LEMMA UsedIs ==
    /\ WithinCapacity <=> /\ Lends(CpuOf, active) <= Cpu /\ Lends(IoOf, active) <= Io
                          /\ Lends(GpuOf, active) <= Gpu /\ Lends(MemOf, active) <= Budget
    /\ WithinCapacity' <=> /\ Lends(CpuOf', active') <= Cpu /\ Lends(IoOf', active') <= Io
                           /\ Lends(GpuOf', active') <= Gpu /\ Lends(MemOf', active') <= Budget
BY DEF WithinCapacity, UsedCpu, UsedIo, UsedGpu, UsedMem, Lends, Budget, Reserve, Clamp

LEMMA AdmitCapped ==
    ASSUME Inv, Capped, NEW q \in Requests, q \notin active, Fits(q), active' = active \cup {q}, UNCHANGED retained
    PROVE  Capped'
<1>1. IsFiniteSet(active) /\ active \in SUBSET Requests /\ q \notin retained BY DEF Capped, Inv, TypeOK, Ledger
<1>2. IsFiniteSet(active') BY <1>1, FS_AddElement
<1>3. \A x \in Requests : CpuOf'[x] = CpuOf[x] /\ IoOf'[x] = IoOf[x] BY AmountTypesNext
<1>4. /\ Lends(CpuOf, active) \in Nat /\ Lends(CpuOf', active') = Demand[q].cpu + Lends(CpuOf, active)
      /\ Lends(IoOf, active) \in Nat /\ Lends(IoOf', active') = Demand[q].io + Lends(IoOf, active)
  <2>1. CpuOf'[q] = Demand[q].cpu /\ IoOf'[q] = Demand[q].io BY <1>1, AmountTypesNext
  <2>2. \A x \in active : CpuOf'[x] = CpuOf[x] BY <1>1, <1>3
  <2>3. \A x \in active : IoOf'[x] = IoOf[x] BY <1>1, <1>3
  <2>4. Lends(CpuOf, active) \in Nat /\ Lends(CpuOf', active') = CpuOf'[q] + Lends(CpuOf, active)
    <3>1. CpuOf \in [Requests -> Nat] /\ CpuOf' \in [Requests -> Nat] /\ q \in Requests \ active
      BY <1>1, AmountTypes, AmountTypesNext
    <3>2. active \in SUBSET Requests /\ IsFiniteSet(active) BY <1>1
    <3>3. Lends(CpuOf, active) \in Nat /\ Lends(CpuOf', active \cup {q}) = CpuOf'[q] + Lends(CpuOf, active)
      BY ONLY <2>2, <3>1, <3>2, LendMore
    <3> QED BY <3>3
  <2>5. Lends(IoOf, active) \in Nat /\ Lends(IoOf', active') = IoOf'[q] + Lends(IoOf, active)
    <3>1. IoOf \in [Requests -> Nat] /\ IoOf' \in [Requests -> Nat] /\ q \in Requests \ active
      BY <1>1, AmountTypes, AmountTypesNext
    <3>2. active \in SUBSET Requests /\ IsFiniteSet(active) BY <1>1
    <3>3. Lends(IoOf, active) \in Nat /\ Lends(IoOf', active \cup {q}) = IoOf'[q] + Lends(IoOf, active)
      BY ONLY <2>3, <3>1, <3>2, LendMore
    <3> QED BY <3>3
  <2> QED BY <2>1, <2>4, <2>5
<1>5. /\ Lends(GpuOf, active) \in Nat /\ Lends(GpuOf, active') = Demand[q].gpu + Lends(GpuOf, active)
      /\ Lends(MemOf, active) \in Nat /\ Lends(MemOf, active') = Demand[q].mem + Lends(MemOf, active)
  <2>1. GpuOf[q] = Demand[q].gpu /\ MemOf[q] = Demand[q].mem BY AmountTypesNext
  <2>2. Lends(GpuOf, active) \in Nat /\ Lends(GpuOf, active') = GpuOf[q] + Lends(GpuOf, active)
    BY <1>1, AmountTypes, LendOne
  <2>3. Lends(MemOf, active) \in Nat /\ Lends(MemOf, active') = MemOf[q] + Lends(MemOf, active)
    BY <1>1, AmountTypes, LendOne
  <2> QED BY <2>1, <2>2, <2>3
<1>6. /\ Lends(CpuOf, active) + Demand[q].cpu <= Cpu /\ Lends(IoOf, active) + Demand[q].io <= Io
      /\ Demand[q].gpu = 0 \/ Lends(GpuOf, active) + Demand[q].gpu <= Gpu
      /\ Demand[q].mem = 0 \/ Demand[q].mem + Lends(MemOf, active) <= Budget
  BY DEF Fits, AcceleratorOk, MemoryOk, UsedCpu, UsedIo, UsedGpu, UsedMem, Lends
<1>7. /\ Lends(GpuOf, active) <= Gpu /\ Lends(MemOf, active) <= Budget /\ Budget \in Nat
  BY UsedIs, AmountTypes DEF Capped
<1>8. Demand[q].cpu \in Nat /\ Demand[q].io \in Nat /\ Demand[q].gpu \in Nat /\ Demand[q].mem \in Nat BY HeldIs
<1>9. WithinCapacity' BY <1>4, <1>5, <1>6, <1>7, <1>8, UsedIs, AmountTypesNext
<1> QED BY <1>2, <1>9 DEF Capped

LEMMA LessCapped ==
    ASSUME Inv, Capped, NEW q \in active,
           \/ active' = active \ {q} /\ retained' = retained \ {q}
           \/ active' = active /\ retained' = retained \cup {q}
    PROVE  Capped'
<1>1. IsFiniteSet(active) /\ active \in SUBSET Requests /\ q \in Requests BY DEF Capped, Inv, TypeOK
<1>2. IsFiniteSet(active') BY <1>1, FS_Subset
<1>3. /\ \A x \in active \ {q} : CpuOf'[x] = CpuOf[x]
      /\ \A x \in active \ {q} : IoOf'[x] = IoOf[x]
      /\ active' = active => CpuOf'[q] <= CpuOf[q] /\ IoOf'[q] <= IoOf[q]
  <2>1. \A x \in active \ {q} : x \in Requests /\ (x \in retained' <=> x \in retained)
    BY <1>1
  <2>2. (\A x \in active \ {q} : CpuOf'[x] = CpuOf[x]) /\ \A x \in active \ {q} : IoOf'[x] = IoOf[x]
    BY <2>1, AmountTypesNext
  <2>3. active' = active => q \in retained'
    BY <1>1
  <2>4. Demand[q].cpu \in Nat /\ Demand[q].io \in Nat
    BY <1>1, HeldIs
  <2> QED
    BY <1>1, <2>2, <2>3, <2>4, AmountTypesNext
<1>4. /\ Lends(CpuOf, active) <= Cpu /\ Lends(IoOf, active) <= Io
      /\ Lends(GpuOf, active) <= Gpu /\ Lends(MemOf, active) <= Budget
      /\ Cpu \in Nat /\ Io \in Nat /\ Gpu \in Nat /\ Budget \in Nat
  BY UsedIs, AmountTypes DEF Capped
<1>5. Lends(CpuOf', active') <= Cpu
  <2>1. \A x \in active \ {q} : CpuOf'[x] = CpuOf[x] BY <1>3
  <2>2. CpuOf \in [Requests -> Nat] /\ CpuOf' \in [Requests -> Nat] /\ Cpu \in Nat /\ Lends(CpuOf, active) <= Cpu
    BY <1>4, AmountTypes, AmountTypesNext
  <2>3. Lends(CpuOf', active \ {q}) <= Cpu /\ (CpuOf'[q] <= CpuOf[q] => Lends(CpuOf', active) <= Cpu)
    BY <1>1, <2>1, <2>2, LendLess
  <2> QED BY <1>3, <2>3
<1>6. Lends(IoOf', active') <= Io
  <2>1. \A x \in active \ {q} : IoOf'[x] = IoOf[x] BY <1>3
  <2>2. IoOf \in [Requests -> Nat] /\ IoOf' \in [Requests -> Nat] /\ Io \in Nat /\ Lends(IoOf, active) <= Io
    BY <1>4, AmountTypes, AmountTypesNext
  <2>3. Lends(IoOf', active \ {q}) <= Io /\ (IoOf'[q] <= IoOf[q] => Lends(IoOf', active) <= Io)
    BY <1>1, <2>1, <2>2, LendLess
  <2> QED BY <1>3, <2>3
<1>7. Lends(GpuOf, active') <= Gpu BY <1>1, <1>4, AmountTypes, LendLess
<1>8. Lends(MemOf, active') <= Budget BY <1>1, <1>4, AmountTypes, LendLess
<1> QED BY <1>2, <1>5, <1>6, <1>7, <1>8, AmountTypesNext, UsedIs DEF Capped

LEMMA CappedStep == Inv /\ Capped /\ [Next]_vars => Capped'
<1> SUFFICES ASSUME Inv, Capped, [Next]_vars PROVE Capped' OBVIOUS
<1>1. CASE UNCHANGED <<active, retained>>
  BY <1>1, UsedIs, AmountTypesNext DEF Capped, CpuOf, IoOf, Held
<1>2. ASSUME NEW q \in Requests, NEW w, state[q] \in {"checked", "waiting"}, Pass(q, w), UNCHANGED retained
      PROVE  Capped'
  <2>1. CASE Admitted(q, w) /\ active' = active \cup {q}
    <3>1. q \notin active BY <1>2 DEF Inv, Ledger
    <3> QED BY <1>2, <2>1, <3>1, AdmitCapped DEF Admitted
  <2>2. CASE UNCHANGED active BY <1>1, <1>2, <2>2
  <2> QED BY <1>2, <2>1, <2>2 DEF Pass
<1>3. ASSUME NEW q \in Requests, Release(q) \/ RetainMemory(q) PROVE Capped'
  <2>1. q \in active BY <1>3 DEF Release, RetainMemory, Inv, Ledger
  <2> QED BY <1>3, <2>1, LessCapped DEF Release, RetainMemory
<1> QED
  BY <1>1, <1>2, <1>3 DEF Next, Check, Enter, Wake, Cancel, Expire, MemoryChanges, Done, vars

LEMMA CappedInit == Init => Capped
<1> SUFFICES ASSUME Init PROVE Capped OBVIOUS
<1>1. active = {} /\ IsFiniteSet({}) BY FS_EmptySet DEF Init
<1>2. /\ Lends(CpuOf, active) = 0 /\ Lends(IoOf, active) = 0 /\ Lends(GpuOf, active) = 0 /\ Lends(MemOf, active) = 0
  BY <1>1, SumFirst DEF Lends
<1> QED BY <1>1, <1>2, UsedIs, AmountTypes DEF Capped

\* WithinCapacity of ResourceScheduler: the active leases never hold more than
\* the machine has to lend, for any demands, capacities and memory readings,
\* however the calls, the drops and the retained models interleave.
THEOREM CapacityKept == Spec => []WithinCapacity
<1>1. Capped => WithinCapacity BY DEF Capped
<1> QED BY <1>1, CappedInit, CappedStep, InvAlways, PTL DEF Spec
=============================================================================
