----------------------- MODULE RestructureApplyProofs -----------------------
(***************************************************************************)
(* Proofs about RestructureApply, for any files, paths, roots, plan        *)
(* length, number of requests and relaunches, and any set of faults.       *)
(***************************************************************************)
EXTENDS RestructureApply, SequenceTheorems, TLAPS

(***************************************************************************)
(* Typing.  TypeOK is not inductive: MoveFile and the row steps read the   *)
(* head of run.todo, so a step that has a move in hand must have one.      *)
(***************************************************************************)
ApplyOnly == {"setaside", "create", "header", "append", "rollback", "commit"}
InHand ==
    /\ pc \in ApplyOnly => run.op = "apply" /\ run.todo # <<>>
    /\ pc \in {"move", "row", "record"} => run.op \in {"apply", "undo"} /\ run.todo # <<>>
    /\ pc \in {"recover", "reinstate"} =>
          \/ run.op = "apply" /\ run.todo # <<>>
          \/ run.op = "undo" /\ run.todo = <<>>
    /\ pc = "scan" => run.op = "undo"
    /\ pc \in {"finish", "discard", "putback"} => run.op \in {"apply", "undo"}

TypeInv == TypeOK /\ InHand
In(m, s) == \E i \in 1..Len(s) : s[i] = m

USE ConstantsAssumption
USE DEF recovery

\* The head and the tail of a nonempty todo.
LEMMA HeadOfTodo ==
    ASSUME TypeOK, run.todo # <<>>
    PROVE  /\ Head1 \in Move
           /\ Head1.file \in Files /\ Head1.src \in Paths /\ Head1.dst \in Paths
           /\ Tail(run.todo) \in Seq(Move)
<1>1. run.todo \in Seq(Move)
  BY DEF TypeOK, Run
<1>2. Head1 \in Move /\ Tail(run.todo) \in Seq(Move)
  BY <1>1, HeadTailProperties DEF Head1
<1> QED
  BY <1>2 DEF Move

LEMMA RunSteps ==
    ASSUME TypeOK, run.todo # <<>>
    PROVE  /\ Drop \in Run /\ Drop.op = run.op
           /\ Fail \in Run /\ Fail.op = run.op
           /\ Keep \in Run /\ Keep.op = run.op
           /\ Released \in Run /\ Released.op = run.op
           /\ \A p \in Paths : /\ Reserved(p) \in Run /\ Reserved(p).op = run.op
                               /\ Reserved(p).todo # <<>>
<1>1. Tail(run.todo) \in Seq(Move) /\ Head1 \in Move
  BY HeadOfTodo
<1>2. run \in Run
  BY DEF TypeOK
<1>3. Drop \in Run /\ Drop.op = run.op
  BY <1>1, <1>2 DEF Drop, Run
<1>4. Fail \in Run /\ Fail.op = run.op
  BY <1>3 DEF Fail, Run
<1>5. Released \in Run /\ Released.op = run.op
  BY <1>4 DEF Released, Run
<1>6. Keep \in Run /\ Keep.op = run.op
  <2>1. Drop.kept \in Seq(Move)
    BY <1>3 DEF Run
  <2>2. Append(Drop.kept, Head1) \in Seq(Move)
    BY <2>1, <1>1
  <2> DEFINE k == Append(Drop.kept, Head1)
  <2>3. Keep = [Drop EXCEPT !.kept = k]
    BY <1>3 DEF Keep, Run
  <2> HIDE DEF k
  <2> QED
    BY <1>3, <2>2, <2>3 DEF Run, k
<1>7. ASSUME NEW p \in Paths
      PROVE  Reserved(p) \in Run /\ Reserved(p).op = run.op /\ Reserved(p).todo # <<>>
  <2> DEFINE m == [Head1 EXCEPT !.dst = p]
  <2>1. m \in Move
    BY <1>1 DEF Move
  <2>2. <<m>> \o Tail(run.todo) \in Seq(Move) /\ <<m>> \o Tail(run.todo) # <<>>
    BY <2>1, <1>1
  <2>3. Claimed(p) \in Run /\ Claimed(p).op = run.op /\ Claimed(p).todo = run.todo
    BY <1>2 DEF Claimed, Run
  <2>4. Reserved(p) = [Claimed(p) EXCEPT !.todo = <<m>> \o Tail(run.todo)]
    BY <2>3 DEF Reserved
  <2> HIDE DEF m
  <2> QED
    BY <2>2, <2>3, <2>4 DEF Run
<1> QED
  BY <1>3, <1>4, <1>5, <1>6, <1>7

\* NoRun is a run with nothing to do.
LEMMA NoRunType == NoRun \in Run /\ NoRun.op = "none" /\ NoRun.todo = <<>>
BY DEF NoRun, NewRun, Run

\* Journal shapes.
LEMMA JournalType ==
    /\ Absent \in Journal /\ Absent.entries = <<>>
    /\ Closed \in Handle /\ Opened \in Handle
<1>1. <<>> \in Seq(Move)
  OBVIOUS
<1>2. Absent \in Journal /\ Absent.entries = <<>>
  BY <1>1 DEF Absent, Journal
<1>3. Closed \in Handle
  BY DEF Closed, Handle
<1>4. Opened \in Handle
  BY <1>3 DEF Opened, Handle
<1> QED
  BY <1>2, <1>3, <1>4

LEMMA EndRunType ==
    ASSUME TypeOK, EndRun
    PROVE  /\ pc' = "idle" /\ run' \in Run /\ handle' \in Handle
           /\ runs' \in 0..MaxRuns /\ restarts' \in 0..MaxRestarts
BY NoRunType, JournalType DEF TypeOK, EndRun, bounds

LEMMA InitTypes == Init => TypeInv
BY NoRunType, JournalType DEF Init, TypeInv, TypeOK, InHand, PCs, ApplyOnly, Tails

\* Every plan a request can name is a sequence of moves.
LEMMA PlanType ==
    ASSUME NEW r \in Roots, NEW plan \in WellFormed[r]
    PROVE  plan \in Seq(Move) /\ plan # <<>> /\ Distinct(plan)
<1>1. PICK n \in 1..MaxPlan : plan \in [1..n -> Moves(r)] /\ Distinct(plan)
  BY DEF WellFormed
<1>2. Moves(r) \subseteq Move
  BY DEF Moves
<1>3. plan \in Seq(Moves(r)) /\ Len(plan) = n
  BY <1>1
<1>4. plan \in Seq(Move)
  BY <1>2, <1>3
<1> QED
  BY <1>1, <1>3, <1>4

\* The runs the requests and the relaunch make.
LEMMA NewRunType ==
    ASSUME NEW op \in {"none", "apply", "undo", "startup"}, NEW r \in Roots \cup {None},
           NEW strict \in BOOLEAN, NEW todo \in Seq(Move)
    PROVE  /\ NewRun(op, r, strict, todo) \in Run
           /\ NewRun(op, r, strict, todo).op = op
           /\ NewRun(op, r, strict, todo).todo = todo
           /\ ~NewRun(op, r, strict, todo).failed
BY DEF NewRun, Run

LEMMA RequestType ==
    ASSUME TypeInv, RequestStep
    PROVE  TypeInv'
<1> USE DEF TypeInv
<1>1. ASSUME NEW r \in Roots, NEW plan \in WellFormed[r], NEW strict \in BOOLEAN,
             StartApply(r, plan, strict)
      PROVE  TypeInv'
  <2>1. plan \in Seq(Move) /\ plan # <<>>
    BY PlanType
  <2>2. run' \in Run /\ run'.op = "apply" /\ run'.todo = plan
    BY <1>1, <2>1, NewRunType DEF StartApply
  <2>3. TypeOK'
    BY <1>1, <2>2 DEF TypeOK, StartApply, PCs
  <2> QED
    BY <1>1, <2>3 DEF StartApply, InHand, ApplyOnly
<1>2. ASSUME NEW r \in Roots, StartUndo(r)
      PROVE  TypeInv'
  <2>1. run' \in Run /\ run'.op = "undo" /\ run'.todo = <<>>
    BY <1>2 DEF StartUndo, NewRun, Run
  <2>2. TypeOK'
    BY <1>2, <2>1 DEF TypeOK, StartUndo, NewRun, PCs
  <2> QED
    BY <1>2, <2>1, <2>2 DEF StartUndo, InHand, ApplyOnly
<1> QED
  BY <1>1, <1>2 DEF RequestStep

LEMMA LoopType ==
    ASSUME TypeInv, LoopStep
    PROVE  TypeInv'
<1> USE DEF TypeInv
<1>1. /\ [run EXCEPT !.cancelled = TRUE] \in Run
      /\ [run EXCEPT !.cancelled = TRUE].op = run.op
      /\ [run EXCEPT !.failed = TRUE] \in Run
      /\ [run EXCEPT !.failed = TRUE].op = run.op
  BY DEF TypeOK, Run
<1>2. CASE LoopEnds
  BY <1>2 DEF LoopEnds, NextUnchanged, bounds, TypeOK, PCs, InHand, ApplyOnly
<1>3. CASE Cancel
  <2>1. run' \in Run /\ run'.op = run.op
    BY <1>3, <1>1 DEF Cancel
  <2> QED
    BY <1>3, <2>1 DEF Cancel, NextUnchanged, bounds, TypeOK, PCs, InHand, ApplyOnly
<1>4. CASE StreamFails
  <2>1. run' \in Run /\ run'.op = run.op
    BY <1>4, <1>1 DEF StreamFails
  <2> QED
    BY <1>4, <2>1 DEF StreamFails, NextUnchanged, bounds, TypeOK, PCs, InHand, ApplyOnly
<1>5. CASE ApplyReject
  <2>1. run' \in Run
    BY <1>5, RunSteps DEF ApplyReject, AtMove
  <2> QED
    BY <1>5, <2>1 DEF ApplyReject, AtMove, NextUnchanged, bounds, TypeOK, PCs, InHand, ApplyOnly
<1>6. CASE ApplyReserve
  <2>1. run' \in Run /\ run'.op = "apply" /\ run'.todo # <<>>
    BY <1>6, RunSteps DEF ApplyReserve, AtMove, Candidates
  <2> QED
    BY <1>6, <2>1 DEF ApplyReserve, NextUnchanged, bounds, TypeOK, PCs, InHand, ApplyOnly
<1>7. CASE UndoRelabel
  BY <1>7 DEF UndoRelabel, AtMove, NextUnchanged, bounds, TypeOK, PCs, InHand, ApplyOnly
<1>8. CASE UndoKeep
  <2>1. run' \in Run
    BY <1>8, RunSteps DEF UndoKeep, AtMove
  <2> QED
    BY <1>8, <2>1 DEF UndoKeep, AtMove, NextUnchanged, bounds, TypeOK, PCs, InHand, ApplyOnly
<1>9. CASE UndoReject
  <2>1. run' \in Run
    BY <1>9, RunSteps DEF UndoReject, AtMove
  <2> QED
    BY <1>9, <2>1 DEF UndoReject, AtMove, NextUnchanged, bounds, TypeOK, PCs, InHand, ApplyOnly
<1>10. CASE UndoReserve
  <2>1. run' \in Run /\ run'.op = "undo" /\ run'.todo # <<>>
    BY <1>10, RunSteps DEF UndoReserve, AtMove, Candidates
  <2> QED
    BY <1>10, <2>1 DEF UndoReserve, NextUnchanged, bounds, TypeOK, PCs, InHand, ApplyOnly
<1> QED
  BY <1>2, <1>3, <1>4, <1>5, <1>6, <1>7, <1>8, <1>9, <1>10 DEF LoopStep

\* The end of a run leaves nothing in hand.
LEMMA EndRunInHand == ASSUME EndRun PROVE InHand'
BY DEF EndRun, InHand, ApplyOnly

LEMMA RecoverType ==
    ASSUME TypeInv, RecoverStep
    PROVE  TypeInv'
<1> USE DEF TypeInv
<1> USE DEF RecoverUnchanged
<1>1. ASSUME Recovered, UNCHANGED <<run, bounds, handle>>, pc \in {"recover", "reinstate"}
      PROVE  /\ pc' \in PCs /\ run' \in Run /\ handle' \in Handle
             /\ runs' \in 0..MaxRuns /\ restarts' \in 0..MaxRestarts
             /\ InHand'
  BY <1>1 DEF Recovered, bounds, TypeOK, PCs, InHand, ApplyOnly
<1>2. CASE RecoverRefuse
  BY <1>2, EndRunType, EndRunInHand DEF RecoverRefuse, TypeOK, PCs
<1>3. CASE RecoverNothing
  BY <1>3, <1>1 DEF RecoverNothing, TypeOK
<1>4. CASE RecoverCommitted
  BY <1>4, <1>1, JournalType DEF RecoverCommitted, TypeOK
<1>5. CASE RecoverUncommitted
  BY <1>5, JournalType DEF RecoverUncommitted, TypeOK, PCs, InHand, ApplyOnly, bounds
<1>6. CASE Reinstate
  <2>1. CASE journal' = backup /\ backup' = Absent /\ Recovered /\ UNCHANGED <<run, handle, bounds>>
    BY <1>6, <2>1, <1>1, JournalType DEF Reinstate, TypeOK
  <2>2. CASE EndRun /\ UNCHANGED <<journal, backup>>
    BY <1>6, <2>2, EndRunType, EndRunInHand DEF Reinstate, TypeOK, PCs
  <2> QED
    BY <1>6, <2>1, <2>2 DEF Reinstate
<1> QED
  BY <1>2, <1>3, <1>4, <1>5, <1>6 DEF RecoverStep

\* The line an append adds and the lines a rollback keeps.
LEMMA EntriesType ==
    ASSUME TypeOK
    PROVE  /\ journal.entries \in Seq(Move)
           /\ Overwritten \in Seq(Move)
           /\ run.todo # <<>> =>
                 /\ InverseMove(Head1) \in Move
                 /\ Append(journal.entries, InverseMove(Head1)) \in Seq(Move)
                 /\ Append(Overwritten, InverseMove(Head1)) \in Seq(Move)
<1>1. journal.entries \in Seq(Move)
  BY DEF TypeOK, Journal
<1>2. Overwritten \in Seq(Move)
  BY <1>1 DEF Overwritten
<1>3. ASSUME run.todo # <<>> PROVE InverseMove(Head1) \in Move
  BY <1>3, HeadOfTodo DEF InverseMove, Move
<1> QED
  BY <1>1, <1>2, <1>3

\* A journal stays a journal when its entries or its owner are replaced.
LEMMA JournalWith ==
    ASSUME TypeOK
    PROVE  /\ \A es \in Seq(Move) :
                 /\ [journal EXCEPT !.entries = es] \in Journal
                 /\ [journal EXCEPT !.entries = es].entries = es
                 /\ \A r \in Roots \cup {None} :
                       [there |-> TRUE, root |-> r, entries |-> es] \in Journal
           /\ \A r \in Roots \cup {None} :
                 /\ [journal EXCEPT !.root = r] \in Journal
                 /\ [journal EXCEPT !.root = r].entries = journal.entries
BY DEF TypeOK, Journal

LEMMA JournalStepType ==
    ASSUME TypeInv, JournalStep
    PROVE  TypeInv'
<1> USE DEF TypeInv, FilesUnchanged, bounds
<1> USE JournalType
<1>0. run.root \in Roots \cup {None}
  BY DEF TypeOK, Run
<1>1. CASE SetAside
  <2>1. CASE EndRun
    BY <1>1, <2>1, EndRunType, EndRunInHand DEF SetAside, TypeOK, PCs
  <2>2. CASE ~EndRun
    BY <1>1, <2>2 DEF SetAside, TypeOK, PCs, InHand, ApplyOnly
  <2> QED
    BY <2>1, <2>2
<1>2. CASE CreateJournal
  <2>1. [Absent EXCEPT !.there = TRUE] \in Journal
    BY DEF Journal
  <2> QED
    BY <1>2, <2>1 DEF CreateJournal, TypeOK, PCs, InHand, ApplyOnly
<1>3. CASE WriteHeader
  <2>1. journal' \in Journal
    BY <1>3, <1>0, JournalWith DEF WriteHeader, TypeOK
  <2> QED
    BY <1>3, <2>1 DEF WriteHeader, TypeOK, PCs, InHand, ApplyOnly
<1>4. CASE AppendAhead
  <2>1. run.todo # <<>> /\ run.op = "apply"
    BY <1>4 DEF AppendAhead, InHand, ApplyOnly
  <2>2. journal' \in Journal
    <3> DEFINE es == Append(journal.entries, InverseMove(Head1))
               os == Append(Overwritten, InverseMove(Head1))
    <3>1. es \in Seq(Move) /\ os \in Seq(Move)
      BY <2>1, EntriesType
    <3>2. \/ journal' = [journal EXCEPT !.entries = es]
          \/ \E r \in {run.root, None} : journal' = [there |-> TRUE, root |-> r, entries |-> os]
      BY <1>4 DEF AppendAhead
    <3> HIDE DEF es, os
    <3>3. [journal EXCEPT !.entries = es] \in Journal
      BY <3>1, JournalWith
    <3>4. \A r \in {run.root, None} : [there |-> TRUE, root |-> r, entries |-> os] \in Journal
      BY <3>1, <1>0 DEF Journal
    <3> QED
      BY <3>2, <3>3, <3>4
  <2>3. handle' \in Handle
    BY <1>4 DEF AppendAhead, TypeOK, Handle
  <2> QED
    BY <1>4, <2>1, <2>2, <2>3 DEF AppendAhead, TypeOK, PCs, InHand, ApplyOnly
<1>5. CASE AppendFails
  <2>1. run.todo # <<>> /\ run.op = "apply"
    BY <1>5 DEF AppendFails, InHand, ApplyOnly
  <2>2. journal' \in Journal
    BY <1>5, <2>1, EntriesType, JournalWith DEF AppendFails, TypeOK
  <2>3. run' \in Run /\ run'.op = "apply"
    BY <1>5, <2>1 DEF AppendFails, TypeOK, Run
  <2> QED
    BY <1>5, <2>2, <2>3 DEF AppendFails, TypeOK, PCs, InHand, ApplyOnly
<1>6. CASE Rollback
  <2>1. run.todo # <<>> /\ run.op = "apply"
    BY <1>6 DEF Rollback, InHand, ApplyOnly
  <2>2. journal' \in Journal
    BY <1>6, EntriesType, JournalWith DEF Rollback, TypeOK
  <2>3. handle' \in Handle
    BY <1>6 DEF Rollback, TypeOK, Handle
  <2>4. run' \in Run
    BY <1>6, <2>1, RunSteps DEF Rollback
  <2> QED
    BY <1>6, <2>2, <2>3, <2>4 DEF Rollback, TypeOK, PCs, InHand, ApplyOnly
<1>7. CASE Commit
  <2>1. handle' \in Handle
    BY <1>7 DEF Commit, TypeOK, Handle
  <2>2. run.todo # <<>> /\ run.op = "apply"
    BY <1>7 DEF Commit, InHand, ApplyOnly
  <2> QED
    BY <1>7, <2>1, <2>2 DEF Commit, TypeOK, PCs, InHand, ApplyOnly
<1> QED
  BY <1>1, <1>2, <1>3, <1>4, <1>5, <1>6, <1>7 DEF JournalStep

LEMMA FileType ==
    ASSUME TypeInv, FileStep
    PROVE  TypeInv'
<1> USE DEF TypeInv, FilesUnchanged, bounds
<1>1. CASE MoveFile
  <2>1. run.todo # <<>> /\ run.op \in {"apply", "undo"}
    BY <1>1 DEF MoveFile, InHand
  <2>2. loc' \in [Files -> Paths]
    BY <1>1, <2>1, HeadOfTodo DEF MoveFile, TypeOK
  <2>3. handle' \in Handle
    BY <1>1 DEF MoveFile, TypeOK, Handle
  <2> QED
    BY <1>1, <2>1, <2>2, <2>3 DEF MoveFile, TypeOK, PCs, InHand, ApplyOnly
<1>2. CASE MoveFails
  <2>1. run.todo # <<>> /\ run.op \in {"apply", "undo"}
    BY <1>2 DEF MoveFails, InHand
  <2>2. run' \in Run
    BY <1>2, <2>1, RunSteps DEF MoveFails, TypeOK
  <2> QED
    BY <1>2, <2>1, <2>2 DEF MoveFails, TypeOK, PCs, InHand, ApplyOnly
<1> QED
  BY <1>1, <1>2 DEF FileStep

\* The records a step of recovery leaves, and the files whose record it loses.
LEMMA JoinedType ==
    ASSUME TypeOK
    PROVE  /\ Joined \in Seq(Move) /\ JoinedFiles \subseteq Files
           /\ \A m : In(m, pending) => In(m, Joined) \/ m.file \in JoinedFiles
<1>1. pending \in Seq(Move)
  BY DEF TypeOK
<1>2. CASE tail # "bare" \/ Len(pending) = 0
  <2>1. Joined = pending
    <3>1. CASE tail # "bare"
      BY <3>1 DEF Joined
    <3>2. CASE Len(pending) = 0
      BY <1>1, <3>2, EmptySeq DEF Joined
    <3> QED
      BY <1>2, <3>1, <3>2
  <2>2. JoinedFiles = {}
    BY <1>1, <2>1 DEF JoinedFiles
  <2> QED
    BY <1>1, <2>1, <2>2
<1>3. CASE tail = "bare" /\ Len(pending) # 0
  <2>1. Len(pending) \in Nat \ {0}
    BY <1>1, <1>3
  <2>2. /\ Joined \in Seq(Move) /\ Len(Joined) = Len(pending) - 1
        /\ \A i \in 1..Len(Joined) : Joined[i] = pending[i]
    <3> DEFINE n == Len(pending) - 1
    <3>1. Joined = SubSeq(pending, 1, n)
      BY <1>3 DEF Joined
    <3>2. n \in Nat /\ n <= Len(pending)
      BY <2>1
    <3> HIDE DEF n
    <3>3. /\ SubSeq(pending, 1, n) \in Seq(Move) /\ Len(SubSeq(pending, 1, n)) = n
          /\ \A i \in 1..n : SubSeq(pending, 1, n)[i] = pending[i]
      BY <1>1, <3>2
    <3> QED
      BY <3>1, <3>3 DEF n
  <2>3. JoinedFiles = {pending[Len(pending)].file}
    BY <2>1, <2>2 DEF JoinedFiles
  <2>4. pending[Len(pending)] \in Move
    BY <1>1, <2>1, ElementOfSeq
  <2>5. JoinedFiles \subseteq Files
    BY <2>3, <2>4 DEF Move
  <2>6. ASSUME NEW m, In(m, pending)
        PROVE  In(m, Joined) \/ m.file \in JoinedFiles
    <3>1. PICK i \in 1..Len(pending) : pending[i] = m
      BY <2>6 DEF In
    <3>2. CASE i = Len(pending)
      BY <2>3, <3>1, <3>2
    <3>3. CASE i # Len(pending)
      <4>1. i \in 1..Len(Joined)
        BY <2>1, <2>2, <3>3
      <4> QED
        BY <2>2, <3>1, <4>1 DEF In
    <3> QED
      BY <3>2, <3>3
  <2> QED
    BY <2>2, <2>5, <2>6
<1> QED
  BY <1>2, <1>3

\* A record written behind those of the file.
LEMMA RecordsType ==
    ASSUME TypeOK, run.todo # <<>>, Recorded \/ RecordCut
    PROVE  pending' \in Seq(Move) /\ tail' \in Tails /\ forgotten' \subseteq Files
<1>1. Head1 \in Move /\ Head1.file \in Files
  BY HeadOfTodo
<1>2. pending \in Seq(Move) /\ tail \in Tails /\ forgotten \subseteq Files
  BY DEF TypeOK
<1>3. Append(pending, Head1) \in Seq(Move)
  BY <1>1, <1>2
<1>4. Joined \in Seq(Move) /\ JoinedFiles \subseteq Files
  BY JoinedType
<1>5. CASE Recorded
  BY <1>1, <1>2, <1>3, <1>4, <1>5 DEF Recorded, Tails
<1>6. CASE RecordCut
  BY <1>1, <1>2, <1>3, <1>4, <1>6 DEF RecordCut, Tails
<1> QED
  BY <1>5, <1>6

LEMMA RowType ==
    ASSUME TypeInv, RowStep
    PROVE  TypeInv'
<1> USE DEF TypeInv, RowUnchanged, bounds
<1>0. run.todo # <<>> /\ run.op \in {"apply", "undo"} /\ Head1 \in Move /\ Drop \in Run
  BY HeadOfTodo, RunSteps DEF RowStep, UpdateRow, UpdateRowFails, RecordFailure, InHand
<1>1. CASE UpdateRow
  <2>1. row' \in [Files -> Paths]
    BY <1>1, <1>0, HeadOfTodo DEF UpdateRow, TypeOK
  <2> QED
    BY <1>1, <1>0, <2>1 DEF UpdateRow, TypeOK, PCs, InHand, ApplyOnly
<1>2. CASE UpdateRowFails
  BY <1>2, <1>0 DEF UpdateRowFails, TypeOK, PCs, InHand, ApplyOnly
<1>3. CASE RecordFailure
  <2>1. pending' \in Seq(Move) /\ tail' \in Tails /\ forgotten' \subseteq Files
    BY <1>3, <1>0, RecordsType DEF RecordFailure
  <2> QED
    BY <1>3, <1>0, <2>1 DEF RecordFailure, TypeOK, PCs, InHand, ApplyOnly
<1> QED
  BY <1>1, <1>2, <1>3 DEF RowStep

\* The journal newest-first is a sequence of moves.
LEMMA ReverseType ==
    ASSUME NEW s \in Seq(Move)
    PROVE  Reverse(s) \in Seq(Move) /\ Len(Reverse(s)) = Len(s)
<1>1. \A i \in 1..Len(s) : s[Len(s) + 1 - i] \in Move
  BY ElementOfSeq
<1>2. Reverse(s) \in [1..Len(s) -> Move]
  BY <1>1 DEF Reverse
<1> QED
  BY <1>2

LEMMA EndType ==
    ASSUME TypeInv, EndStep
    PROVE  TypeInv'
<1> USE DEF TypeInv, FilesUnchanged
<1> USE JournalType
<1>1. CASE ApplyEnds
  BY <1>1, EndRunType, EndRunInHand DEF ApplyEnds, TypeOK, PCs
<1>2. CASE ApplyEndsUnmoved
  BY <1>2 DEF ApplyEndsUnmoved, bounds, TypeOK, PCs, InHand, ApplyOnly
<1>3. CASE Discard
  BY <1>3 DEF Discard, bounds, TypeOK, PCs, InHand, ApplyOnly
<1>4. CASE PutBack
  BY <1>4, EndRunType, EndRunInHand DEF PutBack, TypeOK, PCs
<1>5. CASE UndoEnds
  BY <1>5, EndRunType, EndRunInHand DEF UndoEnds, TypeOK, PCs
<1>6. CASE ScanJournal
  <2>1. Reverse(journal.entries) \in Seq(Move)
    BY ReverseType DEF TypeOK, Journal
  <2>2. run' \in Run
    BY <1>6, <2>1 DEF ScanJournal, TypeOK, Run
  <2> QED
    BY <1>6, <2>2 DEF ScanJournal, bounds, TypeOK, PCs, InHand, ApplyOnly
<1>7. CASE ScanStops
  BY <1>7, EndRunType, EndRunInHand DEF ScanStops, TypeOK, PCs
<1> QED
  BY <1>1, <1>2, <1>3, <1>4, <1>5, <1>6, <1>7 DEF EndStep

\* What a rewrite that fails leaves of the records it kept.
LEMMA RewriteType ==
    ASSUME TypeOK, RewriteCut
    PROVE  pending' \in Seq(Move) /\ tail' \in Tails /\ forgotten' \subseteq Files
<1>1. run.kept \in Seq(Move)
  BY DEF TypeOK, Run
<1>2. PICK n \in 0..Len(run.kept), t \in Tails :
         pending' = SubSeq(run.kept, 1, n) /\ tail' = t
  BY DEF RewriteCut
<1>3. SubSeq(run.kept, 1, n) \in Seq(Move)
  BY <1>1
<1>4. \A i \in 1..Len(run.kept) : run.kept[i].file \in Files
  <2>1. \A i \in 1..Len(run.kept) : run.kept[i] \in Move
    BY <1>1, ElementOfSeq
  <2> QED
    BY <2>1 DEF Move
<1> QED
  BY <1>2, <1>3, <1>4 DEF RewriteCut, TypeOK

LEMMA StartupType ==
    ASSUME TypeInv, StartupStep
    PROVE  TypeInv'
<1> USE DEF TypeInv, bounds
<1>1. CASE Restart
  <2>1. run' \in Run /\ pc' \in {"idle", "reconcile"}
    <3>1. pending \in Seq(Move)
      BY DEF TypeOK
    <3>2. NewRun("startup", None, FALSE, pending) \in Run
      BY <3>1, NewRunType
    <3> QED
      BY <1>1, <3>2, NoRunType DEF Restart
  <2>2. forgotten' \subseteq Files
    <3>1. pc \in {"commit", "row", "record"} => Head1.file \in Files
      BY HeadOfTodo DEF InHand, ApplyOnly
    <3> QED
      BY <1>1, <3>1 DEF Restart, TypeOK
  <2>3. restarts' \in 0..MaxRestarts
    BY <1>1 DEF Restart, TypeOK
  <2> QED
    BY <1>1, <2>1, <2>2, <2>3, JournalType DEF Restart, TypeOK, PCs, InHand, ApplyOnly
<1>2. CASE ReconcileOne
  <2>1. run.todo # <<>>
    BY <1>2 DEF ReconcileOne
  <2>2. run' \in Run
    BY <1>2, <2>1, RunSteps DEF ReconcileOne
  <2>3. row' \in [Files -> Paths] /\ forgotten' \subseteq Files
    BY <1>2, <2>1, HeadOfTodo DEF ReconcileOne, TypeOK
  <2> QED
    BY <1>2, <2>2, <2>3 DEF ReconcileOne, TypeOK, PCs, InHand, ApplyOnly
<1>3. CASE ReconcileEnds
  <2>1. run.kept \in Seq(Move)
    BY DEF TypeOK, Run
  <2>2. pending' \in Seq(Move) /\ tail' \in Tails /\ forgotten' \subseteq Files
    BY <1>3, <2>1, RewriteType DEF ReconcileEnds, Tails, TypeOK
  <2> QED
    BY <1>3, <2>2, EndRunType, EndRunInHand DEF ReconcileEnds, TypeOK, PCs
<1> QED
  BY <1>1, <1>2, <1>3 DEF StartupStep

LEMMA StutterType ==
    ASSUME TypeInv, UNCHANGED vars
    PROVE  TypeInv'
BY DEF vars, TypeInv, TypeOK, InHand, ApplyOnly

LEMMA TypeInvStep == TypeInv /\ [Next]_vars => TypeInv'
BY RequestType, LoopType, RecoverType, JournalStepType, FileType, RowType, EndType,
   StartupType, StutterType DEF Next, Done

LEMMA TypeInvAlways == Spec => []TypeInv
BY InitTypes, TypeInvStep, PTL DEF Spec

\* TypeOK of RestructureApply: the engine's variables keep their types, and
\* every durable step finds the planned move it works on.
THEOREM TypeCorrect == Spec => []TypeOK
BY TypeInvAlways, PTL DEF TypeInv

(***************************************************************************)
(* Two files are never at one path: a rename that would replace fails.     *)
(***************************************************************************)
Apart == \A f, g \in Files : loc[f] = loc[g] => f = g

LEMMA ApartStep ==
    TypeInv /\ Apart /\ [Next]_vars => Apart'
<1> SUFFICES ASSUME TypeInv, Apart, [Next]_vars
             PROVE  Apart'
  OBVIOUS
<1>1. CASE MoveFile
  <2>1. Head1.file \in Files /\ Head1.dst \in Paths
    BY <1>1, HeadOfTodo DEF MoveFile, TypeInv, InHand
  <2> QED
    BY <1>1, <2>1 DEF MoveFile, OnDisk, Apart, TypeInv, TypeOK
<1>2. CASE ~MoveFile
  <2>1. UNCHANGED loc
    BY <1>2 DEF Next, vars, Done,
         RequestStep, StartApply, StartUndo,
         LoopStep, LoopEnds, Cancel, StreamFails, ApplyReject, ApplyReserve, UndoRelabel,
         UndoKeep, UndoReject, UndoReserve, NextUnchanged,
         RecoverStep, RecoverRefuse, RecoverNothing, RecoverCommitted, RecoverUncommitted,
         Reinstate, RecoverUnchanged,
         JournalStep, SetAside, CreateJournal, WriteHeader, AppendAhead, AppendFails,
         Rollback, Commit, FilesUnchanged,
         FileStep, MoveFails, RowStep, UpdateRow, UpdateRowFails, RecordFailure, RowUnchanged,
         EndStep, ApplyEnds, ApplyEndsUnmoved, Discard, PutBack, UndoEnds, ScanJournal,
         ScanStops, StartupStep, Restart, ReconcileOne, ReconcileEnds
  <2> QED
    BY <2>1 DEF Apart
<1> QED
  BY <1>1, <1>2

(***************************************************************************)
(* JournalExact is not inductive: that a new line never claims a file an   *)
(* older line claims comes from the plan naming each file once, so the     *)
(* files journaled must be disjoint from the files still to move, and the  *)
(* last line must be the inverse of the move in hand while it is at stake. *)
(***************************************************************************)
FilesOf(s) == {s[i].file : i \in 1..Len(s)}

OpenPCs == {"next", "append", "move", "rollback", "commit", "row", "record",
            "finish", "discard", "putback"}
Closing == pc \in {"finish", "discard", "putback"}
AtStake == pc \in {"move", "rollback"}
ToJournal == IF pc \in {"move", "rollback", "commit", "row", "record"}
             THEN Tail(run.todo) ELSE run.todo
Last == journal.entries[Len(journal.entries)]

HandleInv ==
    /\ handle.open => run.op = "apply" /\ pc \in OpenPCs
    /\ pc \in {"append", "rollback", "commit"} => handle.open
    /\ pc = "move" /\ run.op = "apply" => handle.open
    /\ handle.dirty => handle.open /\ run.failed
    /\ pc = "header" => journal.entries = <<>>
    /\ pc = "reconcile" => run.op = "startup"
    /\ run.op = "apply" => Distinct(run.todo)

OnceEach ==
    (handle.open /\ ~Closing) =>
        FilesOf(journal.entries) \cap FilesOf(ToJournal) = {}

StakeInv ==
    (handle.open /\ AtStake) =>
        /\ journal.entries # <<>> /\ ~handle.dirty
        /\ Last = InverseMove(Head1)
        /\ \A i \in 1..(Len(journal.entries) - 1) : journal.entries[i].file # Head1.file

LinesInv ==
    handle.open =>
        \A i \in 1..Len(journal.entries) :
            \/ loc[journal.entries[i].file] = journal.entries[i].src
            \/ /\ i = Len(journal.entries)
               /\ AtStake \/ handle.dirty \/ (run.failed /\ Closing)

JournalInv == HandleInv /\ OnceEach /\ StakeInv /\ LinesInv

LEMMA JournalInvExact == JournalInv => JournalExact
BY DEF JournalInv, HandleInv, LinesInv, JournalExact, AtStake, Closing

\* What a plan without repeated files keeps when its head is dropped, or
\* renamed by a reservation.
LEMMA TailFiles ==
    ASSUME NEW s \in Seq(Move), s # <<>>
    PROVE  /\ FilesOf(Tail(s)) \subseteq FilesOf(s)
           /\ Head(s).file \in FilesOf(s)
           /\ Distinct(s) => Distinct(Tail(s)) /\ Head(s).file \notin FilesOf(Tail(s))
<1>1. /\ Tail(s) \in Seq(Move) /\ Len(s) \in Nat \ {0} /\ Len(Tail(s)) = Len(s) - 1
      /\ Head(s) = s[1]
      /\ \A i \in 1..Len(Tail(s)) : Tail(s)[i] = s[i + 1]
  BY HeadTailProperties, EmptySeq
<1>2. DOMAIN s = 1..Len(s) /\ DOMAIN Tail(s) = 1..(Len(s) - 1)
  BY <1>1
<1>3. \A i \in 1..Len(Tail(s)) : i + 1 \in 1..Len(s) /\ i + 1 # 1
  BY <1>1
<1>4. FilesOf(Tail(s)) \subseteq FilesOf(s)
  BY <1>1, <1>3 DEF FilesOf
<1>5. 1 \in 1..Len(s) /\ Head(s).file \in FilesOf(s)
  BY <1>1 DEF FilesOf
<1>6. ASSUME Distinct(s) PROVE Distinct(Tail(s))
  <2>1. ASSUME NEW i \in DOMAIN Tail(s), NEW j \in DOMAIN Tail(s), Tail(s)[i].file = Tail(s)[j].file
        PROVE  i = j
    <3>1. i + 1 \in DOMAIN s /\ j + 1 \in DOMAIN s /\ s[i + 1].file = s[j + 1].file
      BY <2>1, <1>1, <1>2
    <3>2. i + 1 = j + 1
      BY <3>1, <1>6 DEF Distinct
    <3> QED
      BY <3>2, <1>1, <1>2
  <2> QED
    BY <2>1 DEF Distinct
<1>7. ASSUME Distinct(s), Head(s).file \in FilesOf(Tail(s)) PROVE FALSE
  <2>1. PICK i \in 1..Len(Tail(s)) : Tail(s)[i].file = Head(s).file
    BY <1>7 DEF FilesOf
  <2>2. s[i + 1].file = s[1].file /\ i + 1 \in DOMAIN s /\ 1 \in DOMAIN s
    BY <2>1, <1>1, <1>2, <1>3, <1>5
  <2>3. i + 1 = 1
    BY <2>2, <1>7 DEF Distinct
  <2> QED
    BY <2>3, <1>3
<1> QED
  BY <1>4, <1>5, <1>6, <1>7

LEMMA RenamedFiles ==
    ASSUME NEW s \in Seq(Move), s # <<>>, NEW m \in Move, m.file = Head(s).file
    PROVE  LET t == <<m>> \o Tail(s)
           IN  /\ t \in Seq(Move) /\ t # <<>> /\ Head(t) = m
               /\ FilesOf(t) \subseteq FilesOf(s)
               /\ Distinct(s) => Distinct(t)
<1> DEFINE t == <<m>> \o Tail(s)
<1>1. /\ Len(s) \in Nat \ {0} /\ Tail(s) \in Seq(Move) /\ Len(Tail(s)) = Len(s) - 1
      /\ Head(s) = s[1]
      /\ \A i \in 1..Len(Tail(s)) : Tail(s)[i] = s[i + 1]
  BY HeadTailProperties, EmptySeq
<1>2. <<m>> \in Seq(Move) /\ Len(<<m>>) = 1 /\ <<m>>[1] = m
  OBVIOUS
<1>3. /\ t \in Seq(Move) /\ Len(t) = Len(s)
      /\ t[1] = m
      /\ \A i \in 2..Len(s) : t[i] = s[i]
  BY <1>1, <1>2, ConcatProperties
<1>4. \A i \in 1..Len(s) : t[i].file = s[i].file
  BY <1>1, <1>3
<1>5. DOMAIN t = 1..Len(s) /\ DOMAIN s = 1..Len(s)
  BY <1>3
<1>6. t # <<>> /\ Head(t) = m
  BY <1>3, <1>1
<1> HIDE DEF t
<1>7. FilesOf(t) \subseteq FilesOf(s) /\ (Distinct(s) => Distinct(t))
  BY <1>3, <1>4, <1>5 DEF FilesOf, Distinct
<1> QED
  BY <1>3, <1>6, <1>7 DEF t

\* What appending a line and taking the last one back do to the files.
LEMMA AppendFiles ==
    ASSUME NEW s \in Seq(Move), NEW e \in Move
    PROVE  /\ Append(s, e) # <<>> /\ Len(Append(s, e)) = Len(s) + 1
           /\ Append(s, e)[Len(s) + 1] = e
           /\ \A i \in 1..Len(s) : Append(s, e)[i] = s[i]
           /\ FilesOf(Append(s, e)) = FilesOf(s) \cup {e.file}
<1>1. /\ Append(s, e) # <<>> /\ Len(Append(s, e)) = Len(s) + 1
      /\ Append(s, e)[Len(s) + 1] = e
      /\ \A i \in 1..Len(s) : Append(s, e)[i] = s[i]
  BY AppendProperties
<1>2. Len(s) \in Nat
  OBVIOUS
<1> QED
  BY <1>1, <1>2 DEF FilesOf

LEMMA OverwrittenLines ==
    ASSUME TypeOK, journal.entries # <<>>
    PROVE  /\ Overwritten \in Seq(Move)
           /\ Len(Overwritten) = Len(journal.entries) - 1
           /\ \A i \in 1..Len(Overwritten) : Overwritten[i] = journal.entries[i]
           /\ FilesOf(Overwritten) \subseteq FilesOf(journal.entries)
<1>1. journal.entries \in Seq(Move)
  BY EntriesType
<1>2. Len(journal.entries) \in Nat \ {0}
  BY <1>1, EmptySeq
<1>3. /\ Overwritten \in Seq(Move)
      /\ Len(Overwritten) = Len(journal.entries) - 1
      /\ \A i \in 1..Len(Overwritten) : Overwritten[i] = journal.entries[i]
  BY <1>1, <1>2 DEF Overwritten
<1> QED
  BY <1>2, <1>3 DEF FilesOf

\* The run each loop step leaves.
LEMMA RunFields ==
    ASSUME TypeOK, run.todo # <<>>
    PROVE  /\ Drop.op = run.op /\ Drop.todo = Tail(run.todo) /\ Drop.failed = run.failed
           /\ Fail.op = run.op /\ Fail.todo = Tail(run.todo) /\ Fail.failed
           /\ Released.op = run.op /\ Released.todo = Tail(run.todo) /\ Released.failed
           /\ Keep.op = run.op
           /\ \A p \in Paths :
                 /\ Reserved(p).op = run.op /\ Reserved(p).failed = run.failed
                 /\ Reserved(p).todo = <<[Head1 EXCEPT !.dst = p]>> \o Tail(run.todo)
<1>1. run \in Run
  BY DEF TypeOK
<1>2. Drop \in Run /\ Drop.op = run.op /\ Drop.todo = Tail(run.todo) /\ Drop.failed = run.failed
  BY <1>1, RunSteps DEF Drop, Run
<1>3. Fail \in Run /\ Fail.op = run.op /\ Fail.todo = Tail(run.todo) /\ Fail.failed
  BY <1>2, RunSteps DEF Fail, Run
<1>4. Released.op = run.op /\ Released.todo = Tail(run.todo) /\ Released.failed
  BY <1>3 DEF Released, Run
<1>5. ASSUME NEW p \in Paths
      PROVE  /\ Reserved(p).op = run.op /\ Reserved(p).failed = run.failed
             /\ Reserved(p).todo = <<[Head1 EXCEPT !.dst = p]>> \o Tail(run.todo)
  <2> DEFINE t == <<[Head1 EXCEPT !.dst = p]>> \o Tail(run.todo)
  <2>1. /\ Claimed(p) \in Run /\ Claimed(p).op = run.op /\ Claimed(p).todo = run.todo
        /\ Claimed(p).failed = run.failed
    BY <1>1 DEF Claimed, Run
  <2>2. Reserved(p) = [Claimed(p) EXCEPT !.todo = t]
    BY <2>1 DEF Reserved
  <2> HIDE DEF t
  <2>3. Reserved(p).op = run.op /\ Reserved(p).failed = run.failed /\ Reserved(p).todo = t
    BY <2>1, <2>2 DEF Run
  <2> QED
    BY <2>3 DEF t
<1> QED
  BY <1>2, <1>3, <1>4, <1>5, RunSteps

\* A run that has ended has no journal open, and nor has one not begun.
LEMMA EndRunJournal == ASSUME EndRun PROVE JournalInv'
BY DEF EndRun, JournalInv, HandleInv, OnceEach, StakeInv, LinesInv, Closed, NoRun, NewRun

LEMMA ShutJournal ==
    ASSUME HandleInv', ~handle'.open
    PROVE  JournalInv'
BY DEF JournalInv, OnceEach, StakeInv, LinesInv

LEMMA InitJournal == Init => JournalInv
BY DEF Init, JournalInv, HandleInv, OnceEach, StakeInv, LinesInv, Closed, NoRun, NewRun

LEMMA RequestJournal ==
    ASSUME TypeInv, JournalInv, RequestStep
    PROVE  JournalInv'
<1>1. pc = "idle" /\ ~handle.open /\ ~handle.dirty
  BY DEF RequestStep, StartApply, StartUndo, JournalInv, HandleInv, OpenPCs
<1>2. ASSUME NEW r \in Roots, NEW plan \in WellFormed[r], NEW strict \in BOOLEAN,
             StartApply(r, plan, strict)
      PROVE  HandleInv' /\ ~handle'.open
  <2>1. run'.op = "apply" /\ run'.todo = plan /\ Distinct(plan)
    BY <1>2, PlanType DEF StartApply, NewRun
  <2> QED
    BY <1>1, <1>2, <2>1 DEF StartApply, HandleInv, OpenPCs
<1>3. ASSUME NEW r \in Roots, StartUndo(r)
      PROVE  HandleInv' /\ ~handle'.open
  <2>1. run'.op = "undo"
    BY <1>3 DEF StartUndo, NewRun
  <2> QED
    BY <1>1, <1>3, <2>1 DEF StartUndo, HandleInv, OpenPCs
<1> QED
  BY <1>2, <1>3, ShutJournal DEF RequestStep

\* A step of the loop leaves the disk and the journal alone: what matters is
\* only that no file joins the moves still to journal.
LEMMA LoopKeeps ==
    ASSUME TypeInv, JournalInv, pc = "next", NextUnchanged,
           pc' \in {"next", "append", "finish"}, pc' = "append" => handle.open,
           run'.op = run.op, run.failed => run'.failed,
           run.op = "apply" => /\ Distinct(run'.todo)
                               /\ FilesOf(run'.todo) \subseteq FilesOf(run.todo)
    PROVE  JournalInv'
<1>1. HandleInv'
  BY DEF JournalInv, HandleInv, NextUnchanged, OpenPCs
<1>2. OnceEach' /\ StakeInv' /\ LinesInv'
  <2>1. CASE ~handle.open
    BY <2>1 DEF OnceEach, StakeInv, LinesInv, NextUnchanged
  <2>2. CASE handle.open
    <3>1. run.op = "apply"
      BY <2>2 DEF JournalInv, HandleInv
    <3>2. OnceEach'
      BY <2>2, <3>1 DEF JournalInv, OnceEach, Closing, ToJournal, NextUnchanged
    <3>3. StakeInv'
      BY DEF StakeInv, AtStake
    <3>4. LinesInv'
      BY <2>2 DEF JournalInv, LinesInv, Closing, AtStake, NextUnchanged
    <3> QED
      BY <3>2, <3>3, <3>4
  <2> QED
    BY <2>1, <2>2
<1> QED
  BY <1>1, <1>2 DEF JournalInv

LEMMA LoopJournal ==
    ASSUME TypeInv, JournalInv, LoopStep
    PROVE  JournalInv'
<1>0. /\ run \in Run /\ run.todo \in Seq(Move) /\ TypeOK
      /\ run.op = "apply" => Distinct(run.todo)
  BY DEF TypeInv, TypeOK, Run, JournalInv, HandleInv
<1>1. CASE LoopEnds
  BY <1>0, <1>1, LoopKeeps DEF LoopEnds
<1>2. CASE Cancel
  <2>1. run'.op = run.op /\ run'.failed = run.failed /\ run'.todo = run.todo
    BY <1>0, <1>2 DEF Cancel, Run
  <2> QED
    BY <1>0, <1>2, <2>1, LoopKeeps DEF Cancel
<1>3. CASE StreamFails
  <2>1. run'.op = run.op /\ run'.failed /\ run'.todo = run.todo
    BY <1>0, <1>3 DEF StreamFails, Run
  <2> QED
    BY <1>0, <1>3, <2>1, LoopKeeps DEF StreamFails
<1>4. CASE ApplyReject
  <2>1. pc = "next" /\ run.todo # <<>> /\ run' = Fail /\ pc' = pc /\ NextUnchanged
    BY <1>4 DEF ApplyReject, AtMove
  <2>2. run'.op = run.op /\ run'.failed /\ run'.todo = Tail(run.todo)
    BY <1>0, <2>1, RunFields
  <2> QED
    BY <1>0, <2>1, <2>2, TailFiles, LoopKeeps
<1>5. CASE ApplyReserve
  <2>1. /\ pc = "next" /\ run.todo # <<>> /\ run.op = "apply" /\ NextUnchanged
        /\ pc' = IF handle.open THEN "append" ELSE "recover"
    BY <1>5 DEF ApplyReserve, AtMove
  <2>2. PICK p \in Paths : run' = Reserved(p)
    BY <1>5 DEF ApplyReserve, Candidates
  <2>3. /\ run'.op = run.op /\ run'.failed = run.failed
        /\ run'.todo = <<[Head1 EXCEPT !.dst = p]>> \o Tail(run.todo)
    BY <1>0, <2>1, <2>2, RunFields
  <2>4. /\ [Head1 EXCEPT !.dst = p] \in Move
        /\ [Head1 EXCEPT !.dst = p].file = Head(run.todo).file
    BY <1>0, <2>1, HeadOfTodo DEF Head1, Move
  <2>5. Distinct(run'.todo) /\ FilesOf(run'.todo) \subseteq FilesOf(run.todo)
    <3>1. run.todo \in Seq(Move) /\ run.todo # <<>> /\ Distinct(run.todo)
      BY <1>0, <2>1
    <3> DEFINE m == [Head1 EXCEPT !.dst = p]
    <3>2. m \in Move /\ m.file = Head(run.todo).file /\ run'.todo = <<m>> \o Tail(run.todo)
      BY <2>3, <2>4
    <3> HIDE DEF m
    <3> QED
      BY <3>1, <3>2, RenamedFiles
  <2>6. CASE handle.open
    BY <2>1, <2>3, <2>5, <2>6, LoopKeeps
  <2>7. CASE ~handle.open
    <3>1. HandleInv' /\ ~handle'.open
      BY <2>1, <2>3, <2>5, <2>7 DEF JournalInv, HandleInv, NextUnchanged
    <3> QED
      BY <3>1, ShutJournal
  <2> QED
    BY <2>6, <2>7
<1>6. CASE UndoRelabel \/ UndoKeep \/ UndoReject \/ UndoReserve
  <2>1. pc = "next" /\ run.op = "undo" /\ run.todo # <<>> /\ NextUnchanged
    BY <1>6 DEF UndoRelabel, UndoKeep, UndoReject, UndoReserve, AtMove
  <2>2. run'.op = "undo" /\ pc' \in {"next", "row", "move"}
    <3>1. CASE UndoRelabel
      BY <2>1, <3>1 DEF UndoRelabel
    <3>2. CASE UndoKeep
      BY <1>0, <2>1, <3>2, RunFields DEF UndoKeep
    <3>3. CASE UndoReject
      BY <1>0, <2>1, <3>3, RunFields DEF UndoReject
    <3>4. CASE UndoReserve
      BY <1>0, <2>1, <3>4, RunFields DEF UndoReserve, Candidates
    <3> QED
      BY <1>6, <3>1, <3>2, <3>3, <3>4
  <2>3. HandleInv' /\ ~handle'.open
    BY <2>1, <2>2 DEF JournalInv, HandleInv, NextUnchanged
  <2> QED
    BY <2>3, ShutJournal
<1> QED
  BY <1>1, <1>2, <1>3, <1>4, <1>5, <1>6 DEF LoopStep

LEMMA RecoverJournal ==
    ASSUME TypeInv, JournalInv, RecoverStep
    PROVE  JournalInv'
<1>1. CASE EndRun
  BY <1>1, EndRunJournal
<1>2. CASE ~EndRun
  <2>1. /\ pc \in {"recover", "reinstate"} /\ UNCHANGED <<run, handle>>
        /\ pc' \in {"setaside", "scan", "reinstate"}
    BY <1>2 DEF RecoverStep, RecoverRefuse, RecoverNothing, RecoverCommitted,
       RecoverUncommitted, Reinstate, Recovered
  <2>2. HandleInv' /\ ~handle'.open
    BY <2>1 DEF JournalInv, HandleInv, OpenPCs
  <2> QED
    BY <2>2, ShutJournal
<1> QED
  BY <1>1, <1>2

LEMMA AppendJournal ==
    ASSUME TypeInv, JournalInv, AppendAhead
    PROVE  JournalInv'
<1>1. /\ TypeOK /\ pc = "append" /\ run.op = "apply" /\ run.todo # <<>>
      /\ run.todo \in Seq(Move) /\ journal.entries \in Seq(Move) /\ Distinct(run.todo)
      /\ InverseMove(Head1) \in Move /\ Head1 = Head(run.todo)
      /\ pc' = "move" /\ UNCHANGED <<run, loc>>
  BY EntriesType DEF TypeInv, TypeOK, Run, InHand, ApplyOnly, JournalInv, HandleInv,
     AppendAhead, FilesUnchanged, Head1
<1>2. /\ handle' = [handle EXCEPT !.dirty = FALSE] /\ handle'.open = handle.open /\ ~handle'.dirty
  BY <1>1 DEF AppendAhead, TypeOK, Handle
<1>3. HandleInv'
  BY <1>1, <1>2 DEF JournalInv, HandleInv, OpenPCs
<1>4. CASE ~handle.open
  BY <1>2, <1>3, <1>4, ShutJournal
<1>5. CASE handle.open
  <2> DEFINE kept == IF handle.dirty THEN Overwritten ELSE journal.entries
  <2>2. journal'.entries = Append(kept, InverseMove(Head1))
    <3>1. CASE handle.dirty
      BY <1>1, <3>1 DEF AppendAhead
    <3>2. CASE ~handle.dirty
      <4> DEFINE es == Append(journal.entries, InverseMove(Head1))
      <4>1. journal' = [journal EXCEPT !.entries = es] /\ journal \in Journal
        BY <1>1, <3>2 DEF AppendAhead, TypeOK
      <4> HIDE DEF es
      <4>2. journal'.entries = es
        BY <4>1 DEF Journal
      <4> QED
        BY <3>2, <4>2 DEF es
    <3> QED
      BY <3>1, <3>2
  <2>3. /\ kept \in Seq(Move)
        /\ FilesOf(kept) \subseteq FilesOf(journal.entries)
        /\ \A i \in 1..Len(kept) : loc[kept[i].file] = kept[i].src
    <3>0. \A i \in 1..Len(journal.entries) :
             \/ loc[journal.entries[i].file] = journal.entries[i].src
             \/ i = Len(journal.entries) /\ handle.dirty
      BY <1>1, <1>5 DEF JournalInv, LinesInv, AtStake, Closing
    <3>1. CASE handle.dirty /\ journal.entries # <<>>
      <4>1. /\ kept \in Seq(Move) /\ Len(kept) = Len(journal.entries) - 1
            /\ \A i \in 1..Len(kept) : kept[i] = journal.entries[i]
            /\ FilesOf(kept) \subseteq FilesOf(journal.entries)
        BY <1>1, <3>1, OverwrittenLines
      <4>2. Len(journal.entries) \in Nat
        BY <1>1
      <4> HIDE DEF kept
      <4>3. \A i \in 1..Len(kept) : i \in 1..Len(journal.entries) /\ i # Len(journal.entries)
        BY <4>1, <4>2
      <4> QED
        BY <4>1, <4>3, <3>0
    <3>2. CASE handle.dirty /\ journal.entries = <<>>
      <4>1. Overwritten = <<>>
        BY <3>2 DEF Overwritten
      <4> QED
        BY <3>2, <4>1 DEF FilesOf
    <3>3. CASE ~handle.dirty
      BY <1>1, <3>0, <3>3
    <3> QED
      BY <3>1, <3>2, <3>3
  <2> HIDE DEF kept
  <2>4. /\ journal'.entries # <<>> /\ Len(journal'.entries) = Len(kept) + 1
        /\ Len(kept) \in Nat
        /\ Last' = InverseMove(Head1)
        /\ \A i \in 1..Len(kept) : journal'.entries[i] = kept[i]
        /\ FilesOf(journal'.entries) = FilesOf(kept) \cup {InverseMove(Head1).file}
    BY <1>1, <2>2, <2>3, AppendFiles DEF Last
  <2>5. /\ InverseMove(Head1).file = Head1.file
        /\ Head1.file \in FilesOf(run.todo)
        /\ Head1.file \notin FilesOf(Tail(run.todo))
        /\ FilesOf(Tail(run.todo)) \subseteq FilesOf(run.todo)
    BY <1>1, TailFiles DEF InverseMove
  <2>6. FilesOf(kept) \cap FilesOf(run.todo) = {}
    BY <1>1, <1>5, <2>3 DEF JournalInv, OnceEach, Closing, ToJournal
  <2>7. OnceEach'
    <3>1. ToJournal' = Tail(run.todo)
      BY <1>1 DEF ToJournal
    <3> QED
      BY <3>1, <2>4, <2>5, <2>6 DEF OnceEach
  <2>8. \A i \in 1..Len(kept) : kept[i].file # Head1.file
    BY <2>5, <2>6 DEF FilesOf
  <2>9. StakeInv'
    <3>1. Head1' = Head1 /\ InverseMove(Head1)' = InverseMove(Head1)
      BY <1>1 DEF Head1, InverseMove
    <3>2. \A i \in 1..(Len(journal'.entries) - 1) : journal'.entries[i].file # Head1.file
      BY <2>4, <2>8
    <3> QED
      BY <3>1, <3>2, <2>4, <1>2 DEF StakeInv
  <2>10. LinesInv'
    <3>1. \A i \in 1..Len(journal'.entries) : i \in 1..Len(kept) \/ i = Len(journal'.entries)
      BY <2>4
    <3>2. \A i \in 1..Len(kept) : loc'[journal'.entries[i].file] = journal'.entries[i].src
      BY <1>1, <2>3, <2>4
    <3>3. AtStake'
      BY <1>1 DEF AtStake
    <3> QED
      BY <3>1, <3>2, <3>3 DEF LinesInv
  <2> QED
    BY <1>3, <2>7, <2>9, <2>10 DEF JournalInv
<1> QED
  BY <1>4, <1>5

LEMMA AppendFailsJournal ==
    ASSUME TypeInv, JournalInv, AppendFails
    PROVE  JournalInv'
<1>1. /\ TypeOK /\ pc = "append" /\ run.op = "apply" /\ run.todo # <<>>
      /\ journal.entries \in Seq(Move) /\ InverseMove(Head1) \in Move
      /\ pc' = "finish" /\ UNCHANGED <<handle, loc>>
  BY EntriesType DEF TypeInv, InHand, ApplyOnly, AppendFails, FilesUnchanged
<1>2. run'.op = "apply" /\ run'.failed /\ run'.todo = run.todo
  BY <1>1 DEF AppendFails, TypeOK, Run
<1>3. HandleInv'
  BY <1>1, <1>2 DEF JournalInv, HandleInv, OpenPCs
<1>4. CASE ~handle.open
  BY <1>1, <1>3, <1>4, ShutJournal
<1>5. CASE handle.open
  <2>0. \A i \in 1..Len(journal.entries) :
           \/ loc[journal.entries[i].file] = journal.entries[i].src
           \/ i = Len(journal.entries) /\ handle.dirty
    BY <1>1, <1>5 DEF JournalInv, LinesInv, AtStake, Closing
  <2>1. AtStake' = FALSE /\ Closing'
    BY <1>1 DEF AtStake, Closing
  <2>2. LinesInv'
    <3>1. CASE journal'.entries = journal.entries
      BY <1>1, <1>2, <2>0, <2>1, <3>1 DEF LinesInv
    <3>2. CASE ~handle.dirty /\ journal'.entries = Append(journal.entries, InverseMove(Head1))
      <4>1. /\ Len(journal'.entries) = Len(journal.entries) + 1
            /\ \A i \in 1..Len(journal.entries) : journal'.entries[i] = journal.entries[i]
            /\ Len(journal.entries) \in Nat
        BY <1>1, <3>2, AppendFiles
      <4>2. \A i \in 1..Len(journal'.entries) :
               i \in 1..Len(journal.entries) \/ i = Len(journal'.entries)
        BY <4>1
      <4> QED
        BY <1>1, <1>2, <2>0, <2>1, <3>2, <4>1, <4>2 DEF LinesInv
    <3>3. \/ journal'.entries = journal.entries
          \/ ~handle.dirty /\ journal'.entries = Append(journal.entries, InverseMove(Head1))
      <4> DEFINE es == Append(journal.entries, InverseMove(Head1))
      <4>1. /\ journal \in Journal
            /\ \/ journal' = journal
               \/ ~handle.dirty /\ journal' = [journal EXCEPT !.entries = es]
               \/ journal' = [journal EXCEPT !.root = None]
        BY <1>1 DEF AppendFails, TypeOK
      <4> HIDE DEF es
      <4>2. \/ journal'.entries = journal.entries
            \/ ~handle.dirty /\ journal'.entries = es
        BY <4>1 DEF Journal
      <4> QED
        BY <4>2 DEF es
    <3> QED
      BY <3>1, <3>2, <3>3
  <2> QED
    BY <1>3, <2>1, <2>2 DEF JournalInv, OnceEach, StakeInv
<1> QED
  BY <1>4, <1>5

LEMMA RollbackJournal ==
    ASSUME TypeInv, JournalInv, Rollback
    PROVE  JournalInv'
<1>1. /\ TypeOK /\ pc = "rollback" /\ run.op = "apply" /\ run.todo # <<>>
      /\ run.todo \in Seq(Move) /\ journal.entries \in Seq(Move) /\ Distinct(run.todo)
      /\ run' = Released /\ pc' = "next" /\ UNCHANGED loc
  BY EntriesType DEF TypeInv, TypeOK, Run, InHand, ApplyOnly, JournalInv, HandleInv,
     Rollback, FilesUnchanged
<1>2. run'.op = "apply" /\ run'.failed /\ run'.todo = Tail(run.todo)
  BY <1>1, RunFields
<1>3. \/ /\ handle' = handle /\ journal' = [journal EXCEPT !.entries = Overwritten]
      \/ /\ handle' = [handle EXCEPT !.dirty = TRUE] /\ journal' = journal
  BY DEF Rollback
<1>4. /\ [journal EXCEPT !.entries = Overwritten].entries = Overwritten
      /\ [handle EXCEPT !.dirty = TRUE].open = handle.open
      /\ [handle EXCEPT !.dirty = TRUE].dirty
  BY <1>1, EntriesType, JournalWith DEF TypeOK, Handle
<1>5. \/ handle' = handle /\ journal'.entries = Overwritten
      \/ handle'.open = handle.open /\ handle'.dirty /\ UNCHANGED journal
  BY <1>3, <1>4
<1>6. handle.open
  BY <1>1 DEF JournalInv, HandleInv
<1>7. QED
  <2>1. /\ journal.entries # <<>>
        /\ \A i \in 1..Len(journal.entries) :
              i = Len(journal.entries) \/ loc[journal.entries[i].file] = journal.entries[i].src
        /\ FilesOf(journal.entries) \cap FilesOf(Tail(run.todo)) = {}
        /\ ~handle.dirty
    BY <1>1, <1>6 DEF JournalInv, StakeInv, LinesInv, OnceEach, AtStake, Closing, ToJournal
  <2>2. HandleInv'
    <3>1. Distinct(run'.todo)
      BY <1>1, <1>2, TailFiles
    <3>2. handle'.open
      BY <1>5, <1>6
    <3> QED
      BY <1>1, <1>2, <3>1, <3>2 DEF HandleInv, OpenPCs
  <2>3. StakeInv' /\ ToJournal' = Tail(run.todo) /\ AtStake' = FALSE
    BY <1>1, <1>2 DEF StakeInv, AtStake, ToJournal
  <2>4. CASE handle' = handle /\ journal'.entries = Overwritten
    <3>1. /\ Len(Overwritten) = Len(journal.entries) - 1
          /\ \A i \in 1..Len(Overwritten) : Overwritten[i] = journal.entries[i]
          /\ FilesOf(Overwritten) \subseteq FilesOf(journal.entries)
          /\ Len(journal.entries) \in Nat
      BY <1>1, <2>1, OverwrittenLines
    <3>2. \A i \in 1..Len(Overwritten) : i \in 1..Len(journal.entries) /\ i # Len(journal.entries)
      BY <3>1
    <3>3. LinesInv'
      BY <1>1, <2>1, <2>4, <3>1, <3>2 DEF LinesInv
    <3>4. OnceEach'
      BY <2>1, <2>3, <2>4, <3>1 DEF OnceEach
    <3> QED
      BY <2>2, <2>3, <3>3, <3>4 DEF JournalInv
  <2>5. CASE handle'.open = handle.open /\ handle'.dirty /\ UNCHANGED journal
    <3>1. LinesInv'
      BY <1>1, <2>1, <2>5 DEF LinesInv
    <3>2. OnceEach'
      BY <2>1, <2>3, <2>5 DEF OnceEach
    <3> QED
      BY <2>2, <2>3, <3>1, <3>2 DEF JournalInv
  <2> QED
    BY <1>5, <2>4, <2>5

LEMMA JournalStepJournal ==
    ASSUME TypeInv, JournalInv, JournalStep
    PROVE  JournalInv'
<1>1. CASE SetAside
  <2>1. CASE EndRun
    BY <2>1, EndRunJournal
  <2>2. CASE ~EndRun
    <3>1. HandleInv' /\ ~handle'.open
      BY <1>1, <2>2 DEF SetAside, JournalInv, HandleInv, OpenPCs
    <3> QED
      BY <3>1, ShutJournal
  <2> QED
    BY <2>1, <2>2
<1>2. CASE CreateJournal
  <2>1. /\ pc' = "header" => journal'.entries = <<>>
        /\ pc' \in {"header", "discard"} /\ UNCHANGED <<run, handle>>
    BY <1>2 DEF CreateJournal, Absent
  <2>2. HandleInv' /\ ~handle'.open
    BY <1>2, <2>1 DEF CreateJournal, JournalInv, HandleInv, OpenPCs
  <2> QED
    BY <2>2, ShutJournal
<1>3. CASE WriteHeader
  <2>1. /\ pc = "header" /\ run.op = "apply" /\ ~handle.open /\ journal.entries = <<>>
        /\ journal \in Journal /\ UNCHANGED <<run, loc>>
    BY <1>3 DEF WriteHeader, FilesUnchanged, TypeInv, TypeOK, InHand, ApplyOnly,
       JournalInv, HandleInv, OpenPCs
  <2>2. CASE handle' = Opened
    <3>1. journal'.entries = <<>> /\ pc' = "append"
      <4>1. journal' = [journal EXCEPT !.root = run.root] /\ pc' = "append"
        BY <1>3, <2>1, <2>2 DEF WriteHeader, Opened, Closed
      <4> QED
        BY <2>1, <4>1 DEF Journal
    <3>2. handle'.open /\ ~handle'.dirty
      BY <2>2 DEF Opened, Closed
    <3>3. HandleInv'
      BY <2>1, <3>1, <3>2 DEF JournalInv, HandleInv, OpenPCs
    <3>4. OnceEach' /\ StakeInv' /\ LinesInv'
      BY <2>1, <3>1 DEF OnceEach, StakeInv, LinesInv, AtStake, FilesOf
    <3> QED
      BY <3>3, <3>4 DEF JournalInv
  <2>3. CASE pc' = "discard" /\ UNCHANGED <<journal, handle>>
    <3>1. HandleInv' /\ ~handle'.open
      BY <2>1, <2>3 DEF JournalInv, HandleInv
    <3> QED
      BY <3>1, ShutJournal
  <2> QED
    BY <1>3, <2>2, <2>3 DEF WriteHeader
<1>4. CASE AppendAhead
  BY <1>4, AppendJournal
<1>5. CASE AppendFails
  BY <1>5, AppendFailsJournal
<1>6. CASE Rollback
  BY <1>6, RollbackJournal
<1>7. CASE Commit
  <2>1. /\ pc = "commit" /\ pc' = "row" /\ UNCHANGED <<journal, run, loc>>
        /\ handle'.open = handle.open /\ handle'.dirty = handle.dirty
    BY <1>7 DEF Commit, FilesUnchanged, TypeInv, TypeOK, Handle
  <2>2. HandleInv'
    BY <2>1 DEF JournalInv, HandleInv, OpenPCs
  <2>3. OnceEach' /\ StakeInv' /\ LinesInv'
    BY <2>1 DEF JournalInv, OnceEach, StakeInv, LinesInv, AtStake, Closing, ToJournal
  <2> QED
    BY <2>2, <2>3 DEF JournalInv
<1> QED
  BY <1>1, <1>2, <1>3, <1>4, <1>5, <1>6, <1>7 DEF JournalStep

LEMMA MoveFileJournal ==
    ASSUME TypeInv, JournalInv, MoveFile
    PROVE  JournalInv'
<1>1. /\ TypeOK /\ pc = "move" /\ run.todo # <<>> /\ run.op \in {"apply", "undo"}
      /\ Head1.file \in Files /\ loc \in [Files -> Paths]
      /\ journal.entries \in Seq(Move)
      /\ loc' = [loc EXCEPT ![Head1.file] = Head1.dst]
      /\ UNCHANGED <<journal, run>>
      /\ pc' = IF run.op = "apply" THEN "commit" ELSE "row"
  BY HeadOfTodo, EntriesType DEF MoveFile, TypeInv, TypeOK, InHand
<1>2. handle'.open = handle.open /\ handle'.dirty = handle.dirty
  BY DEF MoveFile, TypeInv, TypeOK, Handle
<1>3. HandleInv'
  BY <1>1, <1>2 DEF JournalInv, HandleInv, OpenPCs
<1>4. CASE ~handle.open
  BY <1>2, <1>3, <1>4, ShutJournal
<1>5. CASE handle.open
  <2>1. /\ journal.entries # <<>> /\ Last = InverseMove(Head1)
        /\ \A i \in 1..(Len(journal.entries) - 1) : journal.entries[i].file # Head1.file
        /\ \A i \in 1..Len(journal.entries) :
              i = Len(journal.entries) \/ loc[journal.entries[i].file] = journal.entries[i].src
    BY <1>1, <1>5 DEF JournalInv, StakeInv, LinesInv, AtStake, Closing
  <2>2. OnceEach' /\ StakeInv'
    BY <1>1, <1>2, <1>5 DEF JournalInv, OnceEach, StakeInv, AtStake, Closing, ToJournal
  <2>3. ASSUME NEW i \in 1..Len(journal.entries)
        PROVE  loc'[journal.entries[i].file] = journal.entries[i].src
    <3>1. journal.entries[i] \in Move
      BY <1>1, ElementOfSeq
    <3>2. CASE i = Len(journal.entries)
      <4>1. journal.entries[i].file = Head1.file /\ journal.entries[i].src = Head1.dst
        BY <2>1, <3>2 DEF Last, InverseMove
      <4> QED
        BY <1>1, <4>1
    <3>3. CASE i # Len(journal.entries)
      <4>1. i \in 1..(Len(journal.entries) - 1)
        BY <3>3, <1>1
      <4>2. journal.entries[i].file # Head1.file /\ journal.entries[i].file \in Files
        BY <2>1, <3>1, <4>1 DEF Move
      <4> QED
        BY <1>1, <2>1, <3>3, <4>2
    <3> QED
      BY <3>2, <3>3
  <2>4. LinesInv'
    BY <1>1, <2>3 DEF LinesInv
  <2> QED
    BY <1>3, <2>2, <2>4 DEF JournalInv
<1> QED
  BY <1>4, <1>5

LEMMA FileJournal ==
    ASSUME TypeInv, JournalInv, FileStep
    PROVE  JournalInv'
<1>1. CASE MoveFile
  BY <1>1, MoveFileJournal
<1>2. CASE MoveFails /\ run.op = "apply"
  <2>1. pc = "move" /\ pc' = "rollback" /\ UNCHANGED <<run, journal, handle, loc>>
    BY <1>2 DEF MoveFails, FilesUnchanged
  <2>2. HandleInv'
    BY <1>2, <2>1 DEF JournalInv, HandleInv, OpenPCs
  <2>3. OnceEach' /\ LinesInv'
    BY <2>1 DEF JournalInv, OnceEach, LinesInv, AtStake, Closing, ToJournal
  <2>4. StakeInv'
    BY <2>1 DEF JournalInv, StakeInv, AtStake, Last, Head1, InverseMove
  <2> QED
    BY <2>2, <2>3, <2>4 DEF JournalInv
<1>3. CASE MoveFails /\ run.op # "apply"
  <2>1. /\ run.todo # <<>> /\ run.op = "undo" /\ pc' = "next" /\ run' = Released
        /\ handle' = handle /\ TypeOK
    BY <1>3 DEF MoveFails, TypeInv, InHand
  <2>2. run'.op = "undo"
    BY <2>1, RunFields
  <2>3. HandleInv' /\ ~handle'.open
    BY <2>1, <2>2 DEF JournalInv, HandleInv
  <2> QED
    BY <2>3, ShutJournal
<1> QED
  BY <1>1, <1>2, <1>3 DEF FileStep

LEMMA RowJournal ==
    ASSUME TypeInv, JournalInv, RowStep
    PROVE  JournalInv'
<1>1. /\ TypeOK /\ run.todo # <<>> /\ run.op \in {"apply", "undo"} /\ run.todo \in Seq(Move)
      /\ pc \in {"row", "record"} /\ UNCHANGED <<loc, journal, handle>>
      /\ \/ pc' = "record" /\ run' = run
         \/ pc' = "next" /\ run' = Drop
  BY DEF RowStep, UpdateRow, UpdateRowFails, RecordFailure, RowUnchanged, TypeInv, TypeOK,
     InHand, Run
<1>2. run'.op = run.op /\ run'.failed = run.failed /\ ToJournal' = Tail(run.todo)
  BY <1>1, RunFields DEF ToJournal
<1>3. run.op = "apply" => Distinct(run'.todo)
  BY <1>1, RunFields, TailFiles DEF JournalInv, HandleInv
<1>4. HandleInv'
  BY <1>1, <1>2, <1>3 DEF JournalInv, HandleInv, OpenPCs
<1>5. OnceEach' /\ StakeInv' /\ LinesInv'
  BY <1>1, <1>2 DEF JournalInv, OnceEach, StakeInv, LinesInv, AtStake, Closing, ToJournal
<1> QED
  BY <1>4, <1>5 DEF JournalInv

LEMMA EndJournal ==
    ASSUME TypeInv, JournalInv, EndStep
    PROVE  JournalInv'
<1>1. CASE EndRun
  BY <1>1, EndRunJournal
<1>2. CASE ApplyEndsUnmoved
  <2>1. HandleInv'
    BY <1>2 DEF ApplyEndsUnmoved, JournalInv, HandleInv, OpenPCs
  <2>2. OnceEach' /\ StakeInv' /\ LinesInv'
    BY <1>2 DEF ApplyEndsUnmoved, FilesUnchanged, JournalInv, OnceEach, StakeInv, LinesInv,
       AtStake, Closing
  <2> QED
    BY <2>1, <2>2 DEF JournalInv
<1>3. CASE Discard
  <2>1. /\ pc = "discard" /\ pc' = "putback" /\ UNCHANGED <<run, handle, loc>>
        /\ journal'.entries = <<>> \/ journal' = journal
    BY <1>3 DEF Discard, FilesUnchanged, Absent
  <2>2. HandleInv'
    BY <2>1 DEF JournalInv, HandleInv, OpenPCs
  <2>3. OnceEach' /\ StakeInv' /\ LinesInv'
    BY <2>1 DEF JournalInv, OnceEach, StakeInv, LinesInv, AtStake, Closing
  <2> QED
    BY <2>2, <2>3 DEF JournalInv
<1>4. CASE ScanJournal
  <2>1. run'.op = "undo" /\ pc' = "next" /\ handle' = handle /\ ~handle.open
    BY <1>4 DEF ScanJournal, TypeInv, TypeOK, InHand, Run, JournalInv, HandleInv
  <2>2. HandleInv' /\ ~handle'.open
    BY <2>1 DEF JournalInv, HandleInv
  <2> QED
    BY <2>2, ShutJournal
<1> QED
  BY <1>1, <1>2, <1>3, <1>4
     DEF EndStep, ApplyEnds, PutBack, UndoEnds, ScanStops

LEMMA StartupJournal ==
    ASSUME TypeInv, JournalInv, StartupStep
    PROVE  JournalInv'
<1>1. CASE Restart
  <2>1. HandleInv' /\ ~handle'.open
    BY <1>1 DEF Restart, NewRun, NoRun, HandleInv, Closed
  <2> QED
    BY <2>1, ShutJournal
<1>2. CASE ReconcileOne
  <2>1. /\ pc' = "reconcile" /\ handle' = handle /\ ~handle.open /\ run'.op = "startup"
    BY <1>2, RunFields DEF ReconcileOne, TypeInv, JournalInv, HandleInv, OpenPCs
  <2>2. HandleInv' /\ ~handle'.open
    BY <2>1 DEF JournalInv, HandleInv
  <2> QED
    BY <2>2, ShutJournal
<1>3. CASE ReconcileEnds
  BY <1>3, EndRunJournal DEF ReconcileEnds
<1> QED
  BY <1>1, <1>2, <1>3 DEF StartupStep

LEMMA StutterJournal ==
    ASSUME JournalInv, UNCHANGED vars
    PROVE  JournalInv'
BY DEF vars, JournalInv, HandleInv, OnceEach, StakeInv, LinesInv, OpenPCs, Closing,
   AtStake, ToJournal, Last, Head1, InverseMove

LEMMA JournalInvStep == TypeInv /\ JournalInv /\ [Next]_vars => JournalInv'
BY RequestJournal, LoopJournal, RecoverJournal, JournalStepJournal, FileJournal,
   RowJournal, EndJournal, StartupJournal, StutterJournal DEF Next, Done

\* JournalExact of RestructureApply: while an apply holds its journal open,
\* every line but the last names a move that is on disk, and the last one
\* does too unless its move is at stake or a failed step left it behind.
THEOREM JournalNeverInvents == Spec => []JournalExact
BY InitJournal, JournalInvStep, TypeInvAlways, JournalInvExact, PTL DEF Spec

(***************************************************************************)
(* StaleRowKept speaks of the state between runs only.  During one a       *)
(* row may also be behind because its file is the one in hand; a replayed  *)
(* entry whose row is already right must get its journaled name, so what a *)
(* replay has claimed must be what stands on disk; and at startup the      *)
(* records are those still to look at and those kept.                      *)
(***************************************************************************)
Once == /\ Distinct(journal.entries) /\ Distinct(backup.entries)
        /\ run.op = "undo" => Distinct(run.todo)

RowPCs == {"commit", "row", "record"}
MovePCs == {"recover", "reinstate", "setaside", "create", "header", "append", "move", "rollback"}
Ahead ==
    /\ run.op = "apply" /\ pc \in MovePCs =>
          row[Head1.file] = Head1.src /\ loc[Head1.file] = Head1.src
    /\ run.op = "undo" /\ pc = "move" => row[Head1.file] \in {Head1.src, Head1.dst}
    /\ pc \in RowPCs => loc[Head1.file] = Head1.dst /\ row[Head1.file] \in {Head1.src, Head1.dst}

Record(f) == [file |-> f, src |-> row[f], dst |-> loc[f]]
Stale ==
    \A f \in Files : row[f] # loc[f] =>
        In(Record(f), pending) \/ f \in forgotten \/ (pc \in RowPCs /\ f = Head1.file)
Relaunch ==
    pc = "reconcile" =>
        \A f \in Files : row[f] # loc[f] =>
            In(Record(f), run.todo) \/ In(Record(f), run.kept) \/ f \in forgotten

\* A file that is not (or no longer) to be moved stands at p.
Held(l, p, s) == \E g \in Files : l[g] = p /\ g \notin FilesOf(s)
Claims ==
    run.op = "undo" =>
        /\ pc \in {"recover", "reinstate", "scan"} => run.claimed = {}
        /\ pc = "next" => \A p \in run.claimed : Held(loc, p, run.todo)
        /\ pc = "move" => \A p \in run.claimed : p = Head1.dst \/ Held(loc, p, run.todo)
        /\ pc \in {"row", "record"} => \A p \in run.claimed : Held(loc, p, Tail(run.todo))

RowInv == Once /\ Ahead /\ Stale /\ Relaunch /\ Claims
RowKnown == TypeInv /\ JournalInv /\ RowInv

LEMMA RowTypes ==
    ASSUME RowKnown
    PROVE  /\ TypeOK /\ TypeInv /\ JournalInv /\ Once /\ Ahead /\ Stale /\ Relaunch /\ Claims
           /\ journal.entries \in Seq(Move) /\ backup.entries \in Seq(Move)
           /\ run.todo \in Seq(Move) /\ run.kept \in Seq(Move) /\ run \in Run
           /\ handle \in Handle /\ pending \in Seq(Move)
           /\ loc \in [Files -> Paths] /\ row \in [Files -> Paths]
           /\ journal \in Journal /\ backup \in Journal
BY DEF RowKnown, RowInv, TypeInv, TypeOK, Journal, Run

LEMMA DistinctNone == Distinct(<<>>) /\ Distinct(Absent.entries)
BY DEF Distinct, Absent

LEMMA DistinctAppend ==
    ASSUME NEW s \in Seq(Move), NEW e \in Move, Distinct(s), e.file \notin FilesOf(s)
    PROVE  Distinct(Append(s, e))
<1> DEFINE t == Append(s, e)
<1>1. /\ Len(t) = Len(s) + 1 /\ t[Len(s) + 1] = e /\ Len(s) \in Nat
      /\ \A i \in 1..Len(s) : t[i] = s[i]
      /\ DOMAIN t = 1..Len(t) /\ DOMAIN s = 1..Len(s)
  BY AppendFiles
<1>2. 1..Len(t) = 1..Len(s) \cup {Len(s) + 1}
  BY <1>1
<1> HIDE DEF t
<1>3. \A i \in 1..Len(s) : s[i].file # e.file
  BY DEF FilesOf
<1> QED
  BY <1>1, <1>2, <1>3 DEF Distinct

LEMMA DistinctOverwritten ==
    ASSUME TypeOK, Distinct(journal.entries)
    PROVE  Distinct(Overwritten) /\ Overwritten \in Seq(Move)
           /\ FilesOf(Overwritten) \subseteq FilesOf(journal.entries)
<1>1. journal.entries \in Seq(Move)
  BY EntriesType
<1>2. CASE journal.entries = <<>>
  <2>1. Overwritten = <<>>
    BY <1>2 DEF Overwritten
  <2> QED
    BY <2>1 DEF Distinct, FilesOf
<1>3. CASE journal.entries # <<>>
  <2>1. /\ Overwritten \in Seq(Move) /\ Len(Overwritten) = Len(journal.entries) - 1
        /\ \A i \in 1..Len(Overwritten) : Overwritten[i] = journal.entries[i]
        /\ FilesOf(Overwritten) \subseteq FilesOf(journal.entries)
    BY <1>3, OverwrittenLines
  <2>2. /\ DOMAIN Overwritten = 1..Len(Overwritten)
        /\ DOMAIN journal.entries = 1..Len(journal.entries)
        /\ 1..Len(Overwritten) \subseteq 1..Len(journal.entries)
    BY <1>1, <2>1
  <2>3. ASSUME NEW i \in DOMAIN Overwritten, NEW j \in DOMAIN Overwritten,
               Overwritten[i].file = Overwritten[j].file
        PROVE  i = j
    <3>1. journal.entries[i].file = journal.entries[j].file
      BY <2>1, <2>2, <2>3
    <3> QED
      BY <2>2, <3>1 DEF Distinct
  <2> QED
    BY <2>1, <2>3 DEF Distinct
<1> QED
  BY <1>2, <1>3

LEMMA DistinctReverse ==
    ASSUME NEW s \in Seq(Move), Distinct(s)
    PROVE  Distinct(Reverse(s))
<1>1. Reverse(s) \in Seq(Move) /\ Len(Reverse(s)) = Len(s) /\ Len(s) \in Nat
  BY ReverseType
<1>2. DOMAIN s = 1..Len(s) /\ DOMAIN Reverse(s) = 1..Len(s)
  BY <1>1 DEF Reverse
<1>3. \A i \in 1..Len(s) : Reverse(s)[i] = s[Len(s) + 1 - i] /\ Len(s) + 1 - i \in 1..Len(s)
  BY <1>1 DEF Reverse
<1>4. ASSUME NEW i \in 1..Len(s), NEW j \in 1..Len(s), Reverse(s)[i].file = Reverse(s)[j].file
      PROVE  i = j
  <2>1. s[Len(s) + 1 - i].file = s[Len(s) + 1 - j].file
    BY <1>3, <1>4
  <2>2. Len(s) + 1 - i \in DOMAIN s /\ Len(s) + 1 - j \in DOMAIN s
    BY <1>2, <1>3
  <2>3. Len(s) + 1 - i = Len(s) + 1 - j
    BY <2>1, <2>2 DEF Distinct
  <2> QED
    BY <2>3, <1>1
<1> QED
  BY <1>2, <1>4 DEF Distinct

LEMMA InAppend ==
    ASSUME NEW s \in Seq(Move), NEW e \in Move
    PROVE  In(e, Append(s, e)) /\ \A m : In(m, s) => In(m, Append(s, e))
<1>1. /\ Len(Append(s, e)) = Len(s) + 1 /\ Append(s, e)[Len(s) + 1] = e /\ Len(s) \in Nat
      /\ \A i \in 1..Len(s) : Append(s, e)[i] = s[i]
  BY AppendFiles
<1>2. Len(s) + 1 \in 1..Len(Append(s, e)) /\ 1..Len(s) \subseteq 1..Len(Append(s, e))
  BY <1>1
<1> QED
  BY <1>1, <1>2 DEF In

LEMMA InTail ==
    ASSUME NEW s \in Seq(Move), s # <<>>, NEW m, In(m, s), m # Head(s)
    PROVE  In(m, Tail(s))
<1>1. /\ Len(s) \in Nat \ {0} /\ Len(Tail(s)) = Len(s) - 1 /\ Head(s) = s[1]
      /\ \A i \in 1..Len(Tail(s)) : Tail(s)[i] = s[i + 1]
  BY HeadTailProperties, EmptySeq
<1>2. PICK i \in 1..Len(s) : s[i] = m
  BY DEF In
<1>3. i # 1
  BY <1>1, <1>2
<1>4. i - 1 \in 1..Len(Tail(s)) /\ (i - 1) + 1 = i
  BY <1>1, <1>3
<1>5. Tail(s)[i - 1] = m
  BY <1>1, <1>2, <1>4
<1> QED
  BY <1>4, <1>5 DEF In

LEMMA HeldTail ==
    ASSUME NEW s \in Seq(Move), s # <<>>, NEW l, NEW p, Held(l, p, s)
    PROVE  Held(l, p, Tail(s))
BY TailFiles DEF Held

\* The records a startup pass keeps, and the claims each loop step leaves.
LEMMA RunKeeps ==
    ASSUME TypeOK, run.todo # <<>>
    PROVE  /\ Drop.kept = run.kept /\ Drop.claimed = run.claimed
           /\ Fail.claimed = run.claimed
           /\ Keep.kept = Append(run.kept, Head1) /\ Keep.todo = Tail(run.todo)
           /\ Released.claimed = run.claimed \ {Head1.dst}
           /\ \A p \in Paths : Reserved(p).claimed = run.claimed \cup {p}
<1>1. run \in Run
  BY DEF TypeOK
<1>2. /\ Drop \in Run /\ Drop.claimed = run.claimed /\ Drop.kept = run.kept
      /\ Drop.todo = Tail(run.todo)
  BY <1>1, RunSteps DEF Drop, Run
<1>3. Fail \in Run /\ Fail.claimed = run.claimed
  BY <1>2, RunSteps DEF Fail, Run
<1>4. Released.claimed = run.claimed \ {Head1.dst}
  BY <1>3 DEF Released, Run
<1>5. ASSUME NEW p \in Paths PROVE Reserved(p).claimed = run.claimed \cup {p}
  <2> DEFINE t == <<[Head1 EXCEPT !.dst = p]>> \o Tail(run.todo)
  <2>1. Claimed(p) \in Run /\ Claimed(p).claimed = run.claimed \cup {p} /\ Claimed(p).todo = run.todo
    BY <1>1 DEF Claimed, Run
  <2>2. Reserved(p) = [Claimed(p) EXCEPT !.todo = t]
    BY <2>1 DEF Reserved
  <2> HIDE DEF t
  <2> QED
    BY <2>1, <2>2 DEF Run
<1>6. Keep.kept = Append(run.kept, Head1) /\ Keep.todo = Tail(run.todo)
  <2> DEFINE k == Append(Drop.kept, Head1)
  <2>1. Keep = [Drop EXCEPT !.kept = k]
    BY <1>2 DEF Keep, Run
  <2> HIDE DEF k
  <2>2. Keep.kept = k /\ Keep.todo = Drop.todo
    BY <1>2, <2>1 DEF Run
  <2> QED
    BY <1>2, <2>2 DEF k
<1> QED
  BY <1>2, <1>3, <1>4, <1>5, <1>6

\* Steps with no row behind in hand leave what the rows need alone.
LEMMA RowsRest ==
    ASSUME Stale, UNCHANGED <<loc, row, pending, forgotten>>, pc \notin RowPCs,
           pc' # "reconcile"
    PROVE  Stale' /\ Relaunch'
BY DEF Stale, Relaunch, Record

LEMMA EndsRows ==
    ASSUME Stale, EndRun, UNCHANGED <<loc, row, pending, forgotten>>, pc \notin RowPCs,
           Distinct(journal'.entries), Distinct(backup'.entries)
    PROVE  RowInv'
<1>1. pc' = "idle" /\ run'.op = "none"
  BY DEF EndRun, NoRun, NewRun
<1>2. Stale' /\ Relaunch'
  BY <1>1, RowsRest
<1>3. Once' /\ Ahead' /\ Claims'
  BY <1>1 DEF Once, Ahead, Claims, RowPCs
<1> QED
  BY <1>2, <1>3 DEF RowInv

LEMMA InitRows == Init => RowInv
<1> SUFFICES ASSUME Init PROVE RowInv
  OBVIOUS
<1>1. journal.entries = <<>> /\ backup.entries = <<>> /\ run.op = "none" /\ pc = "idle"
      /\ row = loc
  BY DEF Init, Absent, NoRun, NewRun
<1> QED
  BY <1>1, DistinctNone DEF RowInv, Once, Ahead, Stale, Relaunch, Claims, RowPCs

LEMMA RequestRows ==
    ASSUME RowKnown, RequestStep
    PROVE  RowInv'
<1>1. /\ pc = "idle" /\ UNCHANGED <<loc, row, pending, forgotten, journal, backup>>
      /\ \/ pc' = "next" /\ run'.op = "apply"
         \/ pc' = "recover" /\ run'.op = "undo" /\ run'.todo = <<>> /\ run'.claimed = {}
  BY DEF RequestStep, StartApply, StartUndo, NewRun
<1>2. Stale' /\ Relaunch'
  BY <1>1, RowTypes, RowsRest DEF RowPCs
<1>3. Once' /\ Ahead' /\ Claims'
  BY <1>1, RowTypes, DistinctNone DEF Once, Ahead, Claims, RowPCs, MovePCs
<1> QED
  BY <1>2, <1>3 DEF RowInv

LEMMA LoopApplyRows ==
    ASSUME RowKnown, pc = "next", NextUnchanged, run.op = "apply", run'.op = "apply",
           pc' \in {"next", "append", "recover", "finish"},
           pc' \in {"append", "recover"} =>
              LET h == Head(run'.todo) IN row[h.file] = h.src /\ loc[h.file] = h.src
    PROVE  RowInv'
<1>1. UNCHANGED <<loc, row, pending, forgotten, journal, backup>>
  BY DEF NextUnchanged
<1>2. Stale' /\ Relaunch'
  BY <1>1, RowTypes, RowsRest DEF RowPCs
<1>3. Ahead'
  BY <1>1 DEF Ahead, RowPCs, MovePCs, Head1
<1>4. Once' /\ Claims'
  BY <1>1, RowTypes DEF Once, Claims
<1> QED
  BY <1>2, <1>3, <1>4 DEF RowInv

LEMMA LoopUndoRows ==
    ASSUME RowKnown, pc = "next", NextUnchanged, run.op = "undo", run'.op = "undo",
           Distinct(run'.todo),
           \/ pc' = "next" /\ \A p \in run'.claimed : Held(loc, p, run'.todo)
           \/ pc' = "row" /\ run' = run /\ run.todo # <<>>
              /\ loc[Head1.file] = Head1.dst /\ row[Head1.file] = Head1.src
           \/ pc' = "move" /\ row[Head(run'.todo).file] \in {Head(run'.todo).src, Head(run'.todo).dst}
              /\ \A p \in run'.claimed : p = Head(run'.todo).dst \/ Held(loc, p, run'.todo)
           \/ pc' = "finish"
    PROVE  RowInv'
<1>1. UNCHANGED <<loc, row, pending, forgotten, journal, backup>>
  BY DEF NextUnchanged
<1>2. Stale' /\ Relaunch'
  BY <1>1, RowTypes, RowsRest DEF RowPCs
<1>3. Once'
  BY <1>1, RowTypes DEF Once
<1>4. Ahead'
  BY <1>1 DEF Ahead, RowPCs, Head1
<1>5. Claims'
  <2>1. CASE pc' \in {"next", "move", "finish"}
    BY <1>1, <2>1 DEF Claims, Held, Head1
  <2>2. CASE pc' = "row"
    <3>1. \A p \in run.claimed : Held(loc, p, run.todo)
      BY RowTypes DEF Claims
    <3>2. \A p \in run.claimed : Held(loc, p, Tail(run.todo))
      BY <3>1, <2>2, RowTypes, HeldTail
    <3> QED
      BY <1>1, <2>2, <3>2 DEF Claims, Held
  <2> QED
    BY <2>1, <2>2
<1> QED
  BY <1>2, <1>3, <1>4, <1>5 DEF RowInv

LEMMA LoopRows ==
    ASSUME RowKnown, LoopStep
    PROVE  RowInv'
<1>0. TypeOK /\ run \in Run /\ run.todo \in Seq(Move)
  BY RowTypes
<1>1. CASE LoopEnds \/ Cancel \/ StreamFails
  <2>1. /\ run'.op = run.op /\ run'.todo = run.todo /\ pc = "next"
        /\ NextUnchanged /\ pc' = "finish" /\ run.op \in {"apply", "undo"}
    BY <1>0, <1>1 DEF LoopEnds, Cancel, StreamFails, Run
  <2>2. run.op = "undo" => Distinct(run.todo)
    BY RowTypes DEF Once
  <2> QED
    BY <2>1, <2>2, LoopApplyRows, LoopUndoRows
<1>2. CASE ApplyReject
  <2>1. /\ pc = "next" /\ run.op = "apply" /\ run.todo # <<>> /\ run' = Fail /\ pc' = "next"
        /\ NextUnchanged
    BY <1>2 DEF ApplyReject, AtMove
  <2>2. run'.op = "apply"
    BY <1>0, <2>1, RunFields
  <2> QED
    BY <2>1, <2>2, LoopApplyRows
<1>3. CASE ApplyReserve
  <2>1. /\ pc = "next" /\ run.op = "apply" /\ run.todo # <<>> /\ Current(Head1)
        /\ pc' \in {"append", "recover"} /\ NextUnchanged
    BY <1>3 DEF ApplyReserve, AtMove
  <2>2. PICK p \in Paths : run' = Reserved(p)
    BY <1>3 DEF ApplyReserve, Candidates
  <2> DEFINE h == [Head1 EXCEPT !.dst = p]
  <2>3. run'.op = "apply" /\ run'.todo = <<h>> \o Tail(run.todo)
    BY <1>0, <2>1, <2>2, RunFields
  <2>4. h \in Move /\ h.file = Head1.file /\ h.src = Head1.src
    BY <1>0, <2>1, HeadOfTodo DEF Move
  <2> HIDE DEF h
  <2>5. Head(run'.todo) = h
    BY <1>0, <2>1, <2>3, <2>4, RenamedFiles DEF Head1
  <2>6. row[h.file] = h.src /\ loc[h.file] = h.src
    BY <2>1, <2>4 DEF Current
  <2> QED
    BY <2>1, <2>3, <2>5, <2>6, LoopApplyRows
<1>4. CASE UndoRelabel \/ UndoKeep \/ UndoReject \/ UndoReserve
  <2>1. /\ pc = "next" /\ run.op = "undo" /\ run.todo # <<>> /\ NextUnchanged
        /\ Distinct(run.todo) /\ \A p \in run.claimed : Held(loc, p, run.todo)
    BY <1>4, RowTypes DEF UndoRelabel, UndoKeep, UndoReject, UndoReserve, AtMove, Once, Claims
  <2>2. CASE UndoRelabel
    <3>1. run' = run /\ pc' = "row" /\ loc[Head1.file] = Head1.dst /\ row[Head1.file] = Head1.src
      BY <2>2 DEF UndoRelabel, UndoRowOnly
    <3> QED
      BY <2>1, <3>1, LoopUndoRows
  <2>3. CASE UndoKeep \/ UndoReject
    <3>1. run' \in {Drop, Fail} /\ pc' = "next"
      BY <2>1, <2>3 DEF UndoKeep, UndoReject
    <3>2. run'.op = "undo" /\ run'.todo = Tail(run.todo) /\ run'.claimed = run.claimed
      BY <1>0, <2>1, <3>1, RunFields, RunKeeps
    <3>3. Distinct(Tail(run.todo)) /\ \A p \in run.claimed : Held(loc, p, Tail(run.todo))
      BY <1>0, <2>1, TailFiles, HeldTail
    <3> QED
      BY <2>1, <3>1, <3>2, <3>3, LoopUndoRows
  <2>4. CASE UndoReserve
    <3>1. UndoMovable(Head1) /\ pc' = "move"
      BY <2>4 DEF UndoReserve
    <3>2. PICK p \in Candidates(Head1.dst) : run' = Reserved(p)
      BY <2>4 DEF UndoReserve
    <3>3. p \in Paths /\ ~Taken(p) /\ (p = Head1.dst \/ Taken(Head1.dst))
      BY <3>2 DEF Candidates
    <3> DEFINE h == [Head1 EXCEPT !.dst = p]
    <3>4. /\ run'.op = "undo" /\ run'.claimed = run.claimed \cup {p}
          /\ run'.todo = <<h>> \o Tail(run.todo)
      BY <1>0, <2>1, <3>2, <3>3, RunFields, RunKeeps
    <3>5. h \in Move /\ h.file = Head1.file /\ h.src = Head1.src /\ h.dst = p
      BY <1>0, <2>1, <3>3, HeadOfTodo DEF Move
    <3> HIDE DEF h
    <3>6. /\ Head(run'.todo) = h /\ Distinct(run'.todo)
          /\ FilesOf(run'.todo) \subseteq FilesOf(run.todo)
      BY <1>0, <2>1, <3>4, <3>5, RenamedFiles DEF Head1
    <3>7. row[h.file] \in {h.src, h.dst}
      <4>1. CASE row[Head1.file] = Head1.src
        BY <4>1, <3>5
      <4>2. CASE row[Head1.file] = Head1.dst /\ ~OnDisk(Head1.dst)
        <5>1. Head1.dst \notin run.claimed
          BY <2>1, <4>2 DEF Held, OnDisk
        <5>2. p = Head1.dst
          BY <3>3, <4>2, <5>1 DEF Taken
        <5> QED
          BY <3>5, <4>2, <5>2
      <4> QED
        BY <3>1, <4>1, <4>2 DEF UndoMovable
    <3>8. \A q \in run'.claimed : q = h.dst \/ Held(loc, q, run'.todo)
      BY <2>1, <3>4, <3>5, <3>6 DEF Held
    <3> QED
      BY <2>1, <3>1, <3>4, <3>6, <3>7, <3>8, LoopUndoRows
  <2> QED
    BY <1>4, <2>2, <2>3, <2>4
<1> QED
  BY <1>1, <1>2, <1>3, <1>4 DEF LoopStep

\* The steps that open and replace journals keep the move in hand.
LEMMA ReplacesRows ==
    ASSUME RowKnown, UNCHANGED <<loc, row, pending, forgotten>>, run'.op = run.op,
           run'.todo = run.todo, run'.claimed = run.claimed,
           pc \in MovePCs \cup {"finish", "discard"},
           pc' \in MovePCs \cup {"scan", "finish", "discard", "putback"},
           pc' \in MovePCs => pc \in MovePCs /\ (pc' = "move" => pc = "move" \/ run.op = "apply"),
           run.op = "undo" => \/ pc' \in {"finish", "discard", "putback"}
                              \/ /\ pc \in {"recover", "reinstate"}
                                 /\ pc' \in {"recover", "reinstate", "scan"},
           Distinct(journal'.entries), Distinct(backup'.entries)
    PROVE  RowInv'
<1>1. Stale' /\ Relaunch'
  BY RowTypes, RowsRest DEF RowPCs, MovePCs
<1>2. Once'
  BY RowTypes DEF Once
<1>3. Ahead'
  BY RowTypes DEF Ahead, MovePCs, RowPCs, Head1
<1>4. Claims'
  BY RowTypes DEF Claims, MovePCs
<1> QED
  BY <1>1, <1>2, <1>3, <1>4 DEF RowInv

LEMMA RecoverRows ==
    ASSUME RowKnown, RecoverStep
    PROVE  RowInv'
<1>1. /\ pc \in {"recover", "reinstate"} /\ UNCHANGED <<loc, row, pending, forgotten>>
      /\ journal' \in {journal, backup, Absent} /\ backup' \in {backup, Absent}
  BY DEF RecoverStep, RecoverRefuse, RecoverNothing, RecoverCommitted, RecoverUncommitted,
     Reinstate, RecoverUnchanged
<1>2. Distinct(journal'.entries) /\ Distinct(backup'.entries)
  BY <1>1, RowTypes, DistinctNone DEF Once
<1>3. CASE EndRun
  BY <1>1, <1>2, <1>3, RowTypes, EndsRows DEF RowPCs
<1>4. CASE ~EndRun
  <2>1. run' = run /\ (pc' = "reinstate" \/ Recovered)
    BY <1>4 DEF RecoverStep, RecoverRefuse, RecoverNothing, RecoverCommitted,
       RecoverUncommitted, Reinstate
  <2>2. run.op \in {"apply", "undo"}
    BY <1>1, RowTypes DEF TypeInv, InHand
  <2>3. /\ pc' \in {"reinstate", "setaside", "scan"}
        /\ run.op = "undo" => pc' \in {"reinstate", "scan"}
    BY <2>1, <2>2 DEF Recovered
  <2> QED
    BY <1>1, <1>2, <2>1, <2>3, ReplacesRows DEF MovePCs
<1> QED
  BY <1>3, <1>4

\* The line of the move in hand names a file no earlier line names.
LEMMA NewLine ==
    ASSUME RowKnown, pc = "append", NEW kept \in Seq(Move), Distinct(kept),
           FilesOf(kept) \subseteq FilesOf(journal.entries)
    PROVE  Distinct(Append(kept, InverseMove(Head1)))
<1>1. /\ TypeOK /\ handle.open /\ run.todo # <<>> /\ run.todo \in Seq(Move)
      /\ InverseMove(Head1) \in Move /\ Head1 = Head(run.todo)
      /\ FilesOf(journal.entries) \cap FilesOf(run.todo) = {}
  BY RowTypes, EntriesType
     DEF TypeInv, InHand, ApplyOnly, JournalInv, HandleInv, OnceEach, ToJournal, Closing, Head1
<1>2. InverseMove(Head1).file \notin FilesOf(kept)
  BY <1>1, TailFiles DEF InverseMove
<1> QED
  BY <1>1, <1>2, DistinctAppend

LEMMA JournalStepRows ==
    ASSUME RowKnown, JournalStep
    PROVE  RowInv'
<1>0. /\ TypeOK /\ Distinct(journal.entries) /\ Distinct(backup.entries)
      /\ run.op = "apply" /\ run.todo # <<>> /\ pc \in ApplyOnly
      /\ UNCHANGED <<loc, row, pending, forgotten>>
  <2>1. pc \in ApplyOnly /\ UNCHANGED <<loc, row, pending, forgotten>>
    BY DEF JournalStep, SetAside, CreateJournal, WriteHeader, AppendAhead, AppendFails,
       Rollback, Commit, FilesUnchanged, ApplyOnly
  <2> QED
    BY <2>1, RowTypes DEF Once, TypeInv, InHand
<1>1. CASE SetAside
  <2>1. CASE EndRun /\ UNCHANGED <<journal, backup>>
    BY <1>0, <1>1, <2>1, RowTypes, EndsRows DEF SetAside, RowPCs
  <2>2. CASE ~(EndRun /\ UNCHANGED <<journal, backup>>)
    <3>1. /\ pc = "setaside" /\ pc' = "create" /\ run' = run
          /\ journal' \in {journal, Absent} /\ backup' \in {journal, backup}
      BY <1>1, <2>2 DEF SetAside
    <3> QED
      BY <1>0, <3>1, DistinctNone, ReplacesRows DEF MovePCs
  <2> QED
    BY <2>1, <2>2
<1>2. CASE CreateJournal
  <2>1. /\ pc = "create" /\ pc' \in {"header", "discard"} /\ run' = run /\ backup' = backup
        /\ journal' = journal \/ journal'.entries = <<>>
    BY <1>2 DEF CreateJournal, Absent
  <2> QED
    BY <1>0, <2>1, DistinctNone, ReplacesRows DEF MovePCs
<1>3. CASE WriteHeader
  <2>1. /\ pc = "header" /\ pc' \in {"append", "discard"} /\ run' = run /\ backup' = backup
        /\ journal'.entries = journal.entries
    BY <1>3, RowTypes DEF WriteHeader, Journal
  <2> QED
    BY <1>0, <2>1, ReplacesRows DEF MovePCs
<1>4. CASE AppendAhead
  <2> DEFINE e == InverseMove(Head1)
             es == Append(journal.entries, e)
  <2>1. pc = "append" /\ pc' = "move" /\ run' = run /\ backup' = backup
    BY <1>4 DEF AppendAhead
  <2>2. \/ journal'.entries = Append(Overwritten, e)
        \/ journal' = [journal EXCEPT !.entries = es]
    BY <1>4 DEF AppendAhead
  <2> HIDE DEF e, es
  <2>3. \/ journal'.entries = Append(Overwritten, e)
        \/ journal'.entries = es
    BY <2>2, RowTypes DEF Journal
  <2>4. Distinct(journal'.entries)
    BY <1>0, <2>1, <2>3, RowTypes, NewLine, DistinctOverwritten DEF e, es
  <2> QED
    BY <1>0, <2>1, <2>4, ReplacesRows DEF MovePCs
<1>5. CASE AppendFails
  <2> DEFINE es == Append(journal.entries, InverseMove(Head1))
  <2>1. pc = "append" /\ pc' = "finish" /\ run' = [run EXCEPT !.failed = TRUE] /\ backup' = backup
    BY <1>5 DEF AppendFails
  <2>2. run'.op = run.op /\ run'.todo = run.todo /\ run'.claimed = run.claimed
    BY <2>1, RowTypes DEF Run
  <2>3. \/ journal' = journal \/ journal' = [journal EXCEPT !.root = None]
        \/ journal' = [journal EXCEPT !.entries = es]
    BY <1>5 DEF AppendFails
  <2> HIDE DEF es
  <2>4. journal'.entries = journal.entries \/ journal'.entries = es
    BY <2>3, RowTypes DEF Journal
  <2>5. Distinct(journal'.entries)
    BY <1>0, <2>1, <2>4, RowTypes, NewLine DEF es
  <2> QED
    BY <1>0, <2>1, <2>2, <2>5, ReplacesRows DEF MovePCs
<1>6. CASE Rollback
  <2>1. pc = "rollback" /\ pc' = "next" /\ run' = Released /\ backup' = backup
    BY <1>6 DEF Rollback
  <2>2. run'.op = "apply"
    BY <1>0, <2>1, RunFields
  <2>3. journal' = journal \/ journal' = [journal EXCEPT !.entries = Overwritten]
    BY <1>6 DEF Rollback
  <2>4. Distinct(journal'.entries)
    <3> DEFINE o == Overwritten
    <3>1. Distinct(o) /\ (journal' = journal \/ journal' = [journal EXCEPT !.entries = o])
      BY <1>0, <2>3, DistinctOverwritten
    <3> HIDE DEF o
    <3> QED
      BY <1>0, <3>1, RowTypes DEF Journal
  <2>5. Once'
    BY <1>0, <2>1, <2>2, <2>4 DEF Once
  <2>6. Stale' /\ Relaunch'
    BY <1>0, <2>1, RowTypes, RowsRest DEF RowPCs
  <2>7. Ahead' /\ Claims'
    BY <2>1, <2>2 DEF Ahead, MovePCs, RowPCs, Claims
  <2> QED
    BY <2>5, <2>6, <2>7 DEF RowInv
<1>7. CASE Commit
  <2>1. pc = "commit" /\ pc' = "row" /\ run' = run /\ journal' = journal /\ backup' \in {backup, Absent}
    BY <1>7 DEF Commit
  <2>2. Once' /\ Claims'
    BY <1>0, <2>1, RowTypes, DistinctNone DEF Once, Claims
  <2>3. Ahead'
    BY <1>0, <2>1, RowTypes DEF Ahead, MovePCs, RowPCs, Head1
  <2>4. Stale' /\ Relaunch'
    BY <1>0, <2>1, RowTypes DEF Stale, Relaunch, Record, RowPCs, Head1
  <2> QED
    BY <2>2, <2>3, <2>4 DEF RowInv
<1> QED
  BY <1>1, <1>2, <1>3, <1>4, <1>5, <1>6, <1>7 DEF JournalStep

LEMMA FileRows ==
    ASSUME RowKnown, FileStep
    PROVE  RowInv'
<1>0. /\ pc = "move" /\ run.op \in {"apply", "undo"} /\ run.todo # <<>> /\ TypeOK
      /\ UNCHANGED <<row, pending, forgotten, journal, backup>>
  BY RowTypes DEF FileStep, MoveFile, MoveFails, FilesUnchanged, TypeInv, InHand
<1>1. CASE MoveFile
  <2>1. /\ pc' \in RowPCs /\ pc' = (IF run.op = "apply" THEN "commit" ELSE "row")
        /\ loc' = [loc EXCEPT ![Head1.file] = Head1.dst] /\ run' = run
    BY <1>1 DEF MoveFile, RowPCs
  <2>2. Head1 \in Move /\ Head1.file \in Files
    BY <1>0, HeadOfTodo
  <2>3. /\ loc'[Head1.file] = Head1.dst
        /\ \A g \in Files : g # Head1.file => loc'[g] = loc[g]
    BY <2>1, <2>2, RowTypes
  <2>4. Once'
    BY <1>0, <2>1, RowTypes DEF Once
  <2>5. Ahead'
    <3>1. row[Head1.file] \in {Head1.src, Head1.dst}
      BY <1>0, RowTypes DEF Ahead, MovePCs
    <3> QED
      BY <1>0, <2>1, <2>3, <3>1 DEF Ahead, RowPCs, MovePCs, Head1
  <2>6. Stale'
    <3> SUFFICES ASSUME NEW f \in Files, row[f] # loc'[f], f # Head1.file
                 PROVE  In(Record(f)', pending) \/ f \in forgotten
      BY <1>0, <2>1 DEF Stale, In, Head1
    <3>1. loc'[f] = loc[f] /\ Record(f)' = Record(f)
      BY <1>0, <2>3 DEF Record
    <3> QED
      BY <1>0, <3>1, RowTypes DEF Stale, RowPCs
  <2>7. Relaunch'
    BY <2>1 DEF Relaunch, RowPCs
  <2>8. Claims'
    <3> SUFFICES ASSUME run.op = "undo", NEW p \in run.claimed
                 PROVE  Held(loc', p, Tail(run.todo))
      BY <2>1 DEF Claims, Held, RowPCs
    <3>1. Distinct(run.todo) /\ (p = Head1.dst \/ Held(loc, p, run.todo))
      BY <1>0, RowTypes DEF Once, Claims
    <3>2. /\ FilesOf(Tail(run.todo)) \subseteq FilesOf(run.todo)
          /\ Head1.file \in FilesOf(run.todo) /\ Head1.file \notin FilesOf(Tail(run.todo))
      BY <1>0, <3>1, RowTypes, TailFiles DEF Head1
    <3> QED
      BY <2>2, <2>3, <3>1, <3>2 DEF Held
  <2> QED
    BY <2>4, <2>5, <2>6, <2>7, <2>8 DEF RowInv
<1>2. CASE MoveFails
  <2>1. /\ loc' = loc
        /\ \/ run.op = "apply" /\ pc' = "rollback" /\ run' = run
           \/ run.op = "undo" /\ pc' = "next" /\ run' = Released
    BY <1>0, <1>2 DEF MoveFails, FilesUnchanged
  <2>2. CASE run.op = "apply"
    <3>1. pc' = "rollback" /\ run' = run
      BY <2>1, <2>2
    <3>2. Distinct(journal.entries) /\ Distinct(backup.entries)
      BY RowTypes DEF Once
    <3> QED
      BY <1>0, <2>1, <2>2, <3>1, <3>2, ReplacesRows DEF MovePCs
  <2>3. CASE run.op = "undo"
    <3>1. /\ pc' = "next" /\ run'.op = "undo" /\ run'.todo = Tail(run.todo)
          /\ run'.claimed = run.claimed \ {Head1.dst}
      BY <1>0, <2>1, <2>3, RunFields, RunKeeps
    <3>2. Once'
      BY <1>0, <2>3, <3>1, RowTypes, TailFiles DEF Once
    <3>3. Stale' /\ Relaunch'
      BY <1>0, <2>1, <3>1, RowTypes, RowsRest DEF RowPCs
    <3>4. Ahead'
      BY <3>1 DEF Ahead, MovePCs, RowPCs
    <3>5. Claims'
      <4>1. \A p \in run'.claimed : Held(loc, p, run.todo)
        BY <1>0, <2>3, <3>1, RowTypes DEF Claims
      <4>2. \A p \in run'.claimed : Held(loc, p, Tail(run.todo))
        BY <1>0, <4>1, RowTypes, HeldTail
      <4> QED
        BY <2>1, <3>1, <4>2 DEF Claims, Held
    <3> QED
      BY <3>2, <3>3, <3>4, <3>5 DEF RowInv
  <2> QED
    BY <1>0, <2>2, <2>3
<1> QED
  BY <1>1, <1>2 DEF FileStep

\* A row step that is over leaves the replay where its head was.
LEMMA RowOver ==
    ASSUME RowKnown, pc \in {"row", "record"}, pc' = "next", run' = Drop,
           UNCHANGED <<loc, journal, backup>>
    PROVE  Once' /\ Ahead' /\ Relaunch' /\ Claims'
<1>1. run.todo # <<>> /\ TypeOK
  BY RowTypes DEF TypeInv, InHand
<1>2. run'.op = run.op /\ run'.todo = Tail(run.todo) /\ run'.claimed = run.claimed
  BY <1>1, RunFields, RunKeeps
<1>3. Once'
  BY <1>1, <1>2, RowTypes, TailFiles DEF Once
<1>4. Claims'
  BY <1>2, RowTypes DEF Claims, Held
<1> QED
  BY <1>3, <1>4 DEF Ahead, Relaunch, MovePCs, RowPCs

LEMMA RowRows ==
    ASSUME RowKnown, RowStep
    PROVE  RowInv'
<1>0. /\ pc \in {"row", "record"} /\ UNCHANGED <<loc, journal, backup, handle>>
      /\ run.todo # <<>> /\ TypeOK
  BY RowTypes DEF RowStep, UpdateRow, UpdateRowFails, RecordFailure, RowUnchanged, TypeInv, InHand
<1>1. /\ Head1 \in Move /\ Head1.file \in Files
      /\ Head1 = [file |-> Head1.file, src |-> Head1.src, dst |-> Head1.dst]
  BY <1>0, HeadOfTodo DEF Move
<1>2. loc[Head1.file] = Head1.dst /\ row[Head1.file] \in {Head1.src, Head1.dst}
  BY <1>0, RowTypes DEF Ahead, RowPCs
<1>3. \A f \in Files : row[f] # loc[f] => In(Record(f), pending) \/ f \in forgotten \/ f = Head1.file
  BY RowTypes DEF Stale
<1>4. CASE UpdateRow
  <2>1. row' = [row EXCEPT ![Head1.file] = Head1.dst] /\ run' = Drop /\ pc' = "next" /\ pending' = pending
        /\ forgotten' = forgotten \ {Head1.file}
    BY <1>4 DEF UpdateRow
  <2>2. row'[Head1.file] = Head1.dst /\ \A g \in Files : g # Head1.file => row'[g] = row[g]
    BY <1>1, <2>1, RowTypes
  <2>3. Stale'
    <3> SUFFICES ASSUME NEW f \in Files, row'[f] # loc[f]
                 PROVE  In(Record(f)', pending) \/ f \in forgotten'
      BY <1>0, <2>1 DEF Stale, In
    <3>1. f # Head1.file
      BY <1>2, <2>2
    <3>2. row'[f] = row[f] /\ Record(f)' = Record(f)
      BY <1>0, <2>2, <3>1 DEF Record
    <3> QED
      BY <1>3, <2>1, <3>1, <3>2
  <2> QED
    BY <1>0, <2>1, <2>3, RowOver DEF RowInv
<1>5. CASE UpdateRowFails
  <2>1. pc = "row" /\ pc' = "record" /\ UNCHANGED <<row, pending, forgotten, run>>
    BY <1>5 DEF UpdateRowFails
  <2>2. Once' /\ Ahead' /\ Claims'
    BY <1>0, <1>2, <2>1, RowTypes DEF Once, Ahead, Claims, Held, MovePCs, Head1
  <2>3. Stale' /\ Relaunch'
    BY <1>0, <1>3, <2>1 DEF Stale, Relaunch, Record, In, RowPCs, Head1
  <2> QED
    BY <2>2, <2>3 DEF RowInv
<1>6. CASE RecordFailure
  <2>1. row' = row /\ run' = Drop /\ pc' = "next" /\ (Recorded \/ RecordCut)
    BY <1>6 DEF RecordFailure
  <2>2. /\ In(Head1, pending') \/ Head1.file \in forgotten'
        /\ \A m : In(m, pending) => In(m, pending') \/ m.file \in forgotten'
        /\ \A f \in forgotten : f \in forgotten' \/ f = Head1.file
    <3>1. /\ In(Head1, Append(pending, Head1))
          /\ \A m : In(m, pending) => In(m, Append(pending, Head1))
      BY <1>1, RowTypes, InAppend
    <3>2. \A m : In(m, pending) => In(m, Joined) \/ m.file \in JoinedFiles
      BY <1>0, JoinedType
    <3>3. CASE Recorded
      BY <3>1, <3>2, <3>3 DEF Recorded
    <3>4. CASE RecordCut
      BY <3>1, <3>2, <3>4 DEF RecordCut
    <3> QED
      BY <2>1, <3>3, <3>4
  <2>3. Stale'
    <3> SUFFICES ASSUME NEW f \in Files, row[f] # loc[f]
                 PROVE  In(Record(f), pending') \/ f \in forgotten'
      BY <1>0, <2>1 DEF Stale, Record, In
    <3>1. CASE f = Head1.file
      <4>1. Record(f) = Head1
        BY <1>1, <1>2, <3>1 DEF Record
      <4> QED
        BY <4>1, <2>2, <3>1
    <3>2. CASE f # Head1.file
      <4>1. Record(f).file = f
        BY DEF Record
      <4> QED
        BY <1>3, <2>2, <3>2, <4>1
    <3> QED
      BY <3>1, <3>2
  <2> QED
    BY <1>0, <2>1, <2>3, RowOver DEF RowInv
<1> QED
  BY <1>4, <1>5, <1>6 DEF RowStep

LEMMA EndRows ==
    ASSUME RowKnown, EndStep
    PROVE  RowInv'
<1>0. /\ UNCHANGED <<loc, row, pending, forgotten>> /\ pc \in {"finish", "discard", "putback", "scan"}
      /\ Distinct(journal.entries) /\ Distinct(backup.entries)
  BY RowTypes DEF EndStep, ApplyEnds, ApplyEndsUnmoved, Discard, PutBack, UndoEnds, ScanJournal,
     ScanStops, FilesUnchanged, Once
<1>1. CASE ApplyEnds \/ PutBack \/ UndoEnds \/ ScanStops
  <2>1. /\ EndRun /\ journal' \in {journal, backup, Absent} /\ backup' \in {backup, Absent}
    BY <1>1 DEF ApplyEnds, PutBack, UndoEnds, ScanStops
  <2> QED
    BY <1>0, <2>1, RowTypes, DistinctNone, EndsRows DEF RowPCs
<1>2. CASE ApplyEndsUnmoved \/ Discard
  <2>1. /\ pc \in {"finish", "discard"} /\ pc' \in {"discard", "putback"} /\ run' = run
        /\ journal' \in {journal, Absent} /\ backup' = backup
    BY <1>2 DEF ApplyEndsUnmoved, Discard
  <2> QED
    BY <1>0, <2>1, DistinctNone, ReplacesRows DEF MovePCs
<1>3. CASE ScanJournal
  <2>1. /\ pc = "scan" /\ pc' = "next" /\ UNCHANGED <<journal, backup>> /\ run.op = "undo"
        /\ run.claimed = {}
    BY <1>3, RowTypes DEF ScanJournal, TypeInv, InHand, Claims
  <2>2. run'.op = "undo" /\ run'.todo = Reverse(journal.entries) /\ run'.claimed = {}
    BY <1>3, <2>1, RowTypes DEF ScanJournal, Run
  <2>3. Once'
    BY <1>0, <2>1, <2>2, RowTypes, DistinctReverse DEF Once
  <2>4. Stale' /\ Relaunch'
    BY <1>0, <2>1, RowTypes, RowsRest DEF RowPCs
  <2>5. Ahead' /\ Claims'
    BY <2>1, <2>2 DEF Ahead, Claims, MovePCs, RowPCs
  <2> QED
    BY <2>3, <2>4, <2>5 DEF RowInv
<1> QED
  BY <1>1, <1>2, <1>3 DEF EndStep

\* A launch: the records of the file are all to be looked at, and the file a
\* kill left in hand is forgotten.
LEMMA RestartRows ==
    ASSUME RowKnown, Restart
    PROVE  RowInv'
<1>0. /\ UNCHANGED <<loc, row, journal, backup, pending>>
      /\ Distinct(journal.entries) /\ Distinct(backup.entries)
  BY RowTypes DEF Restart, Once
<1>1. \/ pc' = "reconcile" /\ run'.op = "startup" /\ run'.todo = pending
      \/ pc' = "idle" /\ run'.op = "none"
  BY DEF Restart, NewRun, NoRun
<1>2. /\ forgotten \subseteq forgotten'
      /\ pc \in RowPCs => Head1.file \in forgotten'
  BY DEF Restart, RowPCs
<1>3. Stale'
  <2>1. \A f \in Files : row[f] # loc[f] => In(Record(f), pending) \/ f \in forgotten'
    BY <1>2, RowTypes DEF Stale
  <2> QED
    BY <1>0, <2>1 DEF Stale, Record, In
<1>4. Relaunch'
  <2>1. ASSUME pc' = "reconcile" PROVE run'.todo = pending
    BY <1>1, <2>1
  <2> QED
    BY <1>0, <1>3, <1>1, <2>1 DEF Stale, Relaunch, Record, In, RowPCs
<1>5. Once' /\ Ahead' /\ Claims'
  BY <1>0, <1>1 DEF Once, Ahead, Claims, MovePCs, RowPCs
<1> QED
  BY <1>3, <1>4, <1>5 DEF RowInv

\* One record: applied, kept, needless, or not to be proven.
LEMMA ReconcileRows ==
    ASSUME RowKnown, ReconcileOne
    PROVE  RowInv'
<1>0. /\ UNCHANGED <<loc, journal, backup, pending>>
      /\ Distinct(journal.entries) /\ Distinct(backup.entries)
      /\ pc = "reconcile" /\ pc' = "reconcile" /\ run.op = "startup" /\ run.todo # <<>>
      /\ run' \in {Drop, Keep} /\ TypeOK
  BY RowTypes DEF ReconcileOne, Once, JournalInv, HandleInv
<1>1. /\ run'.op = "startup" /\ run'.todo = Tail(run.todo)
      /\ run' = Drop => run'.kept = run.kept
      /\ run' = Keep => run'.kept = Append(run.kept, Head1)
  BY <1>0, RunFields, RunKeeps
<1>2. /\ Head1 \in Move /\ Head1.file \in Files /\ Head1 = Head(run.todo)
      /\ Head1 = [file |-> Head1.file, src |-> Head1.src, dst |-> Head1.dst]
  BY <1>0, HeadOfTodo DEF Move, Head1
<1>3. /\ In(Head1, Append(run.kept, Head1))
      /\ \A m : In(m, run.kept) => In(m, Append(run.kept, Head1))
  BY <1>2, RowTypes, InAppend
<1>4. /\ \A m : In(m, run.kept) => In(m, run'.kept)
      /\ run' = Keep => In(Head1, run'.kept)
  <2>1. CASE run' = Drop /\ run' # Keep
    BY <1>1, <2>1
  <2>2. CASE run' = Keep
    BY <1>1, <1>3, <2>2
  <2> QED
    BY <1>0, <2>1, <2>2
<1>5. \A f \in Files : row[f] # loc[f] =>
         /\ In(Record(f), pending) \/ f \in forgotten
         /\ In(Record(f), run.todo) \/ In(Record(f), run.kept) \/ f \in forgotten
  BY <1>0, RowTypes DEF Stale, Relaunch, RowPCs
<1>6. \A f \in Files : row[f] # loc[f] /\ Record(f) # Head1 =>
         In(Record(f), run'.todo) \/ In(Record(f), run'.kept) \/ f \in forgotten
  BY <1>0, <1>1, <1>2, <1>4, <1>5, RowTypes, InTail
<1>7. Once' /\ Ahead' /\ Claims'
  BY <1>0, <1>1 DEF Once, Ahead, Claims, MovePCs, RowPCs
<1>8. CASE /\ Healable(Head1) /\ row' = [row EXCEPT ![Head1.file] = Head1.dst]
           /\ forgotten' = forgotten \ {Head1.file}
  <2>1. row'[Head1.file] = loc[Head1.file] /\ \A g \in Files : g # Head1.file => row'[g] = row[g]
    BY <1>2, <1>8, RowTypes DEF Healable
  <2>2. ASSUME NEW f \in Files, row'[f] # loc[f]
        PROVE  /\ In(Record(f)', pending) \/ f \in forgotten'
               /\ In(Record(f)', run'.todo) \/ In(Record(f)', run'.kept) \/ f \in forgotten'
    <3>1. f # Head1.file /\ row'[f] = row[f] /\ Record(f)' = Record(f)
      BY <1>0, <2>1, <2>2 DEF Record
    <3>2. Record(f) # Head1
      BY <3>1 DEF Record
    <3> QED
      BY <1>5, <1>6, <1>8, <2>2, <3>1, <3>2
  <2>3. Stale' /\ Relaunch'
    BY <1>0, <2>2 DEF Stale, Relaunch, In
  <2> QED
    BY <1>7, <2>3 DEF RowInv
<1>9. CASE /\ row' = row /\ forgotten \subseteq forgotten'
           /\ Healable(Head1) => run' = Keep \/ Head1.file \in forgotten'
  <2>1. ASSUME NEW f \in Files, row[f] # loc[f]
        PROVE  In(Record(f), run'.todo) \/ In(Record(f), run'.kept) \/ f \in forgotten'
    <3>1. CASE Record(f) = Head1
      <4>1. Healable(Head1) /\ Head1.file = f
        BY <3>1, <1>2, <2>1 DEF Record, Healable
      <4> QED
        BY <3>1, <4>1, <1>4, <1>9
    <3> QED
      BY <1>6, <1>9, <2>1, <3>1
  <2>2. Stale' /\ Relaunch'
    BY <1>0, <1>5, <1>9, <2>1 DEF Stale, Relaunch, In, Record
  <2> QED
    BY <1>7, <2>2 DEF RowInv
<1> QED
  BY <1>8, <1>9 DEF ReconcileOne

LEMMA ReconcileEndsRows ==
    ASSUME RowKnown, ReconcileEnds
    PROVE  RowInv'
<1>1. /\ pc = "reconcile" /\ pc' = "idle" /\ run.todo = <<>> /\ run'.op = "none"
      /\ UNCHANGED <<loc, row, journal, backup>>
      /\ Distinct(journal.entries) /\ Distinct(backup.entries)
  BY RowTypes DEF ReconcileEnds, EndRun, NoRun, NewRun, Once
<1>2. \A f \in Files : row[f] # loc[f] =>
         /\ In(Record(f), pending) \/ f \in forgotten
         /\ In(Record(f), run.kept) \/ f \in forgotten
  BY <1>1, RowTypes DEF Stale, Relaunch, RowPCs, In
<1>3. \A f \in Files : row[f] # loc[f] => In(Record(f), pending') \/ f \in forgotten'
  <2>1. CASE pending' = run.kept /\ forgotten' = forgotten
    BY <1>2, <2>1
  <2>2. CASE RewriteCut
    <3>1. ASSUME NEW f \in Files, In(Record(f), run.kept)
          PROVE  f \in forgotten'
      <4>1. PICK i \in 1..Len(run.kept) : run.kept[i] = Record(f)
        BY <3>1 DEF In
      <4>2. run.kept[i].file = f
        BY <4>1 DEF Record
      <4> QED
        BY <2>2, <4>2 DEF RewriteCut
    <3>2. forgotten \subseteq forgotten'
      BY <2>2 DEF RewriteCut
    <3> QED
      BY <1>2, <3>1, <3>2
  <2>3. CASE UNCHANGED recovery
    BY <1>2, <2>3
  <2> QED
    BY <2>1, <2>2, <2>3 DEF ReconcileEnds
<1>4. Stale' /\ Relaunch'
  BY <1>1, <1>3 DEF Stale, Relaunch, Record, In
<1>5. Once' /\ Ahead' /\ Claims'
  BY <1>1 DEF Once, Ahead, Claims, MovePCs, RowPCs
<1> QED
  BY <1>4, <1>5 DEF RowInv

LEMMA StutterRows == ASSUME RowKnown, UNCHANGED vars PROVE RowInv'
<1>1. UNCHANGED <<loc, row, journal, backup, pending, forgotten, pc, run>> /\ Head1' = Head1
  BY DEF vars, Head1
<1>2. Once' /\ Ahead' /\ Claims'
  BY <1>1, RowTypes DEF Once, Ahead, Claims, Held
<1>3. Stale' /\ Relaunch'
  BY <1>1, RowTypes DEF Stale, Relaunch, Record, In
<1> QED
  BY <1>2, <1>3 DEF RowInv

LEMMA RowKnownAlways == Spec => []RowKnown
<1>1. Init => RowKnown
  BY InitTypes, InitJournal, InitRows DEF RowKnown
<1>2. RowKnown /\ [Next]_vars => RowKnown'
  <2>1. ASSUME RowKnown, [Next]_vars PROVE RowInv'
    BY <2>1, RequestRows, LoopRows, RecoverRows, JournalStepRows, FileRows, RowRows,
       EndRows, RestartRows, ReconcileRows, ReconcileEndsRows, StutterRows
       DEF Next, Done, StartupStep
  <2> QED
    BY <2>1, TypeInvStep, JournalInvStep DEF RowKnown
<1> QED
  BY <1>1, <1>2, PTL DEF Spec

\* StaleRowKept of RestructureApply: whatever fails and whenever the engine is
\* killed, a row that does not name its file's path between runs has a recovery
\* record that names both, unless that file's own record is known to be lost.
THEOREM StaleRowsKept == Spec => []StaleRowKept
<1>1. RowKnown => StaleRowKept
  BY DEF RowKnown, RowInv, Stale, RowPCs, In, Record, StaleRowKept
<1> QED
  BY <1>1, RowKnownAlways, PTL

(***************************************************************************)
(* Without a kill in a run, a record or a rewrite that fails and a record  *)
(* a launch cannot prove, no record is ever lost.                          *)
(***************************************************************************)
NoneLost == forgotten = {} /\ tail = "whole"

LEMMA NoneLostStep ==
    ASSUME "kill" \notin Faults, "record" \notin Faults, "sidecar" \notin Faults,
           "unproven" \notin Faults, NoneLost, [Next]_vars
    PROVE  NoneLost'
<1>1. CASE RowStep
  BY <1>1 DEF RowStep, UpdateRow, UpdateRowFails, RecordFailure, Recorded, Fault, NoneLost
<1>2. CASE StartupStep
  BY <1>2 DEF StartupStep, Restart, ReconcileOne, ReconcileEnds, Fault, NoneLost
<1>3. CASE ~RowStep /\ ~StartupStep
  <2>1. UNCHANGED <<tail, forgotten>>
    BY <1>3 DEF Next, vars, Done,
         RequestStep, StartApply, StartUndo,
         LoopStep, LoopEnds, Cancel, StreamFails, ApplyReject, ApplyReserve, UndoRelabel,
         UndoKeep, UndoReject, UndoReserve, NextUnchanged,
         RecoverStep, RecoverRefuse, RecoverNothing, RecoverCommitted, RecoverUncommitted,
         Reinstate, RecoverUnchanged,
         JournalStep, SetAside, CreateJournal, WriteHeader, AppendAhead, AppendFails,
         Rollback, Commit, FilesUnchanged, FileStep, MoveFile, MoveFails,
         EndStep, ApplyEnds, ApplyEndsUnmoved, Discard, PutBack, UndoEnds, ScanJournal,
         ScanStops
  <2> QED
    BY <2>1 DEF NoneLost
<1> QED
  BY <1>1, <1>2, <1>3

\* StaleRowRecorded of RestructureApply, where none of those four failures can
\* happen: whatever else fails, refused row updates, launches with the library
\* offline and relaunches between runs included, every row that is behind has
\* its record.  The run restructure_kill_window shows it needs the first.
THEOREM StaleRowsRecorded ==
    ASSUME "kill" \notin Faults, "record" \notin Faults, "sidecar" \notin Faults,
           "unproven" \notin Faults
    PROVE  Spec => []StaleRowRecorded
<1>1. Init => NoneLost
  BY DEF Init, NoneLost
<1>2. NoneLost /\ [Next]_vars => NoneLost'
  BY NoneLostStep
<1>3. NoneLost /\ StaleRowKept => StaleRowRecorded
  BY DEF NoneLost, StaleRowKept, StaleRowRecorded
<1> QED
  BY <1>1, <1>2, <1>3, StaleRowsKept, PTL DEF Spec

(***************************************************************************)
(* Unstuck, for any number of files.  That some row can be updated must    *)
(* hold again once it has been, so it is said of every set of files whose  *)
(* rows are behind.  A file that moves joins such a set, and none of the   *)
(* set waits for it: the path its row names is the one it left.            *)
(***************************************************************************)
Free(f, B) == \A g \in B \ {f} : row[g] # loc[f]
Untangled == \A B \in SUBSET Behind : B # {} => \E f \in B : Free(f, B)

\* The row of the file that moves names no other file's path.
LEMMA LeavesItsRow ==
    ASSUME RowKnown, Apart, MoveFile
    PROVE  \A g \in Files \ {Head1.file} : loc[g] # row[Head1.file]
<1>1. /\ pc = "move" /\ run.op \in {"apply", "undo"} /\ run.todo # <<>> /\ TypeOK
      /\ loc[Head1.file] = Head1.src /\ ~OnDisk(Head1.dst)
  BY RowTypes DEF MoveFile, TypeInv, InHand
<1>2. Head1.file \in Files
  BY <1>1, HeadOfTodo
<1>3. row[Head1.file] \in {Head1.src, Head1.dst}
  BY <1>1, RowTypes DEF Ahead, MovePCs
<1> QED
  BY <1>1, <1>2, <1>3 DEF OnDisk, Apart

LEMMA MoveUntangled ==
    ASSUME RowKnown, Apart, Untangled, MoveFile
    PROVE  Untangled'
<1> DEFINE h == Head1.file
<1>1. /\ row' = row /\ h \in Files /\ loc \in [Files -> Paths]
      /\ loc' = [loc EXCEPT ![h] = Head1.dst]
  BY RowTypes, HeadOfTodo DEF MoveFile, TypeInv, InHand
<1>2. \A g \in Files \ {h} : loc'[g] = loc[g] /\ loc[g] # row[h]
  BY <1>1, LeavesItsRow
<1> HIDE DEF h
<1> SUFFICES ASSUME NEW B \in SUBSET Behind', B # {}
             PROVE  \E f \in B : Free(f, B)'
  BY DEF Untangled
<1>3. B \subseteq Files /\ B \ {h} \in SUBSET Behind
  BY <1>1, <1>2 DEF Behind
<1>4. CASE B \ {h} = {}
  BY <1>4 DEF Free
<1>5. CASE B \ {h} # {}
  <2>1. PICK f \in B \ {h} : Free(f, B \ {h})
    BY <1>3, <1>5 DEF Untangled
  <2>2. Free(f, B)'
    BY <1>1, <1>2, <1>3, <2>1 DEF Free
  <2> QED
    BY <2>2
<1> QED
  BY <1>4, <1>5

\* A row that catches up leaves the others as they are.
LEMMA CatchesUp ==
    ASSUME TypeOK, Untangled, NEW h \in Files, loc' = loc,
           row' = [row EXCEPT ![h] = loc[h]]
    PROVE  Untangled'
<1>1. /\ Behind' \subseteq Behind \ {h}
      /\ \A g \in Files \ {h} : row'[g] = row[g]
  BY DEF Behind, TypeOK
<1> QED
  BY <1>1 DEF Untangled, Free, Behind

LEMMA UntangledStep ==
    ASSUME RowKnown, Apart, Untangled, [Next]_vars
    PROVE  Untangled'
<1>1. CASE MoveFile
  BY <1>1, MoveUntangled
<1>2. CASE UpdateRow
  <2>1. /\ pc = "row" /\ run.todo # <<>> /\ TypeOK
        /\ row' = [row EXCEPT ![Head1.file] = Head1.dst] /\ loc' = loc
    BY <1>2, RowTypes DEF UpdateRow, RowUnchanged, TypeInv, InHand
  <2>2. loc[Head1.file] = Head1.dst /\ Head1.file \in Files
    BY <2>1, RowTypes, HeadOfTodo DEF Ahead, RowPCs
  <2> QED
    BY <2>1, <2>2, CatchesUp
<1>3. CASE ReconcileOne
  <2>1. /\ run.todo # <<>> /\ TypeOK /\ loc' = loc
        /\ \/ row' = row
           \/ loc[Head1.file] = Head1.dst /\ row' = [row EXCEPT ![Head1.file] = Head1.dst]
    BY <1>3, RowTypes DEF ReconcileOne, Healable
  <2>2. Head1.file \in Files
    BY <2>1, HeadOfTodo
  <2>3. CASE row' = row
    BY <2>1, <2>3 DEF Untangled, Free, Behind
  <2> QED
    BY <2>1, <2>2, <2>3, CatchesUp
<1>4. CASE ~MoveFile /\ ~UpdateRow /\ ~ReconcileOne
  <2>1. UNCHANGED <<loc, row>>
    BY <1>4 DEF Next, vars, Done,
         RequestStep, StartApply, StartUndo,
         LoopStep, LoopEnds, Cancel, StreamFails, ApplyReject, ApplyReserve, UndoRelabel,
         UndoKeep, UndoReject, UndoReserve, NextUnchanged,
         RecoverStep, RecoverRefuse, RecoverNothing, RecoverCommitted, RecoverUncommitted,
         Reinstate, RecoverUnchanged,
         JournalStep, SetAside, CreateJournal, WriteHeader, AppendAhead, AppendFails,
         Rollback, Commit, FilesUnchanged,
         FileStep, MoveFails, RowStep, UpdateRowFails, RecordFailure, RowUnchanged,
         EndStep, ApplyEnds, ApplyEndsUnmoved, Discard, PutBack, UndoEnds, ScanJournal,
         ScanStops, StartupStep, Restart, ReconcileEnds
  <2> QED
    BY <2>1 DEF Untangled, Free, Behind
<1> QED
  BY <1>1, <1>2, <1>3, <1>4

\* Unstuck of RestructureApply: whatever fails and whenever the engine is
\* killed, files whose rows are behind never block each other in a ring of any
\* length: a launch that has their records can realign one, and then the next.
THEOREM NoRing == Spec => []Unstuck
<1>1. Init => Apart /\ Untangled
  BY ConstantsAssumption DEF Init, Apart, Untangled, Behind
<1>2. RowKnown /\ Apart /\ Untangled /\ [Next]_vars => (Apart /\ Untangled)'
  BY ApartStep, UntangledStep DEF RowKnown
<1>3. Apart /\ Untangled => Unstuck
  <2> SUFFICES ASSUME Apart, Untangled, Behind # {}
               PROVE  \E f \in Behind : \A g \in Files \ {f} : row[g] # loc[f]
    BY DEF Unstuck
  <2>1. PICK f \in Behind : Free(f, Behind)
    BY DEF Untangled
  <2> QED
    BY <2>1 DEF Free, Behind, Apart
<1> QED
  BY <1>1, <1>2, <1>3, RowKnownAlways, PTL DEF Spec
=============================================================================
