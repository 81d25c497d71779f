--------------------------- MODULE UndoLogProofs ----------------------------
(***************************************************************************)
(* RestructureApply implements UndoLog: whatever fails except the rename   *)
(* of an undo replay (run restructure_partial_undo shows why that one is   *)
(* left out), and whenever the engine dies, the two journals hold exactly  *)
(* the inverse moves that are still owed.                                  *)
(***************************************************************************)
EXTENDS RestructureApplyProofs

USE DEF recovery

(***************************************************************************)
(* A list of inverse moves, oldest first, that a newest-first replay can   *)
(* always finish, on a disk l with rows r: every file is at one end of its *)
(* move, and whoever stands where a file must return to left that place    *)
(* later, by an entry that is due too.                                     *)
(***************************************************************************)
Due(l, e) == l[e.file] = e.src
DueIn(l, es) == {e \in {es[i] : i \in 1..Len(es)} : Due(l, e)}
NoneDue(l, es) == \A i \in 1..Len(es) : ~Due(l, es[i])
Begun(l, es) == es # <<>> /\ Due(l, es[1])

Traceable(l, r, e) ==
    /\ e.src # e.dst
    /\ l[e.file] \in {e.src, e.dst}
    /\ Due(l, e) => r[e.file] \in {e.src, e.dst}
Separate(es) ==
    \A i, k \in 1..Len(es) : i # k => es[i].file # es[k].file /\ es[i].dst # es[k].dst
Unblocked(l, es) ==
    \A i \in 1..Len(es), g \in Files :
        Due(l, es[i]) /\ l[g] = es[i].dst =>
            \E k \in 1..Len(es) : k > i /\ es[k].file = g /\ Due(l, es[k])
Replayable(l, r, es) ==
    /\ \A i \in 1..Len(es) : Traceable(l, r, es[i])
    /\ Separate(es)
    /\ Unblocked(l, es)

LEMMA EntryType ==
    ASSUME NEW es \in Seq(Move), NEW i \in 1..Len(es)
    PROVE  es[i] \in Move /\ es[i].file \in Files /\ es[i].src \in Paths /\ es[i].dst \in Paths
<1>1. es[i] \in Move
  BY ElementOfSeq
<1> QED
  BY <1>1 DEF Move

LEMMA NothingToReplay ==
    ASSUME NEW l, NEW r
    PROVE  Replayable(l, r, <<>>) /\ NoneDue(l, <<>>) /\ DueIn(l, <<>>) = {}
BY DEF Replayable, Separate, Unblocked, NoneDue, DueIn

LEMMA NoneDueEmpty ==
    ASSUME NEW l, NEW es \in Seq(Move)
    PROVE  NoneDue(l, es) <=> DueIn(l, es) = {}
BY DEF NoneDue, DueIn

\* A row that catches up with its file disturbs no replay.
LEMMA RowCaughtUp ==
    ASSUME NEW l \in [Files -> Paths], NEW r \in [Files -> Paths], NEW f \in Files,
           NEW es \in Seq(Move), Replayable(l, r, es)
    PROVE  Replayable(l, [r EXCEPT ![f] = l[f]], es)
<1>1. ASSUME NEW i \in 1..Len(es)
      PROVE  Traceable(l, [r EXCEPT ![f] = l[f]], es[i])
  BY <1>1, EntryType DEF Replayable, Traceable, Due
<1> QED
  BY <1>1 DEF Replayable

\* A line written ahead of its move.
LEMMA LineAhead ==
    ASSUME NEW l \in [Files -> Paths], NEW r \in [Files -> Paths],
           NEW es \in Seq(Move), Replayable(l, r, es), NEW e \in Move,
           e.src # e.dst, l[e.file] = e.dst, e.file \notin FilesOf(es),
           \A i \in 1..Len(es) : es[i].dst # e.dst
    PROVE  /\ Replayable(l, r, Append(es, e))
           /\ DueIn(l, Append(es, e)) = DueIn(l, es)
           /\ Begun(l, Append(es, e)) <=> Begun(l, es)
<1> DEFINE n == Len(es)
           s == Append(es, e)
<1>1. /\ n \in Nat /\ Len(s) = n + 1 /\ s[n + 1] = e
      /\ \A i \in 1..n : s[i] = es[i]
      /\ 1..Len(s) = 1..n \cup {n + 1} /\ s # <<>>
      /\ es # <<>> => n > 0
      /\ es = <<>> => n = 0
  BY AppendFiles, EmptySeq
<1> HIDE DEF s
<1>2. ~Due(l, e) /\ Traceable(l, r, e)
  BY DEF Due, Traceable
<1>3. \A i \in 1..Len(s) : Traceable(l, r, s[i])
  BY <1>1, <1>2 DEF Replayable
<1>4. Separate(s)
  <2>1. \A i \in 1..n : es[i].file # e.file
    BY DEF FilesOf
  <2> QED
    BY <1>1, <2>1 DEF Replayable, Separate
<1>5. Unblocked(l, s)
  <2> SUFFICES ASSUME NEW i \in 1..Len(s), NEW g \in Files, Due(l, s[i]), l[g] = s[i].dst
               PROVE  \E k \in 1..Len(s) : k > i /\ s[k].file = g /\ Due(l, s[k])
    BY DEF Unblocked
  <2>1. i \in 1..n
    BY <1>1, <1>2
  <2>2. PICK k \in 1..n : k > i /\ es[k].file = g /\ Due(l, es[k])
    BY <1>1, <2>1 DEF Replayable, Unblocked
  <2> QED
    BY <1>1, <2>2
<1>6. DueIn(l, s) = DueIn(l, es)
  BY <1>1, <1>2 DEF DueIn
<1>7. Begun(l, s) <=> Begun(l, es)
  BY <1>1, <1>2 DEF Begun
<1> QED
  BY <1>3, <1>4, <1>5, <1>6, <1>7 DEF Replayable, s

\* The line of a move that did not happen is taken back.
LEMMA LineTakenBack ==
    ASSUME NEW l \in [Files -> Paths], NEW r \in [Files -> Paths],
           NEW es \in Seq(Move), Replayable(l, r, es), es # <<>>, ~Due(l, es[Len(es)]),
           NEW s \in Seq(Move), Len(s) = Len(es) - 1, \A i \in 1..Len(s) : s[i] = es[i]
    PROVE  /\ Replayable(l, r, s) /\ DueIn(l, s) = DueIn(l, es)
           /\ Begun(l, s) <=> Begun(l, es)
<1> DEFINE n == Len(es)
<1>1. n \in Nat \ {0} /\ 1..n = 1..Len(s) \cup {n} /\ n \notin 1..Len(s)
  BY EmptySeq
<1>2. Unblocked(l, s)
  <2> SUFFICES ASSUME NEW i \in 1..Len(s), NEW g \in Files, Due(l, s[i]), l[g] = s[i].dst
               PROVE  \E k \in 1..Len(s) : k > i /\ s[k].file = g /\ Due(l, s[k])
    BY DEF Unblocked
  <2>1. i \in 1..n /\ Due(l, es[i]) /\ l[g] = es[i].dst
    BY <1>1
  <2>2. PICK k \in 1..n : k > i /\ es[k].file = g /\ Due(l, es[k])
    BY <2>1 DEF Replayable, Unblocked
  <2> QED
    BY <1>1, <2>2
<1>3. (\A i \in 1..Len(s) : Traceable(l, r, s[i])) /\ Separate(s)
  BY <1>1 DEF Replayable, Separate
<1>4. DueIn(l, s) = DueIn(l, es)
  BY <1>1 DEF DueIn
<1>5. Begun(l, s) <=> Begun(l, es)
  <2>1. s # <<>> <=> n # 1
    BY <1>1, EmptySeq
  <2>2. s # <<>> => 1 \in 1..Len(s)
    BY EmptySeq
  <2> QED
    BY <1>1, <2>1, <2>2 DEF Begun
<1> QED
  BY <1>2, <1>3, <1>4, <1>5 DEF Replayable

\* The move of the last line reaches the disk.
LEMMA MovedForward ==
    ASSUME NEW l \in [Files -> Paths], NEW r \in [Files -> Paths],
           NEW es \in Seq(Move), es # <<>>, Replayable(l, r, es),
           l[es[Len(es)].file] = es[Len(es)].dst, r[es[Len(es)].file] = es[Len(es)].dst,
           \A f \in Files : l[f] = es[Len(es)].dst => f = es[Len(es)].file,
           \A g \in Files : l[g] # es[Len(es)].src
    PROVE  LET m == [l EXCEPT ![es[Len(es)].file] = es[Len(es)].src]
           IN  /\ Replayable(m, r, es)
               /\ DueIn(m, es) = DueIn(l, es) \cup {es[Len(es)]}
               /\ Due(m, es[Len(es)])
               /\ \A i \in 1..Len(es) : Due(l, es[i]) => Due(m, es[i])
<1> DEFINE n == Len(es)
           e == es[n]
           m == [l EXCEPT ![e.file] = e.src]
<1>1. n \in Nat \ {0} /\ n \in 1..n
  BY EmptySeq
<1>2. e \in Move /\ e.file \in Files /\ e.src \in Paths /\ e.dst \in Paths
  BY <1>1, EntryType
<1>3. /\ m[e.file] = e.src
      /\ \A g \in Files : g # e.file => m[g] = l[g]
  BY <1>2
<1> HIDE DEF m
<1>4. \A i \in 1..n : i # n => es[i].file # e.file /\ es[i].dst # e.dst /\ es[i].file \in Files
  BY <1>1, EntryType DEF Replayable, Separate
<1>5. e.src # e.dst /\ Due(m, e)
  BY <1>1, <1>3 DEF Replayable, Traceable, Due
<1>6. \A i \in 1..n : i # n => (Due(m, es[i]) <=> Due(l, es[i]))
  BY <1>3, <1>4 DEF Due
<1>7. ASSUME NEW i \in 1..n PROVE Traceable(m, r, es[i])
  <2>1. CASE i = n
    BY <2>1, <1>1, <1>3, <1>5 DEF Traceable
  <2>2. CASE i # n
    BY <2>2, <1>3, <1>4, <1>6 DEF Replayable, Traceable
  <2> QED
    BY <2>1, <2>2
<1>8. Unblocked(m, es)
  <2> SUFFICES ASSUME NEW i \in 1..n, NEW g \in Files, Due(m, es[i]), m[g] = es[i].dst
               PROVE  \E k \in 1..n : k > i /\ es[k].file = g /\ Due(m, es[k])
    BY DEF Unblocked
  <2>1. i # n
    BY <1>1, <1>2, <1>3, <1>5
  <2>2. CASE g = e.file
    BY <2>1, <2>2, <1>1, <1>5
  <2>3. CASE g # e.file
    <3>1. Due(l, es[i]) /\ l[g] = es[i].dst
      BY <2>1, <2>3, <1>3, <1>6
    <3>2. PICK k \in 1..n : k > i /\ es[k].file = g /\ Due(l, es[k])
      BY <3>1 DEF Replayable, Unblocked
    <3>3. k # n
      BY <3>2, <2>3, <1>1
    <3> QED
      BY <3>2, <3>3, <1>6
  <2> QED
    BY <2>2, <2>3
<1>9. DueIn(m, es) = DueIn(l, es) \cup {e}
  <2>1. \A i \in 1..n : i = n \/ (Due(m, es[i]) <=> Due(l, es[i]))
    BY <1>6
  <2> QED
    BY <2>1, <1>1, <1>5 DEF DueIn
<1> QED
  BY <1>5, <1>6, <1>7, <1>8, <1>9 DEF Replayable, m

\* Once every later entry has been replayed, the place of an entry is free.
LEMMA NobodyThere ==
    ASSUME NEW l, NEW r, NEW es, Replayable(l, r, es),
           NEW i \in 1..Len(es), Due(l, es[i]),
           \A k \in 1..Len(es) : k > i => ~Due(l, es[k])
    PROVE  \A g \in Files : l[g] # es[i].dst
BY DEF Replayable, Unblocked

\* Then its file goes back.
LEMMA MovedBack ==
    ASSUME NEW l \in [Files -> Paths], NEW r \in [Files -> Paths],
           NEW es \in Seq(Move), Replayable(l, r, es),
           NEW i \in 1..Len(es), Due(l, es[i]),
           \A k \in 1..Len(es) : k > i => ~Due(l, es[k])
    PROVE  LET m == [l EXCEPT ![es[i].file] = es[i].dst]
           IN  /\ Replayable(m, r, es)
               /\ DueIn(m, es) = DueIn(l, es) \ {es[i]}
               /\ ~Due(m, es[i])
               /\ \A k \in 1..Len(es) : k # i => (Due(m, es[k]) <=> Due(l, es[k]))
<1> DEFINE n == Len(es)
           e == es[i]
           m == [l EXCEPT ![e.file] = e.dst]
<1>1. e \in Move /\ e.file \in Files /\ e.src \in Paths /\ e.dst \in Paths
  BY EntryType
<1>3. e.src # e.dst
  BY DEF Replayable, Traceable
<1>4. \A k \in 1..n : k # i => es[k].file # e.file /\ es[k].dst # e.dst /\ es[k].file \in Files
  BY EntryType DEF Replayable, Separate
<1>5. m[e.file] = e.dst /\ \A g \in Files : g # e.file => m[g] = l[g]
  BY <1>1
<1> HIDE DEF e, m
<1>6. ~Due(m, e)
  BY <1>3, <1>5 DEF Due
<1>7. \A k \in 1..n : k # i => (Due(m, es[k]) <=> Due(l, es[k]))
  BY <1>4, <1>5 DEF Due
<1>8. ASSUME NEW k \in 1..n PROVE Traceable(m, r, es[k])
  <2>1. CASE k = i
    BY <2>1, <1>3, <1>5, <1>6 DEF Traceable, e
  <2>2. CASE k # i
    BY <2>2, <1>4, <1>5, <1>7 DEF Replayable, Traceable
  <2> QED
    BY <2>1, <2>2
<1>9. Unblocked(m, es)
  <2> SUFFICES ASSUME NEW j \in 1..n, NEW g \in Files, Due(m, es[j]), m[g] = es[j].dst
               PROVE  \E k \in 1..n : k > j /\ es[k].file = g /\ Due(m, es[k])
    BY DEF Unblocked
  <2>1. j # i
    BY <1>6 DEF e
  <2>2. g # e.file
    BY <2>1, <1>4, <1>5
  <2>3. Due(l, es[j]) /\ l[g] = es[j].dst
    BY <2>1, <2>2, <1>5, <1>7
  <2>4. PICK k \in 1..n : k > j /\ es[k].file = g /\ Due(l, es[k])
    BY <2>3 DEF Replayable, Unblocked
  <2>5. k # i
    BY <2>2, <2>4 DEF e
  <2> QED
    BY <2>4, <2>5, <1>7
<1>10. DueIn(m, es) = DueIn(l, es) \ {e}
  <2>1. \A k \in 1..n : k # i => es[k] # e
    BY <1>4
  <2>2. \A k \in 1..n : k = i \/ (Due(m, es[k]) <=> Due(l, es[k]))
    BY <1>7
  <2> QED
    BY <2>1, <2>2, <1>6 DEF DueIn, e
<1> QED
  BY <1>6, <1>7, <1>8, <1>9, <1>10 DEF Replayable, e, m

(***************************************************************************)
(* The invariant.  Journals says the two files can be replayed; the other  *)
(* parts say what each step of a run may rely on.                          *)
(***************************************************************************)
Journals ==
    /\ ~journal.there => journal.entries = <<>>
    /\ ~backup.there => backup.entries = <<>>
    /\ Replayable(loc, row, journal.entries)
    /\ backup.there /\ ~Superseded => Replayable(loc, row, backup.entries)

\* The move in hand starts where its file and its row are, and ends where the
\* file is when the row is to follow.
InPlace ==
    /\ run.op = "apply" /\ pc \in {"recover", "reinstate", "setaside", "create",
                                   "header", "append", "move", "rollback"} =>
          /\ row[Head1.file] = Head1.src /\ loc[Head1.file] = Head1.src
          /\ Head1.src # Head1.dst
    /\ pc \in {"commit", "row", "record"} => loc[Head1.file] = Head1.dst
    /\ pc = "commit" => handle.moved

\* No file still to move stands where a file already moved must return to.
Unmoved ==
    (handle.open /\ ~Closing) =>
        \A i \in 1..Len(journal.entries) : \A f \in FilesOf(ToJournal) :
            loc[f] # journal.entries[i].dst

\* Before the first move of a run its journal owes nothing; after it, the
\* first line shows that the journal before is obsolete.
Opening ==
    /\ handle.moved => handle.open
    /\ handle.open /\ ~handle.moved => NoneDue(loc, journal.entries)
    /\ handle.open /\ handle.moved => Superseded
    /\ handle.dirty /\ pc # "putback" => journal.entries # <<>> /\ ~Due(loc, Last)
    /\ handle.open /\ pc # "putback" => journal.there
    /\ pc = "header" => journal.there

\* While a journal is being replaced, what is removed owes nothing.
Replacing ==
    /\ pc \in {"setaside", "scan"} => ~backup.there
    /\ pc = "reinstate" => backup.there
    /\ pc \in {"reinstate", "create"} => ~journal.there
    /\ pc \in {"header", "discard", "putback"} => NoneDue(loc, journal.entries)
    /\ run.op = "undo" /\ pc \in {"next", "move", "row", "record", "finish"} => ~backup.there

\* A replay has come to entry k = Len(todo): the entries after it are done,
\* and only they have claimed a place.
Reached(l, es, todo) ==
    /\ Len(todo) <= Len(es)
    /\ \A j \in 1..Len(todo) : todo[j] = es[Len(todo) + 1 - j]
    /\ \A i \in 1..Len(es) : i > Len(todo) => ~Due(l, es[i])
ClaimedFrom(es, claimed, k) ==
    \A p \in claimed : \E i \in 1..Len(es) : i >= k /\ es[i].dst = p
Undoing ==
    run.op = "undo" =>
        /\ pc \in {"next", "move", "row", "record"} =>
              /\ Reached(loc, journal.entries, run.todo)
              /\ ClaimedFrom(journal.entries, run.claimed,
                             IF pc = "next" THEN Len(run.todo) + 1 ELSE Len(run.todo))
        /\ pc \in {"recover", "reinstate", "scan"} => run.claimed = {}
        /\ pc = "move" => Due(loc, Head1)
        /\ pc = "finish" /\ ~run.failed /\ ~run.cancelled => NoneDue(loc, journal.entries)

UInv == Journals /\ InPlace /\ Unmoved /\ Opening /\ Replacing /\ Undoing

\* What every step may start from.
Known == TypeInv /\ Apart /\ JournalInv /\ UInv

LEMMA SupersededIs ==
    ASSUME TypeOK
    PROVE  Superseded <=> journal.there /\ Begun(loc, journal.entries)
<1>1. journal.entries \in Seq(Move)
  BY EntriesType
<1>2. journal.entries # <<>> => First = journal.entries[1]
  BY <1>1 DEF First
<1> QED
  BY <1>2 DEF Superseded, FirstMoved, Due, Begun

LEMMA OwedIs ==
    Owed = IF backup.there /\ ~Superseded THEN DueIn(loc, backup.entries)
           ELSE DueIn(loc, journal.entries)
BY DEF Owed, Live, DueIn, Due

\* What a replay finds at its head, and what it leaves behind.
LEMMA ReplayHead ==
    ASSUME NEW l, NEW es \in Seq(Move), NEW todo \in Seq(Move), todo # <<>>,
           Reached(l, es, todo)
    PROVE  /\ Len(todo) \in 1..Len(es) /\ Head(todo) = es[Len(todo)]
           /\ ~Due(l, es[Len(todo)]) => Reached(l, es, Tail(todo))
           /\ Len(Tail(todo)) = Len(todo) - 1
<1> DEFINE k == Len(todo)
           n == Len(es)
           t == Tail(todo)
<1>1. /\ k \in Nat \ {0} /\ n \in Nat /\ Len(t) = k - 1 /\ Head(todo) = todo[1]
      /\ \A i \in 1..Len(t) : t[i] = todo[i + 1]
  BY HeadTailProperties, EmptySeq
<1>2. k <= n /\ \A j \in 1..k : todo[j] = es[k + 1 - j]
  BY DEF Reached
<1> HIDE DEF t
<1>3. todo[1] = es[k]
  BY <1>1, <1>2
<1>4. ASSUME ~Due(l, es[k]) PROVE Reached(l, es, t)
  <2>1. \A j \in 1..(k - 1) : t[j] = es[(k - 1) + 1 - j]
    <3> TAKE j \in 1..(k - 1)
    <3>1. j \in 1..Len(t) /\ j + 1 \in 1..k
      BY <1>1
    <3>2. k + 1 - (j + 1) = (k - 1) + 1 - j
      BY <1>1
    <3>3. todo[j + 1] = es[k + 1 - (j + 1)]
      BY <3>1, <1>2
    <3> QED
      BY <3>1, <3>2, <3>3, <1>1
  <2>2. \A i \in 1..n : i > k - 1 => i = k \/ i > k
    BY <1>1
  <2>3. \A i \in 1..n : i > k - 1 => ~Due(l, es[i])
    BY <2>2, <1>4 DEF Reached
  <2> QED
    BY <2>1, <2>3, <1>1, <1>2 DEF Reached
<1> QED
  BY <1>1, <1>2, <1>3, <1>4 DEF t

\* The journal newest-first, from its end.
LEMMA ReplayStart ==
    ASSUME NEW l, NEW es \in Seq(Move)
    PROVE  Reached(l, es, Reverse(es))
<1>1. Reverse(es) \in Seq(Move) /\ Len(Reverse(es)) = Len(es) /\ Len(es) \in Nat
  BY ReverseType
<1>2. \A j \in 1..Len(es) : Reverse(es)[j] = es[Len(es) + 1 - j]
  BY DEF Reverse
<1> QED
  BY <1>1, <1>2 DEF Reached

\* A step that leaves the disk, the catalog and the journals as they are.
LEMMA SameDisk ==
    ASSUME Journals, UNCHANGED <<loc, row, journal, backup>>
    PROVE  Journals' /\ Owed' = Owed
BY DEF Journals, Superseded, FirstMoved, First, Owed, Live

LEMMA Steady ==
    ASSUME Known
    PROVE  /\ TypeOK /\ TypeInv /\ UInv /\ Journals
           /\ journal.entries \in Seq(Move) /\ backup.entries \in Seq(Move)
           /\ run.todo \in Seq(Move) /\ run \in Run /\ handle \in Handle
           /\ loc \in [Files -> Paths] /\ row \in [Files -> Paths]
           /\ journal \in Journal /\ backup \in Journal
BY DEF Known, UInv, TypeInv, TypeOK, Journal, Run

\* Once a run is over only the journals have something to say.
LEMMA EndsWell == ASSUME EndRun, Journals' PROVE UInv'
BY DEF EndRun, NoRun, NewRun, Closed, UInv, InPlace, Unmoved, Opening, Replacing, Undoing

LEMMA InitUndo == Init => UInv
<1> SUFFICES ASSUME Init PROVE UInv
  OBVIOUS
<1>1. journal.entries = <<>> /\ backup.entries = <<>> /\ ~backup.there
  BY DEF Init, Absent
<1>2. Journals
  BY <1>1, NothingToReplay DEF Journals
<1> QED
  BY <1>2 DEF Init, NoRun, NewRun, Closed, UInv, InPlace, Unmoved, Opening, Replacing, Undoing

(***************************************************************************)
(* Step by step: each action keeps the invariant and, but for a rename and *)
(* the end of a run that moved something, is a stutter of UndoLog.         *)
(***************************************************************************)
Still == loc' = loc /\ Owed' = Owed /\ handle'.moved = handle.moved

LEMMA RequestUndo ==
    ASSUME Known, RequestStep
    PROVE  UInv' /\ Still
<1>1. /\ pc = "idle" /\ UNCHANGED <<loc, row, journal, backup, handle>>
      /\ \/ pc' = "next" /\ run'.op = "apply"
         \/ pc' = "recover" /\ run'.op = "undo" /\ run'.claimed = {}
  BY DEF RequestStep, StartApply, StartUndo, NewRun
<1>2. ~handle.open /\ ~handle.moved /\ ~handle.dirty
  BY <1>1, Steady DEF Known, JournalInv, HandleInv, OpenPCs, UInv, Opening
<1>3. Journals' /\ Owed' = Owed
  BY <1>1, Steady, SameDisk
<1> QED
  BY <1>1, <1>2, <1>3 DEF Still, UInv, InPlace, Unmoved, Opening, Replacing, Undoing

\* The loop of an apply touches neither the disk nor the journal.
LEMMA LoopOfApply ==
    ASSUME Known, pc = "next", NextUnchanged, run.op = "apply", run'.op = "apply",
           pc' \in {"next", "append", "recover", "finish"},
           FilesOf(run'.todo) \subseteq FilesOf(run.todo),
           pc' \in {"append", "recover"} =>
              LET h == Head(run'.todo)
              IN row[h.file] = h.src /\ loc[h.file] = h.src /\ h.src # h.dst
    PROVE  UInv' /\ Still
<1>1. UNCHANGED <<loc, row, journal, backup, handle>>
  BY DEF NextUnchanged
<1>2. Journals' /\ Owed' = Owed
  BY <1>1, Steady, SameDisk
<1>3. InPlace'
  BY <1>1 DEF InPlace, Head1
<1>4. Unmoved'
  BY <1>1 DEF Known, UInv, Unmoved, ToJournal, Closing
<1>5. Opening'
  BY <1>1 DEF Known, UInv, Opening, Superseded, First, FirstMoved, Last
<1>6. Replacing' /\ Undoing'
  BY <1>1 DEF Known, UInv, Replacing, Undoing
<1> QED
  BY <1>1, <1>2, <1>3, <1>4, <1>5, <1>6 DEF UInv, Still

\* The loop of an undo: what is dropped without a rename is not due.
LEMMA LoopOfUndo ==
    ASSUME Known, pc = "next", NextUnchanged, run.op = "undo", run'.op = "undo",
           \/ pc' = "next" /\ run.todo # <<>> /\ run'.todo = Tail(run.todo)
              /\ run'.claimed = run.claimed /\ ~Due(loc, Head1)
           \/ pc' = "row" /\ run' = run /\ run.todo # <<>> /\ ~Due(loc, Head1)
              /\ loc[Head1.file] = Head1.dst
           \/ pc' = "move" /\ run.todo # <<>> /\ run'.todo = run.todo
              /\ run'.claimed = run.claimed \cup {Head1.dst} /\ Due(loc, Head1)
           \/ pc' = "finish" /\ run'.todo = run.todo
              /\ (run'.failed \/ run'.cancelled \/ run.todo = <<>>)
    PROVE  UInv' /\ Still
<1> DEFINE es == journal.entries
           k == Len(run.todo)
<1>1. UNCHANGED <<loc, row, journal, backup, handle>>
  BY DEF NextUnchanged
<1>2. Journals' /\ Owed' = Owed
  BY <1>1, Steady, SameDisk
<1>3. ~handle.open /\ ~handle.moved /\ ~handle.dirty
  BY DEF Known, JournalInv, HandleInv, UInv, Opening
<1>4. InPlace'
  BY <1>1, Steady DEF InPlace, Head1
<1>5. Unmoved' /\ Opening' /\ Replacing'
  BY <1>1, <1>3 DEF Known, UInv, Unmoved, Opening, Replacing
<1>6. Reached(loc, es, run.todo) /\ ClaimedFrom(es, run.claimed, k + 1)
  BY DEF Known, UInv, Undoing
<1>7. k \in Nat /\ es \in Seq(Move) /\ run.todo \in Seq(Move) /\ (run.todo = <<>> => k = 0)
  BY Steady
<1>8. ASSUME run.todo # <<>>
      PROVE  /\ k \in 1..Len(es) /\ Head1 = es[k] /\ Len(Tail(run.todo)) = k - 1
             /\ ~Due(loc, Head1) => Reached(loc, es, Tail(run.todo))
  BY <1>6, <1>7, <1>8, ReplayHead DEF Head1
<1> HIDE DEF es, k
<1>9. ClaimedFrom(es, run.claimed, k)
  BY <1>6, <1>7 DEF ClaimedFrom
<1>10. CASE pc' = "next"
  <2>0. /\ run.todo # <<>> /\ run'.todo = Tail(run.todo)
        /\ run'.claimed = run.claimed /\ ~Due(loc, Head1)
    BY <1>10
  <2>1. Reached(loc, es, run'.todo) /\ Len(run'.todo) = k - 1 /\ run'.claimed = run.claimed
    BY <2>0, <1>8
  <2>2. Len(run'.todo) + 1 = k
    BY <2>1, <1>7
  <2> QED
    BY <2>1, <2>2, <1>1, <1>2, <1>4, <1>5, <1>9, <1>10 DEF UInv, Still, Undoing, es
<1>11. CASE pc' = "row"
  BY <1>1, <1>2, <1>4, <1>5, <1>6, <1>9, <1>11 DEF UInv, Still, Undoing, es, k
<1>12. CASE pc' = "move"
  <2>1. run'.todo = run.todo /\ run'.claimed = run.claimed \cup {Head1.dst} /\ Due(loc, Head1)
        /\ Head1' = Head1
    BY <1>12 DEF Head1
  <2>2. ClaimedFrom(es, run'.claimed, k)
    BY <2>1, <1>7, <1>8, <1>9, <1>12 DEF ClaimedFrom
  <2> QED
    BY <2>1, <2>2, <1>1, <1>2, <1>4, <1>5, <1>6, <1>12 DEF UInv, Still, Undoing, es, k
<1>13. CASE pc' = "finish"
  <2>1. run.todo = <<>> => NoneDue(loc, es)
    BY <1>6, <1>7 DEF Reached, NoneDue, k
  <2> QED
    BY <2>1, <1>1, <1>2, <1>4, <1>5, <1>13 DEF UInv, Still, Undoing, es
<1> QED
  BY <1>10, <1>11, <1>12, <1>13

\* Reserving the journaled place itself changes nothing in the list.
LEMMA ReservedInPlace ==
    ASSUME NEW s \in Seq(Move), s # <<>>
    PROVE  <<[Head(s) EXCEPT !.dst = Head(s).dst]>> \o Tail(s) = s
<1> DEFINE h == Head(s)
           t == <<h>> \o Tail(s)
<1>1. /\ Len(s) \in Nat \ {0} /\ Tail(s) \in Seq(Move) /\ Len(Tail(s)) = Len(s) - 1
      /\ h = s[1] /\ h \in Move
      /\ \A i \in 1..Len(Tail(s)) : Tail(s)[i] = s[i + 1]
  BY HeadTailProperties, EmptySeq
<1>2. [h EXCEPT !.dst = h.dst] = h
  BY <1>1 DEF Move
<1> HIDE DEF h
<1>3. <<h>> \in Seq(Move) /\ Len(<<h>>) = 1 /\ <<h>>[1] = h
  BY <1>1
<1>4. /\ t \in Seq(Move) /\ Len(t) = Len(s)
      /\ \A i \in 1..Len(s) : t[i] = s[i]
  BY <1>1, <1>3, ConcatProperties
<1> HIDE DEF t
<1>5. t = s
  BY <1>4, SeqEqual
<1> QED
  BY <1>2, <1>5 DEF h, t

\* The place an entry must return to is free and nobody has claimed it.
LEMMA PlaceFree ==
    ASSUME Known, AtMove("undo"), Due(loc, Head1)
    PROVE  ~Taken(Head1.dst) /\ UndoMovable(Head1) /\ Candidates(Head1.dst) = {Head1.dst}
<1> DEFINE es == journal.entries
           k == Len(run.todo)
<1>1. pc = "next" /\ run.op = "undo" /\ run.todo # <<>>
  BY DEF AtMove
<1>2. /\ Reached(loc, es, run.todo) /\ ClaimedFrom(es, run.claimed, k + 1)
      /\ Replayable(loc, row, es) /\ es \in Seq(Move) /\ run.todo \in Seq(Move)
      /\ loc \in [Files -> Paths] /\ row \in [Files -> Paths]
  BY <1>1, Steady DEF UInv, Undoing, Journals
<1>3. k \in 1..Len(es) /\ Head1 = es[k] /\ k \in Nat
  <2>1. Len(run.todo) \in 1..Len(es) /\ Head(run.todo) = es[Len(run.todo)]
    BY <1>1, <1>2, ReplayHead
  <2> QED
    BY <2>1, <1>2 DEF Head1
<1> HIDE DEF es, k
<1>4. \A i \in 1..Len(es) : i > k => ~Due(loc, es[i])
  BY <1>2 DEF Reached, k
<1>5. \A g \in Files : loc[g] # es[k].dst
  BY <1>2, <1>3, <1>4, NobodyThere
<1>6. ASSUME Head1.dst \in run.claimed PROVE FALSE
  <2>1. PICK i \in 1..Len(es) : i >= k + 1 /\ es[i].dst = es[k].dst
    BY <1>2, <1>3, <1>6 DEF ClaimedFrom
  <2>2. i # k
    BY <2>1, <1>3
  <2> QED
    BY <2>1, <2>2, <1>2, <1>3 DEF Replayable, Separate
<1>7. ~OnDisk(Head1.dst) /\ ~Taken(Head1.dst)
  BY <1>3, <1>5, <1>6 DEF OnDisk, Taken
<1>8. UndoMovable(Head1)
  BY <1>2, <1>3, <1>7 DEF Replayable, Traceable, Due, UndoMovable
<1>9. Candidates(Head1.dst) = {Head1.dst}
  <2>1. Head1.dst \in Paths
    BY <1>2, <1>3, EntryType
  <2> QED
    BY <2>1, <1>7 DEF Candidates
<1> QED
  BY <1>7, <1>8, <1>9

LEMMA LoopUndo ==
    ASSUME Known, "moveback" \notin Faults, LoopStep
    PROVE  UInv' /\ Still
<1>0. TypeOK /\ run \in Run /\ run.todo \in Seq(Move)
  BY Steady
<1>1. CASE LoopEnds
  <2>1. /\ pc = "next" /\ NextUnchanged /\ run' = run /\ pc' = "finish" /\ run.todo = <<>>
        /\ run.op \in {"apply", "undo"}
    BY <1>1 DEF LoopEnds
  <2> QED
    BY <2>1, LoopOfApply, LoopOfUndo
<1>2. CASE Cancel
  <2>1. /\ run'.op = run.op /\ run'.todo = run.todo /\ run'.cancelled /\ pc = "next"
        /\ NextUnchanged /\ pc' = "finish" /\ run.op \in {"apply", "undo"}
    BY <1>0, <1>2 DEF Cancel, Run
  <2> QED
    BY <2>1, LoopOfApply, LoopOfUndo
<1>3. CASE StreamFails
  <2>1. /\ run'.op = run.op /\ run'.todo = run.todo /\ run'.failed /\ pc = "next"
        /\ NextUnchanged /\ pc' = "finish" /\ run.op \in {"apply", "undo"}
    BY <1>0, <1>3 DEF StreamFails, Run
  <2> QED
    BY <2>1, LoopOfApply, LoopOfUndo
<1>4. CASE ApplyReject
  <2>1. /\ pc = "next" /\ run.op = "apply" /\ run.todo # <<>> /\ run' = Fail /\ pc' = "next"
        /\ NextUnchanged
    BY <1>4 DEF ApplyReject, AtMove
  <2>2. run'.op = "apply" /\ run'.todo = Tail(run.todo)
    BY <1>0, <2>1, RunFields
  <2> QED
    BY <1>0, <2>1, <2>2, TailFiles, LoopOfApply
<1>5. CASE ApplyReserve
  <2>1. /\ pc = "next" /\ run.op = "apply" /\ run.todo # <<>> /\ Current(Head1)
        /\ pc' \in {"append", "recover"} /\ NextUnchanged
    BY <1>5 DEF ApplyReserve, AtMove
  <2>2. PICK p \in Paths : run' = Reserved(p) /\ ~OnDisk(p)
    BY <1>5 DEF ApplyReserve, Candidates, Taken
  <2> DEFINE h == [Head1 EXCEPT !.dst = p]
  <2>3. run'.op = "apply" /\ run'.todo = <<h>> \o Tail(run.todo)
    BY <1>0, <2>1, <2>2, RunFields
  <2>4. /\ Head1 \in Move /\ Head1.file \in Files /\ h \in Move
        /\ h.file = Head1.file /\ h.src = Head1.src /\ h.dst = p
    BY <1>0, <2>1, HeadOfTodo DEF Move
  <2> HIDE DEF h
  <2>5. Head(run'.todo) = h /\ FilesOf(run'.todo) \subseteq FilesOf(run.todo)
    BY <1>0, <2>1, <2>3, <2>4, RenamedFiles DEF Head1
  <2>6. row[h.file] = h.src /\ loc[h.file] = h.src /\ h.src # h.dst
    BY <2>1, <2>2, <2>4 DEF Current, OnDisk
  <2> QED
    BY <2>1, <2>3, <2>5, <2>6, LoopOfApply
<1>6. CASE UndoRelabel
  <2>1. /\ pc = "next" /\ run.op = "undo" /\ run.todo # <<>> /\ NextUnchanged /\ run' = run
        /\ pc' = "row" /\ loc[Head1.file] = Head1.dst /\ ~OnDisk(Head1.src)
    BY <1>6 DEF UndoRelabel, AtMove, UndoRowOnly
  <2>2. ~Due(loc, Head1)
    BY <1>0, <2>1, HeadOfTodo DEF Due, OnDisk
  <2> QED
    BY <2>1, <2>2, LoopOfUndo
<1>7. CASE UndoKeep
  <2>1. /\ pc = "next" /\ AtMove("undo") /\ run.op = "undo" /\ run.todo # <<>> /\ NextUnchanged
        /\ run' = Drop /\ pc' = "next" /\ loc[Head1.file] = Head1.dst
    BY <1>7 DEF UndoKeep, AtMove, UndoHome
  <2>2. ~Due(loc, Head1)
    BY <1>0, <2>1, PlaceFree, HeadOfTodo DEF Due, Taken, OnDisk
  <2>3. run'.op = "undo" /\ run'.todo = Tail(run.todo) /\ run'.claimed = run.claimed
    BY <1>0, <2>1, RunFields, RunKeeps
  <2> QED
    BY <2>1, <2>2, <2>3, LoopOfUndo
<1>8. CASE UndoReject
  <2>1. /\ pc = "next" /\ AtMove("undo") /\ run.op = "undo" /\ run.todo # <<>> /\ NextUnchanged
        /\ run' = Fail /\ pc' = "next"
        /\ ~UndoMovable(Head1) \/ Candidates(Head1.dst) = {}
    BY <1>8 DEF UndoReject, AtMove, Fault
  <2>2. ~Due(loc, Head1)
    BY <2>1, PlaceFree
  <2>3. run'.op = "undo" /\ run'.todo = Tail(run.todo) /\ run'.claimed = run.claimed
    BY <1>0, <2>1, RunFields, RunKeeps
  <2> QED
    BY <2>1, <2>2, <2>3, LoopOfUndo
<1>9. CASE UndoReserve
  <2>1. /\ pc = "next" /\ AtMove("undo") /\ run.op = "undo" /\ run.todo # <<>> /\ NextUnchanged
        /\ pc' = "move" /\ UndoMovable(Head1)
    BY <1>9 DEF UndoReserve, AtMove
  <2>2. Due(loc, Head1)
    BY <2>1 DEF UndoMovable, Due
  <2>3. Head1.dst \in Paths /\ run' = Reserved(Head1.dst)
    BY <1>0, <1>9, <2>1, <2>2, PlaceFree, HeadOfTodo DEF UndoReserve
  <2>4. /\ run'.op = "undo" /\ run'.claimed = run.claimed \cup {Head1.dst}
        /\ run'.todo = <<[Head1 EXCEPT !.dst = Head1.dst]>> \o Tail(run.todo)
    BY <1>0, <2>1, <2>3, RunFields, RunKeeps
  <2>5. run'.todo = run.todo
    BY <1>0, <2>1, <2>4, ReservedInPlace DEF Head1
  <2> QED
    BY <2>1, <2>2, <2>4, <2>5, LoopOfUndo
<1> QED
  BY <1>1, <1>2, <1>3, <1>4, <1>5, <1>6, <1>7, <1>8, <1>9 DEF LoopStep

LEMMA NotOpen ==
    ASSUME Known, pc \notin OpenPCs \/ run.op # "apply"
    PROVE  ~handle.open /\ handle.moved = FALSE /\ ~handle.dirty
BY Steady DEF Known, JournalInv, HandleInv, UInv, Opening, Handle

LEMMA EndsStill ==
    ASSUME Known, handle.moved = FALSE, EndRun, UNCHANGED <<loc, row, journal, backup>>
    PROVE  UInv' /\ Still
<1>1. Journals' /\ Owed' = Owed
  BY Steady, SameDisk
<1> QED
  BY <1>1, EndsWell DEF EndRun, Closed, Still

\* Recovery and the replacement of a journal: no handle is open, no file moves.
LEMMA Replaces ==
    ASSUME Known, ~handle.open, handle.moved = FALSE, ~handle.dirty,
           UNCHANGED <<loc, row, run, handle>>,
           pc \in {"recover", "reinstate", "setaside", "create", "header", "scan"},
           pc' \in {"reinstate", "setaside", "create", "header", "scan", "discard", "putback"},
           Journals', Replacing', pc' = "header" => journal'.there
    PROVE  UInv'
<1>1. InPlace'
  <2>1. ASSUME run.op = "apply",
               pc' \in {"recover", "reinstate", "setaside", "create", "header"}
        PROVE  InPlace'
    <3>1. pc \in {"recover", "reinstate", "setaside", "create", "header"}
      BY <2>1 DEF Known, TypeInv, InHand
    <3> QED
      BY <2>1, <3>1 DEF Known, UInv, InPlace, Head1
  <2> QED
    BY <2>1 DEF InPlace
<1>2. Undoing'
  <2>1. ASSUME run.op = "undo" PROVE run.claimed = {}
    BY <2>1 DEF Known, TypeInv, InHand, ApplyOnly, UInv, Undoing
  <2> QED
    BY <2>1 DEF Undoing
<1> QED
  BY <1>1, <1>2 DEF UInv, Unmoved, Opening

LEMMA RecoverUndo ==
    ASSUME Known, RecoverStep
    PROVE  UInv' /\ Still
<1>1. /\ pc \in {"recover", "reinstate"} /\ UNCHANGED <<loc, row>>
      /\ pc = "reinstate" => ~journal.there /\ backup.there
  BY DEF RecoverStep, RecoverRefuse, RecoverNothing, RecoverCommitted, RecoverUncommitted,
     Reinstate, RecoverUnchanged, Known, UInv, Replacing
<1>2. ~handle.open /\ handle.moved = FALSE /\ ~handle.dirty
  BY <1>1, NotOpen DEF OpenPCs
<1>3. Journals
  BY Steady
<1>4. ASSUME Recovered, UNCHANGED <<run, handle>>, Journals', Owed' = Owed, ~backup'.there
      PROVE  UInv' /\ Still
  <2>1. pc' \in {"setaside", "scan"}
    BY <1>4 DEF Recovered
  <2>2. Replacing'
    BY <2>1, <1>4 DEF Replacing
  <2> QED
    BY <1>1, <1>2, <1>4, <2>1, <2>2, Replaces DEF Still
<1>5. CASE EndRun /\ UNCHANGED <<journal, backup>>
  BY <1>1, <1>2, <1>5, EndsStill
<1>6. CASE RecoverNothing
  <2>1. Journals' /\ Owed' = Owed
    BY <1>1, <1>3, <1>6, SameDisk DEF RecoverNothing
  <2> QED
    BY <1>4, <1>6, <2>1 DEF RecoverNothing
<1>7. CASE RecoverCommitted
  <2>1. Superseded /\ backup' = Absent /\ UNCHANGED journal
    BY <1>7 DEF RecoverCommitted, Superseded
  <2>2. ~backup'.there /\ backup'.entries = <<>>
    BY <2>1 DEF Absent
  <2>3. Journals' /\ Owed' = Owed
    BY <1>1, <1>3, <2>1, <2>2 DEF Journals, Owed, Live, Superseded, First, FirstMoved
  <2> QED
    BY <1>4, <1>7, <2>2, <2>3 DEF RecoverCommitted
<1>8. CASE RecoverUncommitted
  <2>1. ~Superseded /\ backup.there /\ journal' = Absent /\ UNCHANGED <<backup, run, handle>>
        /\ pc' = "reinstate"
    BY <1>8 DEF RecoverUncommitted, Superseded
  <2>2. ~journal'.there /\ journal'.entries = <<>> /\ ~Superseded'
    BY <2>1 DEF Absent, Superseded
  <2>3. Journals' /\ Owed' = Owed
    BY <1>1, <1>3, <2>1, <2>2, NothingToReplay DEF Journals, Owed, Live
  <2>4. Replacing'
    BY <2>1, <2>2 DEF Replacing
  <2> QED
    BY <1>1, <1>2, <2>1, <2>3, <2>4, Replaces DEF Still
<1>9. CASE Reinstate /\ journal' = backup /\ backup' = Absent /\ Recovered /\ UNCHANGED <<run, handle>>
  <2>1. ~Superseded /\ backup.there /\ ~backup'.there /\ backup'.entries = <<>>
    BY <1>1, <1>9 DEF Superseded, Absent, Reinstate
  <2>2. Journals' /\ Owed' = Owed
    BY <1>1, <1>3, <1>9, <2>1 DEF Journals, Owed, Live
  <2> QED
    BY <1>4, <1>9, <2>1, <2>2
<1> QED
  BY <1>5, <1>6, <1>7, <1>8, <1>9 DEF RecoverStep, RecoverRefuse, Reinstate

LEMMA SetAsideUndo ==
    ASSUME Known, SetAside
    PROVE  UInv' /\ Still
<1>1. pc = "setaside" /\ UNCHANGED <<loc, row>> /\ ~backup.there
  BY DEF SetAside, Known, UInv, Replacing
<1>2. ~handle.open /\ handle.moved = FALSE /\ ~handle.dirty /\ Journals
  BY <1>1, NotOpen, Steady DEF OpenPCs
<1>3. CASE EndRun /\ UNCHANGED <<journal, backup>>
  BY <1>1, <1>2, <1>3, EndsStill
<1>4. CASE /\ IF journal.there THEN journal' = Absent /\ backup' = journal
              ELSE UNCHANGED <<journal, backup>>
           /\ pc' = "create" /\ UNCHANGED <<run, handle>>
  <2>1. \/ ~journal'.there /\ journal'.entries = <<>> /\ ~Superseded /\ ~Superseded'
        \/ journal.there
    BY <1>2, <1>4 DEF Journals, Superseded
  <2>2. ~journal'.there /\ journal'.entries = <<>> /\ ~Superseded'
    BY <1>2, <1>4 DEF Journals, Superseded, Absent
  <2>3. Journals' /\ Owed' = Owed
    <3>1. CASE journal.there
      BY <3>1, <1>1, <1>2, <1>4, <2>2, NothingToReplay DEF Journals, Owed, Live
    <3>2. CASE ~journal.there
      BY <3>2, <1>1, <1>2, <1>4, SameDisk
    <3> QED
      BY <3>1, <3>2
  <2>4. Replacing'
    BY <1>4, <2>2 DEF Replacing
  <2> QED
    BY <1>1, <1>2, <1>4, <2>3, <2>4, Replaces DEF Still
<1> QED
  BY <1>3, <1>4 DEF SetAside

\* A journal that owes nothing can be created, headed or discarded freely.
LEMMA OwesNothing ==
    ASSUME Known, UNCHANGED <<loc, row, backup>>,
           NoneDue(loc, journal.entries), NoneDue(loc, journal'.entries),
           Replayable(loc, row, journal'.entries), journal'.entries \in Seq(Move),
           ~journal'.there => journal'.entries = <<>>
    PROVE  Journals' /\ Owed' = Owed
<1>1. ~Superseded
  BY Steady, SupersededIs, EmptySeq DEF NoneDue, Begun
<1>2. ~Superseded'
  <2>1. journal'.entries # <<>> => ~Due(loc, journal'.entries[1]) /\ First' = journal'.entries[1]
    BY EmptySeq DEF NoneDue, First
  <2> QED
    BY <2>1 DEF Superseded, FirstMoved, Due
<1>3. DueIn(loc, journal.entries) = {} /\ DueIn(loc, journal'.entries) = {}
  BY Steady, NoneDueEmpty
<1>4. Journals'
  BY <1>1, <1>2, Steady DEF Journals
<1>5. Live(journal) = {} /\ Live(journal)' = {}
  BY <1>3 DEF Live, DueIn, Due
<1>6. Live(backup)' = Live(backup)
  BY DEF Live
<1>7. Owed' = Owed
  BY <1>1, <1>2, <1>5, <1>6 DEF Owed
<1> QED
  BY <1>4, <1>7

LEMMA CreateUndo ==
    ASSUME Known, CreateJournal
    PROVE  UInv' /\ Still
<1>1. /\ pc = "create" /\ UNCHANGED <<loc, row, backup, run, handle>>
      /\ journal.entries = <<>> /\ journal'.entries = <<>>
      /\ pc' \in {"header", "discard"} /\ (pc' = "header" => journal'.there)
  BY Steady DEF CreateJournal, FilesUnchanged, Known, UInv, Replacing, Journals, Absent
<1>2. ~handle.open /\ handle.moved = FALSE /\ ~handle.dirty
  BY <1>1, NotOpen DEF OpenPCs
<1>3. Journals' /\ Owed' = Owed
  BY <1>1, NothingToReplay, OwesNothing
<1>4. Replacing'
  BY <1>1, NothingToReplay DEF Replacing, Known, UInv
<1> QED
  BY <1>1, <1>2, <1>3, <1>4, Replaces DEF Still

LEMMA HeaderUndo ==
    ASSUME Known, WriteHeader
    PROVE  UInv' /\ Still
<1>1. /\ pc = "header" /\ UNCHANGED <<loc, row, backup, run>> /\ run.op = "apply"
      /\ journal.entries = <<>> /\ journal.there /\ journal'.there
      /\ journal'.entries = <<>>
  BY Steady DEF WriteHeader, FilesUnchanged, Known, UInv, Opening, JournalInv, HandleInv, Journal,
     TypeInv, InHand, ApplyOnly
<1>2. ~handle.open /\ handle.moved = FALSE /\ ~handle.dirty
  BY <1>1, NotOpen DEF OpenPCs
<1>3. Journals' /\ Owed' = Owed
  BY <1>1, NothingToReplay, OwesNothing
<1>4. CASE pc' = "discard" /\ handle' = handle
  <2>1. Replacing'
    BY <1>1, <1>4, NothingToReplay DEF Replacing
  <2> QED
    BY <1>1, <1>2, <1>3, <1>4, <2>1, Replaces DEF Still
<1>5. CASE pc' = "append" /\ handle' = Opened
  <2>1. handle'.open /\ handle'.moved = FALSE /\ ~handle'.dirty
    BY <1>5 DEF Opened, Closed
  <2>2. InPlace'
    BY <1>1, <1>5 DEF Known, UInv, InPlace, Head1
  <2>3. Unmoved'
    BY <1>1 DEF Unmoved
  <2>4. Opening' /\ Undoing'
    <3>1. run'.op = "apply" /\ pc' = "append"
      BY <1>1, <1>5
    <3>2. NoneDue(loc', journal'.entries)
      BY <1>1, NothingToReplay
    <3> QED
      BY <1>1, <2>1, <3>1, <3>2 DEF Opening, Undoing
  <2>5. Replacing'
    BY <1>1, <1>5, NothingToReplay DEF Replacing
  <2> QED
    BY <1>1, <1>2, <1>3, <2>1, <2>2, <2>3, <2>4, <2>5 DEF UInv, Still
<1> QED
  BY <1>4, <1>5 DEF WriteHeader

\* The lines change but not what they owe, nor whether the first one is due.
LEMMA SameLines ==
    ASSUME Known, UNCHANGED <<loc, row, backup>>, journal'.there = journal.there,
           journal'.entries \in Seq(Move), Replayable(loc, row, journal'.entries),
           DueIn(loc, journal'.entries) = DueIn(loc, journal.entries),
           Begun(loc, journal'.entries) <=> Begun(loc, journal.entries),
           journal.there
    PROVE  /\ Journals' /\ Owed' = Owed /\ Superseded' = Superseded
           /\ NoneDue(loc, journal.entries) => NoneDue(loc, journal'.entries)
<1>1. Superseded' <=> journal'.there /\ Begun(loc, journal'.entries)
  BY DEF Superseded, FirstMoved, First, Begun, Due
<1>2. Superseded' = Superseded
  BY <1>1, Steady, SupersededIs DEF Superseded
<1>3. Journals'
  BY <1>2, Steady DEF Journals
<1>4. Live(journal)' = Live(journal) /\ Live(backup)' = Live(backup)
  BY DEF Live, DueIn, Due
<1>5. Owed' = Owed
  BY <1>2, <1>4 DEF Owed
<1> QED
  BY <1>2, <1>3, <1>5, Steady, NoneDueEmpty

\* The line an append writes ahead of the move in hand, after the lines kept.
LEMMA MoveAhead ==
    ASSUME Known, pc = "append",
           NEW kept \in Seq(Move), Replayable(loc, row, kept),
           \A i \in 1..Len(kept) : i \in 1..Len(journal.entries) /\ kept[i] = journal.entries[i]
    PROVE  LET s == Append(kept, InverseMove(Head1))
           IN  /\ s \in Seq(Move) /\ Replayable(loc, row, s)
               /\ DueIn(loc, s) = DueIn(loc, kept)
               /\ Begun(loc, s) <=> Begun(loc, kept)
               /\ \A i \in 1..Len(s) : \A f \in FilesOf(Tail(run.todo)) : loc[f] # s[i].dst
<1> DEFINE e == InverseMove(Head1)
           s == Append(kept, e)
<1>1. /\ TypeOK /\ handle.open /\ run.op = "apply" /\ run.todo # <<>> /\ run.todo \in Seq(Move)
      /\ Distinct(run.todo) /\ journal.entries \in Seq(Move) /\ e \in Move
      /\ FilesOf(journal.entries) \cap FilesOf(run.todo) = {}
      /\ Head1 = Head(run.todo) /\ Head1.file \in Files
  BY Steady, EntriesType, HeadOfTodo
     DEF Known, TypeInv, InHand, ApplyOnly, JournalInv, HandleInv, OnceEach, ToJournal, Closing, Head1
<1>2. e.file = Head1.file /\ e.src = Head1.dst /\ e.dst = Head1.src
  BY DEF InverseMove
<1>3. loc[e.file] = e.dst /\ e.src # e.dst
  BY <1>1, <1>2 DEF Known, UInv, InPlace
<1>4. /\ FilesOf(Tail(run.todo)) \subseteq FilesOf(run.todo)
      /\ Head1.file \in FilesOf(run.todo) /\ Head1.file \notin FilesOf(Tail(run.todo))
  BY <1>1, TailFiles
<1>5. \A i \in 1..Len(journal.entries) : \A f \in FilesOf(run.todo) : loc[f] # journal.entries[i].dst
  BY <1>1 DEF Known, UInv, Unmoved, ToJournal, Closing
<1>6. e.file \notin FilesOf(kept) /\ \A i \in 1..Len(kept) : kept[i].dst # e.dst
  <2>1. FilesOf(kept) \subseteq FilesOf(journal.entries)
    BY DEF FilesOf
  <2>2. e.file \notin FilesOf(kept)
    BY <2>1, <1>1, <1>2, <1>4
  <2>3. \A i \in 1..Len(kept) : kept[i].dst # e.dst
    BY <1>2, <1>3, <1>4, <1>5
  <2> QED
    BY <2>2, <2>3
<1>7. Len(s) = Len(kept) + 1 /\ s[Len(kept) + 1] = e /\ (\A i \in 1..Len(kept) : s[i] = kept[i])
      /\ s \in Seq(Move) /\ Len(kept) \in Nat
  BY <1>1, AppendFiles
<1> HIDE DEF e, s
<1>8. Replayable(loc, row, Append(kept, e)) /\ DueIn(loc, Append(kept, e)) = DueIn(loc, kept)
      /\ (Begun(loc, Append(kept, e)) <=> Begun(loc, kept))
  <2>1. loc \in [Files -> Paths] /\ row \in [Files -> Paths] /\ e \in Move
    BY <1>1, Steady
  <2> QED
    BY <2>1, <1>3, <1>6, LineAhead
<1>9. ASSUME NEW i \in 1..Len(s), NEW f \in FilesOf(Tail(run.todo)) PROVE loc[f] # s[i].dst
  <2>1. CASE i \in 1..Len(kept)
    BY <2>1, <1>4, <1>5, <1>7
  <2>2. CASE i = Len(kept) + 1
    <3>1. f \in Files
      <4>1. Tail(run.todo) \in Seq(Move)
        BY <1>1, HeadOfTodo
      <4> QED
        BY <4>1, EntryType DEF FilesOf
    <3>2. f # e.file /\ loc[f] # loc[e.file]
      BY <3>1, <1>1, <1>2, <1>4 DEF Known, Apart
    <3> QED
      BY <2>2, <3>2, <1>3, <1>7
  <2> QED
    BY <2>1, <2>2, <1>7
<1> QED
  BY <1>7, <1>8, <1>9 DEF s, e

LEMMA AppendUndo ==
    ASSUME Known, AppendAhead
    PROVE  UInv' /\ Still
<1>1. /\ pc = "append" /\ pc' = "move" /\ UNCHANGED <<loc, row, backup, run>> /\ run.op = "apply"
      /\ run.todo # <<>> /\ handle.open /\ journal.there /\ TypeOK
  BY Steady DEF AppendAhead, FilesUnchanged, Known, TypeInv, InHand, ApplyOnly, JournalInv, HandleInv,
     UInv, Opening
<1>2. handle'.open /\ handle'.moved = handle.moved /\ ~handle'.dirty
  BY <1>1, Steady DEF AppendAhead, Handle
<1> DEFINE es == journal.entries
           kept == IF handle.dirty THEN Overwritten ELSE es
           t == Append(kept, InverseMove(Head1))
<1>3. journal'.entries = t /\ journal'.there
  <2>1. CASE handle.dirty
    BY <2>1 DEF AppendAhead
  <2>2. CASE ~handle.dirty
    <3>1. journal' = [journal EXCEPT !.entries = Append(@, InverseMove(Head1))]
      BY <2>2 DEF AppendAhead
    <3> QED
      BY <1>1, <2>2, <3>1, Steady DEF Journal
  <2> QED
    BY <2>1, <2>2
<1>4. /\ kept \in Seq(Move) /\ Replayable(loc, row, kept) /\ DueIn(loc, kept) = DueIn(loc, es)
      /\ Begun(loc, kept) <=> Begun(loc, es)
      /\ \A i \in 1..Len(kept) : i \in 1..Len(es) /\ kept[i] = es[i]
  <2>1. es \in Seq(Move) /\ Replayable(loc, row, es)
    BY Steady DEF Journals
  <2>2. CASE handle.dirty
    <3>1. es # <<>> /\ ~Due(loc, es[Len(es)])
      BY <1>1, <2>2 DEF Known, UInv, Opening, Last
    <3>2. /\ Overwritten \in Seq(Move) /\ Len(Overwritten) = Len(es) - 1
          /\ \A i \in 1..Len(Overwritten) : Overwritten[i] = es[i]
      BY <1>1, <3>1, OverwrittenLines
    <3>3. /\ Replayable(loc, row, Overwritten) /\ DueIn(loc, Overwritten) = DueIn(loc, es)
          /\ Begun(loc, Overwritten) <=> Begun(loc, es)
      BY <2>1, <3>1, <3>2, Steady, LineTakenBack
    <3>4. \A i \in 1..Len(Overwritten) : i \in 1..Len(es)
      BY <2>1, <3>2
    <3> QED
      BY <2>2, <3>2, <3>3, <3>4
  <2>3. CASE ~handle.dirty
    BY <2>1, <2>3
  <2> QED
    BY <2>2, <2>3
<1> HIDE DEF es, kept
<1>5. /\ t \in Seq(Move) /\ Replayable(loc, row, t) /\ DueIn(loc, t) = DueIn(loc, kept)
      /\ Begun(loc, t) <=> Begun(loc, kept)
      /\ \A i \in 1..Len(t) : \A f \in FilesOf(Tail(run.todo)) : loc[f] # t[i].dst
  BY <1>1, <1>4, MoveAhead DEF es
<1> HIDE DEF t
<1>6. /\ Journals' /\ Owed' = Owed /\ Superseded' = Superseded
      /\ NoneDue(loc, es) => NoneDue(loc, t)
  BY <1>1, <1>3, <1>4, <1>5, SameLines DEF es
<1>7. InPlace'
  BY <1>1 DEF Known, UInv, InPlace, Head1
<1>8. Unmoved'
  BY <1>1, <1>3, <1>5 DEF Unmoved, ToJournal
<1>9. Opening'
  BY <1>1, <1>2, <1>3, <1>6 DEF Known, UInv, Opening, es
<1>10. Replacing' /\ Undoing'
  BY <1>1 DEF Replacing, Undoing
<1> QED
  BY <1>1, <1>2, <1>6, <1>7, <1>8, <1>9, <1>10 DEF UInv, Still

LEMMA AppendFailsUndo ==
    ASSUME Known, AppendFails
    PROVE  UInv' /\ Still
<1>1. /\ pc = "append" /\ pc' = "finish" /\ UNCHANGED <<loc, row, backup, handle>>
      /\ run.op = "apply" /\ handle.open /\ journal.there /\ TypeOK
  BY Steady DEF AppendFails, FilesUnchanged, Known, TypeInv, InHand, ApplyOnly, JournalInv, HandleInv,
     UInv, Opening
<1>2. run'.op = "apply"
  BY <1>1, Steady DEF AppendFails, Run
<1>3. journal.entries \in Seq(Move) /\ Replayable(loc, row, journal.entries)
  BY Steady DEF Journals
<1>4. /\ journal'.there
      /\ \/ journal'.entries = journal.entries
         \/ ~handle.dirty /\ journal'.entries = Append(journal.entries, InverseMove(Head1))
  BY <1>1, Steady DEF AppendFails, Journal
<1>5. /\ Journals' /\ Owed' = Owed /\ Superseded' = Superseded
      /\ NoneDue(loc, journal.entries) => NoneDue(loc, journal'.entries)
  <2>1. CASE journal'.entries = journal.entries
    BY <1>1, <1>3, <1>4, <2>1, SameLines
  <2>2. CASE journal'.entries = Append(journal.entries, InverseMove(Head1))
    BY <1>1, <1>3, <1>4, <2>2, MoveAhead, SameLines
  <2> QED
    BY <1>4, <2>1, <2>2
<1>6. Opening'
  BY <1>1, <1>4, <1>5 DEF Known, UInv, Opening, Last
<1>7. InPlace' /\ Unmoved' /\ Replacing' /\ Undoing'
  BY <1>1, <1>2 DEF InPlace, Unmoved, Closing, Replacing, Undoing
<1> QED
  BY <1>1, <1>5, <1>6, <1>7 DEF UInv, Still

LEMMA RollbackUndo ==
    ASSUME Known, Rollback
    PROVE  UInv' /\ Still
<1> DEFINE es == journal.entries
<1>1. /\ pc = "rollback" /\ pc' = "next" /\ UNCHANGED <<loc, row, backup>>
      /\ run.op = "apply" /\ run.todo # <<>> /\ run' = Released /\ handle.open /\ journal.there /\ TypeOK
  BY Steady DEF Rollback, FilesUnchanged, Known, TypeInv, InHand, ApplyOnly, JournalInv, HandleInv,
     UInv, Opening
<1>2. run'.op = "apply" /\ run'.todo = Tail(run.todo)
  BY <1>1, RunFields
<1>3. es # <<>> /\ Last = InverseMove(Head1) /\ ~handle.dirty
  BY <1>1 DEF Known, JournalInv, StakeInv, AtStake
<1>4. ~Due(loc, Last)
  BY <1>1, <1>3 DEF InverseMove, Due, Known, UInv, InPlace
<1>5. es \in Seq(Move) /\ Replayable(loc, row, es)
  BY Steady DEF Journals
<1>6. /\ Overwritten \in Seq(Move) /\ Len(Overwritten) = Len(es) - 1
      /\ \A i \in 1..Len(Overwritten) : i \in 1..Len(es) /\ Overwritten[i] = es[i]
  <2>1. /\ Overwritten \in Seq(Move) /\ Len(Overwritten) = Len(es) - 1
        /\ \A i \in 1..Len(Overwritten) : Overwritten[i] = es[i]
    BY <1>1, <1>3, OverwrittenLines
  <2>2. Len(es) \in Nat
    BY <1>5
  <2> QED
    BY <2>1, <2>2
<1>7. /\ Replayable(loc, row, Overwritten) /\ DueIn(loc, Overwritten) = DueIn(loc, es)
      /\ Begun(loc, Overwritten) <=> Begun(loc, es)
  BY <1>3, <1>4, <1>5, <1>6, Steady, LineTakenBack DEF Last
<1>8. \A i \in 1..Len(es) : \A f \in FilesOf(Tail(run.todo)) : loc[f] # es[i].dst
  BY <1>1 DEF Known, UInv, Unmoved, ToJournal, Closing
<1>9. /\ handle'.open /\ handle'.moved = handle.moved /\ journal'.there
      /\ \/ handle' = handle /\ journal'.entries = Overwritten
         \/ journal' = journal
  BY <1>1, Steady DEF Rollback, Handle, Journal
<1> HIDE DEF es
<1>10. /\ Journals' /\ Owed' = Owed /\ Superseded' = Superseded
       /\ NoneDue(loc, es) => NoneDue(loc, journal'.entries)
  <2>1. CASE journal' = journal
    BY <1>1, <1>5, <2>1, SameLines DEF es
  <2>2. CASE journal'.entries = Overwritten
    BY <1>1, <1>6, <1>7, <1>9, <2>2, SameLines DEF es
  <2> QED
    BY <1>9, <2>1, <2>2
<1>11. Unmoved'
  <2>1. ToJournal' = Tail(run.todo)
    BY <1>1, <1>2 DEF ToJournal
  <2> QED
    BY <1>1, <1>6, <1>8, <1>9, <2>1 DEF Unmoved, es
<1>12. Opening'
  BY <1>1, <1>3, <1>4, <1>9, <1>10 DEF Known, UInv, Opening, Last, es
<1>13. InPlace' /\ Replacing' /\ Undoing'
  BY <1>1, <1>2 DEF InPlace, Replacing, Undoing
<1> QED
  BY <1>1, <1>9, <1>10, <1>11, <1>12, <1>13 DEF UInv, Still

LEMMA CommitUndo ==
    ASSUME Known, Commit
    PROVE  UInv' /\ Still
<1>1. /\ pc = "commit" /\ pc' = "row" /\ UNCHANGED <<loc, row, journal, run>>
      /\ run.op = "apply" /\ handle.open /\ handle.moved /\ Superseded
      /\ backup' \in {backup, Absent}
  BY DEF Commit, FilesUnchanged, Known, TypeInv, InHand, ApplyOnly, JournalInv, HandleInv,
     UInv, Opening, InPlace
<1>2. handle'.open = handle.open /\ handle'.moved = handle.moved /\ handle'.dirty = handle.dirty
  BY Steady DEF Commit, Handle
<1>3. Superseded' /\ Live(journal)' = Live(journal)
  BY <1>1 DEF Superseded, First, FirstMoved, Live
<1>4. Journals' /\ Owed' = Owed
  BY <1>1, <1>3, Steady DEF Journals, Owed, Absent
<1>5. InPlace' /\ Unmoved'
  BY <1>1, <1>2 DEF Known, UInv, InPlace, Unmoved, Head1, ToJournal, Closing
<1>6. Opening' /\ Replacing' /\ Undoing'
  BY <1>1, <1>2, <1>3 DEF Known, UInv, Opening, Replacing, Undoing, Last
<1> QED
  BY <1>1, <1>2, <1>4, <1>5, <1>6 DEF UInv, Still

LEMMA JournalStepUndo ==
    ASSUME Known, JournalStep
    PROVE  UInv' /\ Still
BY SetAsideUndo, CreateUndo, HeaderUndo, AppendUndo, AppendFailsUndo, RollbackUndo, CommitUndo
   DEF JournalStep

(***************************************************************************)
(* The renames, which are what UndoLog sees.                               *)
(***************************************************************************)
LEMMA MoveOfApply ==
    ASSUME Known, MoveFile, run.op = "apply"
    PROVE  UInv' /\ Abstract!MoveFile(Head1.file, Head1.dst)
<1> DEFINE es == journal.entries
           e == InverseMove(Head1)
<1>1. /\ pc = "move" /\ pc' = "commit" /\ UNCHANGED <<row, journal, backup, run>>
      /\ run.todo # <<>> /\ handle.open /\ journal.there /\ TypeOK
      /\ loc' = [loc EXCEPT ![Head1.file] = Head1.dst]
      /\ ~OnDisk(Head1.dst)
  BY Steady DEF MoveFile, Known, TypeInv, InHand, JournalInv, HandleInv, UInv, Opening
<1>2. handle'.open /\ handle'.moved = TRUE /\ handle'.dirty = handle.dirty
  BY <1>1, Steady DEF MoveFile, Handle
<1>3. /\ es # <<>> /\ e = es[Len(es)] /\ ~handle.dirty
      /\ \A i \in 1..Len(es) : i = Len(es) \/ Due(loc, es[i])
  BY <1>1 DEF Known, JournalInv, StakeInv, LinesInv, AtStake, Closing, Last, Due
<1>4. /\ row[Head1.file] = Head1.src /\ loc[Head1.file] = Head1.src /\ Head1.src # Head1.dst
      /\ Head1.file \in Files /\ Head1.dst \in Paths
  BY <1>1, HeadOfTodo DEF Known, UInv, InPlace
<1>5. e.file = Head1.file /\ e.src = Head1.dst /\ e.dst = Head1.src
  BY DEF InverseMove
<1>6. /\ es \in Seq(Move) /\ Replayable(loc, row, es) /\ loc \in [Files -> Paths]
      /\ row \in [Files -> Paths] /\ Len(es) \in Nat \ {0}
  BY <1>3, Steady, EmptySeq DEF Journals
<1>7. /\ \A f \in Files : loc[f] = e.dst => f = e.file
      /\ \A g \in Files : loc[g] # e.src
      /\ e \in Move
  BY <1>1, <1>4, <1>5, EntriesType DEF Known, Apart, OnDisk
<1>8. loc[e.file] = e.dst /\ row[e.file] = e.dst /\ loc' = [loc EXCEPT ![e.file] = e.src]
  BY <1>1, <1>4, <1>5
<1> HIDE DEF es, e
<1>9. /\ Replayable(loc', row, es) /\ DueIn(loc', es) = DueIn(loc, es) \cup {e}
      /\ Due(loc', e) /\ \A i \in 1..Len(es) : Due(loc, es[i]) => Due(loc', es[i])
  <2> DEFINE m == [loc EXCEPT ![es[Len(es)].file] = es[Len(es)].src]
  <2>1. es # <<>> /\ e = es[Len(es)]
    BY <1>3
  <2>2. /\ es \in Seq(Move) /\ Replayable(loc, row, es) /\ e \in Move
        /\ loc \in [Files -> Paths] /\ row \in [Files -> Paths]
        /\ loc[e.file] = e.dst /\ row[e.file] = e.dst
    BY <1>6, <1>7, <1>8
  <2>3. \A f \in Files : loc[f] = e.dst => f = e.file
    BY <1>7
  <2>4. \A g \in Files : loc[g] # e.src
    BY <1>7
  <2>5. /\ Replayable(m, row, es) /\ DueIn(m, es) = DueIn(loc, es) \cup {e}
        /\ Due(m, e) /\ \A i \in 1..Len(es) : Due(loc, es[i]) => Due(m, es[i])
    BY <2>1, <2>2, <2>3, <2>4, MovedForward
  <2>6. loc' = m
    BY <1>8, <2>1
  <2> HIDE DEF m
  <2> QED
    BY <2>5, <2>6
<1>10. ASSUME handle.moved PROVE Begun(loc', es) /\ DueIn(loc, es) = Owed
  <2>1. Superseded
    BY <1>1, <1>10 DEF Known, UInv, Opening
  <2>2. Begun(loc, es)
    BY <1>1, <2>1, SupersededIs DEF es
  <2>3. Owed = DueIn(loc, es)
    BY <2>1, OwedIs DEF es
  <2> QED
    BY <1>6, <1>9, <2>2, <2>3 DEF Begun
<1>11. ASSUME ~handle.moved PROVE Begun(loc', es) /\ DueIn(loc, es) = {}
  <2>1. NoneDue(loc, es)
    BY <1>1, <1>11 DEF Known, UInv, Opening, es
  <2>2. Len(es) = 1
    <3>1. 1 \in 1..Len(es)
      BY <1>6
    <3> QED
      BY <3>1, <1>3, <2>1 DEF NoneDue
  <2>3. DueIn(loc, es) = {}
    BY <1>6, <2>1, NoneDueEmpty
  <2> QED
    BY <1>3, <1>9, <2>2, <2>3 DEF Begun
<1>12. Begun(loc', es) /\ DueIn(loc, es) = IF handle.moved THEN Owed ELSE {}
  BY <1>10, <1>11
<1>13. Superseded' /\ Live(journal)' = DueIn(loc', es)
  BY <1>1, <1>12 DEF Superseded, First, FirstMoved, Begun, Due, Live, DueIn, es
<1>14. Journals'
  BY <1>1, <1>9, <1>13, Steady DEF Journals, es
<1>15. Owed' = (IF handle.moved THEN Owed ELSE {}) \cup {e}
  BY <1>9, <1>12, <1>13 DEF Owed
<1>16. InPlace'
  BY <1>1, <1>2, <1>4, <1>6 DEF InPlace, Head1
<1>17. Unmoved'
  <2>1. \A i \in 1..Len(es) : \A f \in FilesOf(Tail(run.todo)) : loc[f] # es[i].dst
    BY <1>1 DEF Known, UInv, Unmoved, ToJournal, Closing, es
  <2>2. Head1.file \notin FilesOf(Tail(run.todo)) /\ Tail(run.todo) \in Seq(Move)
    BY <1>1, Steady, HeadOfTodo, TailFiles DEF Known, JournalInv, HandleInv, Head1
  <2>3. \A f \in FilesOf(Tail(run.todo)) : f \in Files /\ f # Head1.file
    BY <2>2, EntryType DEF FilesOf
  <2>4. \A f \in FilesOf(Tail(run.todo)) : loc'[f] = loc[f]
    BY <1>1, <1>6, <2>3
  <2>5. ToJournal' = Tail(run.todo)
    BY <1>1 DEF ToJournal
  <2> QED
    BY <1>1, <2>1, <2>4, <2>5 DEF Unmoved, es
<1>18. Opening' /\ Replacing' /\ Undoing'
  BY <1>1, <1>2, <1>3, <1>13 DEF Opening, Replacing, Undoing
<1>19. Abstract!MoveFile(Head1.file, Head1.dst)
  <2>1. e = [file |-> Head1.file, src |-> Head1.dst, dst |-> loc[Head1.file]]
    BY <1>4 DEF e, InverseMove
  <2> QED
    BY <1>1, <1>2, <1>15, <2>1 DEF Abstract!MoveFile, Abstract!Free, OnDisk
<1> QED
  BY <1>14, <1>16, <1>17, <1>18, <1>19 DEF UInv

LEMMA MoveOfUndo ==
    ASSUME Known, MoveFile, run.op = "undo"
    PROVE  UInv' /\ Head1 \in Owed /\ Abstract!PutBack(Head1)
<1> DEFINE es == journal.entries
           k == Len(run.todo)
<1>1. /\ pc = "move" /\ pc' = "row" /\ UNCHANGED <<row, journal, backup, run>>
      /\ run.todo # <<>> /\ ~backup.there /\ Due(loc, Head1) /\ TypeOK
      /\ loc' = [loc EXCEPT ![Head1.file] = Head1.dst]
  BY Steady DEF MoveFile, Known, TypeInv, InHand, UInv, Undoing, Replacing
<1>2. ~handle.open /\ handle.moved = FALSE /\ ~handle.dirty
  BY NotOpen
<1>3. ~handle'.open /\ handle'.moved = FALSE /\ ~handle'.dirty
  BY <1>2, Steady DEF MoveFile, Handle
<1>4. /\ Reached(loc, es, run.todo) /\ ClaimedFrom(es, run.claimed, k)
      /\ Replayable(loc, row, es) /\ es \in Seq(Move) /\ run.todo \in Seq(Move)
      /\ loc \in [Files -> Paths] /\ row \in [Files -> Paths]
  BY <1>1, Steady DEF UInv, Undoing, Journals
<1>5. k \in 1..Len(es) /\ Head1 = es[k]
  BY <1>1, <1>4, ReplayHead DEF Head1
<1> HIDE DEF es, k
<1>6. \A i \in 1..Len(es) : i > k => ~Due(loc, es[i])
  BY <1>4 DEF Reached, k
<1>7. \A g \in Files : loc[g] # Head1.dst
  BY <1>1, <1>4, <1>5, <1>6, NobodyThere
<1>8. /\ Replayable(loc', row, es) /\ DueIn(loc', es) = DueIn(loc, es) \ {Head1}
      /\ \A i \in 1..Len(es) : i # k => (Due(loc', es[i]) <=> Due(loc, es[i]))
  BY <1>1, <1>4, <1>5, <1>6, MovedBack
<1>9. Owed = DueIn(loc, es) /\ Owed' = DueIn(loc', es)
  BY <1>1 DEF Owed, Live, DueIn, Due, es
<1>10. Journals'
  BY <1>1, <1>8, Steady DEF Journals, es
<1>11. Reached(loc', es, run.todo)
  <2>1. \A i \in 1..Len(es) : i > Len(run.todo) => ~Due(loc', es[i])
    <3> TAKE i \in 1..Len(es)
    <3> HAVE i > Len(run.todo)
    <3>1. i # k /\ i > k
      BY <1>4, <1>5 DEF k
    <3> QED
      BY <3>1, <1>6, <1>8
  <2> QED
    BY <1>4, <2>1 DEF Reached
<1>12. Undoing'
  BY <1>1, <1>4, <1>11 DEF Undoing, es, k
<1>13. InPlace'
  BY <1>1, <1>4, HeadOfTodo DEF InPlace, Head1
<1>14. Unmoved' /\ Opening' /\ Replacing'
  BY <1>1, <1>3 DEF Unmoved, Opening, Replacing
<1>15. Head1 \in Owed
  BY <1>1, <1>5, <1>9 DEF DueIn
<1>16. Abstract!PutBack(Head1)
  BY <1>1, <1>2, <1>3, <1>7, <1>8, <1>9, <1>15 DEF Abstract!PutBack, Abstract!Free, Due
<1> QED
  BY <1>10, <1>12, <1>13, <1>14, <1>15, <1>16 DEF UInv

\* An undo's rename cannot fail by itself, an apply's is rolled back.
LEMMA MoveFailsUndo ==
    ASSUME Known, "moveback" \notin Faults, MoveFails
    PROVE  UInv' /\ Still
<1>1. pc = "move" /\ UNCHANGED <<loc, row, journal, backup, handle>> /\ run.op \in {"apply", "undo"}
  BY DEF MoveFails, FilesUnchanged, Known, TypeInv, InHand
<1>2. CASE run.op = "apply"
  <2>1. pc' = "rollback" /\ run' = run
    BY <1>2 DEF MoveFails
  <2>2. Journals' /\ Owed' = Owed
    BY <1>1, Steady, SameDisk
  <2>3. InPlace' /\ Unmoved'
    BY <1>1, <1>2, <2>1 DEF Known, UInv, InPlace, Unmoved, ToJournal, Closing, Head1
  <2>4. Opening' /\ Replacing' /\ Undoing'
    BY <1>1, <1>2, <2>1 DEF Known, UInv, Opening, Replacing, Undoing, Superseded, First, FirstMoved, Last
  <2> QED
    BY <1>1, <2>2, <2>3, <2>4 DEF UInv, Still
<1>3. CASE run.op = "undo"
  <2> DEFINE es == journal.entries
             k == Len(run.todo)
  <2>1. run.todo # <<>> /\ Due(loc, Head1)
    BY <1>1, <1>3 DEF Known, TypeInv, InHand, UInv, Undoing
  <2>2. /\ Reached(loc, es, run.todo) /\ Replayable(loc, row, es)
        /\ es \in Seq(Move) /\ run.todo \in Seq(Move)
    BY <1>1, <1>3, Steady DEF UInv, Undoing, Journals
  <2>3. k \in 1..Len(es) /\ Head1 = es[k]
    BY <2>1, <2>2, ReplayHead DEF Head1
  <2>4. \A i \in 1..Len(es) : i > k => ~Due(loc, es[i])
    BY <2>2 DEF Reached
  <2> HIDE DEF es, k
  <2>5. ~OnDisk(Head1.dst)
    BY <2>1, <2>2, <2>3, <2>4, NobodyThere DEF OnDisk
  <2> QED
    BY <1>3, <2>1, <2>5 DEF MoveFails, Fault, Due
<1> QED
  BY <1>1, <1>2, <1>3

LEMMA FileUndo ==
    ASSUME Known, "moveback" \notin Faults, FileStep
    PROVE  UInv' /\ [Abstract!Next]_(Abstract!vars)
<1>1. CASE MoveFile
  <2>1. run.op \in {"apply", "undo"} /\ TypeOK /\ run.todo # <<>>
    BY <1>1, Steady DEF MoveFile, Known, TypeInv, InHand
  <2>2. Head1.file \in Files /\ Head1.dst \in Paths
    BY <2>1, HeadOfTodo
  <2> QED
    BY <1>1, <2>1, <2>2, MoveOfApply, MoveOfUndo DEF Abstract!Next
<1>2. CASE MoveFails
  BY <1>2, MoveFailsUndo DEF Still, Abstract!vars
<1> QED
  BY <1>1, <1>2 DEF FileStep

(***************************************************************************)
(* The catalog rows.                                                       *)
(***************************************************************************)
LEMMA RowDone ==
    ASSUME Known, pc \in {"row", "record"}, pc' = "next", run' = Drop,
           UNCHANGED <<loc, journal, backup, handle>>, Journals'
    PROVE  UInv' /\ Still
<1> DEFINE es == journal.entries
           k == Len(run.todo)
<1>1. run.op \in {"apply", "undo"} /\ run.todo # <<>> /\ TypeOK
  BY Steady DEF Known, TypeInv, InHand
<1>2. run'.op = run.op /\ run'.todo = Tail(run.todo) /\ run'.claimed = run.claimed
  BY <1>1, RunFields, RunKeeps
<1>3. Owed' = Owed
  BY DEF Owed, Live, Superseded, First, FirstMoved
<1>4. InPlace'
  BY DEF InPlace
<1>5. Unmoved'
  BY <1>2 DEF Known, UInv, Unmoved, ToJournal, Closing
<1>6. Opening' /\ Replacing'
  BY <1>2 DEF Known, UInv, Opening, Replacing, Superseded, First, FirstMoved, Last
<1>7. CASE run.op = "undo"
  <2>1. /\ Reached(loc, es, run.todo) /\ ClaimedFrom(es, run.claimed, k)
        /\ Replayable(loc, row, es) /\ es \in Seq(Move) /\ run.todo \in Seq(Move)
        /\ loc[Head1.file] = Head1.dst
    BY <1>7, Steady DEF UInv, Undoing, Journals, InPlace
  <2>0. /\ k \in 1..Len(es) /\ Head1 = es[k] /\ Len(Tail(run.todo)) = k - 1
        /\ ~Due(loc, es[k]) => Reached(loc, es, Tail(run.todo))
    BY <1>1, <2>1, ReplayHead DEF Head1
  <2>2. /\ k \in 1..Len(es) /\ k \in Nat /\ Head1 = es[k] /\ Len(Tail(run.todo)) = k - 1
        /\ ~Due(loc, es[k]) => Reached(loc, es, Tail(run.todo))
    BY <2>0, <2>1
  <2>3. ~Due(loc, es[k])
    BY <2>1, <2>2 DEF Replayable, Traceable, Due
  <2>4. Len(Tail(run.todo)) + 1 = k
    BY <2>2
  <2> HIDE DEF es, k
  <2>5. Undoing'
    BY <1>2, <1>7, <2>1, <2>2, <2>3, <2>4 DEF Undoing, es
  <2> QED
    BY <1>3, <1>4, <1>5, <1>6, <2>5 DEF UInv, Still
<1>8. CASE run.op = "apply"
  <2>1. Undoing'
    BY <1>2, <1>8 DEF Undoing
  <2> QED
    BY <1>3, <1>4, <1>5, <1>6, <2>1 DEF UInv, Still
<1> QED
  BY <1>1, <1>7, <1>8

\* A row that catches up with its file disturbs neither journal.
LEMMA RowMovesUp ==
    ASSUME Known, NEW f \in Files, row' = [row EXCEPT ![f] = loc[f]],
           UNCHANGED <<loc, journal, backup>>
    PROVE  Journals'
<1>1. Replayable(loc, row', journal.entries)
  BY Steady, RowCaughtUp DEF Journals
<1>2. backup.there /\ ~Superseded => Replayable(loc, row', backup.entries)
  BY Steady, RowCaughtUp DEF Journals
<1>3. Superseded' = Superseded
  BY DEF Superseded, First, FirstMoved
<1> QED
  BY <1>1, <1>2, <1>3, Steady DEF Journals

LEMMA RowUndo ==
    ASSUME Known, RowStep
    PROVE  UInv' /\ Still
<1>0. /\ pc \in {"row", "record"} /\ UNCHANGED <<loc, journal, backup, handle>>
      /\ run.todo # <<>> /\ TypeOK /\ loc[Head1.file] = Head1.dst /\ Head1.file \in Files
  BY Steady, HeadOfTodo DEF RowStep, UpdateRow, UpdateRowFails, RecordFailure, RowUnchanged,
     Known, TypeInv, InHand, UInv, InPlace
<1>1. CASE UpdateRow
  <2>1. row' = [row EXCEPT ![Head1.file] = loc[Head1.file]] /\ run' = Drop /\ pc' = "next"
    BY <1>0, <1>1 DEF UpdateRow
  <2> QED
    BY <1>0, <2>1, RowMovesUp, RowDone
<1>2. CASE UpdateRowFails
  <2>1. pc = "row" /\ pc' = "record" /\ UNCHANGED <<row, run>>
    BY <1>2 DEF UpdateRowFails
  <2>2. Journals' /\ Owed' = Owed
    BY <1>0, <2>1, Steady, SameDisk
  <2>3. InPlace' /\ Unmoved' /\ Opening'
    BY <1>0, <2>1 DEF Known, UInv, InPlace, Unmoved, Opening, ToJournal, Closing, Head1,
       Superseded, First, FirstMoved, Last
  <2>4. Replacing' /\ Undoing'
    BY <1>0, <2>1 DEF Known, UInv, Replacing, Undoing
  <2> QED
    BY <1>0, <2>2, <2>3, <2>4 DEF UInv, Still
<1>3. CASE RecordFailure
  <2>1. row' = row /\ run' = Drop /\ pc' = "next"
    BY <1>3 DEF RecordFailure
  <2> QED
    BY <1>0, <2>1, Steady, SameDisk, RowDone
<1> QED
  BY <1>1, <1>2, <1>3 DEF RowStep

(***************************************************************************)
(* The end of a run.                                                       *)
(***************************************************************************)
LEMMA ApplyEndsUndo ==
    ASSUME Known, ApplyEnds
    PROVE  UInv' /\ (Still \/ Abstract!EndRun)
<1>1. /\ UNCHANGED <<loc, row, journal>> /\ EndRun /\ handle'.moved = FALSE
      /\ handle.moved \in BOOLEAN
  BY Steady DEF ApplyEnds, EndRun, Closed, Handle
<1>2. CASE handle.moved
  <2>1. Superseded /\ Superseded' /\ Live(journal)' = Live(journal)
    BY <1>1, <1>2 DEF Known, UInv, Opening, Superseded, First, FirstMoved, Live
  <2>2. backup' = Absent \/ backup' = backup
    BY <1>2 DEF ApplyEnds
  <2>3. Journals' /\ Owed' = Owed
    BY <1>1, <2>1, <2>2, Steady DEF Journals, Owed, Absent
  <2> QED
    BY <1>1, <1>2, <2>3, EndsWell DEF Abstract!EndRun
<1>3. CASE handle.moved = FALSE
  <2>1. backup' = backup
    BY <1>3 DEF ApplyEnds
  <2> QED
    BY <1>1, <1>3, <2>1, EndsStill
<1> QED
  BY <1>1, <1>2, <1>3

\* While its journal is discarded a run has moved nothing.
LEMMA NothingMoved ==
    ASSUME Known, pc \in {"discard", "putback"}
    PROVE  /\ NoneDue(loc, journal.entries) /\ handle.moved = FALSE
           /\ ~Superseded
<1>1. NoneDue(loc, journal.entries)
  BY DEF Known, UInv, Replacing
<1>2. ~Superseded
  BY <1>1, Steady, SupersededIs, EmptySeq DEF NoneDue, Begun
<1> QED
  BY <1>1, <1>2, Steady DEF Known, UInv, Opening, Handle

LEMMA DiscardUndo ==
    ASSUME Known, ApplyEndsUnmoved \/ Discard
    PROVE  UInv' /\ Still
<1>1. /\ UNCHANGED <<loc, row, backup, run, handle>>
      /\ NoneDue(loc, journal.entries) /\ handle.moved = FALSE
      /\ pc' \in {"discard", "putback"}
      /\ journal' = journal \/ (journal' = Absent /\ pc' = "putback")
  BY NothingMoved, Steady
     DEF ApplyEndsUnmoved, Discard, FilesUnchanged, Known, UInv, Opening, Handle
<1>2. Journals' /\ Owed' = Owed /\ NoneDue(loc, journal'.entries)
  <2>1. CASE journal' = journal
    BY <1>1, <2>1, Steady, SameDisk
  <2>2. CASE journal' = Absent
    <3>1. journal'.entries = <<>> /\ ~journal'.there
      BY <2>2 DEF Absent
    <3> QED
      BY <3>1, <1>1, NothingToReplay, OwesNothing
  <2> QED
    BY <1>1, <2>1, <2>2
<1>3. Opening'
  <2>1. pc \in {"finish", "discard"}
    BY DEF ApplyEndsUnmoved, Discard
  <2> QED
    BY <1>1, <1>2, <2>1 DEF Known, UInv, Opening, Last
<1>4. InPlace' /\ Unmoved' /\ Replacing' /\ Undoing'
  BY <1>1, <1>2 DEF InPlace, Unmoved, Closing, Replacing, Undoing
<1> QED
  BY <1>1, <1>2, <1>3, <1>4 DEF UInv, Still

LEMMA PutBackUndo ==
    ASSUME Known, PutBack
    PROVE  UInv' /\ Still
<1>1. /\ EndRun /\ UNCHANGED <<loc, row>> /\ handle.moved = FALSE
      /\ ~Superseded /\ Journals
  BY NothingMoved, Steady DEF PutBack
<1>2. CASE backup.there /\ journal' = backup /\ backup' = Absent
  <2>1. ~backup'.there /\ backup'.entries = <<>>
    BY <1>2 DEF Absent
  <2>2. Journals' /\ Owed' = Owed
    BY <1>1, <1>2, <2>1 DEF Journals, Owed, Live
  <2> QED
    BY <1>1, <2>2, EndsWell DEF Still, EndRun, Closed
<1>3. CASE UNCHANGED <<journal, backup>>
  BY <1>1, <1>3, EndsStill
<1> QED
  BY <1>2, <1>3 DEF PutBack

LEMMA UndoEndsUndo ==
    ASSUME Known, UndoEnds
    PROVE  UInv' /\ Still
<1>1. /\ pc = "finish" /\ run.op = "undo" /\ EndRun /\ UNCHANGED <<loc, row, backup>>
      /\ handle.moved = FALSE
  BY NotOpen DEF UndoEnds
<1>2. CASE journal' = journal
  BY <1>1, <1>2, EndsStill
<1>3. CASE journal' = Absent /\ ~run.failed /\ ~run.cancelled
  <2>1. NoneDue(loc, journal.entries)
    BY <1>1, <1>3 DEF Known, UInv, Undoing
  <2>2. journal'.entries = <<>> /\ ~journal'.there
    BY <1>3 DEF Absent
  <2>3. Journals' /\ Owed' = Owed
    BY <1>1, <2>1, <2>2, NothingToReplay, OwesNothing
  <2> QED
    BY <1>1, <2>3, EndsWell DEF Still, EndRun, Closed
<1> QED
  BY <1>2, <1>3 DEF UndoEnds

LEMMA ScanUndo ==
    ASSUME Known, ScanJournal \/ ScanStops
    PROVE  UInv' /\ Still
<1>1. pc = "scan" /\ UNCHANGED <<loc, row, backup>> /\ run.op = "undo" /\ ~backup.there
  BY DEF ScanJournal, ScanStops, FilesUnchanged, Known, TypeInv, InHand, UInv, Replacing
<1>2. ~handle.open /\ handle.moved = FALSE /\ ~handle.dirty
  BY <1>1, NotOpen
<1>3. CASE ScanJournal
  <2>1. UNCHANGED <<journal, handle>> /\ pc' = "next"
    BY <1>3 DEF ScanJournal
  <2>2. run'.op = "undo" /\ run'.todo = Reverse(journal.entries) /\ run'.claimed = {}
    BY <1>1, <1>3, Steady DEF ScanJournal, Known, UInv, Undoing, Run
  <2>3. Reached(loc, journal.entries, run'.todo)
    BY <2>2, Steady, ReplayStart
  <2>4. Journals' /\ Owed' = Owed
    BY <1>1, <2>1, Steady, SameDisk
  <2>5. Undoing'
    BY <1>1, <2>1, <2>2, <2>3 DEF Undoing, ClaimedFrom
  <2>6. InPlace' /\ Unmoved' /\ Opening' /\ Replacing'
    BY <1>1, <1>2, <2>1, <2>2 DEF InPlace, Unmoved, Opening, Replacing
  <2> QED
    BY <1>1, <2>1, <2>4, <2>5, <2>6 DEF UInv, Still
<1>4. CASE ScanStops /\ journal' = journal
  BY <1>1, <1>2, <1>4, EndsStill DEF ScanStops
<1>5. CASE ScanStops /\ journal' = Absent /\ journal.entries = <<>>
  <2>1. journal'.entries = <<>> /\ ~journal'.there
    BY <1>5 DEF Absent
  <2>2. Journals' /\ Owed' = Owed
    BY <1>1, <1>5, <2>1, NothingToReplay, OwesNothing
  <2> QED
    BY <1>1, <1>2, <1>5, <2>2, EndsWell DEF Still, ScanStops, EndRun, Closed
<1> QED
  BY <1>3, <1>4, <1>5 DEF ScanStops

LEMMA EndUndo ==
    ASSUME Known, EndStep
    PROVE  UInv' /\ (Still \/ Abstract!EndRun)
BY ApplyEndsUndo, DiscardUndo, PutBackUndo, UndoEndsUndo, ScanUndo DEF EndStep

(***************************************************************************)
(* The engine is launched again.                                           *)
(***************************************************************************)
LEMMA StartupUndo ==
    ASSUME Known, StartupStep
    PROVE  UInv' /\ (Still \/ Abstract!EndRun)
<1>1. CASE Restart
  <2>1. /\ UNCHANGED <<loc, row, journal, backup>> /\ pc' \in {"idle", "reconcile"}
        /\ run'.op \in {"none", "startup"} /\ handle' = Closed /\ handle.moved \in BOOLEAN
    BY <1>1, Steady DEF Restart, NewRun, NoRun, Handle
  <2>2. Journals' /\ Owed' = Owed
    BY <2>1, Steady, SameDisk
  <2>3. UInv'
    BY <2>1, <2>2 DEF UInv, InPlace, Unmoved, Opening, Replacing, Undoing, Closed
  <2> QED
    BY <2>1, <2>2, <2>3 DEF Still, Abstract!EndRun, Closed
<1>2. CASE ReconcileOne
  <2>1. /\ pc = "reconcile" /\ pc' = "reconcile" /\ run.op = "startup" /\ run.todo # <<>>
        /\ UNCHANGED <<loc, journal, backup, handle>> /\ run' \in {Drop, Keep} /\ TypeOK
    BY <1>2, Steady DEF ReconcileOne, Known, JournalInv, HandleInv
  <2>2. ~handle.open /\ handle.moved = FALSE /\ ~handle.dirty /\ run'.op = "startup"
    BY <2>1, NotOpen, RunSteps
  <2>3. CASE row' = row
    BY <2>1, <2>2, <2>3, Steady, SameDisk DEF UInv, Still, InPlace, Unmoved, Opening, Replacing, Undoing
  <2>4. CASE row' = [row EXCEPT ![Head1.file] = loc[Head1.file]]
    <3>1. Journals'
      BY <2>1, <2>4, HeadOfTodo, RowMovesUp
    <3>2. Owed' = Owed
      BY <2>1 DEF Owed, Live, Superseded, First, FirstMoved
    <3> QED
      BY <2>1, <2>2, <3>1, <3>2 DEF UInv, Still, InPlace, Unmoved, Opening, Replacing, Undoing
  <2> QED
    BY <1>2, <2>3, <2>4 DEF ReconcileOne, Healable
<1>3. CASE ReconcileEnds
  <2>1. pc = "reconcile" /\ EndRun /\ UNCHANGED <<loc, row, journal, backup>>
    BY <1>3 DEF ReconcileEnds
  <2> QED
    BY <2>1, NotOpen, EndsStill DEF OpenPCs
<1> QED
  BY <1>1, <1>2, <1>3 DEF StartupStep

LEMMA StutterUndo ==
    ASSUME Known, UNCHANGED vars
    PROVE  UInv' /\ Still
<1>1. UNCHANGED <<loc, row, journal, backup, handle, run, pc>>
  BY DEF vars
<1>2. Journals' /\ Owed' = Owed
  BY <1>1, Steady, SameDisk
<1>3. InPlace' /\ Unmoved' /\ Opening'
  BY <1>1 DEF Known, UInv, InPlace, Unmoved, Opening, ToJournal, Closing, Head1,
     Superseded, First, FirstMoved, Last
<1>4. Replacing' /\ Undoing'
  BY <1>1 DEF Known, UInv, Replacing, Undoing, Head1
<1> QED
  BY <1>1, <1>2, <1>3, <1>4 DEF UInv, Still

LEMMA UndoLogStep ==
    ASSUME "moveback" \notin Faults, Known, [Next]_vars
    PROVE  UInv' /\ [Abstract!Next]_(Abstract!vars)
<1>1. Still => UNCHANGED Abstract!vars
  BY DEF Still, Abstract!vars
<1>2. Abstract!EndRun => Abstract!Next
  BY DEF Abstract!Next
<1> QED
  BY <1>1, <1>2, RequestUndo, LoopUndo, RecoverUndo, JournalStepUndo, FileUndo, RowUndo,
     EndUndo, StartupUndo, StutterUndo DEF Next, Done

LEMMA UndoLogInit == Init => Abstract!Init
<1> SUFFICES ASSUME Init PROVE Abstract!Init
  OBVIOUS
<1>1. Owed = {}
  BY DEF Init, Absent, Owed, Live
<1>2. loc \in [Files -> Paths] /\ handle.moved = FALSE
  BY ConstantsAssumption DEF Init, Closed
<1> QED
  BY <1>1, <1>2 DEF Abstract!Init

LEMMA KnownAlways ==
    ASSUME "moveback" \notin Faults
    PROVE  Spec => []Known
<1>1. Init => Known
  <2>1. Init => Apart
    BY ConstantsAssumption DEF Init, Apart
  <2> QED
    BY <2>1, InitTypes, InitJournal, InitUndo DEF Known
<1>2. Known /\ [Next]_vars => Known'
  BY UndoLogStep, TypeInvStep, ApartStep, JournalInvStep DEF Known
<1> QED
  BY <1>1, <1>2, PTL DEF Spec

\* ImplementsUndoLog of RestructureApply: where no rename of a replay fails by
\* itself, every other failure and every crash included, the two journals are
\* an undo log: an entry appears with its move, only the first move of a later
\* run forgets it, and only putting its file back clears it.
THEOREM UndoLogImplemented ==
    ASSUME "moveback" \notin Faults
    PROVE  Spec => ImplementsUndoLog
<1>1. Known /\ [Next]_vars => [Abstract!Next]_(Abstract!vars)
  BY UndoLogStep
<1> QED
  BY <1>1, UndoLogInit, KnownAlways, PTL DEF Spec, ImplementsUndoLog, Abstract!Spec

\* RetryCanFinish of RestructureApply: under the same assumption, between runs
\* every entry of the journal names a file at one end of its move, so asking
\* for the undo again can finish it.
THEOREM RetryAlwaysCanFinish ==
    ASSUME "moveback" \notin Faults
    PROVE  Spec => []RetryCanFinish
<1>1. Known => RetryCanFinish
  BY DEF Known, UInv, Journals, Replayable, Traceable, RetryCanFinish
<1> QED
  BY <1>1, KnownAlways, PTL
=============================================================================
