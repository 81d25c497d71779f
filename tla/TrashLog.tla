------------------------------ MODULE TrashLog ------------------------------
(***************************************************************************)
(* Trash and undo of trash (engine/src/commands/bulk.rs, trash.rs and      *)
(* trash_log.rs, Windows paths): trashFiles journals a batch, claims each  *)
(* file under a hidden sibling name, checks it there, moves the claim to   *)
(* the Recycle Bin, journals the receipts and deletes the catalog rows.    *)
(* restoreFromTrash undoes a batch, and every launch puts back the claims  *)
(* a killed engine left.  The mutation gate runs one of them at a time     *)
(* (CommandDispatch), but the user works on the same files throughout.     *)
(*                                                                         *)
(* A place holds "own", the indexed file, or "other", the file the user    *)
(* puts at its path.  A line that was torn by a failed append is whole no  *)
(* more, nor is the line appended to it.                                   *)
(***************************************************************************)
EXTENDS Naturals, FiniteSets, Sequences

CONSTANTS Files,      \* indexed files, each with a path of its own
          Unref,      \* those the catalog has no file_ref for, only a hash
          MaxBatches, \* bound on trashFiles commands
          MaxUndos,   \* bound on restoreFromTrash commands
          Cap,        \* MAX_ENTRIES
          Torn,       \* whether an append can leave part of its line
          MaxKills,   \* bound on kills of the engine
          MaxUser     \* bound on what the user does to the files

ASSUME TrashAssumption ==
    /\ Unref \subseteq Files
    /\ {MaxBatches, MaxUndos, MaxKills, MaxUser} \subseteq Nat
    /\ Cap \in Nat \ {0}
    /\ Torn \in BOOLEAN

Batches == 1..MaxBatches
Things == {"own", "other"}

VARIABLES orig,    \* [Files -> what its path holds]
          claim,   \* [Batches -> [Files -> what its claim name holds]]
          bin,     \* [Batches -> [Files -> what its Recycle Bin item holds]]
          fate,    \* [Files -> [Things -> "unborn", "alive" or "gone"]]
          row,     \* [Files -> the identity in its row]
          log,     \* the lines of trash_log.json
          torn,    \* whether the last of them lacks its end
          engine,  \* "down", "recovering" or "up"
          job,     \* the operation that runs
          batches, \* batches so far
          offered, \* batches whose result reached the app
          undos, kills, acts \* bounds

files == <<orig, claim, bin, fate>>
journal == <<log, torn>>
bounds == <<batches, undos, kills>>
vars == <<files, row, journal, engine, job, bounds, offered, acts>>

Idle == [op |-> "none", at |-> "idle", batch |-> 0, line |-> 0, ids |-> <<>>,
         was |-> <<>>, item |-> <<>>, receipts |-> {}]
Nowhere == [f \in Files |-> "none"]

Init == /\ orig = [f \in Files |-> "own"]
        /\ claim = [b \in Batches |-> Nowhere]
        /\ bin = [b \in Batches |-> Nowhere]
        /\ fate = [f \in Files |-> [own |-> "alive", other |-> "unborn"]]
        /\ row = [f \in Files |-> IF f \in Unref THEN "noref" ELSE "own"]
        /\ log = <<>>
        /\ torn = FALSE
        /\ engine = "up"
        /\ job = Idle
        /\ batches = 0 /\ offered = {}
        /\ undos = 0 /\ kills = 0 /\ acts = 0

-----------------------------------------------------------------------------
(* The journal.                                                            *)

\* Fault injection: a line with the items that have receipts only.
LineOfReceipts(receipts) == [batch |-> job.batch, ids |-> [f \in receipts |-> job.ids[f]],
                             receipts |-> receipts, whole |-> TRUE]

Line(receipts) == [batch |-> job.batch, ids |-> job.ids, receipts |-> receipts, whole |-> TRUE]

\* A line added to a torn one shares its end of line, and its signature fails.
Written(line) == IF torn THEN log ELSE Append(log, line)
Trimmed(lines) == IF Len(lines) <= Cap THEN lines ELSE SubSeq(lines, Len(lines) - Cap + 1, Len(lines))

\* The trim is best effort: its failure, or a kill before it, leaves the lines.
Appended(line) == /\ torn' = FALSE
                  /\ log' \in {Written(line), Trimmed(Written(line))}

\* Nothing was written, or all of it but not synced, or part of it.
AppendFails(line) ==
    \/ UNCHANGED journal
    \/ torn' = FALSE /\ log' = Written(line)
    \/ Torn /\ torn' = TRUE /\ log' = Written([line EXCEPT !.whole = FALSE])

\* read_batch: the last signed line of the batch.
Found(b) == {i \in DOMAIN log : log[i].whole /\ log[i].batch = b}
Latest(b) == {i \in Found(b) : \A j \in Found(b) : j <= i}

-----------------------------------------------------------------------------
(* trashFiles.                                                             *)

Runs(op, at) == engine = "up" /\ job.op = op /\ job.at = at
\* Fault injection: ids without a row, or without a file, are not left out.
CandidatesAll(S) == S
Candidates(S) == {f \in S : row[f] # "none" /\ orig[f] # "none"}
SetItem(f, s) == job' = [job EXCEPT !.item[f] = s]
Items(s) == {f \in DOMAIN job.item : job.item[f] = s}
Ends == job' = Idle

\* The rows and the identities of the files at their paths are read once.
StartTrash(S) ==
    /\ engine = "up" /\ job = Idle /\ batches < MaxBatches
    /\ Candidates(S) # {}
    /\ batches' = batches + 1
    /\ job' = [Idle EXCEPT !.op = "trash", !.at = "journal", !.batch = batches + 1,
                           !.ids = [f \in Candidates(S) |-> orig[f]],
                           !.was = [f \in Candidates(S) |-> row[f]],
                           !.item = [f \in Candidates(S) |-> "listed"]]
    /\ UNCHANGED <<files, row, journal, engine, offered, undos, kills, acts>>

\* Fault injection: the batch goes on when its line was not written.
JournalTrashAnyway ==
    /\ Runs("trash", "journal")
    /\ Appended(Line({})) \/ AppendFails(Line({}))
    /\ job' = [job EXCEPT !.at = "work"]
    /\ UNCHANGED <<files, row, engine, bounds, offered, acts>>

\* No journal line, no trash.
JournalTrash ==
    /\ Runs("trash", "journal")
    /\ \/ Appended(Line({})) /\ job' = [job EXCEPT !.at = "work"]
       \/ AppendFails(Line({})) /\ Ends
    /\ UNCHANGED <<files, row, engine, bounds, offered, acts>>

\* The identity is the journaled one, and the catalog's where it has one.
SameFile(f, x) == x = job.ids[f] /\ (job.was[f] = "noref" \/ x = job.was[f])
\* Without one the contents are hashed, once the file is claimed.
SameContents(f, x) == job.was[f] # "noref" \/ x = "own"

CheckOriginal(f) ==
    /\ Runs("trash", "work") /\ f \in Items("listed")
    /\ SetItem(f, IF SameFile(f, orig[f]) THEN "checked" ELSE "rejected")
    /\ UNCHANGED <<files, row, journal, engine, bounds, offered, acts>>

\* Whatever the path holds now is claimed, unless the rename fails.
Claim(f) ==
    /\ Runs("trash", "work") /\ f \in Items("checked")
    /\ \/ /\ orig[f] # "none"
          /\ claim' = [claim EXCEPT ![job.batch][f] = orig[f]]
          /\ orig' = [orig EXCEPT ![f] = "none"]
          /\ SetItem(f, "claimed")
       \/ SetItem(f, "failed") /\ UNCHANGED <<orig, claim>>
    /\ UNCHANGED <<bin, fate, row, journal, engine, bounds, offered, acts>>

\* Fault injection: a rename that replaces what is at its target.
PutBackReplacing(f, s) == /\ orig' = [orig EXCEPT ![f] = claim[job.batch][f]]
                          /\ claim' = [claim EXCEPT ![job.batch][f] = "none"]
                          /\ SetItem(f, s)

\* rename_no_replace back to the original, which may be taken; where the rename
\* fails the file stays under its claim name.
PutBack(f, s) ==
    \/ /\ orig[f] = "none"
       /\ orig' = [orig EXCEPT ![f] = claim[job.batch][f]]
       /\ claim' = [claim EXCEPT ![job.batch][f] = "none"]
       /\ SetItem(f, s)
    \/ SetItem(f, "failed") /\ UNCHANGED <<orig, claim>>

\* Fault injection: the claim is not checked again.
ChecksOutAtOnce(f, x) == x \in Things

\* The second check, of the claim: nobody else knows its name.
ChecksOut(f, x) == SameFile(f, x) /\ SameContents(f, x)
CheckClaim(f) ==
    /\ Runs("trash", "work") /\ f \in Items("claimed")
    /\ \/ /\ ChecksOut(f, claim[job.batch][f])
          /\ SetItem(f, "valid")
          /\ UNCHANGED <<orig, claim>>
       \/ /\ ~ChecksOut(f, claim[job.batch][f])
          /\ PutBack(f, "rejected")
    /\ UNCHANGED <<bin, fate, row, journal, engine, bounds, offered, acts>>

\* The shell's delete may fail, and may have moved the file all the same.
Recycle(f, s) == /\ bin' = [bin EXCEPT ![job.batch][f] = claim[job.batch][f]]
                 /\ claim' = [claim EXCEPT ![job.batch][f] = "none"]
                 /\ SetItem(f, s)
                 /\ UNCHANGED orig
SendToBin(f) ==
    /\ Runs("trash", "work") /\ f \in Items("valid")
    /\ \/ Recycle(f, "trashed")
       \/ Recycle(f, "failed")
       \/ PutBack(f, "failed") /\ UNCHANGED bin
    /\ UNCHANGED <<fate, row, journal, engine, bounds, offered, acts>>

\* The items of this batch found in the bin again, by claim name and identity:
\* the lookup may time out and find none.
Receipt(f) == bin[job.batch][f] = job.ids[f]
\* Fault injection: an item that was not found in the bin again stays trashed.
UnboundTrashed(L) == [f \in DOMAIN job.item |-> job.item[f]]
Unbound(L) == [f \in DOMAIN job.item |-> IF job.item[f] = "trashed" /\ f \notin L THEN "failed" ELSE job.item[f]]
BindReceipts ==
    /\ Runs("trash", "work")
    /\ \A f \in DOMAIN job.item : job.item[f] \in {"trashed", "rejected", "failed"}
    /\ \E L \in SUBSET {f \in Items("trashed") : Receipt(f)} :
          \/ L = {} /\ job' = [job EXCEPT !.at = "commit", !.item = Unbound({})] /\ UNCHANGED journal
          \/ L # {} /\ Appended(Line(L)) /\ job' = [job EXCEPT !.at = "commit", !.item = Unbound(L)]
          \/ L # {} /\ AppendFails(Line(L)) /\ job' = [job EXCEPT !.at = "commit", !.item = Unbound({})]
    /\ UNCHANGED <<files, row, engine, bounds, offered, acts>>

\* Rows are deleted where they still are what was read.  A failed commit names
\* the batch to undo; no transaction at all names nothing.
CommitTrash ==
    /\ Runs("trash", "commit")
    /\ \/ /\ row' = [f \in Files |-> IF f \in Items("trashed") /\ row[f] = job.was[f] THEN "none" ELSE row[f]]
          /\ offered' = offered \cup {job.batch}
       \/ UNCHANGED row /\ offered' \in {offered, offered \cup {job.batch}}
    /\ Ends
    /\ UNCHANGED <<files, journal, engine, bounds, acts>>

-----------------------------------------------------------------------------
(* restoreFromTrash.                                                       *)

StartRestore(b) ==
    /\ engine = "up" /\ job = Idle /\ undos < MaxUndos
    /\ b \in offered
    /\ undos' = undos + 1
    /\ \E line \in {log[i] : i \in Latest(b)} :
       job' = [Idle EXCEPT !.op = "restore", !.at = "survey", !.batch = b, !.ids = line.ids,
                           !.item = [f \in DOMAIN line.ids |-> "listed"], !.receipts = line.receipts]
    /\ UNCHANGED <<files, row, journal, engine, offered, batches, kills, acts>>

\* A path the file is already at counts as restored, a taken one as a conflict;
\* a free one is pinned, which may fail.
Survey(f) ==
    /\ Runs("restore", "survey") /\ f \in Items("listed")
    /\ \/ orig[f] = job.ids[f] /\ SetItem(f, "restored")
       \/ orig[f] \notin {"none", job.ids[f]} /\ SetItem(f, "failed")
       \/ orig[f] = "none" /\ \E s \in {"ready", "failed"} : SetItem(f, s)
    /\ UNCHANGED <<files, row, journal, engine, bounds, offered, acts>>

\* Receipts that no longer hold are dropped, lost ones looked up again, and the
\* batch is journaled anew when that changes any.
Confirmed(L) == (job.receipts \ Items("ready")) \cup {f \in Items("ready") \cap job.receipts : Receipt(f)} \cup L
PersistReceipts ==
    /\ Runs("restore", "survey") /\ Items("listed") = {}
    /\ \E L \in SUBSET {f \in Items("ready") : Receipt(f)} :
          LET receipts == Confirmed(L)
              Proceeds == job' = [job EXCEPT !.at = "work", !.receipts = receipts] IN
          \/ receipts = job.receipts /\ Proceeds /\ UNCHANGED journal
          \/ receipts # job.receipts /\ Appended(Line(receipts)) /\ Proceeds
          \/ receipts # job.receipts /\ AppendFails(Line(receipts)) /\ Ends
    /\ UNCHANGED <<files, row, engine, bounds, offered, acts>>

\* The file moves back from the bin if it has a receipt or is found there once
\* more, else from its claim name; never onto another file.
RestoreFrom(f, place) ==
    /\ orig[f] = "none" /\ place[job.batch][f] = job.ids[f]
    /\ orig' = [orig EXCEPT ![f] = place[job.batch][f]]
    /\ SetItem(f, "restored")
NotRestored(f) == SetItem(f, IF orig[f] = job.ids[f] THEN "restored" ELSE "failed")
Restore(f) ==
    /\ Runs("restore", "work") /\ f \in Items("ready")
    /\ \/ /\ RestoreFrom(f, bin)
          /\ bin' = [bin EXCEPT ![job.batch][f] = "none"]
          /\ UNCHANGED claim
       \/ /\ f \notin job.receipts
          /\ RestoreFrom(f, claim)
          /\ claim' = [claim EXCEPT ![job.batch][f] = "none"]
          /\ UNCHANGED bin
       \/ NotRestored(f) /\ UNCHANGED <<orig, claim, bin>>
    /\ UNCHANGED <<fate, row, journal, engine, bounds, offered, acts>>

\* A missing row is inserted for a file that is still there; a row that is
\* there stays.  The commit may fail.
Reinserted == {f \in Items("restored") : orig[f] = job.ids[f] /\ row[f] = "none"}
CommitRestore ==
    /\ Runs("restore", "work") /\ Items("ready") = {}
    /\ \/ row' = [f \in Files |-> IF f \in Reinserted THEN job.ids[f] ELSE row[f]]
       \/ UNCHANGED row
    /\ Ends
    /\ UNCHANGED <<files, journal, engine, bounds, offered, acts>>

-----------------------------------------------------------------------------
(* Kills and launches.                                                     *)

Kill == /\ engine # "down" /\ kills < MaxKills
        /\ engine' = "down" /\ kills' = kills + 1
        /\ Ends
        /\ UNCHANGED <<files, row, journal, batches, undos, offered, acts>>

\* Fault injection: the engine serves without a recovery.
LaunchUnrecovered == /\ engine = "down" /\ engine' = "up"
                     /\ UNCHANGED <<files, row, journal, job, bounds, offered, acts>>

Launch == /\ engine = "down" /\ engine' = "recovering"
          /\ job' = [Idle EXCEPT !.op = "recover", !.line = 1]
          /\ UNCHANGED <<files, row, journal, bounds, offered, acts>>

Recoverable(line) == {f \in DOMAIN line.ids : line.whole /\ claim[line.batch][f] = line.ids[f] /\ orig[f] = "none"}

\* Line by line, a claim that still holds the journaled file goes back to its
\* path if that is free.
RecoverClaim(f) ==
    /\ engine = "recovering" /\ job.line <= Len(log)
    /\ LET line == log[job.line] IN
       /\ f \in Recoverable(line)
       /\ orig' = [orig EXCEPT ![f] = claim[line.batch][f]]
       /\ claim' = [claim EXCEPT ![line.batch][f] = "none"]
    /\ UNCHANGED <<bin, fate, row, journal, engine, job, bounds, offered, acts>>

RecoverNext ==
    /\ engine = "recovering" /\ job.line <= Len(log)
    /\ Recoverable(log[job.line]) = {}
    /\ job' = [job EXCEPT !.line = @ + 1]
    /\ UNCHANGED <<files, row, journal, engine, bounds, offered, acts>>

Recovered == /\ engine = "recovering" /\ job.line > Len(log)
             /\ engine' = "up" /\ Ends
             /\ UNCHANGED <<files, row, journal, bounds, offered, acts>>

-----------------------------------------------------------------------------
(* The user, in Explorer or another program.                               *)

\* Another file is saved at a path, over the indexed one if it is there.
Save(f) == /\ fate[f]["other"] = "unborn"
           /\ orig' = [orig EXCEPT ![f] = "other"]
           /\ fate' = [fate EXCEPT ![f] = [other |-> "alive", own |-> IF orig[f] = "own" THEN "gone" ELSE @.own]]
           /\ UNCHANGED <<claim, bin>>
Delete(f) == /\ orig[f] # "none"
             /\ fate' = [fate EXCEPT ![f][orig[f]] = "gone"]
             /\ orig' = [orig EXCEPT ![f] = "none"]
             /\ UNCHANGED <<claim, bin>>
\* Explorer restores an item to the name it was deleted under: the claim's.
ExplorerRestores(b, f) ==
    /\ bin[b][f] # "none" /\ claim[b][f] = "none"
    /\ claim' = [claim EXCEPT ![b][f] = bin[b][f]]
    /\ bin' = [bin EXCEPT ![b][f] = "none"]
    /\ UNCHANGED <<orig, fate>>
EmptyBin == /\ \E b \in Batches : bin[b] # Nowhere
            /\ fate' = [f \in Files |-> [x \in Things |-> IF \E b \in Batches : bin[b][f] = x THEN "gone" ELSE fate[f][x]]]
            /\ bin' = [b \in Batches |-> Nowhere]
            /\ UNCHANGED <<orig, claim>>

User == /\ acts < MaxUser /\ acts' = acts + 1
        /\ \/ \E f \in Files : Save(f) \/ Delete(f)
           \/ \E b \in Batches, f \in Files : ExplorerRestores(b, f)
           \/ EmptyBin
        /\ UNCHANGED <<row, journal, engine, job, bounds, offered>>

Next == \/ \E S \in SUBSET Files : StartTrash(S)
        \/ \E b \in Batches : StartRestore(b)
        \/ JournalTrash \/ BindReceipts \/ CommitTrash
        \/ PersistReceipts \/ CommitRestore
        \/ \E f \in Files : CheckOriginal(f) \/ Claim(f) \/ CheckClaim(f) \/ SendToBin(f)
                             \/ Survey(f) \/ Restore(f) \/ RecoverClaim(f)
        \/ Kill \/ Launch \/ RecoverNext \/ Recovered
        \/ User

\* The app starts the engine again, and a launch recovers before it serves.
Fairness == WF_vars(Launch \/ (\E f \in Files : RecoverClaim(f)) \/ RecoverNext \/ Recovered)

Spec == Init /\ [][Next]_vars /\ Fairness

-----------------------------------------------------------------------------
(* Correctness.                                                            *)

Identities(S) == UNION {[D -> S] : D \in SUBSET Files}
Lines == [batch : Batches, ids : Identities(Things), receipts : SUBSET Files, whole : BOOLEAN]
Jobs == [op : {"none", "trash", "restore", "recover"},
         at : {"idle", "journal", "work", "commit", "survey"},
         batch : Batches \cup {0}, line : Nat,
         ids : Identities(Things), was : Identities(Things \cup {"noref"}),
         item : Identities({"listed", "checked", "claimed", "valid", "trashed",
                            "rejected", "failed", "ready", "restored"}),
         receipts : SUBSET Files]

\* Every variable has the type its declaration names.
TypeOK ==
    /\ orig \in [Files -> Things \cup {"none"}]
    /\ claim \in [Batches -> [Files -> Things \cup {"none"}]]
    /\ bin \in [Batches -> [Files -> Things \cup {"none"}]]
    /\ fate \in [Files -> [Things -> {"unborn", "alive", "gone"}]]
    /\ row \in [Files -> Things \cup {"none", "noref"}]
    /\ log \in Seq(Lines)
    /\ torn \in BOOLEAN
    /\ engine \in {"down", "recovering", "up"}
    /\ job \in Jobs
    /\ batches \in 0..MaxBatches /\ offered \subseteq Batches
    /\ undos \in Nat /\ kills \in Nat /\ acts \in Nat

\* Whatever fails, is killed or is undone, a file that the user has not
\* destroyed is in exactly one place: no rename replaces another file.
Places == {<<"orig", 0>>} \cup ({"claim", "bin"} \X Batches)
Held(p, f) == CASE p[1] = "orig" -> orig[f]
                [] p[1] = "claim" -> claim[p[2]][f]
                [] p[1] = "bin" -> bin[p[2]][f]
NothingLost == \A f \in Files, x \in Things :
    /\ fate[f][x] = "alive" <=> \E p \in Places : Held(p, f) = x
    /\ \A p \in Places : Held(p, f) = x => \A q \in Places : Held(q, f) = x => p = q

\* Only the file that the catalog's row is about is sent to the Recycle Bin:
\* never one saved over it between the check of its path and the claim.
Named(r) == IF r = "noref" THEN "own" ELSE r
OnlyIndexed == [][\A b \in Batches, f \in Files :
    bin'[b][f] \notin {bin[b][f], "none"} => bin'[b][f] = Named(row[f])]_vars

\* From the first rename on, the log has a signed line that names each claim
\* of the running batch: a kill strands no claim that recovery cannot know.
Journaled(b, f) == \E i \in DOMAIN log :
    log[i].whole /\ log[i].batch = b /\ f \in DOMAIN log[i].ids /\ log[i].ids[f] = claim[b][f]
ClaimJournaled == job.op = "trash" =>
    \A f \in DOMAIN job.ids : claim[job.batch][f] = job.ids[f] => Journaled(job.batch, f)

\* A file without a row, unless the log is at its cap, is at its path or where
\* a batch put it whose last signed line still names it for an undo.
Reachable == \A f \in Files : row[f] = "none" /\ fate[f]["own"] = "alive" /\ Len(log) < Cap =>
    \/ orig[f] = "own"
    \/ \E b \in Batches : /\ "own" \in {claim[b][f], bin[b][f]}
                          /\ \E i \in Latest(b) : f \in DOMAIN log[i].ids /\ log[i].ids[f] = "own"

\* A row is deleted only when a signed receipt for its file is in the log.
ReceiptFirst == [][\A f \in Files : row[f] # "none" /\ row'[f] = "none" =>
    \E i \in Found(job.batch) : f \in log[i].receipts]_vars

\* A journaled claim that a dead engine left is put back by a later launch,
\* unless something else is at its path.
StrandedReturns == \A b \in Batches, f \in Files :
    engine = "down" /\ claim[b][f] # "none" /\ Journaled(b, f) ~> claim[b][f] = "none" \/ orig[f] # "none"
=============================================================================
