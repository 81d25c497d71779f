--------------------------- MODULE TrashLogProofs ---------------------------
(* Theorems about TrashLog, for every set of files and every bound.        *)
EXTENDS TrashLog, SequenceTheorems, TLAPS

ItemStates == {"listed", "checked", "claimed", "valid", "trashed",
               "rejected", "failed", "ready", "restored"}
Stages == {"idle", "journal", "work", "commit", "survey"}

LEMMA Identity ==
    ASSUME NEW S, NEW g
    PROVE  g \in Identities(S) <=> DOMAIN g \subseteq Files /\ g \in [DOMAIN g -> S]
<1>1. ASSUME g \in Identities(S) PROVE DOMAIN g \subseteq Files /\ g \in [DOMAIN g -> S]
  <2>1. PICK D \in SUBSET Files : g \in [D -> S] BY <1>1 DEF Identities
  <2> QED BY <2>1
<1>2. ASSUME DOMAIN g \subseteq Files, g \in [DOMAIN g -> S] PROVE g \in Identities(S)
  BY <1>2 DEF Identities
<1> QED BY <1>1, <1>2

LEMMA EmptyIdentity == ASSUME NEW S PROVE <<>> \in Identities(S)
<1>1. <<>> \in [{} -> S] OBVIOUS
<1> QED BY <1>1 DEF Identities

LEMMA IdleType == Idle \in Jobs
BY EmptyIdentity DEF Idle, Jobs

LEMMA ItemType ==
    ASSUME job \in Jobs, NEW f \in DOMAIN job.item, NEW s \in ItemStates
    PROVE  /\ [job EXCEPT !.item[f] = s] \in Jobs
           /\ DOMAIN [job EXCEPT !.item[f] = s].item = DOMAIN job.item
<1>1. job.item \in Identities(ItemStates) BY DEF Jobs, ItemStates
<1>2. /\ DOMAIN job.item \subseteq Files
      /\ job.item \in [DOMAIN job.item -> ItemStates]
  BY <1>1, Identity
<1>3. [job.item EXCEPT ![f] = s] \in [DOMAIN job.item -> ItemStates] BY <1>2
<1>4. [job.item EXCEPT ![f] = s] \in Identities(ItemStates) BY <1>2, <1>3, Identity
<1>5. [job EXCEPT !.item[f] = s] = [job EXCEPT !.item = [job.item EXCEPT ![f] = s]] BY DEF Jobs
<1>6. [job EXCEPT !.item = [job.item EXCEPT ![f] = s]] \in Jobs BY <1>4 DEF Jobs, ItemStates
<1> QED BY <1>3, <1>5, <1>6 DEF Jobs

LEMMA LineType ==
    ASSUME job \in Jobs, job.batch \in Batches, NEW R \in SUBSET Files
    PROVE  Line(R) \in Lines
BY DEF Line, Lines, Jobs

LEMMA WrittenType ==
    ASSUME log \in Seq(Lines), NEW line \in Lines
    PROVE  Written(line) \in Seq(Lines)
BY DEF Written

LEMMA TrimmedType ==
    ASSUME TrashAssumption, NEW lines \in Seq(Lines)
    PROVE  /\ Trimmed(lines) \in Seq(Lines)
           /\ Len(lines) > 0 => /\ Len(Trimmed(lines)) > 0
                                /\ Trimmed(lines)[Len(Trimmed(lines))] = lines[Len(lines)]
<1>1. CASE Len(lines) <= Cap BY <1>1 DEF Trimmed
<1>2. CASE Len(lines) > Cap
  <2> DEFINE m == Len(lines) - Cap + 1
  <2>1. Cap \in Nat \ {0} /\ Len(lines) \in Nat BY DEF TrashAssumption
  <2>2. m \in 1..Len(lines) /\ m \in Nat BY <1>2, <2>1
  <2>3. Trimmed(lines) = SubSeq(lines, m, Len(lines)) BY <1>2, <2>1 DEF Trimmed
  <2>4. \A i \in m..Len(lines) : lines[i] \in Lines BY <2>2
  <2>5. /\ SubSeq(lines, m, Len(lines)) \in Seq(Lines)
        /\ Len(SubSeq(lines, m, Len(lines))) = Cap
        /\ SubSeq(lines, m, Len(lines))[Cap] = lines[Len(lines)]
    <3> DEFINE n == Len(lines)
               t == SubSeq(lines, m, n)
    <3>1. m \in Int /\ n \in Int /\ n - m + 1 = Cap /\ m + Cap - 1 = n /\ m <= n /\ Cap \in 1..Cap
      BY <2>1, <2>2
    <3>2. \A i \in m..n : lines[i] \in Lines BY <2>4
    <3> HIDE DEF m, n
    <3>3. /\ t \in Seq(Lines) /\ Len(t) = IF m <= n THEN n - m + 1 ELSE 0
          /\ \A i \in 1..(n - m + 1) : t[i] = lines[m + i - 1]
      BY ONLY <3>1, <3>2, SubSeqProperties
    <3> HIDE DEF t
    <3>4. Len(t) = Cap /\ t[Cap] = lines[n]
      BY <3>1, <3>3
    <3> QED BY <3>3, <3>4 DEF t, n
  <2> QED BY <2>1, <2>3, <2>5
<1> QED BY <1>1, <1>2 DEF TrashAssumption

LEMMA AppendType ==
    ASSUME TrashAssumption, log \in Seq(Lines), NEW line \in Lines
    PROVE  /\ Appended(line) \/ AppendFails(line) => log' \in Seq(Lines) /\ (torn \in BOOLEAN => torn' \in BOOLEAN)
           /\ Appended(line) => torn' = FALSE
           /\ Appended(line) /\ ~torn => Len(log') > 0 /\ log'[Len(log')] = line
<1>1. Written(line) \in Seq(Lines) BY WrittenType
<1>2. [line EXCEPT !.whole = FALSE] \in Lines BY DEF Lines
<1>3. Written([line EXCEPT !.whole = FALSE]) \in Seq(Lines) BY <1>2, WrittenType
<1>4. Trimmed(Written(line)) \in Seq(Lines) BY <1>1, TrimmedType
<1>5. ~torn => Len(Written(line)) > 0 /\ Written(line)[Len(Written(line))] = line BY DEF Written
<1>6. Appended(line) \/ AppendFails(line) => log' \in Seq(Lines) /\ (torn \in BOOLEAN => torn' \in BOOLEAN)
  BY <1>1, <1>3, <1>4 DEF Appended, AppendFails, journal
<1>7. ASSUME Appended(line), ~torn PROVE Len(log') > 0 /\ log'[Len(log')] = line
  <2>1. CASE log' = Written(line) BY <2>1, <1>5, <1>7
  <2>2. CASE log' = Trimmed(Written(line)) BY <2>2, <1>1, <1>5, <1>7, TrimmedType
  <2> QED BY <2>1, <2>2, <1>7 DEF Appended
<1> QED BY <1>6, <1>7 DEF Appended

-----------------------------------------------------------------------------
(* Types.  A batch is named by the job that journals lines for it.         *)

Running == job.op \in {"trash", "restore"} =>
    /\ job.batch \in Batches
    /\ DOMAIN job.ids = DOMAIN job.item
Cursor == engine = "recovering" => job.line # 0
TInv == TypeOK /\ Running

LEMMA JobStep ==
    ASSUME TInv, NEW f \in DOMAIN job.item, NEW s \in ItemStates, SetItem(f, s)
    PROVE  job' \in Jobs /\ Running'
<1>1. job' \in Jobs /\ DOMAIN job'.item = DOMAIN job.item BY ItemType DEF TInv, TypeOK, SetItem
<1>2. job'.op = job.op /\ job'.batch = job.batch /\ job'.ids = job.ids BY DEF SetItem, TInv, TypeOK, Jobs
<1> QED BY <1>1, <1>2 DEF TInv, Running

LEMMA InItems == ASSUME NEW s, NEW f \in Items(s) PROVE f \in DOMAIN job.item
BY DEF Items

LEMMA ItemsAreFiles == ASSUME TInv PROVE DOMAIN job.item \subseteq Files /\ DOMAIN job.ids \subseteq Files
                                        /\ job.ids \in [DOMAIN job.ids -> Things]
BY Identity DEF TInv, TypeOK, Jobs

LEMMA IdleRuns == ASSUME job' = Idle PROVE job' \in Jobs /\ job'.op = "none"
BY IdleType DEF Idle

LEMMA TypeInit == ASSUME TrashAssumption, Init PROVE TInv
<1>1. job \in Jobs /\ Running BY IdleType DEF Init, Running, Idle
<1>2. log \in Seq(Lines) BY DEF Init
<1>3. fate \in [Files -> [Things -> {"unborn", "alive", "gone"}]] BY DEF Init, Things
<1>4. Nowhere \in [Files -> Things \cup {"none"}] BY DEF Nowhere
<1>5. orig \in [Files -> Things \cup {"none"}] /\ row \in [Files -> Things \cup {"none", "noref"}]
  BY DEF Init, Things
<1>6. batches \in 0..MaxBatches /\ offered \subseteq Batches /\ undos \in Nat /\ kills \in Nat /\ acts \in Nat
  BY DEF Init, TrashAssumption
<1> QED BY <1>1, <1>2, <1>3, <1>4, <1>5, <1>6 DEF Init, TInv, TypeOK

LEMMA TypeStart ==
    ASSUME TrashAssumption, TInv, NEW S \in SUBSET Files, StartTrash(S)
    PROVE  TInv'
<1>1. Candidates(S) \subseteq Files /\ batches + 1 \in Batches
  BY DEF Candidates, StartTrash, TInv, TypeOK, TrashAssumption, Batches
<1>2. [f \in Candidates(S) |-> orig[f]] \in Identities(Things)
  <2>1. [f \in Candidates(S) |-> orig[f]] \in [Candidates(S) -> Things] BY <1>1 DEF Candidates, TInv, TypeOK
  <2> QED BY <1>1, <2>1 DEF Identities
<1>3. [f \in Candidates(S) |-> row[f]] \in Identities(Things \cup {"noref"})
  <2>1. [f \in Candidates(S) |-> row[f]] \in [Candidates(S) -> Things \cup {"noref"}] BY <1>1 DEF Candidates, TInv, TypeOK
  <2> QED BY <1>1, <2>1 DEF Identities
<1>4. [f \in Candidates(S) |-> "listed"] \in Identities(ItemStates)
  <2>1. [f \in Candidates(S) |-> "listed"] \in [Candidates(S) -> ItemStates] BY DEF ItemStates
  <2> QED BY <1>1, <2>1 DEF Identities
<1>5. {} \in SUBSET Files /\ 0 \in Nat OBVIOUS
<1>6. job' = [op |-> "trash", at |-> "journal", batch |-> batches + 1, line |-> 0,
             ids |-> [f \in Candidates(S) |-> orig[f]], was |-> [f \in Candidates(S) |-> row[f]],
             item |-> [f \in Candidates(S) |-> "listed"], receipts |-> {}]
  BY DEF StartTrash, Idle
<1>7. job' \in Jobs /\ Running'
  BY <1>1, <1>2, <1>3, <1>4, <1>5, <1>6 DEF Jobs, ItemStates, Running
<1> QED BY <1>1, <1>7 DEF StartTrash, TInv, TypeOK, Running, files, journal, Batches, TrashAssumption

\* An append, and a job that goes on or ends.
LEMMA TypeAppend ==
    ASSUME TrashAssumption, TInv, job.op \in {"trash", "restore"}, NEW R \in SUBSET Files,
           Appended(Line(R)) \/ AppendFails(Line(R))
    PROVE  log' \in Seq(Lines) /\ torn' \in BOOLEAN
BY LineType, AppendType DEF TInv, TypeOK, Running

LEMMA TypeJournal ==
    ASSUME TrashAssumption, TInv, JournalTrash
    PROVE  TInv'
<1>1. log' \in Seq(Lines) /\ torn' \in BOOLEAN BY TypeAppend DEF JournalTrash, Runs
<1>2. job' \in Jobs /\ Running'
  BY IdleRuns DEF JournalTrash, Ends, TInv, TypeOK, Running, Jobs
<1> QED BY <1>1, <1>2 DEF JournalTrash, TInv, TypeOK, files, bounds

LEMMA TypeCheck ==
    ASSUME TrashAssumption, TInv, NEW f \in Files, CheckOriginal(f)
    PROVE  TInv'
<1>1. job' \in Jobs /\ Running'
  BY InItems, JobStep DEF CheckOriginal, ItemStates
<1> QED BY <1>1 DEF CheckOriginal, TInv, TypeOK, Running, files, journal, bounds

LEMMA TypeClaim ==
    ASSUME TrashAssumption, TInv, NEW f \in Files, Claim(f)
    PROVE  TInv'
<1>1. job' \in Jobs /\ Running'
  BY InItems, JobStep DEF Claim, ItemStates
<1>2. job.batch \in Batches BY DEF Claim, Runs, TInv, Running
<1>3. /\ orig' \in [Files -> Things \cup {"none"}]
      /\ claim' \in [Batches -> [Files -> Things \cup {"none"}]]
  <2>1. orig \in [Files -> Things \cup {"none"}] /\ claim \in [Batches -> [Files -> Things \cup {"none"}]]
    BY DEF TInv, TypeOK
  <2>2. CASE UNCHANGED <<orig, claim>> BY <2>1, <2>2
  <2>3. CASE /\ claim' = [claim EXCEPT ![job.batch][f] = orig[f]]
             /\ orig' = [orig EXCEPT ![f] = "none"]
    BY <2>1, <2>3, <1>2
  <2> QED BY <2>2, <2>3 DEF Claim
<1> QED BY <1>1, <1>3 DEF Claim, TInv, TypeOK, Running, journal, bounds

LEMMA TypePutBack ==
    ASSUME TInv, job.batch \in Batches, NEW f \in Files, f \in DOMAIN job.item,
           NEW s \in ItemStates, PutBack(f, s)
    PROVE  /\ job' \in Jobs /\ Running'
           /\ orig' \in [Files -> Things \cup {"none"}]
           /\ claim' \in [Batches -> [Files -> Things \cup {"none"}]]
<1>1. "failed" \in ItemStates BY DEF ItemStates
<1>2. job' \in Jobs /\ Running'
  <2>1. CASE SetItem(f, s) BY <2>1, JobStep
  <2>2. CASE SetItem(f, "failed") BY <2>2, <1>1, JobStep
  <2>3. SetItem(f, s) \/ SetItem(f, "failed") BY DEF PutBack
  <2> QED BY <2>1, <2>2, <2>3
<1>3. claim[job.batch] \in [Files -> Things \cup {"none"}] BY DEF TInv, TypeOK
<1>4. orig \in [Files -> Things \cup {"none"}] /\ claim \in [Batches -> [Files -> Things \cup {"none"}]]
  BY DEF TInv, TypeOK
<1> QED BY <1>2, <1>3, <1>4 DEF PutBack

LEMMA TypeCheckClaim ==
    ASSUME TrashAssumption, TInv, NEW f \in Files, CheckClaim(f)
    PROVE  TInv'
<1>1. job.batch \in Batches /\ f \in DOMAIN job.item BY DEF CheckClaim, Runs, TInv, Running, Items
<1>2. /\ job' \in Jobs /\ Running'
      /\ orig' \in [Files -> Things \cup {"none"}]
      /\ claim' \in [Batches -> [Files -> Things \cup {"none"}]]
  <2>1. CASE SetItem(f, "valid") /\ UNCHANGED <<orig, claim>>
    BY <2>1, <1>1, JobStep DEF ItemStates, TInv, TypeOK
  <2>2. CASE PutBack(f, "rejected")
    BY <2>2, <1>1, TypePutBack DEF ItemStates
  <2> QED BY <2>1, <2>2 DEF CheckClaim
<1> QED BY <1>2 DEF CheckClaim, TInv, TypeOK, Running, journal, bounds

LEMMA TypeSend ==
    ASSUME TrashAssumption, TInv, NEW f \in Files, SendToBin(f)
    PROVE  TInv'
<1>1. job.batch \in Batches /\ f \in DOMAIN job.item BY DEF SendToBin, Runs, TInv, Running, Items
<1>2. /\ job' \in Jobs /\ Running'
      /\ orig' \in [Files -> Things \cup {"none"}]
      /\ claim' \in [Batches -> [Files -> Things \cup {"none"}]]
      /\ bin' \in [Batches -> [Files -> Things \cup {"none"}]]
  <2>1. ASSUME NEW s \in {"trashed", "failed"}, Recycle(f, s)
        PROVE  /\ job' \in Jobs /\ Running'
               /\ orig' \in [Files -> Things \cup {"none"}]
               /\ claim' \in [Batches -> [Files -> Things \cup {"none"}]]
               /\ bin' \in [Batches -> [Files -> Things \cup {"none"}]]
    <3>1. job' \in Jobs /\ Running'
      BY <2>1, <1>1, JobStep DEF ItemStates, Recycle
    <3> QED BY <3>1, <2>1, <1>1 DEF Recycle, TInv, TypeOK
  <2>2. CASE PutBack(f, "failed") /\ UNCHANGED bin
    BY <2>2, <1>1, TypePutBack DEF ItemStates, TInv, TypeOK
  <2> QED BY <2>1, <2>2 DEF SendToBin
<1> QED BY <1>2 DEF SendToBin, TInv, TypeOK, Running, journal, bounds

LEMMA UnboundType ==
    ASSUME TInv, NEW L
    PROVE  /\ Unbound(L) \in Identities(ItemStates)
           /\ DOMAIN Unbound(L) = DOMAIN job.item
<1>1. job.item \in Identities(ItemStates) BY DEF TInv, TypeOK, Jobs, ItemStates
<1>2. DOMAIN job.item \subseteq Files /\ job.item \in [DOMAIN job.item -> ItemStates] BY <1>1, Identity
<1>3. Unbound(L) \in [DOMAIN job.item -> ItemStates] BY <1>2 DEF Unbound, ItemStates
<1> QED BY <1>2, <1>3 DEF Identities

LEMMA TypeBind ==
    ASSUME TrashAssumption, TInv, BindReceipts
    PROVE  TInv'
<1>1. PICK L \in SUBSET {f \in Items("trashed") : Receipt(f)} :
          \/ L = {} /\ job' = [job EXCEPT !.at = "commit", !.item = Unbound({})] /\ UNCHANGED journal
          \/ L # {} /\ Appended(Line(L)) /\ job' = [job EXCEPT !.at = "commit", !.item = Unbound(L)]
          \/ L # {} /\ AppendFails(Line(L)) /\ job' = [job EXCEPT !.at = "commit", !.item = Unbound({})]
  BY DEF BindReceipts
<1>2. L \in SUBSET Files BY <1>1, ItemsAreFiles, InItems
<1>3. log' \in Seq(Lines) /\ torn' \in BOOLEAN
  <2>1. job.op = "trash" BY DEF BindReceipts, Runs
  <2> QED BY <1>1, <1>2, <2>1, TypeAppend DEF journal, TInv, TypeOK
<1>4. job' \in Jobs /\ Running'
  <2>1. PICK M : job' = [job EXCEPT !.at = "commit", !.item = Unbound(M)] BY <1>1
  <2>2. job' \in Jobs BY <2>1, UnboundType DEF Jobs, TInv, TypeOK, ItemStates
  <2>3. job'.op = job.op /\ job'.batch = job.batch /\ job'.ids = job.ids /\ DOMAIN job'.item = DOMAIN job.item
    BY <2>1, UnboundType DEF Jobs, TInv, TypeOK
  <2> QED BY <2>2, <2>3 DEF TInv, Running
<1> QED BY <1>3, <1>4 DEF BindReceipts, TInv, TypeOK, Running, files, bounds

LEMMA TypeCommit ==
    ASSUME TrashAssumption, TInv, CommitTrash
    PROVE  TInv'
<1>1. job' \in Jobs /\ Running' BY IdleRuns DEF CommitTrash, Ends, Running
<1>2. job.batch \in Batches BY DEF CommitTrash, Runs, TInv, Running
<1> QED BY <1>1, <1>2 DEF CommitTrash, TInv, TypeOK, files, journal, bounds

LEMMA TypeStartRestore ==
    ASSUME TrashAssumption, TInv, NEW b \in Batches, StartRestore(b)
    PROVE  TInv'
<1>1. PICK i \in DOMAIN log :
        job' = [Idle EXCEPT !.op = "restore", !.at = "survey", !.batch = b, !.ids = log[i].ids,
                            !.item = [f \in DOMAIN log[i].ids |-> "listed"], !.receipts = log[i].receipts]
  BY DEF StartRestore, Latest, Found
<1>2. log[i] \in Lines BY DEF TInv, TypeOK
<1>3. log[i].ids \in Identities(Things) /\ log[i].receipts \in SUBSET Files BY <1>2 DEF Lines
<1>4. [f \in DOMAIN log[i].ids |-> "listed"] \in Identities(ItemStates)
  <2>1. DOMAIN log[i].ids \subseteq Files BY <1>3, Identity
  <2>2. [f \in DOMAIN log[i].ids |-> "listed"] \in [DOMAIN log[i].ids -> ItemStates] BY DEF ItemStates
  <2> QED BY <2>1, <2>2 DEF Identities
<1>5. <<>> \in Identities(Things \cup {"noref"}) /\ 0 \in Nat BY EmptyIdentity
<1>6. job' = [op |-> "restore", at |-> "survey", batch |-> b, line |-> 0, ids |-> log[i].ids, was |-> <<>>,
             item |-> [f \in DOMAIN log[i].ids |-> "listed"], receipts |-> log[i].receipts]
  BY <1>1 DEF Idle
<1>7. job' \in Jobs /\ Running' BY <1>3, <1>4, <1>5, <1>6 DEF Jobs, ItemStates, Running
<1> QED BY <1>7 DEF StartRestore, TInv, TypeOK, files, journal

LEMMA TypeSurvey ==
    ASSUME TrashAssumption, TInv, NEW f \in Files, Survey(f)
    PROVE  TInv'
<1>1. job' \in Jobs /\ Running'
  BY InItems, JobStep DEF Survey, ItemStates
<1> QED BY <1>1 DEF Survey, TInv, TypeOK, Running, files, journal, bounds

LEMMA TypePersist ==
    ASSUME TrashAssumption, TInv, PersistReceipts
    PROVE  TInv'
<1>1. PICK L \in SUBSET {f \in Items("ready") : Receipt(f)} :
        LET receipts == Confirmed(L)
            Proceeds == job' = [job EXCEPT !.at = "work", !.receipts = receipts] IN
        \/ receipts = job.receipts /\ Proceeds /\ UNCHANGED journal
        \/ receipts # job.receipts /\ Appended(Line(receipts)) /\ Proceeds
        \/ receipts # job.receipts /\ AppendFails(Line(receipts)) /\ Ends
  BY DEF PersistReceipts
<1>2. Confirmed(L) \in SUBSET Files
  <2>1. Items("ready") \subseteq Files BY ItemsAreFiles, InItems
  <2>2. job.receipts \subseteq Files BY DEF TInv, TypeOK, Jobs
  <2> QED BY <2>1, <2>2 DEF Confirmed
<1>3. log' \in Seq(Lines) /\ torn' \in BOOLEAN
  <2>1. job.op = "restore" BY DEF PersistReceipts, Runs
  <2> QED BY <1>1, <1>2, <2>1, TypeAppend DEF journal, TInv, TypeOK
<1>4. job' \in Jobs /\ Running'
  <2>1. CASE job' = [job EXCEPT !.at = "work", !.receipts = Confirmed(L)]
    BY <2>1, <1>2 DEF Jobs, TInv, TypeOK, Running
  <2>2. CASE Ends BY <2>2, IdleRuns DEF Ends, Running
  <2> QED BY <1>1, <2>1, <2>2
<1> QED BY <1>3, <1>4 DEF PersistReceipts, TInv, TypeOK, files, bounds

LEMMA TypeRestore ==
    ASSUME TrashAssumption, TInv, NEW f \in Files, Restore(f)
    PROVE  TInv'
<1>1. job.batch \in Batches /\ f \in DOMAIN job.item BY DEF Restore, Runs, TInv, Running, Items
<1>2. job' \in Jobs /\ Running'
  <2>1. SetItem(f, "restored") \/ SetItem(f, "failed") BY DEF Restore, RestoreFrom, NotRestored
  <2> QED BY <2>1, <1>1, JobStep DEF ItemStates
<1>3. /\ orig \in [Files -> Things \cup {"none"}]
      /\ claim \in [Batches -> [Files -> Things \cup {"none"}]]
      /\ bin \in [Batches -> [Files -> Things \cup {"none"}]]
  BY DEF TInv, TypeOK
<1>4. /\ orig' \in [Files -> Things \cup {"none"}]
      /\ claim' \in [Batches -> [Files -> Things \cup {"none"}]]
      /\ bin' \in [Batches -> [Files -> Things \cup {"none"}]]
  <2>1. CASE RestoreFrom(f, bin) /\ bin' = [bin EXCEPT ![job.batch][f] = "none"] /\ UNCHANGED claim
    BY <2>1, <1>1, <1>3 DEF RestoreFrom
  <2>2. CASE RestoreFrom(f, claim) /\ claim' = [claim EXCEPT ![job.batch][f] = "none"] /\ UNCHANGED bin
    BY <2>2, <1>1, <1>3 DEF RestoreFrom
  <2>3. CASE UNCHANGED <<orig, claim, bin>> BY <2>3, <1>3
  <2> QED BY <2>1, <2>2, <2>3 DEF Restore
<1> QED BY <1>2, <1>4 DEF Restore, TInv, TypeOK, Running, journal, bounds

LEMMA TypeCommitRestore ==
    ASSUME TrashAssumption, TInv, CommitRestore
    PROVE  TInv'
<1>1. job' \in Jobs /\ Running' BY IdleRuns DEF CommitRestore, Ends, Running
<1>2. \A f \in Reinserted : f \in Files /\ job.ids[f] \in Things
  <2>1. ASSUME NEW f \in Reinserted PROVE f \in Files /\ job.ids[f] \in Things
    <3>1. f \in DOMAIN job.item BY InItems DEF Reinserted
    <3>2. DOMAIN job.ids = DOMAIN job.item BY DEF CommitRestore, Runs, TInv, Running
    <3> QED BY <3>1, <3>2, ItemsAreFiles
  <2> QED BY <2>1
<1>3. row' \in [Files -> Things \cup {"none", "noref"}]
  BY <1>2 DEF CommitRestore, TInv, TypeOK
<1> QED BY <1>1, <1>3 DEF CommitRestore, TInv, TypeOK, files, journal, bounds

LEMMA TypeKill ==
    ASSUME TrashAssumption, TInv, Kill \/ Launch \/ RecoverNext \/ Recovered
    PROVE  TInv'
<1>1. CASE Kill BY <1>1, IdleRuns DEF Kill, Ends, TInv, TypeOK, Running, files, journal
<1>2. CASE Launch
  <2>1. job' \in Jobs /\ job'.op = "recover"
    <3>1. job' = [op |-> "recover", at |-> "idle", batch |-> 0, line |-> 1, ids |-> <<>>,
                 was |-> <<>>, item |-> <<>>, receipts |-> {}]
      BY <1>2 DEF Launch, Idle
    <3> QED BY <3>1, EmptyIdentity DEF Jobs
  <2> QED BY <1>2, <2>1 DEF Launch, TInv, TypeOK, Running, files, journal, bounds
<1>3. CASE RecoverNext
  <2>1. job' = [job EXCEPT !.line = job.line + 1] /\ job \in Jobs
    BY <1>3 DEF RecoverNext, TInv, TypeOK
  <2>2. job.line + 1 \in Nat BY <2>1 DEF Jobs
  <2>3. job' \in Jobs BY <2>1, <2>2 DEF Jobs
  <2>4. job'.op = job.op /\ job'.batch = job.batch /\ job'.ids = job.ids /\ job'.item = job.item
    BY <2>1 DEF Jobs
  <2>5. Running' BY <2>4 DEF TInv, Running
  <2> QED BY <1>3, <2>3, <2>5 DEF RecoverNext, TInv, TypeOK, files, journal, bounds
<1>4. CASE Recovered BY <1>4, IdleRuns DEF Recovered, Ends, TInv, TypeOK, Running, files, journal, bounds
<1> QED BY <1>1, <1>2, <1>3, <1>4

LEMMA TypeRecover ==
    ASSUME TrashAssumption, TInv, Cursor, NEW f \in Files, RecoverClaim(f)
    PROVE  TInv'
<1>0. job.line \in 1..Len(log) /\ log[job.line] \in Lines
  BY DEF RecoverClaim, TInv, TypeOK, Jobs, Cursor
<1>1. PICK line \in Lines : /\ orig' = [orig EXCEPT ![f] = claim[line.batch][f]]
                            /\ claim' = [claim EXCEPT ![line.batch][f] = "none"]
  BY <1>0 DEF RecoverClaim
<1>2. line.batch \in Batches BY DEF Lines
<1>3. /\ orig \in [Files -> Things \cup {"none"}]
      /\ claim \in [Batches -> [Files -> Things \cup {"none"}]]
  BY DEF TInv, TypeOK
<1>4. /\ orig' \in [Files -> Things \cup {"none"}]
      /\ claim' \in [Batches -> [Files -> Things \cup {"none"}]]
  BY <1>1, <1>2, <1>3
<1> QED BY <1>4 DEF RecoverClaim, TInv, TypeOK, Running, journal, bounds

LEMMA TypeUser ==
    ASSUME TrashAssumption, TInv, User
    PROVE  TInv'
<1>1. /\ orig \in [Files -> Things \cup {"none"}]
      /\ claim \in [Batches -> [Files -> Things \cup {"none"}]]
      /\ bin \in [Batches -> [Files -> Things \cup {"none"}]]
      /\ fate \in [Files -> [Things -> {"unborn", "alive", "gone"}]]
  BY DEF TInv, TypeOK
<1>2. /\ orig' \in [Files -> Things \cup {"none"}]
      /\ claim' \in [Batches -> [Files -> Things \cup {"none"}]]
      /\ bin' \in [Batches -> [Files -> Things \cup {"none"}]]
      /\ fate' \in [Files -> [Things -> {"unborn", "alive", "gone"}]]
  <2>1. ASSUME NEW f \in Files, Save(f)
        PROVE  /\ orig' \in [Files -> Things \cup {"none"}]
               /\ fate' \in [Files -> [Things -> {"unborn", "alive", "gone"}]]
    BY <2>1, <1>1 DEF Save, Things
  <2>2. ASSUME NEW f \in Files, Delete(f)
        PROVE  /\ orig' \in [Files -> Things \cup {"none"}]
               /\ fate' \in [Files -> [Things -> {"unborn", "alive", "gone"}]]
    BY <2>2, <1>1 DEF Delete
  <2>3. ASSUME NEW b \in Batches, NEW f \in Files, ExplorerRestores(b, f)
        PROVE  /\ claim' \in [Batches -> [Files -> Things \cup {"none"}]]
               /\ bin' \in [Batches -> [Files -> Things \cup {"none"}]]
    BY <2>3, <1>1 DEF ExplorerRestores
  <2>4. CASE EmptyBin BY <2>4, <1>1 DEF EmptyBin, Nowhere
  <2>5. ASSUME NEW f \in Files, Save(f) \/ Delete(f) PROVE UNCHANGED <<claim, bin>>
    BY <2>5 DEF Save, Delete
  <2>6. ASSUME NEW b \in Batches, NEW f \in Files, ExplorerRestores(b, f) PROVE UNCHANGED <<orig, fate>>
    BY <2>6 DEF ExplorerRestores
  <2> QED BY <1>1, <2>1, <2>2, <2>3, <2>4, <2>5, <2>6 DEF User, EmptyBin
<1> QED BY <1>2 DEF User, TInv, TypeOK, Running, journal, bounds

\* Recovery reads the log from its first line on.
LEMMA CursorNext == ASSUME TInv, Cursor, [Next]_vars PROVE Cursor'
<1>1. job.line \in Nat BY DEF TInv, TypeOK, Jobs
<1>2. CASE Launch BY <1>2 DEF Launch, Idle, Cursor
<1>3. CASE RecoverNext
  <2>1. job'.line = job.line + 1 BY <1>3 DEF RecoverNext, TInv, TypeOK, Jobs
  <2> QED BY <1>1, <2>1 DEF Cursor
<1>4. CASE engine' # "recovering" BY <1>4 DEF Cursor
<1>5. CASE UNCHANGED <<engine, job>> BY <1>5 DEF Cursor
<1>6. engine' # "recovering" \/ UNCHANGED <<engine, job>> \/ Launch \/ RecoverNext
  BY DEF Next, vars, StartTrash, StartRestore, JournalTrash, BindReceipts, CommitTrash, PersistReceipts, CommitRestore,
         CheckOriginal, Claim, CheckClaim, SendToBin, Survey, Restore, RecoverClaim, Kill, Recovered, User, Runs
<1> QED BY <1>2, <1>3, <1>4, <1>5, <1>6

LEMMA TypeNext == ASSUME TrashAssumption, TInv, Cursor, [Next]_vars PROVE TInv' /\ Cursor'
<1>1. CASE UNCHANGED vars
  BY <1>1, CursorNext DEF vars, files, journal, bounds, TInv, TypeOK, Running
<1>2. CASE Next
  BY <1>2, TypeStart, TypeStartRestore, TypeJournal, TypeBind, TypeCommit, TypePersist, TypeCommitRestore,
     TypeCheck, TypeClaim, TypeCheckClaim, TypeSend, TypeSurvey, TypeRestore, TypeRecover, TypeKill, TypeUser, CursorNext
  DEF Next
<1> QED BY <1>1, <1>2

LEMMA TypeInvariant == TrashAssumption /\ Spec => [](TInv /\ Cursor)
<1>1. TrashAssumption /\ Init => TInv /\ Cursor BY TypeInit DEF Init, Cursor
<1>2. TrashAssumption /\ TInv /\ Cursor /\ [Next]_vars => (TInv /\ Cursor)' BY TypeNext
<1> QED BY <1>1, <1>2, TrashAssumption, PTL DEF Spec

\* Every variable keeps its type.
THEOREM TypeCorrect == Spec => []TypeOK
<1>1. TInv /\ Cursor => TypeOK BY DEF TInv
<1> QED BY <1>1, TypeInvariant, TrashAssumption, PTL

(***************************************************************************)
(* What TrashLog promises of the files, the rows and the journal.          *)
(***************************************************************************)
Pending == {"listed", "checked", "claimed", "valid"}

\* Names of batches to come are unused.
Fresh == \A b \in Batches : b > batches => claim[b] = Nowhere /\ bin[b] = Nowhere

\* What a batch knows of an item at each step of it.
Item(f) ==
    /\ job.was[f] = row[f]
    /\ job.at = "journal" => job.item[f] = "listed"
    /\ job.item[f] \in {"listed", "checked"} => claim[job.batch][f] = "none"
    /\ job.item[f] \in Pending => bin[job.batch][f] = "none"
    /\ job.item[f] = "valid" => claim[job.batch][f] \in {"none", Named(row[f])}
Carried == job.op = "trash" =>
    /\ job.batch <= batches /\ job.at \in {"journal", "work", "commit"}
    /\ \A f \in DOMAIN job.item : Item(f)

\* What the journal holds of it.
Intact == ~Torn => ~torn
Lined == job.op = "trash" =>
    /\ job.at = "work" => ~torn
    /\ job.at # "journal" /\ ~Torn => \E i \in Found(job.batch) : log[i].ids = job.ids
    /\ job.at = "commit" => \A f \in Items("trashed") : \E i \in Found(job.batch) : f \in log[i].receipts

CInv == TInv /\ Fresh /\ Carried /\ Intact /\ Lined

LEMMA Put ==
    ASSUME NEW S, NEW g \in [Batches -> [Files -> S]], NEW b \in Batches, NEW f \in Files, NEW x
    PROVE  /\ [g EXCEPT ![b][f] = x][b][f] = x
           /\ \A c \in Batches, e \in Files : <<c, e>> # <<b, f>> => [g EXCEPT ![b][f] = x][c][e] = g[c][e]
           /\ \A c \in Batches : c # b => [g EXCEPT ![b][f] = x][c] = g[c]
OBVIOUS

LEMMA OtherJob ==
    ASSUME TInv', Fresh', Intact', job'.op # "trash"
    PROVE  CInv'
BY DEF CInv, Carried, Lined

LEMMA CInit == ASSUME TrashAssumption, Init PROVE CInv
BY TypeInit DEF CInv, Init, Fresh, Carried, Intact, Lined, Idle

LEMMA CStart ==
    ASSUME TrashAssumption, CInv, TInv', NEW S \in SUBSET Files, StartTrash(S)
    PROVE  CInv'
<1>1. /\ job'.op = "trash" /\ job'.at = "journal" /\ job'.batch = batches + 1
      /\ job'.item = [f \in Candidates(S) |-> "listed"]
      /\ job'.was = [f \in Candidates(S) |-> row[f]]
  BY DEF StartTrash, Idle
<1>2. UNCHANGED <<files, row, journal>> /\ batches' = batches + 1 BY DEF StartTrash
<1>3. batches \in Nat /\ batches + 1 \in Batches BY DEF StartTrash, CInv, TInv, TypeOK, TrashAssumption, Batches
<1>4. Fresh' BY <1>2, <1>3 DEF CInv, Fresh, files, Batches, Nowhere
<1>5. Candidates(S) \subseteq Files BY DEF Candidates
<1>6. Carried'
  <2>1. claim[batches + 1] = Nowhere /\ bin[batches + 1] = Nowhere BY <1>3 DEF CInv, Fresh
  <2>2. ASSUME NEW f \in Candidates(S) PROVE Item(f)'
    BY <1>1, <1>2, <1>5, <2>1, <2>2 DEF Item, Nowhere, files
  <2> QED BY <1>1, <1>2, <1>3, <2>2 DEF Carried
<1>7. Intact' /\ Lined' BY <1>1, <1>2 DEF CInv, Intact, Lined, journal
<1> QED BY <1>4, <1>6, <1>7 DEF CInv

\* A step within a running batch.
LEMMA CStep ==
    ASSUME CInv, TInv', NEW f \in DOMAIN job.item, NEW s \in ItemStates, SetItem(f, s),
           job.op = "trash", job.at = "work",
           UNCHANGED <<row, journal, batches>>, Fresh',
           \A e \in DOMAIN job.item \ {f} : /\ claim'[job.batch][e] = claim[job.batch][e]
                                             /\ bin'[job.batch][e] = bin[job.batch][e],
           s \in {"listed", "checked"} => claim'[job.batch][f] = "none",
           s \in Pending => bin'[job.batch][f] = "none",
           s = "valid" => claim'[job.batch][f] \in {"none", Named(row[f])}
    PROVE  CInv'
<1>1. job \in Jobs /\ job.item \in [DOMAIN job.item -> ItemStates]
  BY Identity DEF CInv, TInv, TypeOK, Jobs, ItemStates
<1>2. /\ job'.op = "trash" /\ job'.at = "work" /\ job'.batch = job.batch
      /\ job'.was = job.was /\ job'.ids = job.ids
      /\ job'.item = [job.item EXCEPT ![f] = s]
  BY <1>1 DEF SetItem, Jobs
<1>3. DOMAIN job'.item = DOMAIN job.item /\ job'.item[f] = s
      /\ \A e \in DOMAIN job.item \ {f} : job'.item[e] = job.item[e]
  BY <1>1, <1>2
<1>4. ASSUME NEW e \in DOMAIN job.item PROVE Item(e)'
  <2>1. Item(e) BY DEF CInv, Carried
  <2>2. CASE e = f BY <2>1, <2>2, <1>2, <1>3 DEF Item, Named
  <2>3. CASE e # f BY <2>1, <2>3, <1>2, <1>3 DEF Item, Named
  <2> QED BY <2>2, <2>3
<1>5. Carried' BY <1>2, <1>3, <1>4 DEF CInv, Carried
<1>6. Intact' /\ Lined' BY <1>2 DEF CInv, Intact, Lined, Found, journal
<1> QED BY <1>5, <1>6 DEF CInv

LEMMA Working ==
    ASSUME CInv, NEW f \in DOMAIN job.item, Runs("trash", "work")
    PROVE  /\ job.op = "trash" /\ job.at = "work" /\ job.batch \in Batches /\ job.batch <= batches
           /\ f \in Files /\ Item(f)
           /\ claim \in [Batches -> [Files -> Things \cup {"none"}]]
           /\ bin \in [Batches -> [Files -> Things \cup {"none"}]]
           /\ batches \in Nat /\ Batches \subseteq Nat
BY ItemsAreFiles DEF CInv, TInv, TypeOK, Running, Runs, Carried, Batches, TrashAssumption

\* Fresh names stay fresh while the batch at hand is the one that moves files.
LEMMA FreshBatch ==
    ASSUME Fresh, UNCHANGED batches, Batches \subseteq Nat, batches \in Nat, NEW b \in Batches, b <= batches,
           \A c \in Batches \ {b} : claim'[c] = claim[c] /\ bin'[c] = bin[c]
    PROVE  Fresh'
BY DEF Fresh, Nowhere

LEMMA CCheck ==
    ASSUME CInv, TInv', NEW f \in Files, CheckOriginal(f)
    PROVE  CInv'
<1>1. f \in DOMAIN job.item /\ job.item[f] = "listed" /\ Runs("trash", "work")
      /\ UNCHANGED <<claim, bin, row, journal, batches>>
  BY DEF CheckOriginal, Items, files, bounds
<1>2. Fresh' BY <1>1 DEF CInv, Fresh
<1>3. claim[job.batch][f] = "none" /\ bin[job.batch][f] = "none" BY <1>1, Working DEF Item, Pending
<1>4. PICK s \in {"checked", "rejected"} : SetItem(f, s) BY DEF CheckOriginal
<1> QED BY <1>1, <1>2, <1>3, <1>4, Working, CStep DEF ItemStates

LEMMA CClaim ==
    ASSUME CInv, TInv', NEW f \in Files, Claim(f)
    PROVE  CInv'
<1>1. f \in DOMAIN job.item /\ job.item[f] = "checked" /\ Runs("trash", "work")
      /\ UNCHANGED <<bin, row, journal, batches>>
  BY DEF Claim, Items, bounds
<1>2. claim[job.batch][f] = "none" /\ bin[job.batch][f] = "none" BY <1>1, Working DEF Item, Pending
<1>3. CASE claim' = [claim EXCEPT ![job.batch][f] = orig[f]] /\ SetItem(f, "claimed")
  <2>1. \A e \in DOMAIN job.item \ {f} : claim'[job.batch][e] = claim[job.batch][e]
    BY <1>1, <1>3, Working, Put
  <2>2. \A c \in Batches \ {job.batch} : claim'[c] = claim[c] BY <1>1, <1>3, Working, Put
  <2>3. Fresh' BY <1>1, <2>2, Working, FreshBatch DEF CInv
  <2> QED BY <1>1, <1>2, <1>3, <2>1, <2>3, Working, CStep DEF ItemStates
<1>4. CASE SetItem(f, "failed") /\ UNCHANGED claim
  <2>1. Fresh' BY <1>1, <1>4 DEF CInv, Fresh
  <2> QED BY <1>1, <1>4, <2>1, Working, CStep DEF ItemStates, Pending
<1> QED BY <1>3, <1>4 DEF Claim

LEMMA CPutBack ==
    ASSUME CInv, TInv', NEW f \in DOMAIN job.item, Runs("trash", "work"),
           NEW s \in {"rejected", "failed"}, PutBack(f, s), UNCHANGED <<bin, row, journal, batches>>
    PROVE  CInv'
<1>1. CASE SetItem(f, s) /\ claim' = [claim EXCEPT ![job.batch][f] = "none"]
  <2>1. \A e \in DOMAIN job.item \ {f} : claim'[job.batch][e] = claim[job.batch][e]
    BY <1>1, Working, Put
  <2>2. \A c \in Batches \ {job.batch} : claim'[c] = claim[c] BY <1>1, Working, Put
  <2>3. Fresh' BY <2>2, Working, FreshBatch DEF CInv
  <2> QED BY <1>1, <2>1, <2>3, Working, CStep DEF ItemStates, Pending
<1>2. CASE SetItem(f, "failed") /\ UNCHANGED claim
  <2>1. Fresh' BY <1>2 DEF CInv, Fresh
  <2> QED BY <1>2, <2>1, Working, CStep DEF ItemStates, Pending
<1> QED BY <1>1, <1>2 DEF PutBack

LEMMA CCheckClaim ==
    ASSUME CInv, TInv', NEW f \in Files, CheckClaim(f)
    PROVE  CInv'
<1>1. f \in DOMAIN job.item /\ job.item[f] = "claimed" /\ Runs("trash", "work")
      /\ UNCHANGED <<bin, row, journal, batches>>
  BY DEF CheckClaim, Items, bounds
<1>2. CASE ChecksOut(f, claim[job.batch][f]) /\ SetItem(f, "valid") /\ UNCHANGED claim
  <2>1. Fresh' BY <1>1, <1>2 DEF CInv, Fresh
  <2>2. job.was[f] = row[f] /\ bin[job.batch][f] = "none" BY <1>1, Working DEF Item, Pending
  <2>3. claim[job.batch][f] = Named(row[f]) BY <1>2, <2>2 DEF ChecksOut, SameFile, SameContents, Named
  <2> QED BY <1>1, <1>2, <2>1, <2>2, <2>3, Working, CStep DEF ItemStates
<1>3. CASE PutBack(f, "rejected") BY <1>1, <1>3, CPutBack
<1> QED BY <1>2, <1>3 DEF CheckClaim

LEMMA CSend ==
    ASSUME CInv, TInv', NEW f \in Files, SendToBin(f)
    PROVE  CInv'
<1>1. f \in DOMAIN job.item /\ job.item[f] = "valid" /\ Runs("trash", "work")
      /\ UNCHANGED <<row, journal, batches>>
  BY DEF SendToBin, Items, bounds
<1>2. ASSUME NEW s \in {"trashed", "failed"}, Recycle(f, s) PROVE CInv'
  <2>1. claim' = [claim EXCEPT ![job.batch][f] = "none"] /\ bin' = [bin EXCEPT ![job.batch][f] = claim[job.batch][f]]
        /\ SetItem(f, s)
    BY <1>2 DEF Recycle
  <2>2. \A e \in DOMAIN job.item \ {f} : /\ claim'[job.batch][e] = claim[job.batch][e]
                                          /\ bin'[job.batch][e] = bin[job.batch][e]
    <3> TAKE e \in DOMAIN job.item \ {f}
    <3>1. e \in Files BY <1>1, Working
    <3>2. claim'[job.batch][e] = claim[job.batch][e] BY <1>1, <2>1, <3>1, Working, Put
    <3>3. bin'[job.batch][e] = bin[job.batch][e] BY <1>1, <2>1, <3>1, Working, Put
    <3> QED BY <3>2, <3>3
  <2>3. \A c \in Batches \ {job.batch} : claim'[c] = claim[c] BY <1>1, <2>1, Working, Put
  <2>4. \A c \in Batches \ {job.batch} : bin'[c] = bin[c] BY <1>1, <2>1, Working, Put
  <2>5. Fresh' BY <1>1, <2>3, <2>4, Working, FreshBatch DEF CInv
  <2> QED BY <1>1, <2>1, <2>2, <2>5, Working, CStep DEF ItemStates, Pending
<1>3. CASE PutBack(f, "failed") /\ UNCHANGED bin BY <1>1, <1>3, CPutBack
<1> QED BY <1>2, <1>3 DEF SendToBin

\* A line that was appended to a whole log is found, and a failed append
\* leaves every line found that was.
LEMMA Found1 ==
    ASSUME TrashAssumption, TInv, job.op = "trash", ~torn, NEW R \in SUBSET Files, Appended(Line(R)),
           job'.batch = job.batch
    PROVE  \E i \in Found(job.batch)' : log'[i] = Line(R)
<1>1. Line(R) \in Lines BY LineType DEF TInv, TypeOK, Running
<1>2. log' \in Seq(Lines) /\ Len(log') > 0 /\ log'[Len(log')] = Line(R)
  <2>1. log \in Seq(Lines) /\ torn \in BOOLEAN BY DEF TInv, TypeOK
  <2> QED BY <1>1, <2>1, AppendType
<1>3. Len(log') \in DOMAIN log' BY <1>2
<1> QED BY <1>2, <1>3 DEF Found, Line

LEMMA Found2 ==
    ASSUME TInv, job.op = "trash", NEW R \in SUBSET Files, AppendFails(Line(R)), job'.batch = job.batch
    PROVE  \A i \in Found(job.batch) : i \in Found(job.batch)' /\ log'[i] = log[i]
<1>1. log \in Seq(Lines) BY DEF TInv, TypeOK
<1>2. Line(R) \in Lines BY LineType DEF TInv, TypeOK, Running
<1>3. ASSUME NEW line \in Lines, log' = Written(line)
      PROVE  \A i \in DOMAIN log : i \in DOMAIN log' /\ log'[i] = log[i]
  BY <1>1, <1>3 DEF Written
<1>4. [Line(R) EXCEPT !.whole = FALSE] \in Lines BY <1>2 DEF Lines
<1>5. \A i \in DOMAIN log : i \in DOMAIN log' /\ log'[i] = log[i]
  BY <1>2, <1>3, <1>4 DEF AppendFails, journal
<1> QED BY <1>5 DEF Found

LEMMA CJournal ==
    ASSUME TrashAssumption, CInv, TInv', JournalTrash
    PROVE  CInv'
<1>1. job.op = "trash" /\ job.at = "journal" /\ UNCHANGED <<claim, bin, row, batches>>
  BY DEF JournalTrash, Runs, files, bounds
<1>2. Fresh' BY <1>1 DEF CInv, Fresh
<1>3. CASE AppendFails(Line({})) /\ Ends
  <2>1. Intact' BY <1>3 DEF CInv, Intact, AppendFails, journal
  <2> QED BY <1>2, <1>3, <2>1, IdleRuns, OtherJob DEF Ends
<1>4. CASE Appended(Line({})) /\ job' = [job EXCEPT !.at = "work"]
  <2>1. /\ job'.op = "trash" /\ job'.at = "work" /\ job'.batch = job.batch /\ job'.was = job.was
        /\ job'.item = job.item /\ job'.ids = job.ids
    BY <1>1, <1>4 DEF CInv, TInv, TypeOK, Jobs
  <2>2. ASSUME NEW f \in DOMAIN job.item PROVE Item(f)'
    <3>1. Item(f) BY <1>1 DEF CInv, Carried
    <3> QED BY <3>1, <2>1, <1>1 DEF Item, Named
  <2>3. Carried' BY <2>1, <2>2, <1>1 DEF CInv, Carried
  <2>4. torn' = FALSE BY <1>4 DEF Appended
  <2>5. ~Torn => \E i \in Found(job.batch)' : log'[i].ids = job.ids
    <3> HAVE ~Torn
    <3>1. ~torn BY DEF CInv, Intact
    <3>2. \E i \in Found(job.batch)' : log'[i] = Line({}) BY <3>1, <1>1, <1>4, <2>1, Found1 DEF CInv
    <3> QED BY <3>2 DEF Line
  <2>6. Lined' /\ Intact' BY <2>1, <2>4, <2>5 DEF Lined, Intact, Found
  <2> QED BY <1>2, <2>3, <2>6 DEF CInv
<1> QED BY <1>3, <1>4 DEF JournalTrash

LEMMA CBind ==
    ASSUME TrashAssumption, CInv, TInv', BindReceipts
    PROVE  CInv'
<1>1. PICK L \in SUBSET {f \in Items("trashed") : Receipt(f)} :
          \/ L = {} /\ job' = [job EXCEPT !.at = "commit", !.item = Unbound({})] /\ UNCHANGED journal
          \/ L # {} /\ Appended(Line(L)) /\ job' = [job EXCEPT !.at = "commit", !.item = Unbound(L)]
          \/ L # {} /\ AppendFails(Line(L)) /\ job' = [job EXCEPT !.at = "commit", !.item = Unbound({})]
  BY DEF BindReceipts
<1>2. job.op = "trash" /\ job.at = "work" /\ ~torn /\ UNCHANGED <<claim, bin, row, batches>>
      /\ \A f \in DOMAIN job.item : job.item[f] \in {"trashed", "rejected", "failed"}
  BY DEF BindReceipts, Runs, files, bounds, CInv, Lined
<1>3. L \in SUBSET Files BY <1>1, ItemsAreFiles, InItems DEF CInv
<1>4. PICK M \in {{}, L} : job' = [job EXCEPT !.at = "commit", !.item = Unbound(M)]
  BY <1>1
<1>5. /\ job'.op = "trash" /\ job'.at = "commit" /\ job'.batch = job.batch /\ job'.was = job.was
      /\ job'.item = Unbound(M) /\ job'.ids = job.ids
  BY <1>2, <1>4 DEF CInv, TInv, TypeOK, Jobs
<1>6. DOMAIN job'.item = DOMAIN job.item /\ \A f \in DOMAIN job.item : job'.item[f] \notin Pending
      /\ (job'.item[f] = "trashed" => f \in M)
  BY <1>2, <1>5 DEF Unbound, Pending
<1>7. Carried'
  <2>1. ASSUME NEW f \in DOMAIN job.item PROVE Item(f)'
    <3>1. Item(f) BY <1>2 DEF CInv, Carried
    <3> QED BY <3>1, <1>2, <1>5, <1>6 DEF Item, Pending
  <2> QED BY <2>1, <1>2, <1>5, <1>6 DEF CInv, Carried
<1>8. Intact' BY <1>1, <1>2 DEF CInv, Intact, Appended, AppendFails, journal
<1>9. ~Torn => \E i \in Found(job.batch)' : log'[i].ids = job.ids
  <2> HAVE ~Torn
  <2>1. PICK i \in Found(job.batch) : log[i].ids = job.ids BY <1>2 DEF CInv, Lined
  <2>2. CASE UNCHANGED journal BY <2>1, <2>2, <1>5 DEF Found, journal
  <2>3. CASE AppendFails(Line(L)) BY <2>1, <2>3, <1>2, <1>3, <1>5, Found2 DEF CInv
  <2>4. CASE Appended(Line(L))
    <3>1. \E j \in Found(job.batch)' : log'[j] = Line(L) BY <2>4, <1>2, <1>3, <1>5, Found1 DEF CInv
    <3> QED BY <3>1 DEF Line
  <2> QED BY <2>2, <2>3, <2>4, <1>1
<1>10. ASSUME NEW f \in DOMAIN job.item, job'.item[f] = "trashed"
       PROVE  \E i \in Found(job.batch)' : f \in log'[i].receipts
  <2>1. f \in M BY <1>6, <1>10
  <2>2. L # {} /\ Appended(Line(L))
    <3>1. M # {} /\ job'.item # Unbound({}) BY <2>1, <1>5, <1>6, <1>10 DEF Unbound
    <3>2. job \in Jobs BY DEF CInv, TInv, TypeOK
    <3>3. [job EXCEPT !.at = "commit", !.item = Unbound({})].item = Unbound({}) BY <3>2 DEF Jobs
    <3> QED BY <3>1, <3>3, <1>1
  <2>3. \E j \in Found(job.batch)' : log'[j] = Line(L) BY <2>2, <1>2, <1>3, <1>5, Found1 DEF CInv
  <2> QED BY <2>1, <2>3 DEF Line
<1>11. Lined' BY <1>5, <1>6, <1>9, <1>10 DEF Lined, Found, Items
<1> QED BY <1>2, <1>7, <1>8, <1>11 DEF CInv, Fresh

\* The user and a recovery may take files away under a batch, but put none
\* where it expects none.
LEMMA COutside ==
    ASSUME CInv, TInv', UNCHANGED <<row, journal, job, batches>>, Fresh',
           \A b \in Batches, f \in Files :
              /\ claim'[b][f] \in {claim[b][f], "none"} \/ bin[b][f] # "none"
              /\ bin'[b][f] \in {bin[b][f], "none"}
    PROVE  CInv'
<1>1. job.op = "trash" => job.batch \in Batches BY DEF CInv, TInv, Running
<1>2. ASSUME job.op = "trash", NEW f \in DOMAIN job.item PROVE Item(f)'
  <2>1. f \in Files /\ Item(f) BY <1>2, ItemsAreFiles DEF CInv, Carried
  <2>2. bin'[job.batch][f] \in {bin[job.batch][f], "none"} BY <1>1, <1>2, <2>1
  <2>3. job.item[f] \in Pending => claim'[job.batch][f] \in {claim[job.batch][f], "none"}
    BY <1>1, <1>2, <2>1 DEF Item
  <2> QED BY <2>1, <2>2, <2>3 DEF Item, Pending, Named
<1>3. Carried' BY <1>2 DEF CInv, Carried
<1>4. Lined' /\ Intact' BY DEF CInv, Lined, Intact, Found, Items, journal
<1> QED BY <1>3, <1>4 DEF CInv

LEMMA CUser ==
    ASSUME CInv, TInv', User
    PROVE  CInv'
<1>1. UNCHANGED <<row, journal, job, batches>> BY DEF User, bounds
<1>2. /\ claim \in [Batches -> [Files -> Things \cup {"none"}]]
      /\ bin \in [Batches -> [Files -> Things \cup {"none"}]]
  BY DEF CInv, TInv, TypeOK
<1>3. CASE UNCHANGED <<claim, bin>>
  <2>1. Fresh' BY <1>1, <1>3 DEF CInv, Fresh
  <2> QED BY <1>1, <1>3, <2>1, COutside
<1>4. ASSUME NEW b \in Batches, NEW f \in Files, ExplorerRestores(b, f) PROVE CInv'
  <2>1. /\ claim' = [claim EXCEPT ![b][f] = bin[b][f]]
        /\ bin' = [bin EXCEPT ![b][f] = "none"]
        /\ bin[b][f] # "none"
    BY <1>4 DEF ExplorerRestores
  <2>2. \A c \in Batches \ {b} : claim'[c] = claim[c] /\ bin'[c] = bin[c]
    <3> TAKE c \in Batches \ {b}
    <3>1. claim'[c] = claim[c] BY <1>2, <2>1, Put
    <3>2. bin'[c] = bin[c] BY <1>2, <2>1, Put
    <3> QED BY <3>1, <3>2
  <2>3. ~(b > batches) BY <2>1 DEF CInv, Fresh, Nowhere
  <2>4. Fresh' BY <1>1, <2>2, <2>3 DEF CInv, Fresh, Nowhere
  <2>5. \A c \in Batches, e \in Files : /\ claim'[c][e] \in {claim[c][e], "none"} \/ bin[c][e] # "none"
                                        /\ bin'[c][e] \in {bin[c][e], "none"}
    <3> TAKE c \in Batches, e \in Files
    <3>1. <<c, e>> # <<b, f>> => claim'[c][e] = claim[c][e] BY <1>2, <2>1, Put
    <3>2. <<c, e>> # <<b, f>> => bin'[c][e] = bin[c][e] BY <1>2, <2>1, Put
    <3>3. bin'[b][f] = "none" BY <1>2, <2>1, Put
    <3> QED BY <3>1, <3>2, <3>3, <2>1
  <2> QED BY <1>1, <2>4, <2>5, COutside
<1>5. CASE EmptyBin
  <2>1. UNCHANGED claim /\ bin' = [b \in Batches |-> Nowhere] BY <1>5 DEF EmptyBin
  <2>2. Fresh' BY <1>1, <2>1 DEF CInv, Fresh, Nowhere
  <2>3. \A c \in Batches, e \in Files : bin'[c][e] = "none" BY <2>1 DEF Nowhere
  <2> QED BY <1>1, <2>1, <2>2, <2>3, COutside
<1>6. \/ UNCHANGED <<claim, bin>>
      \/ \E b \in Batches, f \in Files : ExplorerRestores(b, f)
      \/ EmptyBin
  BY DEF User, Save, Delete
<1> QED BY <1>3, <1>4, <1>5, <1>6

LEMMA CRecover ==
    ASSUME CInv, TInv', Cursor, NEW f \in Files, RecoverClaim(f)
    PROVE  CInv'
<1>1. UNCHANGED <<bin, row, journal, job, batches>> BY DEF RecoverClaim, bounds
<1>2. job.line \in 1..Len(log) /\ log[job.line] \in Lines
  BY DEF RecoverClaim, CInv, TInv, TypeOK, Jobs, Cursor
<1>3. PICK b \in Batches : claim' = [claim EXCEPT ![b][f] = "none"] BY <1>2 DEF RecoverClaim, Lines
<1>4. claim \in [Batches -> [Files -> Things \cup {"none"}]] BY DEF CInv, TInv, TypeOK
<1>5. \A c \in Batches, e \in Files : claim'[c][e] \in {claim[c][e], "none"}
  <2> TAKE c \in Batches, e \in Files
  <2>1. <<c, e>> # <<b, f>> => claim'[c][e] = claim[c][e] BY <1>3, <1>4, Put
  <2>2. claim'[b][f] = "none" BY <1>3, <1>4, Put
  <2> QED BY <2>1, <2>2
<1>6. Fresh'
  <2>1. ASSUME NEW c \in Batches, c > batches PROVE claim'[c] = Nowhere /\ bin'[c] = Nowhere
    <3>1. claim[c] = Nowhere /\ bin[c] = Nowhere BY <2>1 DEF CInv, Fresh
    <3>2. claim' \in [Batches -> [Files -> Things \cup {"none"}]] BY DEF TInv, TypeOK
    <3>3. \A e \in Files : claim'[c][e] = "none" BY <1>5, <3>1 DEF Nowhere
    <3> QED BY <1>1, <3>1, <3>2, <3>3 DEF Nowhere
  <2> QED BY <2>1, <1>1 DEF Fresh
<1> QED BY <1>1, <1>5, <1>6, COutside

\* Steps of another job, and those that end this one.
LEMMA CRest ==
    ASSUME TrashAssumption, CInv, TInv', UNCHANGED <<claim, bin, batches>>, job'.op # "trash",
           torn' = FALSE \/ torn' = torn \/ Torn
    PROVE  CInv'
<1>1. Fresh' /\ Intact' BY DEF CInv, Fresh, Intact
<1> QED BY <1>1, OtherJob

LEMMA Emptied ==
    ASSUME NEW g \in [Batches -> [Files -> Things \cup {"none"}]], NEW c \in Batches, NEW f \in Files,
           NEW b \in Batches, g[b] = Nowhere
    PROVE  [g EXCEPT ![c][f] = "none"][b] = Nowhere
<1>1. CASE b # c BY <1>1, Put
<1>2. CASE b = c
  <2>1. [g EXCEPT ![c][f] = "none"][b] = [g[b] EXCEPT ![f] = "none"] BY <1>2
  <2> QED BY <2>1 DEF Nowhere
<1> QED BY <1>1, <1>2

LEMMA CRestore ==
    ASSUME CInv, TInv', NEW f \in Files, Restore(f)
    PROVE  CInv'
<1>1. job.op = "restore" /\ job.batch \in Batches /\ UNCHANGED <<journal, batches>>
  BY DEF Restore, Runs, CInv, TInv, Running, bounds
<1>2. job'.op = "restore"
  BY <1>1 DEF Restore, RestoreFrom, NotRestored, SetItem, CInv, TInv, TypeOK, Jobs
<1>3. claim \in [Batches -> [Files -> Things \cup {"none"}]] /\ bin \in [Batches -> [Files -> Things \cup {"none"}]]
      /\ claim' \in [Batches -> [Files -> Things \cup {"none"}]] /\ bin' \in [Batches -> [Files -> Things \cup {"none"}]]
  BY DEF CInv, TInv, TypeOK
<1>5. \A b \in Batches : (claim[b] = Nowhere => claim'[b] = Nowhere) /\ (bin[b] = Nowhere => bin'[b] = Nowhere)
  <2>1. (claim' = claim \/ claim' = [claim EXCEPT ![job.batch][f] = "none"])
        /\ (bin' = bin \/ bin' = [bin EXCEPT ![job.batch][f] = "none"])
    BY DEF Restore
  <2>2. \A b \in Batches : claim[b] = Nowhere => claim'[b] = Nowhere
    <3>1. CASE claim' = claim BY <3>1
    <3>2. CASE claim' = [claim EXCEPT ![job.batch][f] = "none"]
      <4>1. job.batch \in Batches BY <1>1
      <4>2. claim \in [Batches -> [Files -> Things \cup {"none"}]] BY <1>3
      <4> QED BY <3>2, <4>1, <4>2, Emptied
    <3> QED BY <3>1, <3>2, <2>1
  <2>3. \A b \in Batches : bin[b] = Nowhere => bin'[b] = Nowhere
    <3>1. CASE bin' = bin BY <3>1
    <3>2. CASE bin' = [bin EXCEPT ![job.batch][f] = "none"]
      <4>1. job.batch \in Batches BY <1>1
      <4>2. bin \in [Batches -> [Files -> Things \cup {"none"}]] BY <1>3
      <4> QED BY <3>2, <4>1, <4>2, Emptied
    <3> QED BY <3>1, <3>2, <2>1
  <2> QED BY <2>2, <2>3
<1>6. Fresh' /\ Intact' BY <1>1, <1>5 DEF CInv, Fresh, Intact, journal
<1> QED BY <1>2, <1>6, OtherJob

LEMMA CNext ==
    ASSUME TrashAssumption, CInv, Cursor, TInv', [Next]_vars
    PROVE  CInv'
<1>1. CASE UNCHANGED vars
  BY <1>1 DEF vars, files, journal, bounds, CInv, Fresh, Carried, Item, Named, Intact, Lined, Found, Items
<1>2. ASSUME NEW b \in Batches, StartRestore(b) PROVE CInv'
  <2>1. job'.op = "restore" /\ UNCHANGED <<claim, bin, batches, torn>>
    BY <1>2 DEF StartRestore, Idle, files, journal
  <2> QED BY <2>1, CRest
<1>3. CASE CommitTrash \/ CommitRestore
  <2>1. job'.op # "trash" /\ UNCHANGED <<claim, bin, batches, torn>>
    BY <1>3 DEF CommitTrash, CommitRestore, Ends, Idle, files, journal, bounds
  <2> QED BY <2>1, CRest
<1>4. CASE PersistReceipts
  <2>1. job'.op # "trash" /\ UNCHANGED <<claim, bin, batches>>
    <3>1. UNCHANGED <<claim, bin, batches>> /\ job.op = "restore" /\ job \in Jobs
      BY <1>4 DEF PersistReceipts, Runs, files, bounds, CInv, TInv, TypeOK
    <3>2. job' = Idle \/ \E R : job' = [job EXCEPT !.at = "work", !.receipts = R]
      BY <1>4 DEF PersistReceipts, Ends
    <3>3. job'.op # "trash"
      <4>1. CASE job' = Idle BY <4>1 DEF Idle
      <4>2. ASSUME NEW R, job' = [job EXCEPT !.at = "work", !.receipts = R] PROVE job'.op = job.op
        BY <3>1, <4>2 DEF Jobs
      <4> QED BY <3>1, <3>2, <4>1, <4>2
    <3> QED BY <3>1, <3>3
  <2>2. torn' = FALSE \/ torn' = torn \/ Torn
    BY <1>4 DEF PersistReceipts, Appended, AppendFails, journal
  <2> QED BY <2>1, <2>2, CRest
<1>5. ASSUME NEW f \in Files, Survey(f) PROVE CInv'
  <2>1. job'.op # "trash" /\ UNCHANGED <<claim, bin, batches, torn>>
    BY <1>5 DEF Survey, SetItem, Runs, files, journal, bounds, CInv, TInv, TypeOK, Jobs
  <2> QED BY <2>1, CRest
<1>6. CASE Kill \/ Launch \/ Recovered
  <2>1. job'.op # "trash" /\ UNCHANGED <<claim, bin, batches, torn>>
    <3>1. CASE Kill
      <4>1. job'.op = "none" BY <3>1 DEF Kill, Ends, Idle
      <4> QED BY <4>1, <3>1 DEF Kill, files, journal
    <3>2. CASE Launch
      <4>1. job' = [Idle EXCEPT !.op = "recover", !.line = 1] BY <3>2 DEF Launch
      <4>2. job'.op = "recover" BY <4>1 DEF Idle
      <4> QED BY <4>2, <3>2 DEF Launch, files, journal, bounds
    <3>3. CASE Recovered
      <4>1. job'.op = "none" BY <3>3 DEF Recovered, Ends, Idle
      <4> QED BY <4>1, <3>3 DEF Recovered, files, journal, bounds
    <3> QED BY <3>1, <3>2, <3>3, <1>6
  <2> QED BY <2>1, CRest
<1>7. CASE RecoverNext
  <2>1. UNCHANGED <<claim, bin, batches, torn, log, row>> /\ job' = [job EXCEPT !.line = @ + 1]
    BY <1>7 DEF RecoverNext, files, journal, bounds
  <2>2. job'.op = job.op /\ job'.at = job.at /\ job'.batch = job.batch /\ job'.was = job.was
        /\ job'.item = job.item /\ job'.ids = job.ids
    BY <2>1 DEF CInv, TInv, TypeOK, Jobs
  <2> QED BY <2>1, <2>2 DEF CInv, Fresh, Carried, Item, Named, Intact, Lined, Found, Items
<1> QED BY <1>1, <1>2, <1>3, <1>4, <1>5, <1>6, <1>7, CStart, CJournal, CCheck, CClaim, CCheckClaim, CSend, CBind,
           CRestore, CRecover, CUser DEF Next

LEMMA CInvariant == TrashAssumption /\ Spec => [](CInv /\ Cursor)
<1>1. TrashAssumption /\ Init => CInv BY CInit
<1>2. TrashAssumption /\ CInv /\ Cursor /\ (TInv /\ Cursor)' /\ [Next]_vars => CInv' BY CNext
<1>3. TrashAssumption /\ Spec => [](TInv /\ Cursor) BY TypeInvariant
<1> QED BY <1>1, <1>2, <1>3, TrashAssumption, PTL DEF Spec

-----------------------------------------------------------------------------
(* What follows from it.                                                   *)

LEMMA BinStep ==
    ASSUME CInv, TInv', [Next]_vars, NEW b \in Batches, NEW f \in Files, bin'[b][f] \notin {bin[b][f], "none"}
    PROVE  bin'[b][f] = Named(row[f])
<1>1. bin \in [Batches -> [Files -> Things \cup {"none"}]] /\ claim \in [Batches -> [Files -> Things \cup {"none"}]]
  BY DEF CInv, TInv, TypeOK
<1>2. ASSUME NEW e \in Files, NEW s \in {"trashed", "failed"}, Recycle(e, s), SendToBin(e)
      PROVE  bin'[b][f] = Named(row[f])
  <2>1. e \in DOMAIN job.item /\ job.item[e] = "valid" /\ Runs("trash", "work") BY <1>2 DEF SendToBin, Items
  <2>2. bin' = [bin EXCEPT ![job.batch][e] = claim[job.batch][e]] BY <1>2 DEF Recycle
  <2>3. b = job.batch /\ e = f BY <1>1, <2>1, <2>2, Working, Put
  <2>4. bin'[b][f] = claim[b][f] BY <1>1, <2>1, <2>2, <2>3, Working, Put
  <2>5. claim[b][f] \in {"none", Named(row[f])} BY <2>1, <2>3, Working DEF Item
  <2> QED BY <2>4, <2>5
<1>3. ASSUME NEW e \in Files, NEW c \in Batches, bin' = [bin EXCEPT ![c][e] = "none"] PROVE FALSE
  BY <1>1, <1>3, Put
<1>4. CASE EmptyBin BY <1>4 DEF EmptyBin, Nowhere
<1>5. \/ UNCHANGED bin
      \/ EmptyBin
      \/ \E e \in Files, s \in {"trashed", "failed"} : Recycle(e, s) /\ SendToBin(e)
      \/ \E e \in Files, c \in Batches : bin' = [bin EXCEPT ![c][e] = "none"]
  <2>1. ASSUME NEW e \in Files, Restore(e) PROVE \E c \in Batches : UNCHANGED bin \/ bin' = [bin EXCEPT ![c][e] = "none"]
    BY <2>1 DEF Restore, Runs, CInv, TInv, Running
  <2>2. ASSUME NEW e \in Files, SendToBin(e)
        PROVE UNCHANGED bin \/ \E s \in {"trashed", "failed"} : Recycle(e, s) /\ SendToBin(e)
    BY <2>2 DEF SendToBin
  <2>3. ASSUME NEW e \in Files, CheckOriginal(e) \/ Claim(e) \/ CheckClaim(e) \/ Survey(e) \/ RecoverClaim(e)
        PROVE UNCHANGED bin
    BY <2>3 DEF CheckOriginal, Claim, CheckClaim, Survey, RecoverClaim, files
  <2>4. CASE User BY <2>4 DEF User, Save, Delete, ExplorerRestores
  <2>5. CASE JournalTrash \/ BindReceipts \/ CommitTrash \/ PersistReceipts \/ CommitRestore \/ Kill \/ Launch
             \/ RecoverNext \/ Recovered \/ UNCHANGED vars
    BY <2>5 DEF JournalTrash, BindReceipts, CommitTrash, PersistReceipts, CommitRestore, Kill, Launch, RecoverNext,
                Recovered, vars, files
  <2>6. ASSUME (\E S \in SUBSET Files : StartTrash(S)) \/ (\E c \in Batches : StartRestore(c)) PROVE UNCHANGED bin
    BY <2>6 DEF StartTrash, StartRestore, files
  <2> QED BY <2>1, <2>2, <2>3, <2>4, <2>5, <2>6 DEF Next
<1> QED BY <1>2, <1>3, <1>4, <1>5

\* Only the file that the catalog's row is about is sent to the Recycle Bin,
\* whatever the user saves over it between the two checks.
THEOREM OnlyIndexedCorrect == Spec => OnlyIndexed
<1>1. (CInv /\ Cursor) /\ (TInv /\ Cursor)' /\ [Next]_vars =>
        [\A b \in Batches, f \in Files : bin'[b][f] \notin {bin[b][f], "none"} => bin'[b][f] = Named(row[f])]_vars
  BY BinStep
<1> QED BY <1>1, CInvariant, TypeInvariant, TrashAssumption, PTL DEF Spec, OnlyIndexed

LEMMA RowStep ==
    ASSUME CInv, [Next]_vars, NEW f \in Files, row[f] # "none", row'[f] = "none"
    PROVE  \E i \in Found(job.batch) : f \in log[i].receipts
<1>1. row \in [Files -> Things \cup {"none", "noref"}] BY DEF CInv, TInv, TypeOK
<1>2. CASE CommitTrash
  <2>1. f \in Items("trashed") BY <1>1, <1>2 DEF CommitTrash
  <2>2. job.op = "trash" /\ job.at = "commit" BY <1>2 DEF CommitTrash, Runs
  <2> QED BY <2>1, <2>2 DEF CInv, Lined
<1>3. CASE CommitRestore
  BY <1>1, <1>3 DEF CommitRestore, Reinserted
<1>4. CASE UNCHANGED row BY <1>4
<1>5. UNCHANGED row \/ CommitTrash \/ CommitRestore
  BY DEF Next, vars, StartTrash, StartRestore, JournalTrash, BindReceipts, PersistReceipts, CheckOriginal, Claim,
         CheckClaim, SendToBin, Survey, Restore, RecoverClaim, Kill, Launch, RecoverNext, Recovered, User
<1> QED BY <1>2, <1>3, <1>4, <1>5

\* A row is deleted only when a signed receipt for its file is in the log.
THEOREM ReceiptFirstCorrect == Spec => ReceiptFirst
<1>1. (CInv /\ Cursor) /\ [Next]_vars =>
        [\A f \in Files : row[f] # "none" /\ row'[f] = "none" =>
            \E i \in Found(job.batch) : f \in log[i].receipts]_vars
  BY RowStep
<1> QED BY <1>1, CInvariant, TrashAssumption, PTL DEF Spec, ReceiptFirst

\* Unless an append can leave a torn line, every claim of the running batch is
\* in the log under a signed line.
THEOREM ClaimJournaledCorrect == ASSUME ~Torn PROVE Spec => []ClaimJournaled
<1>1. CInv /\ Cursor => ClaimJournaled
  <2> SUFFICES ASSUME CInv, job.op = "trash", NEW f \in DOMAIN job.ids, claim[job.batch][f] = job.ids[f]
               PROVE  Journaled(job.batch, f)
    BY DEF ClaimJournaled
  <2>1. f \in DOMAIN job.item /\ job.ids[f] \in Things BY ItemsAreFiles DEF CInv, TInv, Running
  <2>2. Item(f) BY <2>1 DEF CInv, Carried
  <2>3. job.at # "journal" BY <2>1, <2>2 DEF Item, Things
  <2>4. PICK i \in Found(job.batch) : log[i].ids = job.ids BY <2>3 DEF CInv, Lined
  <2> QED BY <2>4 DEF Journaled, Found
<1> QED BY <1>1, CInvariant, TrashAssumption, PTL

-----------------------------------------------------------------------------
(* Custody: a file is moved onto a free place, and only the user puts any  *)
(* to an end.                                                              *)

Contents == Things \cup {"none"}
Where == [p \in Places |-> IF p[1] = "orig" THEN orig ELSE IF p[1] = "claim" THEN claim[p[2]] ELSE bin[p[2]]]
OneEach(w, ft) == \A f \in Files, x \in Things :
    /\ ft[f][x] = "alive" <=> \E p \in Places : w[p][f] = x
    /\ \A p, q \in Places : w[p][f] = x /\ w[q][f] = x => p = q
Orig == <<"orig", 0>>

LEMMA PlacesAre ==
    /\ Orig \in Places
    /\ \A b \in Batches : <<"claim", b>> \in Places /\ <<"bin", b>> \in Places
    /\ \A p \in Places : p = Orig \/ \E b \in Batches : p = <<"claim", b>> \/ p = <<"bin", b>>
    /\ \A b, c \in Batches : /\ <<"claim", b>> # <<"bin", c>> /\ <<"claim", b>> # Orig /\ <<"bin", b>> # Orig
                             /\ <<"claim", b>> = <<"claim", c>> <=> b = c
                             /\ <<"bin", b>> = <<"bin", c>> <=> b = c
BY DEF Places, Orig

LEMMA WhereIs ==
    /\ Where[Orig] = orig
    /\ \A b \in Batches : Where[<<"claim", b>>] = claim[b] /\ Where[<<"bin", b>>] = bin[b]
BY PlacesAre DEF Where, Orig

LEMMA WhereNext ==
    /\ Where'[Orig] = orig'
    /\ \A b \in Batches : Where'[<<"claim", b>>] = claim'[b] /\ Where'[<<"bin", b>>] = bin'[b]
BY PlacesAre DEF Where, Orig

LEMMA CustodyIs == NothingLost <=> OneEach(Where, fate)
<1>1. ASSUME NEW p \in Places, NEW f \in Files PROVE Held(p, f) = Where[p][f]
  <2>1. CASE p = Orig BY <2>1, WhereIs DEF Held, Orig
  <2>2. ASSUME NEW b \in Batches, p = <<"claim", b>> PROVE Held(p, f) = Where[p][f]
    BY <2>2, WhereIs DEF Held
  <2>3. ASSUME NEW b \in Batches, p = <<"bin", b>> PROVE Held(p, f) = Where[p][f]
    BY <2>3, WhereIs DEF Held
  <2> QED BY <2>1, <2>2, <2>3, PlacesAre
<1> QED BY <1>1 DEF NothingLost, OneEach

\* What a step does to the places of one file.
Moves(w, v, f, p, q) ==
    /\ p # q /\ w[q][f] = "none"
    /\ v[q][f] = w[p][f] /\ v[p][f] = "none"
    /\ \A r \in Places, e \in Files : e # f \/ r \notin {p, q} => v[r][e] = w[r][e]

LEMMA MoveKeeps ==
    ASSUME NEW w, NEW v, NEW ft, OneEach(w, ft), NEW f \in Files, NEW p \in Places, NEW q \in Places,
           Moves(w, v, f, p, q)
    PROVE  OneEach(v, ft)
<1>1. "none" \notin Things BY DEF Things
<1>2. ASSUME NEW e \in Files, NEW x \in Things, e # f
      PROVE  /\ ft[e][x] = "alive" <=> \E r \in Places : v[r][e] = x
             /\ \A r, s \in Places : v[r][e] = x /\ v[s][e] = x => r = s
  <2>1. \A r \in Places : v[r][e] = w[r][e] BY <1>2 DEF Moves
  <2> QED BY <2>1 DEF OneEach
<1>3. ASSUME NEW x \in Things
      PROVE  /\ ft[f][x] = "alive" <=> \E r \in Places : v[r][f] = x
             /\ \A r, s \in Places : v[r][f] = x /\ v[s][f] = x => r = s
  <2>1. v[q][f] = w[p][f] /\ v[p][f] # x /\ w[q][f] # x /\ \A r \in Places \ {p, q} : v[r][f] = w[r][f]
    BY <1>1 DEF Moves
  <2>2. ft[f][x] = "alive" <=> \E r \in Places : w[r][f] = x BY DEF OneEach
  <2>3. \A r, s \in Places : w[r][f] = x /\ w[s][f] = x => r = s BY DEF OneEach
  <2>4. (\E r \in Places : v[r][f] = x) <=> \E r \in Places : w[r][f] = x BY <2>1
  <2>5. ASSUME NEW r \in Places, NEW s \in Places, v[r][f] = x, v[s][f] = x PROVE r = s
    BY <2>1, <2>3, <2>5
  <2> QED BY <2>2, <2>4, <2>5
<1> QED BY <1>2, <1>3 DEF OneEach

LEMMA PlaceTypes ==
    ASSUME TInv
    PROVE  /\ orig \in [Files -> Contents]
           /\ claim \in [Batches -> [Files -> Contents]] /\ bin \in [Batches -> [Files -> Contents]]
BY DEF TInv, TypeOK, Contents

\* A step that touches only the paths.
LEMMA PathsOnly ==
    ASSUME UNCHANGED <<claim, bin>>
    PROVE  \A p \in Places \ {Orig} : Where'[p] = Where[p]
<1>1. ASSUME NEW p \in Places \ {Orig} PROVE Where'[p] = Where[p]
  <2>1. ASSUME NEW b \in Batches, p = <<"claim", b>> PROVE Where'[p] = Where[p] BY <2>1, WhereIs, WhereNext
  <2>2. ASSUME NEW b \in Batches, p = <<"bin", b>> PROVE Where'[p] = Where[p] BY <2>2, WhereIs, WhereNext
  <2> QED BY <2>1, <2>2, PlacesAre
<1> QED BY <1>1

\* The renames: onto a claim name, back to the path, to the bin and back.
LEMMA ToClaim ==
    ASSUME TInv, NEW b \in Batches, NEW f \in Files, claim[b][f] = "none",
           claim' = [claim EXCEPT ![b][f] = orig[f]], orig' = [orig EXCEPT ![f] = "none"], UNCHANGED bin
    PROVE  Moves(Where, Where', f, Orig, <<"claim", b>>)
<1>1. ASSUME NEW r \in Places, NEW e \in Files, e # f \/ r \notin {Orig, <<"claim", b>>}
      PROVE  Where'[r][e] = Where[r][e]
  <2>1. CASE r = Orig BY <1>1, <2>1, WhereIs, WhereNext, PlaceTypes
  <2>2. ASSUME NEW c \in Batches, r = <<"claim", c>> PROVE Where'[r][e] = Where[r][e]
    <3>1. <<c, e>> # <<b, f>> BY <1>1, <2>2, PlacesAre
    <3>2. claim'[c][e] = claim[c][e] BY <3>1, PlaceTypes, Put
    <3> QED BY <3>2, <2>2, WhereIs, WhereNext
  <2>3. ASSUME NEW c \in Batches, r = <<"bin", c>> PROVE Where'[r][e] = Where[r][e]
    BY <2>3, WhereIs, WhereNext
  <2> QED BY <2>1, <2>2, <2>3, PlacesAre
<1>2. claim'[b][f] = orig[f] BY PlaceTypes, Put
<1>3. orig'[f] = "none" BY PlaceTypes
<1> QED BY <1>1, <1>2, <1>3, WhereIs, WhereNext, PlacesAre DEF Moves

LEMMA ToOrig ==
    ASSUME TInv, NEW b \in Batches, NEW f \in Files, orig[f] = "none",
           orig' = [orig EXCEPT ![f] = claim[b][f]], claim' = [claim EXCEPT ![b][f] = "none"], UNCHANGED bin
    PROVE  Moves(Where, Where', f, <<"claim", b>>, Orig)
<1>1. ASSUME NEW r \in Places, NEW e \in Files, e # f \/ r \notin {Orig, <<"claim", b>>}
      PROVE  Where'[r][e] = Where[r][e]
  <2>1. CASE r = Orig BY <1>1, <2>1, WhereIs, WhereNext, PlaceTypes
  <2>2. ASSUME NEW c \in Batches, r = <<"claim", c>> PROVE Where'[r][e] = Where[r][e]
    <3>1. <<c, e>> # <<b, f>> BY <1>1, <2>2, PlacesAre
    <3>2. claim'[c][e] = claim[c][e] BY <3>1, PlaceTypes, Put
    <3> QED BY <3>2, <2>2, WhereIs, WhereNext
  <2>3. ASSUME NEW c \in Batches, r = <<"bin", c>> PROVE Where'[r][e] = Where[r][e]
    BY <2>3, WhereIs, WhereNext
  <2> QED BY <2>1, <2>2, <2>3, PlacesAre
<1>2. claim'[b][f] = "none" BY PlaceTypes, Put
<1>3. orig'[f] = claim[b][f] BY PlaceTypes
<1>4. /\ <<"claim", b>> # Orig /\ Where[Orig][f] = "none"
      /\ Where'[Orig][f] = Where[<<"claim", b>>][f] /\ Where'[<<"claim", b>>][f] = "none"
  BY <1>2, <1>3, WhereIs, WhereNext, PlacesAre
<1> QED BY <1>1, <1>4 DEF Moves

LEMMA FromBin ==
    ASSUME TInv, NEW b \in Batches, NEW f \in Files, orig[f] = "none",
           orig' = [orig EXCEPT ![f] = bin[b][f]], bin' = [bin EXCEPT ![b][f] = "none"], UNCHANGED claim
    PROVE  Moves(Where, Where', f, <<"bin", b>>, Orig)
<1>1. ASSUME NEW r \in Places, NEW e \in Files, e # f \/ r \notin {Orig, <<"bin", b>>}
      PROVE  Where'[r][e] = Where[r][e]
  <2>1. CASE r = Orig BY <1>1, <2>1, WhereIs, WhereNext, PlaceTypes
  <2>2. ASSUME NEW c \in Batches, r = <<"bin", c>> PROVE Where'[r][e] = Where[r][e]
    <3>1. <<c, e>> # <<b, f>> BY <1>1, <2>2, PlacesAre
    <3>2. bin'[c][e] = bin[c][e] BY <3>1, PlaceTypes, Put
    <3> QED BY <3>2, <2>2, WhereIs, WhereNext
  <2>3. ASSUME NEW c \in Batches, r = <<"claim", c>> PROVE Where'[r][e] = Where[r][e]
    BY <2>3, WhereIs, WhereNext
  <2> QED BY <2>1, <2>2, <2>3, PlacesAre
<1>2. bin'[b][f] = "none" BY PlaceTypes, Put
<1>3. orig'[f] = bin[b][f] BY PlaceTypes
<1>4. /\ <<"bin", b>> # Orig /\ Where[Orig][f] = "none"
      /\ Where'[Orig][f] = Where[<<"bin", b>>][f] /\ Where'[<<"bin", b>>][f] = "none"
  BY <1>2, <1>3, WhereIs, WhereNext, PlacesAre
<1> QED BY <1>1, <1>4 DEF Moves

LEMMA ToBin ==
    ASSUME TInv, NEW b \in Batches, NEW f \in Files, bin[b][f] = "none",
           bin' = [bin EXCEPT ![b][f] = claim[b][f]], claim' = [claim EXCEPT ![b][f] = "none"], UNCHANGED orig
    PROVE  Moves(Where, Where', f, <<"claim", b>>, <<"bin", b>>)
<1>1. ASSUME NEW r \in Places, NEW e \in Files, e # f \/ r \notin {<<"bin", b>>, <<"claim", b>>}
      PROVE  Where'[r][e] = Where[r][e]
  <2>1. CASE r = Orig BY <2>1, WhereIs, WhereNext
  <2>2. ASSUME NEW c \in Batches, r = <<"claim", c>> PROVE Where'[r][e] = Where[r][e]
    <3>1. <<c, e>> # <<b, f>> BY <1>1, <2>2, PlacesAre
    <3>2. claim'[c][e] = claim[c][e] BY <3>1, PlaceTypes, Put
    <3> QED BY <3>2, <2>2, WhereIs, WhereNext
  <2>3. ASSUME NEW c \in Batches, r = <<"bin", c>> PROVE Where'[r][e] = Where[r][e]
    <3>1. <<c, e>> # <<b, f>> BY <1>1, <2>3, PlacesAre
    <3>2. bin'[c][e] = bin[c][e] BY <3>1, PlaceTypes, Put
    <3> QED BY <3>2, <2>3, WhereIs, WhereNext
  <2> QED BY <2>1, <2>2, <2>3, PlacesAre
<1>2. claim'[b][f] = "none" BY PlaceTypes, Put
<1>3. bin'[b][f] = claim[b][f] BY PlaceTypes, Put
<1> QED BY <1>1, <1>2, <1>3, WhereIs, WhereNext, PlacesAre DEF Moves

LEMMA BackToClaim ==
    ASSUME TInv, NEW b \in Batches, NEW f \in Files, claim[b][f] = "none",
           claim' = [claim EXCEPT ![b][f] = bin[b][f]], bin' = [bin EXCEPT ![b][f] = "none"], UNCHANGED orig
    PROVE  Moves(Where, Where', f, <<"bin", b>>, <<"claim", b>>)
<1>1. ASSUME NEW r \in Places, NEW e \in Files, e # f \/ r \notin {<<"bin", b>>, <<"claim", b>>}
      PROVE  Where'[r][e] = Where[r][e]
  <2>1. CASE r = Orig BY <2>1, WhereIs, WhereNext
  <2>2. ASSUME NEW c \in Batches, r = <<"claim", c>> PROVE Where'[r][e] = Where[r][e]
    <3>1. <<c, e>> # <<b, f>> BY <1>1, <2>2, PlacesAre
    <3>2. claim'[c][e] = claim[c][e] BY <3>1, PlaceTypes, Put
    <3> QED BY <3>2, <2>2, WhereIs, WhereNext
  <2>3. ASSUME NEW c \in Batches, r = <<"bin", c>> PROVE Where'[r][e] = Where[r][e]
    <3>1. <<c, e>> # <<b, f>> BY <1>1, <2>3, PlacesAre
    <3>2. bin'[c][e] = bin[c][e] BY <3>1, PlaceTypes, Put
    <3> QED BY <3>2, <2>3, WhereIs, WhereNext
  <2> QED BY <2>1, <2>2, <2>3, PlacesAre
<1>2. bin'[b][f] = "none" BY PlaceTypes, Put
<1>3. claim'[b][f] = bin[b][f] BY PlaceTypes, Put
<1> QED BY <1>1, <1>2, <1>3, WhereIs, WhereNext, PlacesAre DEF Moves

LEMMA StillEach ==
    ASSUME OneEach(Where, fate), UNCHANGED files
    PROVE  OneEach(Where, fate)'
<1>1. Where' = Where BY DEF files, Where, Places
<1>2. fate' = fate BY DEF files
<1>3. OneEach(Where', fate') BY <1>1, <1>2
<1> QED BY <1>3 DEF OneEach, Places

LEMMA MovedEach ==
    ASSUME OneEach(Where, fate), UNCHANGED fate,
           NEW f \in Files, NEW p \in Places, NEW q \in Places, Moves(Where, Where', f, p, q)
    PROVE  OneEach(Where, fate)'
<1>1. OneEach(Where', fate) BY MoveKeeps
<1> QED BY <1>1 DEF OneEach, Places

LEMMA BatchMoves ==
    ASSUME CInv, OneEach(Where, fate), NEW f \in Files, Claim(f) \/ CheckClaim(f) \/ SendToBin(f)
    PROVE  OneEach(Where, fate)'
<1>1. f \in DOMAIN job.item /\ Runs("trash", "work") /\ UNCHANGED fate
  BY DEF Claim, CheckClaim, SendToBin, Items
<1>2. job.batch \in Batches /\ Item(f) BY <1>1, Working
<1>3. TInv BY DEF CInv
<1>4. CASE UNCHANGED <<orig, claim, bin>> BY <1>1, <1>4, StillEach DEF files
<1>5. CASE Claim(f) /\ claim' = [claim EXCEPT ![job.batch][f] = orig[f]] /\ orig' = [orig EXCEPT ![f] = "none"]
  <2>1. claim[job.batch][f] = "none" /\ UNCHANGED bin BY <1>2, <1>5 DEF Claim, Items, Item
  <2> QED BY <1>1, <1>2, <1>3, <1>5, <2>1, ToClaim, PlacesAre, MovedEach
<1>6. CASE orig[f] = "none" /\ orig' = [orig EXCEPT ![f] = claim[job.batch][f]]
           /\ claim' = [claim EXCEPT ![job.batch][f] = "none"] /\ UNCHANGED bin
  <2>1. Moves(Where, Where', f, <<"claim", job.batch>>, Orig) BY <1>2, <1>3, <1>6, ToOrig
  <2> QED BY <1>1, <1>2, <2>1, PlacesAre, MovedEach
<1>7. CASE SendToBin(f) /\ bin' = [bin EXCEPT ![job.batch][f] = claim[job.batch][f]]
           /\ claim' = [claim EXCEPT ![job.batch][f] = "none"] /\ UNCHANGED orig
  <2>1. bin[job.batch][f] = "none" BY <1>2, <1>7 DEF SendToBin, Items, Item, Pending
  <2> QED BY <1>1, <1>2, <1>3, <1>7, <2>1, ToBin, PlacesAre, MovedEach
<1>8. ASSUME NEW s, PutBack(f, s)
      PROVE  \/ UNCHANGED <<orig, claim>>
             \/ orig[f] = "none" /\ orig' = [orig EXCEPT ![f] = claim[job.batch][f]]
                /\ claim' = [claim EXCEPT ![job.batch][f] = "none"]
  BY <1>8 DEF PutBack
<1>9. CASE Claim(f) BY <1>4, <1>5, <1>9 DEF Claim
<1>10. CASE CheckClaim(f) BY <1>4, <1>6, <1>8, <1>10 DEF CheckClaim
<1>11. CASE SendToBin(f)
  <2>1. CASE PutBack(f, "failed") /\ UNCHANGED bin BY <1>4, <1>6, <1>8, <2>1
  <2>2. CASE Recycle(f, "trashed") \/ Recycle(f, "failed") BY <1>7, <1>11, <2>2 DEF Recycle
  <2> QED BY <1>11, <2>1, <2>2 DEF SendToBin
<1> QED BY <1>9, <1>10, <1>11

LEMMA BackMoves ==
    ASSUME CInv, Cursor, OneEach(Where, fate), NEW f \in Files, Restore(f) \/ RecoverClaim(f)
    PROVE  OneEach(Where, fate)'
<1>1. TInv /\ UNCHANGED fate BY DEF CInv, Restore, RecoverClaim
<1>2. CASE UNCHANGED <<orig, claim, bin>> BY <1>1, <1>2, StillEach DEF files
<1>3. ASSUME NEW b \in Batches, orig[f] = "none", orig' = [orig EXCEPT ![f] = claim[b][f]],
             claim' = [claim EXCEPT ![b][f] = "none"], UNCHANGED bin
      PROVE  OneEach(Where, fate)'
  BY <1>1, <1>3, ToOrig, PlacesAre, MovedEach
<1>4. ASSUME NEW b \in Batches, orig[f] = "none", orig' = [orig EXCEPT ![f] = bin[b][f]],
             bin' = [bin EXCEPT ![b][f] = "none"], UNCHANGED claim
      PROVE  OneEach(Where, fate)'
  BY <1>1, <1>4, FromBin, PlacesAre, MovedEach
<1>5. CASE Restore(f)
  <2>1. job.batch \in Batches BY <1>1, <1>5 DEF Restore, Runs, TInv, Running
  <2>2. CASE RestoreFrom(f, bin) /\ bin' = [bin EXCEPT ![job.batch][f] = "none"] /\ UNCHANGED claim
    BY <2>1, <2>2, <1>4 DEF RestoreFrom
  <2>3. CASE RestoreFrom(f, claim) /\ claim' = [claim EXCEPT ![job.batch][f] = "none"] /\ UNCHANGED bin
    BY <2>1, <2>3, <1>3 DEF RestoreFrom
  <2> QED BY <1>2, <1>5, <2>2, <2>3 DEF Restore
<1>6. CASE RecoverClaim(f)
  <2>1. job.line \in 1..Len(log) /\ log[job.line] \in Lines
    BY <1>1, <1>6 DEF RecoverClaim, TInv, TypeOK, Jobs, Cursor
  <2>2. log[job.line].batch \in Batches BY <2>1 DEF Lines
  <2> QED BY <2>2, <1>3, <1>6 DEF RecoverClaim, Recoverable
<1> QED BY <1>5, <1>6

LEMMA UserMoves ==
    ASSUME CInv, OneEach(Where, fate), User
    PROVE  OneEach(Where, fate)'
<1>1. TInv /\ fate \in [Files -> [Things -> {"unborn", "alive", "gone"}]] /\ "none" \notin Things
  BY DEF CInv, TInv, TypeOK, Things
<1>2. ASSUME NEW f \in Files, Save(f) PROVE OneEach(Where', fate')
  <2>1. /\ fate[f]["other"] # "alive"
        /\ orig' = [orig EXCEPT ![f] = "other"] /\ UNCHANGED <<claim, bin>>
        /\ fate' = [fate EXCEPT ![f] = [other |-> "alive", own |-> IF orig[f] = "own" THEN "gone" ELSE @.own]]
    BY <1>2 DEF Save
  <2>2. /\ Where'[Orig][f] = "other"
        /\ \A e \in Files \ {f} : Where'[Orig][e] = Where[Orig][e]
        /\ \A p \in Places \ {Orig} : Where'[p] = Where[p]
    BY <1>1, <2>1, WhereIs, WhereNext, PathsOnly, PlaceTypes
  <2>3. \A e \in Files \ {f} : fate'[e] = fate[e] BY <2>1, <1>1
  <2>4. fate'[f]["other"] = "alive" /\ fate'[f]["own"] = IF orig[f] = "own" THEN "gone" ELSE fate[f]["own"]
    BY <2>1, <1>1
  <2>5. ASSUME NEW e \in Files, NEW x \in Things
        PROVE  /\ fate'[e][x] = "alive" <=> \E p \in Places : Where'[p][e] = x
               /\ \A p, q \in Places : Where'[p][e] = x /\ Where'[q][e] = x => p = q
    <3>1. CASE e # f
      <4>1. \A p \in Places : Where'[p][e] = Where[p][e] BY <2>2, <3>1
      <4> QED BY <4>1, <2>3, <3>1 DEF OneEach
    <3>2. CASE e = f /\ x = "other"
      <4>1. \A p \in Places : Where[p][f] # "other" BY <2>1, <3>2 DEF OneEach
      <4> QED BY <4>1, <2>2, <2>4, <3>2, PlacesAre
    <3>3. CASE e = f /\ x = "own"
      <4>1. Where[Orig][f] = orig[f] /\ Orig \in Places BY WhereIs, PlacesAre
      <4>2. \A p \in Places : Where'[p][f] = "own" <=> p # Orig /\ Where[p][f] = "own" BY <2>2
      <4>3. \A p, q \in Places : Where[p][f] = "own" /\ Where[q][f] = "own" => p = q BY <3>3 DEF OneEach
      <4>4. fate[f]["own"] = "alive" <=> \E p \in Places : Where[p][f] = "own" BY <3>3 DEF OneEach
      <4> QED BY <4>1, <4>2, <4>3, <4>4, <2>4, <3>3
    <3> QED BY <3>1, <3>2, <3>3 DEF Things
  <2> QED BY <2>5 DEF OneEach
<1>3. ASSUME NEW f \in Files, Delete(f) PROVE OneEach(Where', fate')
  <2>1. /\ orig[f] \in Things /\ orig' = [orig EXCEPT ![f] = "none"] /\ UNCHANGED <<claim, bin>>
        /\ fate' = [fate EXCEPT ![f][orig[f]] = "gone"]
    BY <1>1, <1>3, PlaceTypes DEF Delete, Contents
  <2>2. /\ Where'[Orig][f] = "none" /\ Where[Orig][f] = orig[f]
        /\ \A e \in Files \ {f} : Where'[Orig][e] = Where[Orig][e]
        /\ \A p \in Places \ {Orig} : Where'[p] = Where[p]
    BY <1>1, <2>1, WhereIs, WhereNext, PathsOnly, PlaceTypes
  <2>3. \A e \in Files \ {f} : fate'[e] = fate[e] BY <2>1, <1>1
  <2>4. fate'[f][orig[f]] = "gone" /\ \A x \in Things \ {orig[f]} : fate'[f][x] = fate[f][x]
    BY <2>1, <1>1
  <2>5. ASSUME NEW e \in Files, NEW x \in Things
        PROVE  /\ fate'[e][x] = "alive" <=> \E p \in Places : Where'[p][e] = x
               /\ \A p, q \in Places : Where'[p][e] = x /\ Where'[q][e] = x => p = q
    <3>1. CASE e # f
      <4>1. \A p \in Places : Where'[p][e] = Where[p][e] BY <2>2, <3>1
      <4> QED BY <4>1, <2>3, <3>1 DEF OneEach
    <3>2. CASE e = f
      <4>1. \A p \in Places : Where'[p][f] = x <=> p # Orig /\ Where[p][f] = x BY <2>2, <1>1
      <4>2. \A p, q \in Places : Where[p][f] = x /\ Where[q][f] = x => p = q BY DEF OneEach
      <4>3. fate[f][x] = "alive" <=> \E p \in Places : Where[p][f] = x BY DEF OneEach
      <4>4. CASE x = orig[f] BY <4>1, <4>2, <4>4, <2>2, <2>4, <3>2, PlacesAre
      <4>5. CASE x # orig[f] BY <4>1, <4>2, <4>3, <4>5, <2>2, <2>4, <3>2
      <4> QED BY <4>4, <4>5
    <3> QED BY <3>1, <3>2
  <2> QED BY <2>5 DEF OneEach
<1>4. ASSUME NEW b \in Batches, NEW f \in Files, ExplorerRestores(b, f) PROVE OneEach(Where, fate)'
  <2>1. Moves(Where, Where', f, <<"bin", b>>, <<"claim", b>>)
    BY <1>1, <1>4, BackToClaim DEF ExplorerRestores
  <2> QED BY <2>1, <1>4, PlacesAre, MovedEach DEF ExplorerRestores
<1>5. CASE EmptyBin
  <2>1. /\ UNCHANGED <<orig, claim>> /\ bin' = [b \in Batches |-> Nowhere]
        /\ \A f \in Files, x \in Things :
              fate'[f][x] = IF \E b \in Batches : bin[b][f] = x THEN "gone" ELSE fate[f][x]
    BY <1>5 DEF EmptyBin
  <2>2. \A p \in Places, f \in Files :
           Where'[p][f] = IF \E b \in Batches : p = <<"bin", b>> THEN "none" ELSE Where[p][f]
    <3> TAKE p \in Places, f \in Files
    <3>1. CASE p = Orig BY <2>1, <3>1, WhereIs, WhereNext, PlacesAre
    <3>2. ASSUME NEW b \in Batches, p = <<"claim", b>>
          PROVE  Where'[p][f] = Where[p][f] /\ ~\E c \in Batches : p = <<"bin", c>>
      <4>1. Where'[p] = claim'[b] /\ Where[p] = claim[b] BY <3>2, WhereIs, WhereNext
      <4>2. \A c \in Batches : p # <<"bin", c>> BY <3>2, PlacesAre
      <4> QED BY <4>1, <4>2, <2>1
    <3>3. ASSUME NEW b \in Batches, p = <<"bin", b>> PROVE Where'[p][f] = "none"
      <4>1. Where'[p] = bin'[b] BY <3>3, WhereNext
      <4>2. bin'[b] = Nowhere BY <2>1
      <4> QED BY <4>1, <4>2 DEF Nowhere
    <3> QED BY <3>1, <3>2, <3>3, PlacesAre
  <2>3. ASSUME NEW f \in Files, NEW x \in Things
        PROVE  /\ fate'[f][x] = "alive" <=> \E p \in Places : Where'[p][f] = x
               /\ \A p, q \in Places : Where'[p][f] = x /\ Where'[q][f] = x => p = q
    <3>1. \A p, q \in Places : Where[p][f] = x /\ Where[q][f] = x => p = q BY DEF OneEach
    <3>2. fate[f][x] = "alive" <=> \E p \in Places : Where[p][f] = x BY DEF OneEach
    <3>3. \A p \in Places : Where'[p][f] = x <=> Where[p][f] = x /\ ~\E b \in Batches : p = <<"bin", b>>
      BY <2>2, <1>1
    <3>4. CASE \E b \in Batches : bin[b][f] = x
      <4>1. PICK b \in Batches : Where[<<"bin", b>>][f] = x BY <3>4, WhereIs
      <4>2. <<"bin", b>> \in Places BY PlacesAre
      <4> QED BY <4>1, <4>2, <3>1, <3>3, <3>4, <2>1
    <3>5. CASE ~\E b \in Batches : bin[b][f] = x
      <4>1. \A b \in Batches : Where[<<"bin", b>>][f] # x BY <3>5, WhereIs
      <4>2. fate'[f][x] = fate[f][x] BY <2>1, <3>5
      <4> QED BY <4>1, <4>2, <3>1, <3>2, <3>3
    <3> QED BY <3>4, <3>5
  <2> QED BY <2>3 DEF OneEach, Places
<1>6. OneEach(Where', fate') => OneEach(Where, fate)' BY DEF OneEach, Places
<1> QED BY <1>2, <1>3, <1>4, <1>5, <1>6 DEF User

LEMMA CustodyNext ==
    ASSUME CInv, Cursor, OneEach(Where, fate), [Next]_vars
    PROVE  OneEach(Where, fate)'
<1>1. \/ UNCHANGED files
      \/ \E f \in Files : Claim(f) \/ CheckClaim(f) \/ SendToBin(f)
      \/ \E f \in Files : Restore(f) \/ RecoverClaim(f)
      \/ User
  BY DEF Next, vars, StartTrash, StartRestore, JournalTrash, BindReceipts, CommitTrash, PersistReceipts, CommitRestore,
         CheckOriginal, Survey, Kill, Launch, RecoverNext, Recovered
<1> QED BY <1>1, StillEach, BatchMoves, BackMoves, UserMoves

\* Whatever fails, is killed or is undone, a file that the user has not
\* destroyed is in exactly one place.
THEOREM NothingLostCorrect == Spec => []NothingLost
<1>1. Init => OneEach(Where, fate)
  <2>1. ASSUME Init, NEW f \in Files, NEW x \in Things
        PROVE  /\ fate[f][x] = "alive" <=> \E p \in Places : Where[p][f] = x
               /\ \A p, q \in Places : Where[p][f] = x /\ Where[q][f] = x => p = q
    <3>1. Where[Orig][f] = "own" /\ \A p \in Places \ {Orig} : Where[p][f] = "none"
      <4>1. Where[Orig][f] = "own" BY <2>1, WhereIs DEF Init
      <4>2. \A b \in Batches : Where[<<"claim", b>>][f] = "none" /\ Where[<<"bin", b>>][f] = "none"
        BY <2>1, WhereIs DEF Init, Nowhere
      <4>3. ASSUME NEW p \in Places \ {Orig} PROVE Where[p][f] = "none"
        <5>1. PICK b \in Batches : p = <<"claim", b>> \/ p = <<"bin", b>> BY PlacesAre
        <5> QED BY <5>1, <4>2
      <4> QED BY <4>1, <4>3
    <3>2. fate[f]["own"] = "alive" /\ fate[f]["other"] = "unborn" BY <2>1 DEF Init
    <3> QED BY <3>1, <3>2, PlacesAre DEF Things
  <2> QED BY <2>1 DEF OneEach
<1>2. OneEach(Where, fate) /\ (CInv /\ Cursor) /\ [Next]_vars => OneEach(Where, fate)' BY CustodyNext
<1>3. Spec => []OneEach(Where, fate) BY <1>1, <1>2, CInvariant, TrashAssumption, PTL DEF Spec
<1> QED BY <1>3, CustodyIs, PTL
-----------------------------------------------------------------------------
(* Reach: a file without a row is where the undo of its batch finds it.    *)

Short == Len(log) < Cap
HeldBy(b, f) == "own" \in {claim[b][f], bin[b][f]}
Names(b, f) == \E i \in Found(b) : f \in DOMAIN log[i].ids /\ log[i].ids[f] = "own"

\* Until the log is trimmed it grows: the lines of a batch agree on its files,
\* and one of those that are signed is the last.
Agreed == Short =>
    /\ \A i, j \in DOMAIN log : log[i].batch = log[j].batch => log[i].ids = log[j].ids
    /\ \A i \in DOMAIN log : log[i].batch <= batches
    /\ job.op \in {"trash", "restore"} =>
          /\ job.batch <= batches
          /\ \A i \in DOMAIN log : log[i].batch = job.batch => log[i].ids = job.ids
    /\ \A b \in Batches : Found(b) # {} => Latest(b) # {}

\* What a running batch has made sure of before it counts a file as trashed.
Doing(f) ==
    /\ job.was[f] # "none"
    /\ job.ids[f] # "own" => orig[f] # "own" /\ ~HeldBy(job.batch, f)
    /\ job.item[f] \in {"checked", "claimed", "valid", "trashed"} /\ job.was[f] # "noref" =>
          job.ids[f] = job.was[f]
    /\ job.item[f] \in {"valid", "trashed"} => job.ids[f] = Named(job.was[f])
    /\ job.item[f] \in {"claimed", "valid"} => claim[job.batch][f] # "none"
    /\ job.item[f] = "trashed" /\ job.ids[f] = "own" =>
          orig[f] # "own" /\ \A b \in Batches \ {job.batch} : ~HeldBy(b, f)
Underway == job.op = "trash" => engine = "up" /\ \A f \in DOMAIN job.item : Doing(f)

\* Where a batch holds an indexed file whose row it, or another, has deleted.
Kept == Short => \A b \in Batches, f \in Files :
    HeldBy(b, f) /\ row[f] \in {"none", "other"} => Names(b, f)

\* The journal of a log below its cap, after a step that writes a line.
LEMMA LogGrows ==
    ASSUME TrashAssumption, log \in Seq(Lines), NEW line \in Lines,
           Appended(line) \/ AppendFails(line), Short'
    PROVE  /\ Short
           /\ \/ log' = log
              \/ \E l \in Lines : log' = Append(log, l) /\ l.batch = line.batch /\ l.ids = line.ids
<1>1. Cap \in Nat \ {0} /\ Len(log) \in Nat BY DEF TrashAssumption
<1>2. [line EXCEPT !.whole = FALSE] \in Lines /\ [line EXCEPT !.whole = FALSE].batch = line.batch
      /\ [line EXCEPT !.whole = FALSE].ids = line.ids
  BY DEF Lines
<1>3. ASSUME NEW l \in Lines, NEW new, new = Written(l)
      PROVE  new \in Seq(Lines) /\ Len(new) >= Len(log) /\ new \in {log, Append(log, l)}
  <2>1. Append(log, l) \in Seq(Lines) /\ Len(Append(log, l)) = Len(log) + 1 OBVIOUS
  <2> QED BY <1>1, <1>3, <2>1 DEF Written
<1>4. ASSUME NEW l \in Lines, log' = Trimmed(Written(l)) PROVE log' = Written(l)
  <2> DEFINE w == Written(l)
  <2>1. w \in Seq(Lines) /\ Len(w) \in Nat BY <1>3
  <2>2. CASE Len(w) <= Cap BY <1>4, <2>2 DEF Trimmed
  <2>3. CASE Len(w) > Cap
    <3> DEFINE m == Len(w) - Cap + 1
    <3> HIDE DEF w
    <3>1. m \in 1..Len(w) /\ m \in Nat BY <1>1, <2>1, <2>3
    <3>2. \A i \in m..Len(w) : w[i] \in Lines BY <2>1, <3>1
    <3>3. Len(SubSeq(w, m, Len(w))) = Cap BY <1>1, <2>1, <2>3, <3>1, <3>2, SubSeqProperties
    <3>4. log' = SubSeq(w, m, Len(w)) BY <1>1, <1>4, <2>1, <2>3 DEF Trimmed, w
    <3> QED BY <1>1, <3>3, <3>4 DEF Short
  <2> QED BY <1>1, <2>1, <2>2, <2>3
<1>5. log' = log \/ log' = Written(line) \/ log' = Written([line EXCEPT !.whole = FALSE])
  BY <1>4 DEF Appended, AppendFails, journal
<1>6. log' = log \/ \E l \in Lines : log' = Append(log, l) /\ l.batch = line.batch /\ l.ids = line.ids
  BY <1>2, <1>3, <1>5
<1>7. Len(log') >= Len(log)
  <2>1. \A l \in Lines : Len(Written(l)) >= Len(log) BY <1>3
  <2>2. Len(Written(line)) >= Len(log) /\ Len(Written([line EXCEPT !.whole = FALSE])) >= Len(log)
    BY <1>2, <2>1
  <2> QED BY <1>1, <1>5, <2>2
<1> QED BY <1>1, <1>6, <1>7 DEF Short

\* Writing one line more keeps whatever was found.
LEMMA LineMore ==
    ASSUME TInv, NEW l \in Lines, log' = Append(log, l)
    PROVE  /\ DOMAIN log' = DOMAIN log \cup {Len(log) + 1}
           /\ log'[Len(log) + 1] = l /\ Len(log) + 1 \notin DOMAIN log
           /\ \A i \in DOMAIN log : log'[i] = log[i] /\ i < Len(log) + 1
           /\ \A b : Found(b)' = Found(b) \cup (IF l.whole /\ l.batch = b THEN {Len(log) + 1} ELSE {})
<1>1. log \in Seq(Lines) /\ Len(log) \in Nat /\ DOMAIN log = 1..Len(log) BY DEF TInv, TypeOK
<1>2. /\ DOMAIN log' = 1..(Len(log) + 1) /\ log'[Len(log) + 1] = l
      /\ \A i \in 1..Len(log) : log'[i] = log[i]
  BY <1>1, AppendProperties
<1>3. DOMAIN log' = DOMAIN log \cup {Len(log) + 1} /\ Len(log) + 1 \notin DOMAIN log
      /\ \A i \in DOMAIN log : log'[i] = log[i] /\ i < Len(log) + 1
  BY <1>1, <1>2
<1> QED BY <1>2, <1>3 DEF Found

\* A step that writes lines for the batch at hand, and may end its job.
LEMMA AgreedLine ==
    ASSUME TrashAssumption, TInv, Agreed, job.op \in {"trash", "restore"},
           NEW R \in SUBSET Files, Appended(Line(R)) \/ AppendFails(Line(R)) \/ UNCHANGED journal,
           UNCHANGED batches,
           job'.op \in {"trash", "restore"} => job'.batch = job.batch /\ job'.ids = job.ids
    PROVE  Agreed' /\ (Short' => Short /\ \A i \in DOMAIN log : i \in DOMAIN log' /\ log'[i] = log[i])
<1> SUFFICES ASSUME Short'
             PROVE  /\ Agreed' /\ Short
                    /\ \A i \in DOMAIN log : i \in DOMAIN log' /\ log'[i] = log[i]
  BY DEF Agreed
<1>1. log \in Seq(Lines) /\ job \in Jobs /\ job.batch \in Batches BY DEF TInv, TypeOK, Running
<1>2. Line(R) \in Lines /\ Line(R).batch = job.batch /\ Line(R).ids = job.ids
  BY <1>1, LineType DEF Line
<1>3. /\ Short
      /\ \/ log' = log
         \/ \E l \in Lines : log' = Append(log, l) /\ l.batch = job.batch /\ l.ids = job.ids
  BY <1>1, <1>2, LogGrows DEF journal, Short
<1>4. CASE log' = log
  BY <1>3, <1>4 DEF Agreed, Found, Latest
<1>5. ASSUME NEW l \in Lines, log' = Append(log, l), l.batch = job.batch, l.ids = job.ids
      PROVE  Agreed' /\ \A i \in DOMAIN log : i \in DOMAIN log' /\ log'[i] = log[i]
  <2> DEFINE n == Len(log) + 1
  <2>1. /\ DOMAIN log' = DOMAIN log \cup {n} /\ log'[n] = l /\ n \notin DOMAIN log
        /\ \A i \in DOMAIN log : log'[i] = log[i] /\ i < n
        /\ \A b : Found(b)' = Found(b) \cup (IF l.whole /\ l.batch = b THEN {n} ELSE {})
    BY <1>5, LineMore
  <2>2. n \in Nat BY <1>1
  <2> HIDE DEF n
  <2>3. /\ \A i, j \in DOMAIN log : log[i].batch = log[j].batch => log[i].ids = log[j].ids
        /\ \A i \in DOMAIN log : log[i].batch <= batches
        /\ \A i \in DOMAIN log : log[i].batch = job.batch => log[i].ids = job.ids
        /\ job.batch <= batches
        /\ \A b \in Batches : Found(b) # {} => Latest(b) # {}
    BY <1>3 DEF Agreed
  <2>4. \A i, j \in DOMAIN log' : log'[i].batch = log'[j].batch => log'[i].ids = log'[j].ids
    BY <1>5, <2>1, <2>3
  <2>5. \A i \in DOMAIN log' : /\ log'[i].batch <= batches
                               /\ log'[i].batch = job.batch => log'[i].ids = job.ids
    BY <1>5, <2>1, <2>3
  <2>6. ASSUME NEW b \in Batches, Found(b)' # {} PROVE Latest(b)' # {}
    <3>0. Found(b) \subseteq DOMAIN log BY DEF Found
    <3>1. CASE l.whole /\ l.batch = b
      <4>1. n \in Found(b)' /\ \A j \in Found(b)' : j <= n BY <2>1, <2>2, <3>0, <3>1, <1>1
      <4> QED BY <4>1 DEF Latest
    <3>2. CASE ~(l.whole /\ l.batch = b)
      <4>1. Found(b)' = Found(b) BY <2>1, <3>2
      <4>2. Latest(b)' = Latest(b) BY <4>1 DEF Latest
      <4> QED BY <2>3, <2>6, <4>1, <4>2
    <3> QED BY <3>1, <3>2
  <2>7. job'.op \in {"trash", "restore"} =>
           /\ job'.batch <= batches'
           /\ \A i \in DOMAIN log' : log'[i].batch = job'.batch => log'[i].ids = job'.ids
    BY <2>3, <2>5
  <2>8. Agreed' BY <2>4, <2>5, <2>6, <2>7 DEF Agreed
  <2> QED BY <2>1, <2>8
<1> QED BY <1>3, <1>4, <1>5

LEMMA AgreedStill ==
    ASSUME Agreed, UNCHANGED <<log, batches>>,
           job'.op \in {"trash", "restore"} =>
              job'.op = job.op /\ job'.batch = job.batch /\ job'.ids = job.ids
    PROVE  Agreed'
BY DEF Agreed, Short, Found, Latest

\* A new batch has no line yet, and one that is undone the ids of its lines.
LEMMA AgreedStart ==
    ASSUME TrashAssumption, CInv, Agreed, NEW S \in SUBSET Files, StartTrash(S)
    PROVE  Agreed'
<1>1. /\ job'.op = "trash" /\ job'.batch = batches + 1 /\ batches' = batches + 1 /\ log' = log
      /\ batches \in Nat
  BY DEF StartTrash, Idle, journal, CInv, TInv, TypeOK, TrashAssumption
<1>2. \A i \in DOMAIN log : log[i].batch \in Nat
  <2>1. log \in Seq(Lines) BY DEF CInv, TInv, TypeOK
  <2>2. \A i \in DOMAIN log : log[i] \in Lines BY <2>1
  <2>3. Batches \subseteq Nat BY DEF Batches, TrashAssumption
  <2> QED BY <2>2, <2>3 DEF Lines
<1>3. Short => \A i \in DOMAIN log : log[i].batch <= batches + 1 /\ log[i].batch # batches + 1
  BY <1>1, <1>2 DEF Agreed
<1>4. ASSUME Short
      PROVE  /\ \A i \in DOMAIN log' : log'[i].batch <= batches'
             /\ \A i \in DOMAIN log' : log'[i].batch # job'.batch
             /\ job'.batch <= batches'
  BY <1>1, <1>3, <1>4
<1>5. Short' = Short /\ \A b \in Batches : Found(b)' = Found(b) /\ Latest(b)' = Latest(b)
  BY <1>1 DEF Short, Found, Latest
<1> QED BY <1>1, <1>4, <1>5 DEF Agreed

LEMMA AgreedUndo ==
    ASSUME CInv, Agreed, NEW b \in Batches, StartRestore(b)
    PROVE  Agreed'
<1>1. PICK i \in Latest(b) :
         job' = [Idle EXCEPT !.op = "restore", !.at = "survey", !.batch = b, !.ids = log[i].ids,
                             !.item = [f \in DOMAIN log[i].ids |-> "listed"], !.receipts = log[i].receipts]
  BY DEF StartRestore
<1>2. job'.op = "restore" /\ job'.batch = b /\ job'.ids = log[i].ids /\ UNCHANGED <<log, batches>>
  BY <1>1 DEF Idle, StartRestore, journal
<1>3. i \in DOMAIN log /\ log[i].batch = b BY DEF Latest, Found
<1> QED BY <1>2, <1>3 DEF Agreed, Short, Found, Latest

\* What a step leaves of the running job.
LEMMA JobOf ==
    ASSUME TInv, job.op \in {"trash", "restore"},
           \/ \E s : job' = [job EXCEPT !.at = s]
           \/ \E s, g : job' = [job EXCEPT !.at = s, !.item = g]
           \/ \E s, g : job' = [job EXCEPT !.at = s, !.receipts = g]
           \/ \E f, s : SetItem(f, s)
           \/ \E s : job' = [job EXCEPT !.line = s]
    PROVE  job'.op = job.op /\ job'.batch = job.batch /\ job'.ids = job.ids /\ job'.was = job.was
<1>1. job \in Jobs BY DEF TInv, TypeOK
<1> QED BY <1>1 DEF Jobs, SetItem

LEMMA AgreedNext ==
    ASSUME TrashAssumption, CInv, Agreed, [Next]_vars
    PROVE  Agreed'
<1>0. TInv BY DEF CInv
<1>1. CASE JournalTrash
  <2>1. job.op = "trash" /\ UNCHANGED batches BY <1>1 DEF JournalTrash, Runs, bounds
  <2>2. Appended(Line({})) \/ AppendFails(Line({})) BY <1>1 DEF JournalTrash
  <2>3. job' = [job EXCEPT !.at = "work"] \/ job' = Idle BY <1>1 DEF JournalTrash, Ends
  <2>4. job'.op \in {"trash", "restore"} => job'.batch = job.batch /\ job'.ids = job.ids
    <3>1. CASE job' = Idle BY <3>1, IdleRuns
    <3>2. CASE job' # Idle BY <1>0, <2>1, <2>3, <3>2, JobOf
    <3> QED BY <3>1, <3>2
  <2> QED BY <1>0, <2>1, <2>2, <2>4, AgreedLine
<1>2. CASE BindReceipts
  <2>1. job.op = "trash" /\ UNCHANGED batches BY <1>2 DEF BindReceipts, Runs, bounds
  <2>2. PICK L \in SUBSET {f \in Items("trashed") : Receipt(f)} :
           /\ Appended(Line(L)) \/ AppendFails(Line(L)) \/ UNCHANGED journal
           /\ \E s, g : job' = [job EXCEPT !.at = s, !.item = g]
    BY <1>2 DEF BindReceipts
  <2>3. L \in SUBSET Files BY <1>0, <2>2, ItemsAreFiles, InItems
  <2>4. job'.batch = job.batch /\ job'.ids = job.ids BY <1>0, <2>1, <2>2, JobOf
  <2> QED BY <1>0, <2>1, <2>2, <2>3, <2>4, AgreedLine
<1>3. CASE PersistReceipts
  <2>1. job.op = "restore" /\ UNCHANGED batches BY <1>3 DEF PersistReceipts, Runs, bounds
  <2>2. PICK L \in SUBSET {f \in Items("ready") : Receipt(f)} :
           /\ Appended(Line(Confirmed(L))) \/ AppendFails(Line(Confirmed(L))) \/ UNCHANGED journal
           /\ job' = [job EXCEPT !.at = "work", !.receipts = Confirmed(L)] \/ job' = Idle
    BY <1>3 DEF PersistReceipts, Ends
  <2>3. Confirmed(L) \in SUBSET Files
    <3>1. job.receipts \subseteq Files BY <1>0 DEF TInv, TypeOK, Jobs
    <3>2. Items("ready") \subseteq Files BY <1>0, ItemsAreFiles, InItems
    <3> QED BY <3>1, <3>2, <2>2 DEF Confirmed
  <2>4. job'.op \in {"trash", "restore"} => job'.batch = job.batch /\ job'.ids = job.ids
    <3>1. CASE job' = Idle BY <3>1, IdleRuns
    <3>2. CASE job' # Idle BY <1>0, <2>1, <2>2, <3>2, JobOf
    <3> QED BY <3>1, <3>2
  <2> QED BY <1>0, <2>1, <2>2, <2>3, <2>4, AgreedLine
<1>4. CASE CommitTrash \/ CommitRestore \/ Kill \/ Launch \/ Recovered
  <2>1. UNCHANGED <<log, batches>>
    BY <1>4 DEF CommitTrash, CommitRestore, Kill, Launch, Recovered, journal, bounds
  <2>2. job'.op \notin {"trash", "restore"}
    <3>1. CASE job' = Idle BY <3>1, IdleRuns
    <3>2. job' = Idle \/ job' = [Idle EXCEPT !.op = "recover", !.line = 1]
      BY <1>4 DEF CommitTrash, CommitRestore, Kill, Launch, Recovered, Ends
    <3> QED BY <3>1, <3>2 DEF Idle
  <2> QED BY <2>1, <2>2, AgreedStill
<1>5. ASSUME NEW f \in Files,
             CheckOriginal(f) \/ Claim(f) \/ CheckClaim(f) \/ SendToBin(f) \/ Survey(f) \/ Restore(f)
      PROVE  Agreed'
  <2>1. job.op \in {"trash", "restore"} /\ UNCHANGED <<log, batches>>
    BY <1>5 DEF CheckOriginal, Claim, CheckClaim, SendToBin, Survey, Restore, Runs, journal, bounds
  <2>2. \E s : SetItem(f, s)
    BY <1>5 DEF CheckOriginal, Claim, CheckClaim, SendToBin, Survey, Restore, PutBack, Recycle, RestoreFrom, NotRestored
  <2>3. job'.op = job.op /\ job'.batch = job.batch /\ job'.ids = job.ids BY <1>0, <2>1, <2>2, JobOf
  <2> QED BY <2>1, <2>3, AgreedStill
<1>6. CASE RecoverNext
  <2>1. UNCHANGED <<log, batches>> /\ job' = [job EXCEPT !.line = @ + 1] BY <1>6 DEF RecoverNext, journal, bounds
  <2>2. job'.op = job.op /\ job'.batch = job.batch /\ job'.ids = job.ids
    BY <1>0, <2>1 DEF TInv, TypeOK, Jobs
  <2> QED BY <2>1, <2>2, AgreedStill
<1>7. ASSUME NEW f \in Files, RecoverClaim(f) PROVE Agreed'
  BY <1>7, AgreedStill DEF RecoverClaim, journal, bounds
<1>8. CASE User \/ UNCHANGED vars
  BY <1>8, AgreedStill DEF User, vars, journal, bounds
<1> QED BY <1>1, <1>2, <1>3, <1>4, <1>5, <1>6, <1>7, <1>8, AgreedStart, AgreedUndo DEF Next

\* What a step does to the files.
LEMMA Forms ==
    ASSUME CInv, Cursor, [Next]_vars
    PROVE  \/ UNCHANGED <<orig, claim, bin>>
           \/ \E e \in Files : /\ Claim(e) /\ job.batch \in Batches /\ UNCHANGED bin
                               /\ claim' = [claim EXCEPT ![job.batch][e] = orig[e]]
                               /\ orig' = [orig EXCEPT ![e] = "none"]
           \/ \E e \in Files, c \in Batches :
                 /\ orig' = [orig EXCEPT ![e] = claim[c][e]]
                 /\ claim' = [claim EXCEPT ![c][e] = "none"] /\ UNCHANGED bin
                 /\ \/ engine = "recovering" \/ job.op = "restore"
                    \/ c = job.batch /\ (SendToBin(e) \/ (CheckClaim(e) /\ PutBack(e, "rejected")))
           \/ \E e \in Files, c \in Batches :
                 /\ job.op = "restore" /\ UNCHANGED claim
                 /\ orig' = [orig EXCEPT ![e] = bin[c][e]]
                 /\ bin' = [bin EXCEPT ![c][e] = "none"]
           \/ \E e \in Files : /\ SendToBin(e) /\ job.batch \in Batches /\ UNCHANGED orig
                               /\ bin' = [bin EXCEPT ![job.batch][e] = claim[job.batch][e]]
                               /\ claim' = [claim EXCEPT ![job.batch][e] = "none"]
           \/ \E e \in Files, c \in Batches :
                 /\ bin[c][e] # "none" /\ claim[c][e] = "none" /\ UNCHANGED orig
                 /\ claim' = [claim EXCEPT ![c][e] = bin[c][e]]
                 /\ bin' = [bin EXCEPT ![c][e] = "none"]
           \/ \E e \in Files, x \in {"other", "none"} :
                 UNCHANGED <<claim, bin>> /\ orig' = [orig EXCEPT ![e] = x]
           \/ UNCHANGED <<orig, claim>> /\ bin' = [b \in Batches |-> Nowhere]
<1>1. CASE User
  BY <1>1 DEF User, Save, Delete, ExplorerRestores, EmptyBin
<1>2. ASSUME NEW f \in Files, Runs("trash", "work") PROVE job.batch \in Batches
  BY <1>2 DEF Runs, CInv, TInv, Running
<1>3. ASSUME NEW f \in Files, Claim(f)
      PROVE  \/ UNCHANGED <<orig, claim, bin>>
             \/ /\ job.batch \in Batches /\ UNCHANGED bin
                /\ claim' = [claim EXCEPT ![job.batch][f] = orig[f]]
                /\ orig' = [orig EXCEPT ![f] = "none"]
  BY <1>2, <1>3 DEF Claim
<1>4. ASSUME NEW f \in Files, CheckClaim(f)
      PROVE  \/ UNCHANGED <<orig, claim, bin>>
             \/ /\ job.batch \in Batches /\ UNCHANGED bin /\ PutBack(f, "rejected")
                /\ claim' = [claim EXCEPT ![job.batch][f] = "none"]
                /\ orig' = [orig EXCEPT ![f] = claim[job.batch][f]]
  BY <1>2, <1>4 DEF CheckClaim, PutBack
<1>5. ASSUME NEW f \in Files, SendToBin(f)
      PROVE  \/ UNCHANGED <<orig, claim, bin>>
             \/ /\ job.batch \in Batches /\ UNCHANGED bin
                /\ claim' = [claim EXCEPT ![job.batch][f] = "none"]
                /\ orig' = [orig EXCEPT ![f] = claim[job.batch][f]]
             \/ /\ job.batch \in Batches /\ UNCHANGED orig
                /\ bin' = [bin EXCEPT ![job.batch][f] = claim[job.batch][f]]
                /\ claim' = [claim EXCEPT ![job.batch][f] = "none"]
  BY <1>2, <1>5 DEF SendToBin, PutBack, Recycle
<1>6. ASSUME NEW f \in Files, Restore(f)
      PROVE  \/ UNCHANGED <<orig, claim, bin>>
             \/ /\ job.batch \in Batches /\ UNCHANGED bin /\ job.op = "restore"
                /\ claim' = [claim EXCEPT ![job.batch][f] = "none"]
                /\ orig' = [orig EXCEPT ![f] = claim[job.batch][f]]
             \/ /\ job.batch \in Batches /\ UNCHANGED claim /\ job.op = "restore"
                /\ bin' = [bin EXCEPT ![job.batch][f] = "none"]
                /\ orig' = [orig EXCEPT ![f] = bin[job.batch][f]]
  BY <1>6 DEF Restore, RestoreFrom, Runs, CInv, TInv, Running
<1>7. ASSUME NEW f \in Files, RecoverClaim(f)
      PROVE  \E c \in Batches : /\ engine = "recovering" /\ UNCHANGED bin
                                /\ claim' = [claim EXCEPT ![c][f] = "none"]
                                /\ orig' = [orig EXCEPT ![f] = claim[c][f]]
  <2>1. job.line \in 1..Len(log) /\ log[job.line] \in Lines
    BY <1>7 DEF RecoverClaim, CInv, TInv, TypeOK, Jobs, Cursor
  <2>2. log[job.line].batch \in Batches BY <2>1 DEF Lines
  <2> QED BY <1>7, <2>2 DEF RecoverClaim
<1>8. \/ User
      \/ \E f \in Files : Claim(f) \/ CheckClaim(f) \/ SendToBin(f) \/ Restore(f) \/ RecoverClaim(f)
      \/ UNCHANGED <<orig, claim, bin>>
  BY DEF Next, vars, files, StartTrash, StartRestore, JournalTrash, BindReceipts, CommitTrash, PersistReceipts,
         CommitRestore, CheckOriginal, Survey, Kill, Launch, RecoverNext, Recovered
<1>9. CASE \E f \in Files : CheckClaim(f) \/ SendToBin(f)
  BY <1>4, <1>5, <1>9
<1> QED BY <1>1, <1>3, <1>6, <1>7, <1>8, <1>9

LEMMA PutAt ==
    ASSUME NEW g \in [Batches -> [Files -> Contents]], NEW c \in Batches, NEW e \in Files, NEW x,
           NEW h, h = [g EXCEPT ![c][e] = x], NEW b \in Batches, NEW f \in Files
    PROVE  h[b][f] = IF b = c /\ f = e THEN x ELSE g[b][f]
OBVIOUS

\* How the indexed file gets to a batch, and back to its path; and how a claim
\* goes under the batch that made it.
LEMMA Effects ==
    ASSUME CInv, Cursor, [Next]_vars, NEW b \in Batches, NEW f \in Files
    PROVE  /\ HeldBy(b, f)' => HeldBy(b, f) \/ (Claim(f) /\ b = job.batch /\ orig[f] = "own")
           /\ job.op = "trash" /\ engine = "up" /\ orig'[f] = "own" =>
                 \/ orig[f] = "own"
                 \/ (SendToBin(f) \/ CheckClaim(f)) /\ HeldBy(job.batch, f)
           /\ job.op = "trash" /\ engine = "up" /\ b = job.batch /\ claim[b][f] # "none" /\ claim'[b][f] = "none" =>
                 SendToBin(f) \/ (CheckClaim(f) /\ PutBack(f, "rejected"))
<1> DEFINE A == HeldBy(b, f)' => HeldBy(b, f) \/ (Claim(f) /\ b = job.batch /\ orig[f] = "own")
           O == job.op = "trash" /\ engine = "up" /\ orig'[f] = "own" =>
                   \/ orig[f] = "own"
                   \/ (SendToBin(f) \/ CheckClaim(f)) /\ HeldBy(job.batch, f)
           G == job.op = "trash" /\ engine = "up" /\ b = job.batch /\ claim[b][f] # "none" /\ claim'[b][f] = "none" =>
                   SendToBin(f) \/ (CheckClaim(f) /\ PutBack(f, "rejected"))
<1>0. /\ orig \in [Files -> Contents]
      /\ claim \in [Batches -> [Files -> Contents]] /\ bin \in [Batches -> [Files -> Contents]]
  BY PlaceTypes DEF CInv
<1>1. CASE UNCHANGED <<orig, claim, bin>> BY <1>1 DEF HeldBy
<1>2. ASSUME NEW e \in Files, Claim(e), job.batch \in Batches, UNCHANGED bin,
             claim' = [claim EXCEPT ![job.batch][e] = orig[e]], orig' = [orig EXCEPT ![e] = "none"]
      PROVE  A /\ O /\ G
  <2>1. orig'[f] = IF f = e THEN "none" ELSE orig[f] BY <1>0, <1>2
  <2>2. claim'[b][f] = IF b = job.batch /\ f = e THEN orig[e] ELSE claim[b][f] BY <1>0, <1>2, PutAt
  <2>3. CASE e = f /\ b = job.batch
    <3>1. claim[b][f] = "none" BY <1>2, <2>3, Working DEF Claim, Items, Item
    <3> QED BY <1>2, <2>1, <2>2, <2>3, <3>1 DEF HeldBy
  <2>4. CASE ~(e = f /\ b = job.batch) BY <1>2, <2>1, <2>2, <2>4 DEF HeldBy
  <2> QED BY <2>3, <2>4
<1>3. ASSUME NEW e \in Files, NEW c \in Batches, UNCHANGED bin,
             orig' = [orig EXCEPT ![e] = claim[c][e]], claim' = [claim EXCEPT ![c][e] = "none"],
             \/ engine = "recovering" \/ job.op = "restore"
             \/ c = job.batch /\ (SendToBin(e) \/ (CheckClaim(e) /\ PutBack(e, "rejected")))
      PROVE  A /\ O /\ G
  <2>1. orig'[f] = IF f = e THEN claim[c][e] ELSE orig[f] BY <1>0, <1>3
  <2>2. claim'[b][f] = IF b = c /\ f = e THEN "none" ELSE claim[b][f] BY <1>0, <1>3, PutAt
  <2> QED BY <1>3, <2>1, <2>2 DEF HeldBy
<1>4. ASSUME NEW e \in Files, NEW c \in Batches, job.op = "restore", UNCHANGED claim,
             orig' = [orig EXCEPT ![e] = bin[c][e]], bin' = [bin EXCEPT ![c][e] = "none"]
      PROVE  A /\ O /\ G
  <2>2. bin'[b][f] = IF b = c /\ f = e THEN "none" ELSE bin[b][f] BY <1>0, <1>4, PutAt
  <2> QED BY <1>4, <2>2 DEF HeldBy
<1>5. ASSUME NEW e \in Files, SendToBin(e), job.batch \in Batches, UNCHANGED orig,
             bin' = [bin EXCEPT ![job.batch][e] = claim[job.batch][e]],
             claim' = [claim EXCEPT ![job.batch][e] = "none"]
      PROVE  A /\ O /\ G
  <2>1. bin'[b][f] = IF b = job.batch /\ f = e THEN claim[job.batch][e] ELSE bin[b][f] BY <1>0, <1>5, PutAt
  <2>2. claim'[b][f] = IF b = job.batch /\ f = e THEN "none" ELSE claim[b][f] BY <1>0, <1>5, PutAt
  <2> QED BY <1>5, <2>1, <2>2 DEF HeldBy
<1>6. ASSUME NEW e \in Files, NEW c \in Batches, bin[c][e] # "none", claim[c][e] = "none", UNCHANGED orig,
             claim' = [claim EXCEPT ![c][e] = bin[c][e]], bin' = [bin EXCEPT ![c][e] = "none"]
      PROVE  A /\ O /\ G
  <2>1. claim'[b][f] = IF b = c /\ f = e THEN bin[c][e] ELSE claim[b][f] BY <1>0, <1>6, PutAt
  <2>2. bin'[b][f] = IF b = c /\ f = e THEN "none" ELSE bin[b][f] BY <1>0, <1>6, PutAt
  <2> QED BY <1>6, <2>1, <2>2 DEF HeldBy
<1>7. ASSUME NEW e \in Files, NEW x \in {"other", "none"}, UNCHANGED <<claim, bin>>,
             orig' = [orig EXCEPT ![e] = x]
      PROVE  A /\ O /\ G
  <2>1. orig'[f] = IF f = e THEN x ELSE orig[f] BY <1>0, <1>7
  <2> QED BY <1>7, <2>1 DEF HeldBy
<1>8. CASE UNCHANGED <<orig, claim>> /\ bin' = [c \in Batches |-> Nowhere]
  <2>1. bin'[b][f] = "none" BY <1>8 DEF Nowhere
  <2> QED BY <1>8, <2>1 DEF HeldBy
<1> QED
  <2> HIDE DEF A, O, G
  <2>1. A /\ O /\ G
    <3>1. CASE UNCHANGED <<orig, claim, bin>> BY <1>1, <3>1 DEF A, O, G
    <3>2. CASE UNCHANGED <<orig, claim>> /\ bin' = [c \in Batches |-> Nowhere] BY <1>8, <3>2 DEF A, O, G
    <3> QED BY <1>2, <1>3, <1>4, <1>5, <1>6, <1>7, <3>1, <3>2, Forms
  <2> QED BY <2>1 DEF A, O, G

LEMMA ItemAt ==
    ASSUME TInv, NEW f \in DOMAIN job.item, NEW s, SetItem(f, s)
    PROVE  /\ job'.op = job.op /\ job'.batch = job.batch /\ job'.ids = job.ids /\ job'.was = job.was
           /\ DOMAIN job'.item = DOMAIN job.item /\ job'.item[f] = s
           /\ \A e \in DOMAIN job.item \ {f} : job'.item[e] = job.item[e]
BY DEF TInv, TypeOK, Jobs, SetItem

\* A step that keeps an item where it is, or gives it up.
LEMMA DoingStays ==
    ASSUME CInv, Cursor, Underway, [Next]_vars, job.op = "trash",
           job'.batch = job.batch, job'.ids = job.ids, job'.was = job.was, NEW e \in DOMAIN job.item,
           job'.item[e] = job.item[e] \/ job'.item[e] \in {"rejected", "failed"}
    PROVE  Doing(e)'
<1>1. /\ engine = "up" /\ Doing(e) /\ e \in Files /\ job.batch \in Batches
  BY ItemsAreFiles DEF Underway, CInv, TInv, Running
<1>2. SendToBin(e) => job.item[e] = "valid" /\ job'.item[e] \in {"trashed", "failed"}
  BY ItemAt DEF SendToBin, Recycle, PutBack, Items, CInv
<1>3. CheckClaim(e) => job.item[e] = "claimed"
  BY DEF CheckClaim, Items
<1>4. CheckClaim(e) /\ PutBack(e, "rejected") => job'.item[e] \in {"rejected", "failed"}
  BY ItemAt DEF PutBack, CInv
<1>5. \A b \in Batches : "own" \in {claim'[b][e], bin'[b][e]} => HeldBy(b, e) \/ (b = job.batch /\ orig[e] = "own")
  BY <1>1, Effects DEF HeldBy
<1>6. orig'[e] = "own" => orig[e] = "own" \/ (job.item[e] \in {"valid", "claimed"} /\ HeldBy(job.batch, e))
  BY <1>1, <1>2, <1>3, Effects
<1>7. claim[job.batch][e] # "none" /\ claim'[job.batch][e] = "none" => job'.item[e] \in {"trashed", "failed", "rejected"}
  BY <1>1, <1>2, <1>4, Effects
<1>8. job.ids[e] # "own" => orig'[e] # "own" /\ "own" \notin {claim'[job.batch][e], bin'[job.batch][e]}
  BY <1>1, <1>5, <1>6 DEF Doing
<1>9. job'.item[e] \in {"claimed", "valid"} => claim'[job.batch][e] # "none"
  BY <1>1, <1>7 DEF Doing
<1>10. job'.item[e] = "trashed" /\ job.ids[e] = "own" =>
          orig'[e] # "own" /\ \A b \in Batches \ {job.batch} : "own" \notin {claim'[b][e], bin'[b][e]}
  BY <1>1, <1>5, <1>6 DEF Doing
<1>11. job'.item[e] \in {"checked", "claimed", "valid", "trashed"} => job'.item[e] = job.item[e]
  OBVIOUS
<1>12. \A b \in Batches : HeldBy(b, e)' <=> "own" \in {claim'[b][e], bin'[b][e]} BY DEF HeldBy
<1> QED BY <1>1, <1>8, <1>9, <1>10, <1>11, <1>12 DEF Doing, HeldBy, Named

\* The check, the claim, the second check and the bin, for the item they are of.
LEMMA DoingWork ==
    ASSUME CInv, Cursor, Underway, OneEach(Where, fate), [Next]_vars, NEW f \in Files,
           CheckOriginal(f) \/ Claim(f) \/ CheckClaim(f) \/ SendToBin(f)
    PROVE  Doing(f)'
<1>1. /\ f \in DOMAIN job.item /\ Runs("trash", "work")
      /\ \E s : SetItem(f, s)
  BY DEF CheckOriginal, Claim, CheckClaim, SendToBin, Items, Recycle, PutBack
<1>2. /\ job.op = "trash" /\ job.batch \in Batches /\ Item(f) /\ Doing(f) /\ engine = "up" /\ TInv
      /\ job'.batch = job.batch /\ job'.ids = job.ids /\ job'.was = job.was
      /\ \A s : SetItem(f, s) => job'.item[f] = s
  BY <1>1, Working, ItemAt DEF Underway, CInv
<1>3. CASE job'.item[f] = job.item[f] \/ job'.item[f] \in {"rejected", "failed"}
  BY <1>1, <1>2, <1>3, DoingStays
<1>4. \A b \in Batches : "own" \in {claim'[b][f], bin'[b][f]} => HeldBy(b, f) \/ (b = job.batch /\ orig[f] = "own")
  BY <1>2, Effects DEF HeldBy
<1>5. orig'[f] = "own" => orig[f] = "own" \/ HeldBy(job.batch, f)
  BY <1>2, Effects
<1>6. job.ids[f] # "own" => orig'[f] # "own" /\ "own" \notin {claim'[job.batch][f], bin'[job.batch][f]}
  BY <1>2, <1>4, <1>5 DEF Doing
<1>7. CASE CheckOriginal(f) /\ job'.item[f] = "checked"
  <2>1. SameFile(f, orig[f]) BY <1>2, <1>7 DEF CheckOriginal
  <2> QED BY <1>2, <1>6, <1>7, <2>1 DEF Doing, HeldBy, SameFile
<1>8. CASE Claim(f) /\ job'.item[f] = "claimed"
  <2>1. job.item[f] = "checked" BY <1>8 DEF Claim, Items
  <2>2. orig[f] # "none" /\ claim' = [claim EXCEPT ![job.batch][f] = orig[f]] BY <1>2, <1>8 DEF Claim
  <2>3. claim'[job.batch][f] = orig[f] BY <1>2, <2>2, PlaceTypes, PutAt
  <2> QED BY <1>2, <1>6, <1>8, <2>1, <2>2, <2>3 DEF Doing, HeldBy
<1>9. CASE CheckClaim(f) /\ job'.item[f] = "valid"
  <2>1. job.item[f] = "claimed" BY <1>9 DEF CheckClaim, Items
  <2>2. ChecksOut(f, claim[job.batch][f]) /\ UNCHANGED claim
    BY <1>2, <1>9 DEF CheckClaim, PutBack
  <2>3. job.ids[f] = Named(job.was[f]) BY <2>2 DEF ChecksOut, SameFile, SameContents, Named
  <2> QED BY <1>2, <1>6, <1>9, <2>1, <2>2, <2>3 DEF Doing, HeldBy, Named
<1>10. CASE SendToBin(f) /\ job'.item[f] = "trashed"
  <2>1. job.item[f] = "valid" BY <1>10 DEF SendToBin, Items
  <2>2. UNCHANGED orig BY <1>2, <1>10 DEF SendToBin, PutBack, Recycle
  <2>3. job.ids[f] = "own" => orig[f] # "own" /\ \A b \in Batches \ {job.batch} : ~HeldBy(b, f)
    <3> HAVE job.ids[f] = "own"
    <3>1. claim[job.batch][f] = "own" BY <1>2, <2>1 DEF Doing, Item, Named
    <3>2. \A p, q \in Places : Where[p][f] = "own" /\ Where[q][f] = "own" => p = q BY DEF OneEach, Things
    <3>3. Where[<<"claim", job.batch>>][f] = "own" /\ <<"claim", job.batch>> \in Places
      BY <1>2, <3>1, WhereIs, PlacesAre
    <3>4. orig[f] # "own"
      <4>1. Where[Orig][f] = orig[f] /\ Orig \in Places /\ Orig # <<"claim", job.batch>>
        BY <1>2, WhereIs, PlacesAre
      <4> QED BY <3>2, <3>3, <4>1
    <3>5. ASSUME NEW b \in Batches \ {job.batch} PROVE ~HeldBy(b, f)
      <4>1. /\ Where[<<"claim", b>>][f] = claim[b][f] /\ Where[<<"bin", b>>][f] = bin[b][f]
            /\ <<"claim", b>> \in Places /\ <<"bin", b>> \in Places
            /\ <<"claim", b>> # <<"claim", job.batch>> /\ <<"bin", b>> # <<"claim", job.batch>>
        BY <1>2, WhereIs, PlacesAre
      <4> QED BY <3>2, <3>3, <4>1 DEF HeldBy
    <3> QED BY <3>4, <3>5
  <2>4. job.ids[f] = "own" =>
           orig'[f] # "own" /\ \A b \in Batches \ {job.batch} : "own" \notin {claim'[b][f], bin'[b][f]}
    BY <1>2, <1>4, <2>2, <2>3
  <2> QED BY <1>2, <1>6, <1>10, <2>1, <2>4 DEF Doing, HeldBy, Named
<1> QED
  <2>1. CheckOriginal(f) => job'.item[f] \in {"checked", "rejected"} BY <1>2 DEF CheckOriginal
  <2>2. Claim(f) => job'.item[f] \in {"claimed", "failed"} BY <1>2 DEF Claim
  <2>3. CheckClaim(f) => job'.item[f] \in {"valid", "rejected", "failed"} BY <1>2 DEF CheckClaim, PutBack
  <2>4. SendToBin(f) => job'.item[f] \in {"trashed", "failed"} BY <1>2 DEF SendToBin, Recycle, PutBack
  <2> QED BY <1>3, <1>7, <1>8, <1>9, <1>10, <2>1, <2>2, <2>3, <2>4

LEMMA UnderwayNext ==
    ASSUME TrashAssumption, CInv, Cursor, Underway, OneEach(Where, fate), [Next]_vars
    PROVE  Underway'
<1>0. TInv BY DEF CInv
<1>1. ASSUME NEW S \in SUBSET Files, StartTrash(S) PROVE Underway'
  <2>1. /\ job'.op = "trash" /\ job'.batch = batches + 1
        /\ job'.ids = [f \in Candidates(S) |-> orig[f]] /\ job'.was = [f \in Candidates(S) |-> row[f]]
        /\ job'.item = [f \in Candidates(S) |-> "listed"]
        /\ engine' = "up" /\ UNCHANGED files
    BY <1>1 DEF StartTrash, Idle
  <2>2. batches + 1 \in Batches /\ batches + 1 > batches
    BY <1>1 DEF StartTrash, CInv, TInv, TypeOK, TrashAssumption, Batches
  <2>3. claim[batches + 1] = Nowhere /\ bin[batches + 1] = Nowhere BY <2>2 DEF CInv, Fresh
  <2>4. \A f \in Candidates(S) : f \in Files /\ row[f] # "none" BY DEF Candidates
  <2>5. ASSUME NEW f \in Candidates(S) PROVE Doing(f)'
    BY <2>1, <2>3, <2>4 DEF Doing, HeldBy, Nowhere, files, Named
  <2> QED BY <2>1, <2>5 DEF Underway
<1>2. ASSUME job.op = "trash", job'.op = "trash", engine' = engine, job'.batch = job.batch,
             job'.ids = job.ids, job'.was = job.was, DOMAIN job'.item = DOMAIN job.item,
             \A e \in DOMAIN job.item : job'.item[e] = job.item[e] \/ job'.item[e] \in {"rejected", "failed"}
      PROVE  Underway'
  <2>1. \A e \in DOMAIN job.item : Doing(e)' BY <1>2, DoingStays
  <2> QED BY <1>2, <2>1 DEF Underway
<1>3. CASE JournalTrash
  <2>1. job.op = "trash" /\ engine' = engine /\ (job' = [job EXCEPT !.at = "work"] \/ job' = Idle)
    BY <1>3 DEF JournalTrash, Runs, Ends
  <2>2. CASE job' = [job EXCEPT !.at = "work"]
    <3>1. job'.op = job.op /\ job'.batch = job.batch /\ job'.ids = job.ids /\ job'.was = job.was /\ job'.item = job.item
      BY <1>0, <2>2 DEF TInv, TypeOK, Jobs
    <3> QED BY <1>2, <2>1, <3>1
  <2>3. CASE job' = Idle BY <2>3, IdleRuns DEF Underway
  <2> QED BY <2>1, <2>2, <2>3
<1>4. CASE BindReceipts
  <2>1. job.op = "trash" /\ engine' = engine
        /\ \E L \in SUBSET Files : job' = [job EXCEPT !.at = "commit", !.item = Unbound(L)]
    <3>1. Items("trashed") \subseteq Files BY <1>0, ItemsAreFiles, InItems
    <3> QED BY <1>4, <3>1 DEF BindReceipts, Runs
  <2>2. PICK L \in SUBSET Files : job' = [job EXCEPT !.at = "commit", !.item = Unbound(L)] BY <2>1
  <2>3. /\ job'.op = job.op /\ job'.batch = job.batch /\ job'.ids = job.ids /\ job'.was = job.was
        /\ job'.item = Unbound(L)
    BY <1>0, <2>2 DEF TInv, TypeOK, Jobs
  <2> QED BY <1>2, <2>1, <2>3 DEF Unbound
<1>5. ASSUME NEW f \in Files, CheckOriginal(f) \/ Claim(f) \/ CheckClaim(f) \/ SendToBin(f)
      PROVE  Underway'
  <2>1. /\ f \in DOMAIN job.item /\ job.op = "trash" /\ engine' = engine
        /\ \E s : SetItem(f, s)
    BY <1>5 DEF CheckOriginal, Claim, CheckClaim, SendToBin, Items, Runs, Recycle, PutBack
  <2>2. /\ job'.op = job.op /\ job'.batch = job.batch /\ job'.ids = job.ids /\ job'.was = job.was
        /\ DOMAIN job'.item = DOMAIN job.item
        /\ \A e \in DOMAIN job.item \ {f} : job'.item[e] = job.item[e]
    BY <1>0, <2>1, ItemAt
  <2>3. \A e \in DOMAIN job.item \ {f} : Doing(e)' BY <2>1, <2>2, DoingStays
  <2>4. Doing(f)' BY <1>5, DoingWork
  <2> QED BY <2>1, <2>2, <2>3, <2>4 DEF Underway
<1>6. CASE User \/ UNCHANGED vars
  <2>1. UNCHANGED <<job, engine>> BY <1>6 DEF User, vars
  <2> QED BY <1>2, <2>1 DEF Underway
<1>7. ASSUME NEW f \in Files, Survey(f) \/ Restore(f) PROVE Underway'
  <2>1. job.op = "restore" /\ \E s : SetItem(f, s)
    BY <1>7 DEF Survey, Restore, Runs, RestoreFrom, NotRestored
  <2>2. job'.op = job.op BY <1>0, <2>1, JobOf
  <2> QED BY <2>1, <2>2 DEF Underway
<1>8. ASSUME NEW f \in Files, RecoverClaim(f) PROVE Underway'
  BY <1>8 DEF RecoverClaim, Underway
<1>9. CASE RecoverNext
  <2>1. engine = "recovering" /\ job' = [job EXCEPT !.line = @ + 1] BY <1>9 DEF RecoverNext
  <2>2. job'.op = job.op BY <1>0, <2>1 DEF TInv, TypeOK, Jobs
  <2> QED BY <2>1, <2>2 DEF Underway
<1>10. ASSUME NEW b \in Batches, StartRestore(b) PROVE Underway'
  <2>1. job'.op = "restore" BY <1>10 DEF StartRestore, Idle
  <2> QED BY <2>1 DEF Underway
<1>11. CASE PersistReceipts
  <2>1. job.op = "restore" /\ (job' = Idle \/ \E s, g : job' = [job EXCEPT !.at = s, !.receipts = g])
    BY <1>11 DEF PersistReceipts, Runs, Ends
  <2>2. job'.op # "trash"
    <3>1. CASE job' = Idle BY <3>1, IdleRuns
    <3>2. CASE job' # Idle BY <1>0, <2>1, <3>2, JobOf
    <3> QED BY <3>1, <3>2
  <2> QED BY <2>2 DEF Underway
<1>12. CASE CommitTrash \/ CommitRestore \/ Kill \/ Launch \/ Recovered
  <2>1. job' = Idle \/ job' = [Idle EXCEPT !.op = "recover", !.line = 1]
    BY <1>12 DEF CommitTrash, CommitRestore, Kill, Launch, Recovered, Ends
  <2>2. job'.op # "trash"
    <3>1. CASE job' = Idle BY <3>1, IdleRuns
    <3>2. CASE job' # Idle BY <2>1, <3>2 DEF Idle
    <3> QED BY <3>1, <3>2
  <2> QED BY <2>2 DEF Underway
<1> QED BY <1>1, <1>3, <1>4, <1>5, <1>6, <1>7, <1>8, <1>9, <1>10, <1>11, <1>12 DEF Next

\* Below its cap the log only grows.
LEMMA LogNext ==
    ASSUME TrashAssumption, CInv, Agreed, [Next]_vars, Short'
    PROVE  Short /\ \A i \in DOMAIN log : i \in DOMAIN log' /\ log'[i] = log[i]
<1>0. TInv BY DEF CInv
<1>1. CASE log' = log BY <1>1 DEF Short
<1>2. ASSUME NEW R \in SUBSET Files, job.op \in {"trash", "restore"},
             Appended(Line(R)) \/ AppendFails(Line(R))
      PROVE  Short /\ \A i \in DOMAIN log : i \in DOMAIN log' /\ log'[i] = log[i]
  <2>1. log \in Seq(Lines) /\ Line(R) \in Lines BY <1>0, <1>2, LineType DEF TInv, TypeOK, Running
  <2>2. Short /\ (log' = log \/ \E l \in Lines : log' = Append(log, l)) BY <2>1, <1>2, LogGrows
  <2>3. ASSUME NEW l \in Lines, log' = Append(log, l)
        PROVE  \A i \in DOMAIN log : i \in DOMAIN log' /\ log'[i] = log[i]
    BY <1>0, <2>3, LineMore
  <2> QED BY <2>2, <2>3
<1>3. CASE JournalTrash
  <2>1. {} \in SUBSET Files OBVIOUS
  <2> QED BY <1>2, <1>3, <2>1 DEF JournalTrash, Runs
<1>4. CASE BindReceipts
  <2>1. Items("trashed") \subseteq Files BY <1>0, ItemsAreFiles, InItems
  <2>2. job.op = "trash" /\ \E L \in SUBSET Files : Appended(Line(L)) \/ AppendFails(Line(L)) \/ UNCHANGED journal
    BY <1>4, <2>1 DEF BindReceipts, Runs
  <2> QED BY <1>1, <1>2, <2>2 DEF journal
<1>5. CASE PersistReceipts
  <2>1. job.op = "restore" /\ job.receipts \subseteq Files /\ Items("ready") \subseteq Files
    BY <1>0, <1>5, ItemsAreFiles, InItems DEF PersistReceipts, Runs, TInv, TypeOK, Jobs
  <2>2. PICK L \in SUBSET {f \in Items("ready") : Receipt(f)} :
           Appended(Line(Confirmed(L))) \/ AppendFails(Line(Confirmed(L))) \/ UNCHANGED journal
    BY <1>5 DEF PersistReceipts
  <2>3. Confirmed(L) \in SUBSET Files BY <2>1 DEF Confirmed
  <2> QED BY <1>1, <1>2, <2>1, <2>2, <2>3 DEF journal
<1>6. log' = log \/ JournalTrash \/ BindReceipts \/ PersistReceipts
  BY DEF Next, vars, journal, StartTrash, StartRestore, CommitTrash, CommitRestore, CheckOriginal, Claim,
         CheckClaim, SendToBin, Survey, Restore, RecoverClaim, Kill, Launch, RecoverNext, Recovered, User
<1> QED BY <1>1, <1>3, <1>4, <1>5, <1>6

\* A line that names a file goes on naming it.
LEMMA NamesKept ==
    ASSUME TrashAssumption, CInv, Agreed, [Next]_vars, Short', NEW b \in Batches, NEW f \in Files, Names(b, f)
    PROVE  Names(b, f)'
<1>1. PICK i \in Found(b) : f \in DOMAIN log[i].ids /\ log[i].ids[f] = "own" BY DEF Names
<1>2. i \in DOMAIN log' /\ log'[i] = log[i] BY <1>1, LogNext DEF Found
<1>3. i \in Found(b)' BY <1>1, <1>2 DEF Found
<1> QED BY <1>1, <1>2, <1>3 DEF Names

\* A row changes when a batch, or its undo, is committed.
LEMMA RowNext ==
    ASSUME CInv, [Next]_vars, NEW f \in Files, row'[f] # row[f]
    PROVE  (CommitTrash /\ f \in Items("trashed") /\ row[f] = job.was[f]) \/ row[f] = "none"
<1>1. row \in [Files -> Things \cup {"none", "noref"}] BY DEF CInv, TInv, TypeOK
<1>2. CASE CommitTrash BY <1>1, <1>2 DEF CommitTrash
<1>3. CASE CommitRestore BY <1>1, <1>3 DEF CommitRestore, Reinserted
<1>4. UNCHANGED row \/ CommitTrash \/ CommitRestore
  BY DEF Next, vars, StartTrash, StartRestore, JournalTrash, BindReceipts, PersistReceipts, CheckOriginal, Claim,
         CheckClaim, SendToBin, Survey, Restore, RecoverClaim, Kill, Launch, RecoverNext, Recovered, User
<1> QED BY <1>2, <1>3, <1>4

LEMMA KeptNext ==
    ASSUME TrashAssumption, CInv, Cursor, Agreed, Underway, Kept, [Next]_vars
    PROVE  Kept'
<1> SUFFICES ASSUME Short', NEW b \in Batches, NEW f \in Files, HeldBy(b, f)', row'[f] \in {"none", "other"}
             PROVE  Names(b, f)'
  BY DEF Kept
<1>0. TInv BY DEF CInv
<1>1. Short BY LogNext
<1>2. CASE HeldBy(b, f) /\ row[f] \in {"none", "other"}
  BY <1>1, <1>2, NamesKept DEF Kept
<1>3. CASE Claim(f) /\ b = job.batch /\ orig[f] = "own" /\ ~HeldBy(b, f)
  <2>1. f \in DOMAIN job.item /\ job.item[f] = "checked" /\ Runs("trash", "work") /\ row' = row
    BY <1>3 DEF Claim, Items
  <2>2. job.was[f] = row[f] /\ Doing(f) BY <2>1, Working DEF Item, Underway
  <2>3. row[f] = "other" BY <2>1, <2>2 DEF Doing
  <2>4. job.ids[f] = "other" BY <2>1, <2>2, <2>3 DEF Doing
  <2> QED BY <1>3, <2>2, <2>4 DEF Doing
<1>4. CASE HeldBy(b, f) /\ row[f] \notin {"none", "other"}
  <2>1. CommitTrash /\ f \in Items("trashed") /\ row[f] = job.was[f] BY <1>4, RowNext
  <2>2. /\ f \in DOMAIN job.item /\ job.item[f] = "trashed" /\ job.op = "trash" /\ job.at = "commit"
        /\ UNCHANGED journal /\ UNCHANGED files
    BY <2>1 DEF CommitTrash, Items, Runs
  <2>3. row \in [Files -> Things \cup {"none", "noref"}] BY <1>0 DEF TInv, TypeOK
  <2>4. Named(job.was[f]) = "own" BY <1>4, <2>1, <2>3 DEF Named, Things
  <2>5. Doing(f) BY <2>2 DEF Underway
  <2>6. job.ids[f] = "own" BY <2>2, <2>4, <2>5 DEF Doing
  <2>7. b = job.batch BY <1>4, <2>2, <2>5, <2>6 DEF Doing
  <2>8. PICK i \in Found(b) : f \in log[i].receipts BY <2>2, <2>1, <2>7 DEF CInv, Lined
  <2>9. i \in DOMAIN log /\ log[i].batch = job.batch BY <2>7, <2>8 DEF Found
  <2>10. log[i].ids = job.ids BY <1>1, <2>2, <2>9 DEF Agreed
  <2>11. f \in DOMAIN job.ids BY <1>0, <2>2 DEF TInv, Running
  <2>12. Names(b, f) BY <2>6, <2>8, <2>10, <2>11 DEF Names
  <2> QED BY <2>12, NamesKept
<1> QED BY <1>2, <1>3, <1>4, Effects

ReachInv == CInv /\ Cursor /\ Agreed /\ Underway /\ Kept

LEMMA ReachInit == ASSUME TrashAssumption, Init PROVE Agreed /\ Underway /\ Kept
<1>1. log = <<>> /\ job.op = "none" BY DEF Init, Idle
<1>2. Agreed BY <1>1 DEF Agreed, Found
<1>3. Underway BY <1>1 DEF Underway
<1>4. \A b \in Batches, f \in Files : claim[b][f] = "none" /\ bin[b][f] = "none" BY DEF Init, Nowhere
<1>5. Kept BY <1>4 DEF Kept, HeldBy
<1> QED BY <1>2, <1>3, <1>5

\* The last signed line of a batch names what one of its lines does.
LEMMA LatestNames ==
    ASSUME Agreed, Short, NEW b \in Batches, NEW f \in Files, Names(b, f)
    PROVE  \E i \in Latest(b) : f \in DOMAIN log[i].ids /\ log[i].ids[f] = "own"
<1>1. PICK i \in Found(b) : f \in DOMAIN log[i].ids /\ log[i].ids[f] = "own" BY DEF Names
<1>2. PICK j \in Latest(b) : TRUE BY <1>1 DEF Agreed
<1>3. /\ i \in DOMAIN log /\ j \in DOMAIN log /\ log[i].batch = b /\ log[j].batch = b
  BY <1>1, <1>2 DEF Latest, Found
<1>4. log[i].ids = log[j].ids BY <1>3 DEF Agreed
<1> QED BY <1>1, <1>2, <1>4

LEMMA ReachHere ==
    ASSUME ReachInv, OneEach(Where, fate)
    PROVE  Reachable
<1> SUFFICES ASSUME NEW f \in Files, row[f] = "none", fate[f]["own"] = "alive", Short, orig[f] # "own"
             PROVE  \E b \in Batches : /\ "own" \in {claim[b][f], bin[b][f]}
                                       /\ \E i \in Latest(b) : f \in DOMAIN log[i].ids /\ log[i].ids[f] = "own"
  BY DEF Reachable, Short
<1>1. PICK p \in Places : Where[p][f] = "own" BY DEF OneEach, Things
<1>2. PICK b \in Batches : HeldBy(b, f)
  <2>1. p # Orig BY <1>1, WhereIs
  <2>2. PICK c \in Batches : p = <<"claim", c>> \/ p = <<"bin", c>> BY <2>1, PlacesAre
  <2>3. claim[c][f] = "own" \/ bin[c][f] = "own" BY <1>1, <2>2, WhereIs
  <2> QED BY <2>3 DEF HeldBy
<1>3. Names(b, f) BY <1>2 DEF ReachInv, Kept
<1> QED BY <1>2, <1>3, LatestNames DEF HeldBy, ReachInv

\* Unless the log has reached its cap, the undo of some batch finds a file that
\* has no row: it is at its path, or where a batch put it whose last signed
\* line names it, whatever was torn, killed or moved in the meantime.
THEOREM ReachableCorrect == Spec => []Reachable
<1>1. TrashAssumption /\ Init => Agreed /\ Underway /\ Kept BY ReachInit
<1>2. TrashAssumption /\ CInv /\ Cursor /\ OneEach(Where, fate) /\ (Agreed /\ Underway /\ Kept) /\ [Next]_vars
        => (Agreed /\ Underway /\ Kept)'
  BY AgreedNext, UnderwayNext, KeptNext
<1>3. CInv /\ Cursor /\ OneEach(Where, fate) /\ (Agreed /\ Underway /\ Kept) => Reachable
  BY ReachHere DEF ReachInv
<1>4. Spec => []NothingLost BY NothingLostCorrect
<1>5. NothingLost <=> OneEach(Where, fate) BY CustodyIs
<1> QED BY <1>1, <1>2, <1>3, <1>4, <1>5, CInvariant, TrashAssumption, PTL DEF Spec
=============================================================================
