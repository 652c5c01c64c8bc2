-------------------------- MODULE PreservationProofs --------------------------
(***************************************************************************)
(* ImportedOnce, EffectsTruthful, SnapshotsAtOneInstant and                *)
(* ResultsPreserve of Preservation, for any number of backups, restores    *)
(* and writes.                                                             *)
(*                                                                         *)
(* The target is empty from the moment a restore has seen it so under the  *)
(* table locks until it commits, because it holds the locks all along      *)
(* (Holding, EmptyUnderLock); a committed import is never empty, because   *)
(* only a file that a backup qualified gets as far as the locks            *)
(* (Qualified), so no second restore sees an empty target (Marked).  What  *)
(* a run holds of its effect is written down before the commit it is       *)
(* about, and a run that wrote NOT_COMMITTED has ended (Held, Stated).     *)
(*                                                                         *)
(* On that rests what the results stand for: a pass of the copy is of one  *)
(* instant as long as it is not begun again (OneInstant), a file is past   *)
(* the comparison only with a digest that a result names (Checked), and a  *)
(* restore's own copy no longer changes once it may have been imported.    *)
(***************************************************************************)
EXTENDS Preservation, TLAPS

EmptyTarget == [import |-> None, rows |-> 0]

Holding ==
  \A r \in Restore : pc[r] \in {"inspect", "commit", "committing"} => lock = r

EmptyUnderLock ==
  \A r \in Restore : pc[r] \in {"commit", "committing"} => Empty

Qualified ==
  /\ \A b \in Backup : pc[b] \in {"copyrest", "summarize", "result"} => snapshot[b] \in Pages
  /\ \A b \in Backup : \A x \in receipts[b] : x.name = "result" => x.digest \in Pages
  /\ \A r \in Restore : pc[r] \in {"lock", "inspect", "commit", "committing"} =>
                          frozen[r] \in Pages

\* None and the qualified files are told apart.
Marked == imports # <<>> => target.import \in Pages

Once ==
  /\ Len(imports) <= 1
  /\ \A i \in DOMAIN imports : imports[i].over = EmptyTarget

Held ==
  \A r \in Restore :
    /\ effect[r] = "COMMITTED" => Imported(r)
    /\ effect[r] = "NOT_COMMITTED" => ~Imported(r)
    /\ pc[r] = "committing" => effect[r] = "COMMIT_OUTCOME_UNKNOWN"
    /\ pc[r] \in {"readback", "result"} => effect[r] = "COMMITTED"
    /\ pc[r] \in {"start", "freeze", "check", "lock", "inspect", "commit"} =>
         effect[r] = "NOT_COMMITTED"

Stated ==
  \A r \in Restore : \A x \in receipts[r] :
    /\ x.effect = "COMMITTED" => Imported(r)
    /\ x.effect = "NOT_COMMITTED" => effect[r] = "NOT_COMMITTED" /\ pc[r] = "ended"

PInv == TypeOK /\ Holding /\ EmptyUnderLock /\ Qualified /\ Marked /\ Once /\ Held /\ Stated

\* What a commit finds and leaves: the first import, into an empty target.
LEMMA ImportTakesEffect ==
  ASSUME PInv, NEW r \in Restore, pc[r] = "committing", Import(r)
  PROVE  /\ imports = <<>> /\ imports' = <<[run |-> r, over |-> EmptyTarget]>>
         /\ target' = [import |-> frozen[r], rows |-> 0] /\ frozen[r] \in Pages
         /\ lock = r /\ lock' = None /\ frozen' = frozen
         /\ \A s \in Restore : ~Imported(s) /\ (Imported(s)' <=> s = r)
<1>. USE ConstantsAssumption
<1>1. target = EmptyTarget /\ lock = r /\ frozen[r] \in Pages
  BY DEF PInv, Holding, EmptyUnderLock, Empty, EmptyTarget, Qualified
<1>2. imports = <<>>
  BY <1>1 DEF PInv, Marked, EmptyTarget
<1>3. imports' = <<[run |-> r, over |-> EmptyTarget]>>
  BY <1>1, <1>2 DEF Import
<1>4. target' = [import |-> frozen[r], rows |-> 0] /\ lock' = None /\ frozen' = frozen
  BY <1>1 DEF Import, EmptyTarget
<1>5. \A s \in Restore : ~Imported(s)
  BY <1>2 DEF Imported
<1>6. \A s \in Restore : Imported(s)' <=> s = r
  BY <1>3 DEF Imported
<1>. QED BY <1>1, <1>2, <1>3, <1>4, <1>5, <1>6

\* The directory of a backup is made: the invariant is kept.
LEMMA BeginBackupKeeps ==
  ASSUME PInv, NEW b \in Backup, BeginBackup(b)
  PROVE  PInv'
<1>. USE ConstantsAssumption DEF Run
<1>1. TypeOK'
  BY DEF PInv, TypeOK, Effect, Receipt, File, Pages, Page, BeginBackup, Intend,
         Written, GoTo, Importing
<1>2. Holding'
  BY DEF PInv, TypeOK, Holding, BeginBackup, Intend, Written, GoTo, Importing
<1>3. EmptyUnderLock'
  BY DEF PInv, TypeOK, EmptyUnderLock, Empty, BeginBackup, Intend, Written, GoTo,
         Importing
<1>4. Qualified'
  BY DEF PInv, TypeOK, Qualified, Exact, Pages, Page, BeginBackup, Intend, Written,
         GoTo, Importing
<1>5. Marked'
  BY DEF PInv, TypeOK, Marked, BeginBackup, Intend, Written, GoTo, Importing
<1>6. Once'
  BY DEF PInv, TypeOK, Once, Empty, EmptyTarget, Marked, BeginBackup, Intend,
         Written, GoTo, Importing
<1>7. Held'
  BY DEF PInv, TypeOK, Held, Imported, BeginBackup, Intend, Written, GoTo, Importing
<1>8. Stated'
  BY DEF PInv, TypeOK, Stated, Imported, Held, BeginBackup, Intend, Written, GoTo,
         Importing
<1>. QED BY <1>1, <1>2, <1>3, <1>4, <1>5, <1>6, <1>7, <1>8 DEF PInv

\* A pass of the online backup begins: the invariant is kept.
LEMMA CopyFirstKeeps ==
  ASSUME PInv, NEW b \in Backup, CopyFirst(b)
  PROVE  PInv'
<1>. USE ConstantsAssumption DEF Run
<1>1. TypeOK'
  BY DEF PInv, TypeOK, Effect, Receipt, File, Pages, Page, CopyFirst, GoTo,
         Importing
<1>2. Holding'
  BY DEF PInv, TypeOK, Holding, CopyFirst, GoTo, Importing
<1>3. EmptyUnderLock'
  BY DEF PInv, TypeOK, EmptyUnderLock, Empty, CopyFirst, GoTo, Importing
<1>4. Qualified'
  BY DEF PInv, TypeOK, Qualified, Exact, Pages, Page, CopyFirst, GoTo, Importing
<1>5. Marked'
  BY DEF PInv, TypeOK, Marked, CopyFirst, GoTo, Importing
<1>6. Once'
  BY DEF PInv, TypeOK, Once, Empty, EmptyTarget, Marked, CopyFirst, GoTo, Importing
<1>7. Held'
  BY DEF PInv, TypeOK, Held, Imported, CopyFirst, GoTo, Importing
<1>8. Stated'
  BY DEF PInv, TypeOK, Stated, Imported, Held, CopyFirst, GoTo, Importing
<1>. QED BY <1>1, <1>2, <1>3, <1>4, <1>5, <1>6, <1>7, <1>8 DEF PInv

\* A pass ends, or begins again: the invariant is kept.
LEMMA CopyRestKeeps ==
  ASSUME PInv, NEW b \in Backup, CopyRest(b)
  PROVE  PInv'
<1>. USE ConstantsAssumption DEF Run
<1>1. TypeOK'
  <2>1. CASE PassHolds(b) /\ snapshot' = [snapshot EXCEPT ![b] = [@ EXCEPT ![2] = writes]]
    <3>1. snapshot[b] \in Pages
      BY DEF PInv, Qualified, CopyRest
    <3>2. [snapshot[b] EXCEPT ![2] = writes] \in File
      BY <3>1 DEF PInv, TypeOK, File, Pages, Page
    <3>. QED BY <2>1, <3>2 DEF PInv, TypeOK, CopyRest, GoTo, Importing
  <2>2. CASE UNCHANGED snapshot
    BY <2>2 DEF PInv, TypeOK, CopyRest, GoTo, Importing
  <2>. QED BY <2>1, <2>2 DEF CopyRest
<1>2. Holding'
  BY DEF PInv, TypeOK, Holding, CopyRest, GoTo, Importing
<1>3. EmptyUnderLock'
  BY DEF PInv, TypeOK, EmptyUnderLock, Empty, CopyRest, GoTo, Importing
<1>4. Qualified'
  <2>1. CASE PassHolds(b) /\ snapshot' = [snapshot EXCEPT ![b] = [@ EXCEPT ![2] = writes]]
    <3>1. snapshot[b] \in Pages
      BY DEF PInv, Qualified, CopyRest
    <3>2. [snapshot[b] EXCEPT ![2] = writes] \in Pages
      BY <3>1 DEF PInv, TypeOK, Pages, Page
    <3>. QED BY <2>1, <3>2 DEF PInv, TypeOK, Qualified, CopyRest, GoTo, Importing
  <2>2. CASE UNCHANGED snapshot /\ GoTo(b, "copy")
    BY <2>2 DEF PInv, TypeOK, Qualified, CopyRest, GoTo, Importing
  <2>. QED BY <2>1, <2>2 DEF CopyRest
<1>5. Marked'
  BY DEF PInv, TypeOK, Marked, CopyRest, GoTo, Importing
<1>6. Once'
  BY DEF PInv, TypeOK, Once, Empty, EmptyTarget, Marked, CopyRest, GoTo, Importing
<1>7. Held'
  BY DEF PInv, TypeOK, Held, Imported, CopyRest, GoTo, Importing
<1>8. Stated'
  BY DEF PInv, TypeOK, Stated, Imported, Held, CopyRest, GoTo, Importing
<1>. QED BY <1>1, <1>2, <1>3, <1>4, <1>5, <1>6, <1>7, <1>8 DEF PInv

\* A snapshot is inspected: the invariant is kept.
LEMMA SummarizeKeeps ==
  ASSUME PInv, NEW b \in Backup, Summarize(b)
  PROVE  PInv'
<1>. USE ConstantsAssumption DEF Run
<1>1. TypeOK'
  BY DEF PInv, TypeOK, Effect, Receipt, File, Pages, Page, Summarize, GoTo, Live,
         Importing
<1>2. Holding'
  BY DEF PInv, TypeOK, Holding, Summarize, GoTo, Live, Importing
<1>3. EmptyUnderLock'
  BY DEF PInv, TypeOK, EmptyUnderLock, Empty, Summarize, GoTo, Live, Importing
<1>4. Qualified'
  BY DEF PInv, TypeOK, Qualified, Exact, Pages, Page, Summarize, GoTo, Live,
         Importing
<1>5. Marked'
  BY DEF PInv, TypeOK, Marked, Summarize, GoTo, Live, Importing
<1>6. Once'
  BY DEF PInv, TypeOK, Once, Empty, EmptyTarget, Marked, Summarize, GoTo, Live,
         Importing
<1>7. Held'
  BY DEF PInv, TypeOK, Held, Imported, Summarize, GoTo, Live, Importing
<1>8. Stated'
  BY DEF PInv, TypeOK, Stated, Imported, Held, Summarize, GoTo, Live, Importing
<1>. QED BY <1>1, <1>2, <1>3, <1>4, <1>5, <1>6, <1>7, <1>8 DEF PInv

\* The retained file changes: the invariant is kept.
LEMMA ReplaceKeeps ==
  ASSUME PInv, NEW b \in Backup, Replace(b)
  PROVE  PInv'
<1>. USE ConstantsAssumption DEF Run
<1>1. TypeOK'
  <2>1. ASSUME NEW w \in 0..writes PROVE [i \in Page |-> w] \in File
    <3>1. w \in 0..MaxWrites
      BY DEF PInv, TypeOK
    <3>. QED BY <3>1 DEF File, Pages
  <2>2. PICK file \in {Damaged} \cup {[i \in Page |-> w] : w \in 0..writes} :
               snapshot' = [snapshot EXCEPT ![b] = file]
    BY DEF Replace
  <2>3. file \in File
    <3>1. CASE file = Damaged
      BY <3>1 DEF File
    <3>2. CASE \E w \in 0..writes : file = [i \in Page |-> w]
      BY <3>2, <2>1
    <3>. QED BY <3>1, <3>2
  <2>. QED BY <2>2, <2>3 DEF PInv, TypeOK, Replace, Importing
<1>2. Holding'
  BY DEF PInv, TypeOK, Holding, Replace, Importing
<1>3. EmptyUnderLock'
  BY DEF PInv, TypeOK, EmptyUnderLock, Empty, Replace, Importing
<1>4. Qualified'
  BY DEF PInv, TypeOK, Qualified, Exact, Pages, Page, Replace, Importing
<1>5. Marked'
  BY DEF PInv, TypeOK, Marked, Replace, Importing
<1>6. Once'
  BY DEF PInv, TypeOK, Once, Empty, EmptyTarget, Marked, Replace, Importing
<1>7. Held'
  BY DEF PInv, TypeOK, Held, Imported, Replace, Importing
<1>8. Stated'
  BY DEF PInv, TypeOK, Stated, Imported, Held, Replace, Importing
<1>. QED BY <1>1, <1>2, <1>3, <1>4, <1>5, <1>6, <1>7, <1>8 DEF PInv

\* The directory of a restore is made: the invariant is kept.
LEMMA BeginRestoreKeeps ==
  ASSUME PInv, NEW r \in Restore, BeginRestore(r)
  PROVE  PInv'
<1>. USE ConstantsAssumption DEF Run
<1>1. TypeOK'
  BY DEF PInv, TypeOK, Effect, Receipt, File, Pages, Page, BeginRestore, Intend,
         Written, GoTo, Live, Importing
<1>2. Holding'
  BY DEF PInv, TypeOK, Holding, BeginRestore, Intend, Written, GoTo, Live, Importing
<1>3. EmptyUnderLock'
  BY DEF PInv, TypeOK, EmptyUnderLock, Empty, BeginRestore, Intend, Written, GoTo,
         Live, Importing
<1>4. Qualified'
  BY DEF PInv, TypeOK, Qualified, Exact, Pages, Page, BeginRestore, Intend, Written,
         GoTo, Live, Importing
<1>5. Marked'
  BY DEF PInv, TypeOK, Marked, BeginRestore, Intend, Written, GoTo, Live, Importing
<1>6. Once'
  BY DEF PInv, TypeOK, Once, Empty, EmptyTarget, Marked, BeginRestore, Intend,
         Written, GoTo, Live, Importing
<1>7. Held'
  BY DEF PInv, TypeOK, Held, Imported, BeginRestore, Intend, Written, GoTo, Live,
         Importing
<1>8. Stated'
  <2>1. \A s \in Restore \ {r} : receipts'[s] = receipts[s] /\ pc'[s] = pc[s]
    BY DEF PInv, TypeOK, BeginRestore, Intend, Written, GoTo
  <2>2. receipts'[r] = receipts[r] \cup {[name |-> "intent", effect |-> None, digest |-> None]}
    BY DEF PInv, TypeOK, BeginRestore, Intend, Written
  <2>3. effect' = effect /\ imports' = imports /\ pc[r] = "start"
    BY DEF BeginRestore, Intend, Importing
  <2>4. None # "COMMITTED" /\ None # "NOT_COMMITTED"
    BY DEF Effect
  <2>5. ASSUME NEW s \in Restore, NEW x \in receipts'[s]
        PROVE  /\ x.effect = "COMMITTED" => Imported(s)'
               /\ x.effect = "NOT_COMMITTED" => effect'[s] = "NOT_COMMITTED" /\ pc'[s] = "ended"
    <3>1. CASE s # r
      BY <3>1, <2>1, <2>3, <2>5 DEF PInv, Stated, Imported
    <3>2. CASE s = r
      <4>1. CASE x \in receipts[r]
        BY <3>2, <4>1, <2>3 DEF PInv, Stated, Imported
      <4>2. CASE x = [name |-> "intent", effect |-> None, digest |-> None]
        BY <4>2, <2>4
      <4>. QED BY <3>2, <4>1, <4>2, <2>2, <2>5
    <3>. QED BY <3>1, <3>2
  <2>. QED BY <2>5 DEF Stated
<1>. QED BY <1>1, <1>2, <1>3, <1>4, <1>5, <1>6, <1>7, <1>8 DEF PInv

\* The snapshot is copied: the invariant is kept.
LEMMA FreezeKeeps ==
  ASSUME PInv, NEW r \in Restore, Freeze(r)
  PROVE  PInv'
<1>. USE ConstantsAssumption DEF Run
<1>1. TypeOK'
  BY DEF PInv, TypeOK, Effect, Receipt, File, Pages, Page, Freeze, GoTo, Live
<1>2. Holding'
  BY DEF PInv, TypeOK, Holding, Freeze, GoTo, Live
<1>3. EmptyUnderLock'
  BY DEF PInv, TypeOK, EmptyUnderLock, Empty, Freeze, GoTo, Live
<1>4. Qualified'
  BY DEF PInv, TypeOK, Qualified, Exact, Pages, Page, Freeze, GoTo, Live
<1>5. Marked'
  BY DEF PInv, TypeOK, Marked, Freeze, GoTo, Live
<1>6. Once'
  BY DEF PInv, TypeOK, Once, Empty, EmptyTarget, Marked, Freeze, GoTo, Live
<1>7. Held'
  BY DEF PInv, TypeOK, Held, Imported, Freeze, GoTo, Live
<1>8. Stated'
  BY DEF PInv, TypeOK, Stated, Imported, Held, Freeze, GoTo, Live
<1>. QED BY <1>1, <1>2, <1>3, <1>4, <1>5, <1>6, <1>7, <1>8 DEF PInv

\* The copy is compared with the receipt's digest: the invariant is kept.
LEMMA CheckDigestKeeps ==
  ASSUME PInv, NEW r \in Restore, CheckDigest(r)
  PROVE  PInv'
<1>. USE ConstantsAssumption DEF Run
<1>1. TypeOK'
  BY DEF PInv, TypeOK, Effect, Receipt, File, Pages, Page, CheckDigest, GoTo, Live,
         Importing
<1>2. Holding'
  BY DEF PInv, TypeOK, Holding, CheckDigest, GoTo, Live, Importing
<1>3. EmptyUnderLock'
  BY DEF PInv, TypeOK, EmptyUnderLock, Empty, CheckDigest, GoTo, Live, Importing
<1>4. Qualified'
  BY DEF PInv, TypeOK, Qualified, Exact, Pages, Page, CheckDigest, GoTo, Live,
         Importing
<1>5. Marked'
  BY DEF PInv, TypeOK, Marked, CheckDigest, GoTo, Live, Importing
<1>6. Once'
  BY DEF PInv, TypeOK, Once, Empty, EmptyTarget, Marked, CheckDigest, GoTo, Live,
         Importing
<1>7. Held'
  BY DEF PInv, TypeOK, Held, Imported, CheckDigest, GoTo, Live, Importing
<1>8. Stated'
  BY DEF PInv, TypeOK, Stated, Imported, Held, CheckDigest, GoTo, Live, Importing
<1>. QED BY <1>1, <1>2, <1>3, <1>4, <1>5, <1>6, <1>7, <1>8 DEF PInv

\* The target's tables are locked: the invariant is kept.
LEMMA LockTablesKeeps ==
  ASSUME PInv, NEW r \in Restore, LockTables(r)
  PROVE  PInv'
<1>. USE ConstantsAssumption DEF Run
<1>1. TypeOK'
  BY DEF PInv, TypeOK, Effect, Receipt, File, Pages, Page, LockTables, GoTo, Live
<1>2. Holding'
  BY DEF PInv, TypeOK, Holding, LockTables, GoTo, Live
<1>3. EmptyUnderLock'
  BY DEF PInv, TypeOK, EmptyUnderLock, Empty, LockTables, GoTo, Live
<1>4. Qualified'
  BY DEF PInv, TypeOK, Qualified, Exact, Pages, Page, LockTables, GoTo, Live
<1>5. Marked'
  BY DEF PInv, TypeOK, Marked, LockTables, GoTo, Live
<1>6. Once'
  BY DEF PInv, TypeOK, Once, Empty, EmptyTarget, Marked, LockTables, GoTo, Live
<1>7. Held'
  BY DEF PInv, TypeOK, Held, Imported, LockTables, GoTo, Live
<1>8. Stated'
  BY DEF PInv, TypeOK, Stated, Imported, Held, LockTables, GoTo, Live
<1>. QED BY <1>1, <1>2, <1>3, <1>4, <1>5, <1>6, <1>7, <1>8 DEF PInv

\* The rows are inserted and read back: the invariant is kept.
LEMMA ImportRowsKeeps ==
  ASSUME PInv, NEW r \in Restore, ImportRows(r)
  PROVE  PInv'
<1>. USE ConstantsAssumption DEF Run
<1>1. TypeOK'
  BY DEF PInv, TypeOK, Effect, Receipt, File, Pages, Page, ImportRows, GoTo, Live,
         Importing
<1>2. Holding'
  BY DEF PInv, TypeOK, Holding, ImportRows, GoTo, Live, Importing
<1>3. EmptyUnderLock'
  BY DEF PInv, TypeOK, EmptyUnderLock, Empty, ImportRows, GoTo, Live, Importing
<1>4. Qualified'
  BY DEF PInv, TypeOK, Qualified, Exact, Pages, Page, ImportRows, GoTo, Live,
         Importing
<1>5. Marked'
  BY DEF PInv, TypeOK, Marked, ImportRows, GoTo, Live, Importing
<1>6. Once'
  BY DEF PInv, TypeOK, Once, Empty, EmptyTarget, Marked, ImportRows, GoTo, Live,
         Importing
<1>7. Held'
  BY DEF PInv, TypeOK, Held, Imported, ImportRows, GoTo, Live, Importing
<1>8. Stated'
  BY DEF PInv, TypeOK, Stated, Imported, Held, ImportRows, GoTo, Live, Importing
<1>. QED BY <1>1, <1>2, <1>3, <1>4, <1>5, <1>6, <1>7, <1>8 DEF PInv

\* The outcome is marked unknown: the invariant is kept.
LEMMA AnnounceCommitKeeps ==
  ASSUME PInv, NEW r \in Restore, AnnounceCommit(r)
  PROVE  PInv'
<1>. USE ConstantsAssumption DEF Run
<1>1. TypeOK'
  BY DEF PInv, TypeOK, Effect, Receipt, File, Pages, Page, AnnounceCommit,
         BeforeCommit, GoTo, Live, Importing
<1>2. Holding'
  BY DEF PInv, TypeOK, Holding, AnnounceCommit, BeforeCommit, GoTo, Live, Importing
<1>3. EmptyUnderLock'
  BY DEF PInv, TypeOK, EmptyUnderLock, Empty, AnnounceCommit, BeforeCommit, GoTo,
         Live, Importing
<1>4. Qualified'
  BY DEF PInv, TypeOK, Qualified, Exact, Pages, Page, AnnounceCommit, BeforeCommit,
         GoTo, Live, Importing
<1>5. Marked'
  BY DEF PInv, TypeOK, Marked, AnnounceCommit, BeforeCommit, GoTo, Live, Importing
<1>6. Once'
  BY DEF PInv, TypeOK, Once, Empty, EmptyTarget, Marked, AnnounceCommit,
         BeforeCommit, GoTo, Live, Importing
<1>7. Held'
  BY DEF PInv, TypeOK, Held, Imported, AnnounceCommit, BeforeCommit, GoTo, Live,
         Importing
<1>8. Stated'
  BY DEF PInv, TypeOK, Stated, Imported, Held, AnnounceCommit, BeforeCommit, GoTo,
         Live, Importing
<1>. QED BY <1>1, <1>2, <1>3, <1>4, <1>5, <1>6, <1>7, <1>8 DEF PInv

\* The import is committed and answered: the invariant is kept.
LEMMA CommitImportKeeps ==
  ASSUME PInv, NEW r \in Restore, CommitImport(r)
  PROVE  PInv'
<1>. USE ConstantsAssumption DEF Run
<1>0. Import(r) /\ pc[r] = "committing"
  BY DEF CommitImport
<1>a. /\ imports = <<>> /\ imports' = <<[run |-> r, over |-> EmptyTarget]>>
      /\ target' = [import |-> frozen[r], rows |-> 0] /\ frozen[r] \in Pages
      /\ lock = r /\ lock' = None /\ frozen' = frozen
      /\ \A s \in Restore : ~Imported(s) /\ (Imported(s)' <=> s = r)
  BY <1>0, ImportTakesEffect
<1>1. TypeOK'
  <2>1. imports' \in Seq([run : Restore, over : [import : File, rows : 0..MaxRows]])
    BY <1>a DEF EmptyTarget, File
  <2>2. target' \in [import : File, rows : 0..MaxRows]
    BY <1>a DEF File
  <2>. QED BY <1>a, <2>1, <2>2 DEF PInv, TypeOK, CommitImport, GoTo, Live, Effect
<1>2. Holding'
  BY <1>a DEF PInv, TypeOK, CommitImport, GoTo, Live, Holding
<1>3. EmptyUnderLock'
  BY <1>a DEF PInv, TypeOK, CommitImport, GoTo, Live, Holding, EmptyUnderLock
<1>4. Qualified'
  BY DEF PInv, TypeOK, Qualified, Exact, Pages, Page, CommitImport, Import, GoTo,
         Live
<1>5. Marked'
  BY <1>a DEF Marked
<1>6. Once'
  BY <1>a DEF Once
<1>7. Held'
  BY <1>a DEF PInv, TypeOK, CommitImport, GoTo, Live, Held
<1>8. Stated'
  BY <1>a DEF PInv, TypeOK, CommitImport, GoTo, Live, Stated, Held
<1>. QED BY <1>1, <1>2, <1>3, <1>4, <1>5, <1>6, <1>7, <1>8 DEF PInv

\* The import is committed and the answer lost: the invariant is kept.
LEMMA CommitAnswerLostKeeps ==
  ASSUME PInv, NEW r \in Restore, CommitAnswerLost(r)
  PROVE  PInv'
<1>. USE ConstantsAssumption DEF Run
<1>0. Import(r) /\ pc[r] = "committing"
  BY DEF CommitAnswerLost
<1>a. /\ imports = <<>> /\ imports' = <<[run |-> r, over |-> EmptyTarget]>>
      /\ target' = [import |-> frozen[r], rows |-> 0] /\ frozen[r] \in Pages
      /\ lock = r /\ lock' = None /\ frozen' = frozen
      /\ \A s \in Restore : ~Imported(s) /\ (Imported(s)' <=> s = r)
  BY <1>0, ImportTakesEffect
<1>1. TypeOK'
  <2>1. imports' \in Seq([run : Restore, over : [import : File, rows : 0..MaxRows]])
    BY <1>a DEF EmptyTarget, File
  <2>2. target' \in [import : File, rows : 0..MaxRows]
    BY <1>a DEF File
  <2>. QED BY <1>a, <2>1, <2>2 DEF PInv, TypeOK, CommitAnswerLost, GoTo, Live, Effect
<1>2. Holding'
  BY <1>a DEF PInv, TypeOK, CommitAnswerLost, GoTo, Live, Holding
<1>3. EmptyUnderLock'
  BY <1>a DEF PInv, TypeOK, CommitAnswerLost, GoTo, Live, Holding, EmptyUnderLock
<1>4. Qualified'
  BY DEF PInv, TypeOK, Qualified, Exact, Pages, Page, CommitAnswerLost, Import, GoTo,
         Live
<1>5. Marked'
  BY <1>a DEF Marked
<1>6. Once'
  BY <1>a DEF Once
<1>7. Held'
  BY <1>a DEF PInv, TypeOK, CommitAnswerLost, GoTo, Live, Held
<1>8. Stated'
  BY <1>a DEF PInv, TypeOK, CommitAnswerLost, GoTo, Live, Stated, Held
<1>. QED BY <1>1, <1>2, <1>3, <1>4, <1>5, <1>6, <1>7, <1>8 DEF PInv

\* The target is read again: the invariant is kept.
LEMMA ReadBackKeeps ==
  ASSUME PInv, NEW r \in Restore, ReadBack(r)
  PROVE  PInv'
<1>. USE ConstantsAssumption DEF Run
<1>1. TypeOK'
  BY DEF PInv, TypeOK, ReadBack, GoTo, Live, Importing
<1>2. Holding'
  BY DEF PInv, TypeOK, Holding, ReadBack, GoTo, Live, Importing
<1>3. EmptyUnderLock'
  BY DEF PInv, TypeOK, EmptyUnderLock, Empty, ReadBack, GoTo, Live, Importing
<1>4. Qualified'
  BY DEF PInv, TypeOK, Qualified, Exact, Pages, Page, ReadBack, GoTo, Live,
         Importing
<1>5. Marked'
  BY DEF PInv, TypeOK, Marked, ReadBack, GoTo, Live, Importing
<1>6. Once'
  BY DEF PInv, TypeOK, Once, Empty, EmptyTarget, Marked, ReadBack, GoTo, Live,
         Importing
<1>7. Held'
  <2>1. pc[r] = "readback" /\ UNCHANGED <<effect, imports>>
    BY DEF ReadBack, Importing
  <2>2. \A s \in Restore \ {r} : pc'[s] = pc[s]
    BY DEF PInv, TypeOK, ReadBack, GoTo
  <2>3. pc'[r] \in {"result", "failing"}
    BY DEF PInv, TypeOK, ReadBack, GoTo
  <2>. QED BY <2>1, <2>2, <2>3 DEF PInv, Held, Imported
<1>8. Stated'
  BY SMTT(30) DEF PInv, TypeOK, Stated, Imported, Held, ReadBack, GoTo, Live, Importing
<1>. QED BY <1>1, <1>2, <1>3, <1>4, <1>5, <1>6, <1>7, <1>8 DEF PInv

\* A step raises: the invariant is kept.
LEMMA StepFailsKeeps ==
  ASSUME PInv, NEW r \in Run, StepFails(r)
  PROVE  PInv'
<1>. USE ConstantsAssumption DEF Run
<1>1. TypeOK'
  BY DEF PInv, TypeOK, Effect, Receipt, File, Pages, Page, StepFails, Raise, GoTo
<1>2. Holding'
  BY DEF PInv, TypeOK, Holding, StepFails, Raise, GoTo
<1>3. EmptyUnderLock'
  BY DEF PInv, TypeOK, EmptyUnderLock, Empty, StepFails, Raise, GoTo
<1>4. Qualified'
  BY DEF PInv, TypeOK, Qualified, Exact, Pages, Page, StepFails, Raise, GoTo
<1>5. Marked'
  BY DEF PInv, TypeOK, Marked, StepFails, Raise, GoTo
<1>6. Once'
  BY DEF PInv, TypeOK, Once, Empty, EmptyTarget, Marked, StepFails, Raise, GoTo
<1>7. Held'
  BY DEF PInv, TypeOK, Held, Imported, StepFails, Raise, GoTo
<1>8. Stated'
  BY DEF PInv, TypeOK, Stated, Imported, Held, StepFails, Raise, GoTo
<1>. QED BY <1>1, <1>2, <1>3, <1>4, <1>5, <1>6, <1>7, <1>8 DEF PInv

\* failure.json is written, or not: the invariant is kept.
LEMMA WriteFailureKeeps ==
  ASSUME PInv, NEW r \in Run, WriteFailure(r)
  PROVE  PInv'
<1>. USE ConstantsAssumption DEF Run
<1>1. TypeOK'
  <2>1. receipts' \in [Run -> SUBSET Receipt]
    <3>1. [name |-> "failure", effect |-> effect[r], digest |-> None] \in Receipt
      BY DEF PInv, TypeOK, Receipt, File
    <3>2. CASE Written(r, "failure", effect[r], None)
      BY <3>1, <3>2 DEF PInv, TypeOK, Written
    <3>3. CASE UNCHANGED receipts
      BY <3>3 DEF PInv, TypeOK
    <3>. QED BY <3>2, <3>3 DEF WriteFailure
  <2>. QED BY <2>1 DEF PInv, TypeOK, WriteFailure, GoTo, Live, Importing
<1>2. Holding'
  BY DEF PInv, TypeOK, Holding, WriteFailure, Written, GoTo, Live, Importing
<1>3. EmptyUnderLock'
  BY DEF PInv, TypeOK, EmptyUnderLock, Empty, WriteFailure, Written, GoTo, Live,
         Importing
<1>4. Qualified'
  <2>1. \A b \in Backup : \A x \in receipts'[b] : x.name = "result" => x \in receipts[b]
    <3>1. CASE Written(r, "failure", effect[r], None)
      BY <3>1 DEF PInv, TypeOK, Written
    <3>2. CASE UNCHANGED receipts
      BY <3>2
    <3>. QED BY <3>1, <3>2 DEF WriteFailure
  <2>. QED BY <2>1 DEF PInv, TypeOK, Qualified, WriteFailure, GoTo, Live, Importing
<1>5. Marked'
  BY DEF PInv, TypeOK, Marked, WriteFailure, Written, GoTo, Live, Importing
<1>6. Once'
  BY DEF PInv, TypeOK, Once, Empty, EmptyTarget, Marked, WriteFailure, Written, GoTo,
         Live, Importing
<1>7. Held'
  BY DEF PInv, TypeOK, Held, Imported, WriteFailure, Written, GoTo, Live, Importing
<1>8. Stated'
  <2>1. \A s \in Restore : \A x \in receipts'[s] :
          x \in receipts[s] \/ (s = r /\ x.effect = effect[r])
    BY DEF PInv, TypeOK, WriteFailure, Written
  <2>2. /\ UNCHANGED <<effect, imports>> /\ pc[r] = "failing"
        /\ \A s \in Run : pc'[s] = IF s = r THEN "ended" ELSE pc[s]
    BY DEF PInv, TypeOK, WriteFailure, GoTo, Importing
  <2>. QED BY <2>1, <2>2 DEF PInv, Stated, Held, Imported
<1>. QED BY <1>1, <1>2, <1>3, <1>4, <1>5, <1>6, <1>7, <1>8 DEF PInv

\* result.json is written, or not: the invariant is kept.
LEMMA WriteResultKeeps ==
  ASSUME PInv, NEW r \in Run, WriteResult(r)
  PROVE  PInv'
<1>. USE ConstantsAssumption DEF Run
<1>1. TypeOK'
  <2>1. [name |-> "result", effect |-> ResultEffect(r), digest |-> ResultDigest(r)] \in Receipt
    BY DEF PInv, TypeOK, Receipt, ResultEffect, ResultDigest, Effect
  <2>2. receipts' \in [Run -> SUBSET Receipt]
    BY <2>1 DEF PInv, TypeOK, WriteResult, Written
  <2>. QED BY <2>2 DEF PInv, TypeOK, WriteResult, Raise, GoTo, Live, Importing
<1>2. Holding'
  BY DEF PInv, TypeOK, Holding, WriteResult, Written, ResultEffect, ResultDigest,
         Raise, GoTo, Live, Importing
<1>3. EmptyUnderLock'
  BY DEF PInv, TypeOK, EmptyUnderLock, Empty, WriteResult, Written, ResultEffect,
         ResultDigest, Raise, GoTo, Live, Importing
<1>4. Qualified'
  <2>1. \A b \in Backup : \A x \in receipts'[b] :
          x \in receipts[b] \/ (b = r /\ x.digest = snapshot[b])
    BY DEF PInv, TypeOK, WriteResult, Written, ResultDigest
  <2>2. /\ UNCHANGED <<snapshot, frozen>> /\ pc[r] = "result"
        /\ \A s \in Run : pc'[s] = pc[s] \/ pc'[s] \in {"ended", "failing"}
    BY DEF PInv, TypeOK, WriteResult, Raise, GoTo, Live, Importing
  <2>. QED BY <2>1, <2>2 DEF PInv, Qualified
<1>5. Marked'
  BY DEF PInv, TypeOK, Marked, WriteResult, Written, ResultEffect, ResultDigest,
         Raise, GoTo, Live, Importing
<1>6. Once'
  BY DEF PInv, TypeOK, Once, Empty, EmptyTarget, Marked, WriteResult, Written,
         ResultEffect, ResultDigest, Raise, GoTo, Live, Importing
<1>7. Held'
  <2>1. UNCHANGED <<effect, imports>>
    BY DEF WriteResult, Raise, Importing
  <2>2. \A s \in Run : pc'[s] = pc[s] \/ pc'[s] \in {"ended", "failing"}
    BY DEF PInv, TypeOK, WriteResult, Raise, GoTo
  <2>. QED BY <2>1, <2>2 DEF PInv, Held, Imported
<1>8. Stated'
  <2>1. \A s \in Restore : \A x \in receipts'[s] :
          x \in receipts[s] \/ (s = r /\ x.effect = effect[r])
    BY DEF PInv, TypeOK, WriteResult, Written, ResultEffect
  <2>2. /\ UNCHANGED <<effect, imports>> /\ pc[r] = "result"
        /\ \A s \in Run \ {r} : pc'[s] = pc[s]
    BY DEF PInv, TypeOK, WriteResult, Raise, GoTo, Importing
  <2>. QED BY <2>1, <2>2 DEF PInv, Stated, Held, Imported
<1>. QED BY <1>1, <1>2, <1>3, <1>4, <1>5, <1>6, <1>7, <1>8 DEF PInv

\* The process dies: the invariant is kept.
LEMMA CrashKeeps ==
  ASSUME PInv, NEW r \in Run, Crash(r)
  PROVE  PInv'
<1>. USE ConstantsAssumption DEF Run
<1>1. TypeOK'
  BY DEF PInv, TypeOK, Effect, Receipt, File, Pages, Page, Crash, GoTo
<1>2. Holding'
  BY DEF PInv, TypeOK, Holding, Crash, GoTo
<1>3. EmptyUnderLock'
  BY DEF PInv, TypeOK, EmptyUnderLock, Empty, Crash, GoTo
<1>4. Qualified'
  BY DEF PInv, TypeOK, Qualified, Exact, Pages, Page, Crash, GoTo
<1>5. Marked'
  BY DEF PInv, TypeOK, Marked, Crash, GoTo
<1>6. Once'
  BY DEF PInv, TypeOK, Once, Empty, EmptyTarget, Marked, Crash, GoTo
<1>7. Held'
  BY DEF PInv, TypeOK, Held, Imported, Crash, GoTo
<1>8. Stated'
  BY DEF PInv, TypeOK, Stated, Imported, Held, Crash, GoTo
<1>. QED BY <1>1, <1>2, <1>3, <1>4, <1>5, <1>6, <1>7, <1>8 DEF PInv

\* The live database is written: the invariant is kept.
LEMMA SourceWriteKeeps ==
  ASSUME PInv, SourceWrite
  PROVE  PInv'
<1>. USE ConstantsAssumption DEF Run
<1>1. TypeOK'
  BY DEF PInv, TypeOK, Effect, Receipt, File, Pages, Page, SourceWrite, Importing
<1>2. Holding'
  BY DEF PInv, TypeOK, Holding, SourceWrite, Importing
<1>3. EmptyUnderLock'
  BY DEF PInv, TypeOK, EmptyUnderLock, Empty, SourceWrite, Importing
<1>4. Qualified'
  BY DEF PInv, TypeOK, Qualified, Exact, Pages, Page, SourceWrite, Importing
<1>5. Marked'
  BY DEF PInv, TypeOK, Marked, SourceWrite, Importing
<1>6. Once'
  BY DEF PInv, TypeOK, Once, Empty, EmptyTarget, Marked, SourceWrite, Importing
<1>7. Held'
  BY DEF PInv, TypeOK, Held, Imported, SourceWrite, Importing
<1>8. Stated'
  BY DEF PInv, TypeOK, Stated, Imported, Held, SourceWrite, Importing
<1>. QED BY <1>1, <1>2, <1>3, <1>4, <1>5, <1>6, <1>7, <1>8 DEF PInv

\* The target is written by an application: the invariant is kept.
LEMMA TargetWriteKeeps ==
  ASSUME PInv, TargetWrite
  PROVE  PInv'
<1>. USE ConstantsAssumption DEF Run
<1>1. TypeOK'
  <2>1. target' \in [import : File, rows : 0..MaxRows]
    <3>1. target \in [import : File, rows : 0..MaxRows] /\ target.rows < MaxRows
      BY DEF PInv, TypeOK, TargetWrite
    <3>2. target.rows + 1 \in 0..MaxRows
      BY <3>1
    <3>3. target' = [target EXCEPT !.rows = target.rows + 1]
      BY DEF TargetWrite
    <3>. QED BY <3>1, <3>2, <3>3
  <2>. QED BY <2>1 DEF PInv, TypeOK, TargetWrite, Live
<1>2. Holding'
  BY DEF PInv, TypeOK, Holding, TargetWrite, Live
<1>3. EmptyUnderLock'
  BY DEF PInv, TypeOK, Holding, EmptyUnderLock, TargetWrite
<1>4. Qualified'
  BY DEF PInv, TypeOK, Qualified, Exact, Pages, Page, TargetWrite, Live
<1>5. Marked'
  BY DEF PInv, TypeOK, Marked, TargetWrite, Live
<1>6. Once'
  BY DEF PInv, TypeOK, Once, Empty, EmptyTarget, Marked, TargetWrite, Live
<1>7. Held'
  BY DEF PInv, TypeOK, Held, Imported, TargetWrite, Live
<1>8. Stated'
  BY DEF PInv, TypeOK, Stated, Imported, Held, TargetWrite, Live
<1>. QED BY <1>1, <1>2, <1>3, <1>4, <1>5, <1>6, <1>7, <1>8 DEF PInv

\* The inductive invariant: types, what the table locks protect, what the
\* receipts and the files have in common.
THEOREM Invariance == Spec => []PInv
<1>. USE ConstantsAssumption
<1>1. Init => PInv
  <2>. SUFFICES ASSUME Init PROVE PInv
    OBVIOUS
  <2>1. TypeOK
    BY DEF Init, TypeOK, File, Effect, Run
  <2>2. Holding /\ EmptyUnderLock /\ Qualified
    BY DEF Init, Holding, EmptyUnderLock, Qualified, Run
  <2>3. Marked /\ Once
    BY DEF Init, Marked, Once
  <2>4. Held /\ Stated
    BY DEF Init, Held, Stated, Imported, Run
  <2>. QED BY <2>1, <2>2, <2>3, <2>4 DEF PInv
<1>2. PInv /\ [Next]_vars => PInv'
  <2>. SUFFICES ASSUME PInv, [Next]_vars PROVE PInv'
    OBVIOUS
  <2>1. ASSUME NEW b \in Backup, BackupStep(b) \/ Replace(b) PROVE PInv'
    BY <2>1, BeginBackupKeeps, CopyFirstKeeps, CopyRestKeeps, SummarizeKeeps, ReplaceKeeps
    DEF BackupStep
  <2>2. ASSUME NEW r \in Restore, RestoreStep(r) PROVE PInv'
    BY <2>2, BeginRestoreKeeps, FreezeKeeps, CheckDigestKeeps, LockTablesKeeps,
       ImportRowsKeeps, AnnounceCommitKeeps, CommitImportKeeps, CommitAnswerLostKeeps,
       ReadBackKeeps DEF RestoreStep
  <2>3. ASSUME NEW r \in Run, StepFails(r) \/ WriteFailure(r) \/ WriteResult(r) \/ Crash(r)
        PROVE  PInv'
    BY <2>3, StepFailsKeeps, WriteFailureKeeps, WriteResultKeeps, CrashKeeps
  <2>4. CASE UNCHANGED vars
    BY <2>4 DEF vars, PInv, TypeOK, Holding, EmptyUnderLock, Empty, Qualified, Marked, Once,
                Held, Stated, Imported
  <2>. QED BY <2>1, <2>2, <2>3, <2>4, SourceWriteKeeps, TargetWriteKeeps DEF Next
<1>. QED BY <1>1, <1>2, PTL DEF Spec

\* Files, locks, receipts and labels keep their types.
THEOREM TypeCorrect == Spec => []TypeOK
<1>1. PInv => TypeOK
  BY DEF PInv
<1>. QED BY <1>1, Invariance, PTL

\* Of all restores one commits, into an empty target, whatever the steps,
\* failures and lost answers between the check and the commit.
THEOREM OneImport == Spec => []ImportedOnce
<1>1. PInv => ImportedOnce
  BY DEF PInv, Once, EmptyTarget, ImportedOnce
<1>. QED BY <1>1, Invariance, PTL

\* A bundle that says COMMITTED was committed; one that says NOT_COMMITTED is
\* of a run that never commits.
THEOREM EffectsStayTruthful == Spec => []EffectsTruthful
<1>1. PInv => EffectsTruthful
  BY DEF PInv, Held, Stated, EffectsTruthful
<1>. QED BY <1>1, Invariance, PTL

-----------------------------------------------------------------------------
(* What the results stand for. *)

\* One committed state of the live database.
AsOf(w) == [i \in Page |-> w]

\* A pass has copied the first page as it was when it began; a pass that ended
\* has copied one state, and result.json names that state.
OneInstant ==
  \A b \in Backup :
    /\ begun[b] <= writes
    /\ pc[b] = "start" => receipts[b] = {}
    /\ pc[b] = "copyrest" => /\ seen[b] \in begun[b]..writes
                             /\ snapshot[b] = [i \in Page |-> IF i = 1 THEN seen[b] ELSE 0]
    /\ pc[b] \in {"summarize", "result"} => \E w \in begun[b]..writes : snapshot[b] = AsOf(w)
    /\ \A x \in receipts[b] : x.name = "result" => \E w \in begun[b]..writes : x.digest = AsOf(w)

\* What is imported is what a backup qualified.
Checked ==
  \A r \in Restore : pc[r] \in {"lock", "inspect", "commit", "committing"} => Exact(r, frozen[r])

QInv == OneInstant /\ Checked /\ ResultsPreserve

\* Receipts are only added, and the result of a backup names its snapshot.
LEMMA ReceiptsGrow ==
  ASSUME PInv, [Next]_vars
  PROVE  /\ \A r \in Run : receipts[r] \subseteq receipts'[r]
         /\ \A b \in Backup : \A x \in receipts'[b] :
              x \in receipts[b] \/ x.name # "result" \/ (pc[b] = "result" /\ x.digest = snapshot[b])
<1>. USE DEF PInv, TypeOK, Run
<1>1. ASSUME NEW r \in Run, Intend(r) \/ WriteFailure(r) \/ WriteResult(r)
      PROVE  /\ \A s \in Run : receipts[s] \subseteq receipts'[s]
             /\ \A b \in Backup : \A x \in receipts'[b] :
                  x \in receipts[b] \/ x.name # "result" \/ (pc[b] = "result" /\ x.digest = snapshot[b])
  <2>1. \/ UNCHANGED receipts
        \/ Written(r, "intent", None, None)
        \/ Written(r, "failure", effect[r], None)
        \/ pc[r] = "result" /\ Written(r, "result", ResultEffect(r), ResultDigest(r))
    BY <1>1 DEF Intend, WriteFailure, WriteResult
  <2>2. ASSUME NEW name, NEW eff, NEW digest, Written(r, name, eff, digest),
               name # "result" \/ (pc[r] = "result" /\ digest = ResultDigest(r))
        PROVE  /\ \A s \in Run : receipts[s] \subseteq receipts'[s]
               /\ \A b \in Backup : \A x \in receipts'[b] :
                    \/ x \in receipts[b] \/ x.name # "result"
                    \/ pc[b] = "result" /\ x.digest = snapshot[b]
    <3>. DEFINE new == [name |-> name, effect |-> eff, digest |-> digest]
    <3>1. \A s \in Run : receipts'[s] = IF s = r THEN receipts[s] \cup {new} ELSE receipts[s]
      BY <2>2 DEF Written
    <3>2. new.name = name /\ new.digest = digest
      OBVIOUS
    <3>3. r \in Backup => ResultDigest(r) = snapshot[r]
      BY DEF ResultDigest
    <3>. HIDE DEF new
    <3>. QED BY <2>2, <3>1, <3>2, <3>3
  <2>. QED BY <2>1, <2>2
<1>2. CASE UNCHANGED receipts
  BY <1>2
<1>3. UNCHANGED receipts \/ \E r \in Run : Intend(r) \/ WriteFailure(r) \/ WriteResult(r)
  BY DEF Next, vars, BackupStep, BeginBackup, CopyFirst, CopyRest, Summarize, Replace, RestoreStep,
         BeginRestore, Freeze, CheckDigest, LockTables, ImportRows, AnnounceCommit, CommitImport,
         CommitAnswerLost, ReadBack, StepFails, Crash, SourceWrite, TargetWrite
<1>. QED BY <1>1, <1>2, <1>3

\* Outside its own copying a backup's file is only replaced after it has ended,
\* and the count of writes only grows.
LEMMA BackupsApart ==
  ASSUME PInv, [Next]_vars, NEW b \in Backup, ~BackupStep(b)
  PROVE  /\ writes <= writes' /\ seen'[b] = seen[b] /\ begun'[b] = begun[b]
         /\ pc[b] # "ended" => snapshot'[b] = snapshot[b]
         /\ pc'[b] = pc[b] \/ pc'[b] \in {"failing", "ended", "crashed"}
<1>. USE ConstantsAssumption DEF PInv, TypeOK, Run
<1>1. CASE UNCHANGED vars
  BY <1>1 DEF vars
<1>2. ASSUME NEW d \in Backup, BackupStep(d)
      PROVE  /\ writes' = writes
             /\ d # b => /\ seen'[b] = seen[b] /\ begun'[b] = begun[b] /\ pc'[b] = pc[b]
                         /\ snapshot'[b] = snapshot[b]
  BY <1>2 DEF BackupStep, BeginBackup, Intend, CopyFirst, CopyRest, Summarize, GoTo, Live
<1>3. ASSUME NEW d \in Backup, Replace(d)
      PROVE  /\ UNCHANGED <<writes, seen, begun, pc>>
             /\ pc[b] # "ended" => snapshot'[b] = snapshot[b]
  BY <1>3 DEF Replace
<1>4. ASSUME NEW r \in Restore, RestoreStep(r)
      PROVE  UNCHANGED <<writes, seen, begun, snapshot>> /\ pc'[b] = pc[b]
  BY <1>4 DEF RestoreStep, BeginRestore, Intend, Freeze, CheckDigest, LockTables, ImportRows,
              AnnounceCommit, CommitImport, CommitAnswerLost, ReadBack, GoTo, Live
<1>5. ASSUME NEW r \in Run, StepFails(r) \/ WriteFailure(r) \/ WriteResult(r) \/ Crash(r)
      PROVE  /\ UNCHANGED <<writes, seen, begun, snapshot>>
             /\ pc'[b] = pc[b] \/ pc'[b] \in {"failing", "ended", "crashed"}
  BY <1>5 DEF StepFails, Raise, WriteFailure, WriteResult, Crash, GoTo, Live
<1>6. CASE SourceWrite
  BY <1>6 DEF SourceWrite
<1>7. CASE TargetWrite
  BY <1>7 DEF TargetWrite, Live
<1>. QED BY <1>1, <1>2, <1>3, <1>4, <1>5, <1>6, <1>7 DEF Next

\* Whatever is written meanwhile, a pass that ends copied one state.
LEMMA InstantKeeps ==
  ASSUME PInv, OneInstant, [Next]_vars
  PROVE  OneInstant'
<1>. USE ConstantsAssumption DEF Run
<1>. SUFFICES ASSUME NEW b \in Backup
              PROVE  /\ begun'[b] <= writes'
                     /\ pc'[b] = "start" => receipts'[b] = {}
                     /\ pc'[b] = "copyrest" =>
                          /\ seen'[b] \in begun'[b]..writes'
                          /\ snapshot'[b] = [i \in Page |-> IF i = 1 THEN seen'[b] ELSE 0]
                     /\ pc'[b] \in {"summarize", "result"} =>
                          \E w \in begun'[b]..writes' : snapshot'[b] = AsOf(w)
                     /\ \A x \in receipts'[b] : x.name = "result" =>
                          \E w \in begun'[b]..writes' : x.digest = AsOf(w)
  BY DEF OneInstant, AsOf
<1>0. /\ writes \in Nat /\ begun[b] \in Nat /\ seen[b] \in Nat /\ snapshot[b] \in File
      /\ begun[b] <= writes
  BY DEF PInv, TypeOK, OneInstant
<1>1. CASE BeginBackup(b)
  <2>1. begun'[b] = writes /\ writes' = writes /\ pc'[b] = "copy" /\ pc[b] = "start"
    BY <1>1 DEF BeginBackup, Intend, GoTo, PInv, TypeOK
  <2>2. \A x \in receipts'[b] : x.name # "result"
    <3>1. receipts[b] = {}
      BY <2>1 DEF OneInstant
    <3>. QED BY <1>1, <3>1 DEF BeginBackup, Intend, Written, PInv, TypeOK
  <2>. QED BY <1>0, <2>1, <2>2
<1>2. CASE CopyFirst(b)
  <2>1. /\ begun'[b] = begun[b] /\ writes' = writes /\ seen'[b] = writes
        /\ pc'[b] = "copyrest" /\ receipts' = receipts
        /\ snapshot'[b] = [i \in Page |-> IF i = 1 THEN writes ELSE 0]
    BY <1>2 DEF CopyFirst, GoTo, PInv, TypeOK
  <2>2. \A x \in receipts'[b] : x.name = "result" =>
          \E w \in begun'[b]..writes' : x.digest = AsOf(w)
    <3>1. \A x \in receipts[b] : x.name = "result" => \E w \in begun[b]..writes : x.digest = AsOf(w)
      BY DEF OneInstant
    <3>. QED BY <2>1, <3>1
  <2>. QED BY <1>0, <2>1, <2>2
<1>3. CASE CopyRest(b)
  <2>1. /\ pc[b] = "copyrest" /\ writes' = writes /\ begun' = begun /\ receipts' = receipts
        /\ seen' = seen
    BY <1>3 DEF CopyRest
  <2>2. CASE pc'[b] = "copy"
    BY <1>0, <2>1, <2>2 DEF OneInstant
  <2>3. CASE pc'[b] # "copy"
    <3>1. /\ seen[b] = writes /\ pc'[b] = "summarize"
          /\ snapshot'[b] = [snapshot[b] EXCEPT ![2] = writes]
      BY <1>3, <2>3 DEF CopyRest, PassHolds, GoTo, PInv, TypeOK
    <3>2. snapshot[b] = [i \in Page |-> IF i = 1 THEN writes ELSE 0]
      BY <2>1, <3>1 DEF OneInstant
    <3>3. snapshot'[b] = AsOf(writes)
      BY <3>1, <3>2 DEF AsOf, Page
    <3>. QED BY <1>0, <2>1, <3>1, <3>3 DEF OneInstant
  <2>. QED BY <2>2, <2>3
<1>4. CASE Summarize(b)
  <2>1. /\ pc[b] = "summarize" /\ pc'[b] = "result"
        /\ UNCHANGED <<writes, begun, seen, snapshot, receipts>>
    BY <1>4 DEF Summarize, GoTo, Live, PInv, TypeOK
  <2>. QED BY <1>0, <2>1 DEF OneInstant
<1>5. CASE ~BackupStep(b)
  <2>1. /\ writes <= writes' /\ seen'[b] = seen[b] /\ begun'[b] = begun[b] /\ writes' \in Nat
        /\ pc[b] # "ended" => snapshot'[b] = snapshot[b]
        /\ pc'[b] = pc[b] \/ pc'[b] \in {"failing", "ended", "crashed"}
    <3>1. writes' \in Nat
      BY <1>0 DEF Next, vars, BackupStep, BeginBackup, CopyFirst, CopyRest, Summarize, Replace,
         RestoreStep, BeginRestore, Freeze, CheckDigest, LockTables, ImportRows, AnnounceCommit,
         CommitImport, CommitAnswerLost, ReadBack, StepFails, Raise, WriteFailure, WriteResult,
         Crash, SourceWrite, TargetWrite, Live
    <3>. QED BY <1>5, <3>1, BackupsApart
  <2>2. \A w \in begun[b]..writes : w \in begun'[b]..writes'
    BY <1>0, <2>1
  <2>3. \A x \in receipts'[b] : x.name = "result" => \E w \in begun'[b]..writes' : x.digest = AsOf(w)
    <3>. SUFFICES ASSUME NEW x \in receipts'[b], x.name = "result"
                  PROVE  \E w \in begun[b]..writes : x.digest = AsOf(w)
      BY <2>2
    <3>1. CASE x \in receipts[b]
      BY <3>1 DEF OneInstant
    <3>2. CASE pc[b] = "result" /\ x.digest = snapshot[b]
      BY <3>2 DEF OneInstant
    <3>. QED BY <3>1, <3>2, ReceiptsGrow
  <2>4. pc'[b] = "start" => receipts'[b] = {}
    <3>. SUFFICES ASSUME pc'[b] = "start" PROVE receipts'[b] = {}
      OBVIOUS
    <3>1. pc[b] = "start" /\ receipts[b] = {}
      BY <2>1 DEF OneInstant
    <3>2. receipts'[b] = receipts[b]
      BY <1>5, <2>1, <3>1 DEF PInv, TypeOK, Next, vars, BackupStep, BeginBackup, CopyFirst, CopyRest,
         Summarize, Replace, RestoreStep, BeginRestore, Intend, Freeze, CheckDigest, LockTables,
         ImportRows, AnnounceCommit, CommitImport, CommitAnswerLost, ReadBack, StepFails, Raise,
         WriteFailure, WriteResult, Crash, SourceWrite, TargetWrite, Written, GoTo
    <3>. QED BY <3>1, <3>2
  <2>5. pc'[b] = "copyrest" => /\ seen'[b] \in begun'[b]..writes'
                               /\ snapshot'[b] = [i \in Page |-> IF i = 1 THEN seen'[b] ELSE 0]
    BY <2>1, <2>2 DEF OneInstant
  <2>6. pc'[b] \in {"summarize", "result"} => \E w \in begun'[b]..writes' : snapshot'[b] = AsOf(w)
    BY <2>1, <2>2 DEF OneInstant
  <2>. QED BY <1>0, <2>1, <2>3, <2>4, <2>5, <2>6
<1>. QED BY <1>1, <1>2, <1>3, <1>4, <1>5 DEF BackupStep

\* Only an import changes what the target holds of an import, and only the
\* freezing of its own run a restore's copy.
LEMMA RestoresApart ==
  ASSUME PInv, [Next]_vars, NEW r \in Restore
  PROVE  /\ frozen'[r] = frozen[r] \/ (pc[r] = "freeze" /\ pc'[r] = "check")
         /\ pc'[r] \in {"lock", "inspect", "commit", "committing"} =>
              /\ frozen'[r] = frozen[r]
              /\ Exact(r, frozen[r]) \/ pc[r] \in {"lock", "inspect", "commit", "committing"}
         /\ \/ target'.import = target.import /\ imports' = imports
            \/ \E s \in Restore : pc[s] = "committing" /\ Import(s)
<1>. USE ConstantsAssumption DEF PInv, TypeOK, Run
<1>1. CASE UNCHANGED vars
  BY <1>1 DEF vars
<1>2. ASSUME NEW d \in Backup, BackupStep(d) \/ Replace(d)
      PROVE  UNCHANGED <<frozen, target, imports>> /\ pc'[r] = pc[r]
  BY <1>2 DEF BackupStep, BeginBackup, Intend, CopyFirst, CopyRest, Summarize, Replace, GoTo, Importing
<1>3. ASSUME NEW s \in Restore, CommitImport(s) \/ CommitAnswerLost(s)
      PROVE  /\ frozen' = frozen /\ pc[s] = "committing" /\ Import(s)
             /\ pc'[r] = pc[r] \/ pc'[r] \notin {"lock", "inspect", "commit", "committing"}
  BY <1>3 DEF CommitImport, CommitAnswerLost, Import, GoTo
<1>4. ASSUME NEW s \in Restore, BeginRestore(s)
      PROVE  /\ UNCHANGED <<frozen, target, imports>>
             /\ pc'[r] = pc[r] \/ pc'[r] = "freeze"
  BY <1>4 DEF BeginRestore, Intend, GoTo, Importing
<1>5. ASSUME NEW s \in Restore, Freeze(s)
      PROVE  /\ UNCHANGED <<target, imports>>
             /\ s # r => frozen'[r] = frozen[r] /\ pc'[r] = pc[r]
             /\ s = r => pc[r] = "freeze" /\ pc'[r] = "check"
  BY <1>5 DEF Freeze, GoTo
<1>6. ASSUME NEW s \in Restore, CheckDigest(s)
      PROVE  /\ UNCHANGED <<frozen, target, imports>>
             /\ pc'[r] = pc[r] \/ Exact(r, frozen[r])
  BY <1>6 DEF CheckDigest, GoTo, Importing
<1>7. ASSUME NEW s \in Restore,
             LockTables(s) \/ ImportRows(s) \/ AnnounceCommit(s) \/ ReadBack(s)
      PROVE  /\ UNCHANGED <<frozen, target, imports>>
             /\ \/ pc'[r] = pc[r] \/ pc'[r] \in {"result", "failing"}
                \/ pc[r] \in {"lock", "inspect", "commit", "committing"}
  BY <1>7 DEF LockTables, ImportRows, AnnounceCommit, ReadBack, GoTo, Importing
<1>8. ASSUME NEW s \in Run, StepFails(s) \/ WriteFailure(s) \/ WriteResult(s) \/ Crash(s)
      PROVE  /\ UNCHANGED <<frozen, target, imports>>
             /\ pc'[r] = pc[r] \/ pc'[r] \in {"failing", "ended", "crashed"}
  BY <1>8 DEF StepFails, Raise, WriteFailure, WriteResult, Crash, GoTo, Importing
<1>9. CASE SourceWrite
  BY <1>9 DEF SourceWrite, Importing
<1>10. CASE TargetWrite
  BY <1>10 DEF TargetWrite
<1>. QED BY <1>1, <1>2, <1>3, <1>4, <1>5, <1>6, <1>7, <1>8, <1>9, <1>10 DEF Next, RestoreStep

\* A file that passed the comparison is in a receipt that stays.
LEMMA CheckedKeeps ==
  ASSUME PInv, Checked, [Next]_vars
  PROVE  Checked'
<1>. SUFFICES ASSUME NEW r \in Restore, pc'[r] \in {"lock", "inspect", "commit", "committing"}
              PROVE  Exact(r, frozen[r])'
  BY DEF Checked
<1>1. frozen'[r] = frozen[r] /\ Exact(r, frozen[r])
  BY RestoresApart DEF Checked
<1>2. receipts[SnapshotOf[r]] \subseteq receipts'[SnapshotOf[r]]
  BY ConstantsAssumption, ReceiptsGrow DEF Run
<1>. QED BY <1>1, <1>2 DEF Exact

\* The one import leaves in the target what its run compared.
LEMMA PreservedKeeps ==
  ASSUME PInv, Checked, ResultsPreserve, [Next]_vars
  PROVE  ResultsPreserve'
<1>. SUFFICES ASSUME NEW r \in Restore, Imported(r)'
              PROVE  /\ target'.import = frozen'[r]
                     /\ \E x \in receipts'[SnapshotOf[r]] :
                          x.name = "result" /\ x.digest = target'.import
  BY DEF ResultsPreserve
<1>1. receipts[SnapshotOf[r]] \subseteq receipts'[SnapshotOf[r]]
  BY ConstantsAssumption, ReceiptsGrow DEF Run
<1>2. CASE target'.import = target.import /\ imports' = imports
  <2>1. Imported(r)
    BY <1>2 DEF Imported
  <2>2. pc[r] # "freeze"
    BY <2>1 DEF PInv, Held
  <2>3. frozen'[r] = frozen[r]
    BY <2>2, RestoresApart
  <2>. QED BY <1>1, <1>2, <2>1, <2>3 DEF ResultsPreserve
<1>3. ASSUME NEW s \in Restore, pc[s] = "committing", Import(s)
      PROVE  /\ target'.import = frozen'[r]
             /\ \E x \in receipts'[SnapshotOf[r]] : x.name = "result" /\ x.digest = target'.import
  <2>1. /\ target' = [import |-> frozen[s], rows |-> 0] /\ frozen' = frozen
        /\ r = s
    BY <1>3, ImportTakesEffect
  <2>2. Exact(r, frozen[r])
    BY <1>3, <2>1 DEF Checked
  <2>. QED BY <1>1, <2>1, <2>2 DEF Exact
<1>. QED BY <1>2, <1>3, RestoresApart

LEMMA ResultsInvariance == Spec => []QInv
<1>1. Init => QInv
  BY ConstantsAssumption DEF Init, QInv, OneInstant, Checked, ResultsPreserve, Imported, Run
<1>2. PInv /\ QInv /\ [Next]_vars => QInv'
  BY InstantKeeps, CheckedKeeps, PreservedKeeps DEF QInv
<1>. QED BY Invariance, <1>1, <1>2, PTL DEF Spec

\* result.json of a backup names one committed state between the backup's
\* beginning and now, across however many writes the copy was made.
THEOREM SnapshotsAreOneInstant == Spec => []SnapshotsAtOneInstant
<1>1. QInv => SnapshotsAtOneInstant
  BY DEF QInv, OneInstant, AsOf, SnapshotsAtOneInstant
<1>. QED BY ResultsInvariance, <1>1, PTL

\* What was imported is the file whose digest a backup's result states, however
\* the retained file was damaged or replaced before, between and since.
THEOREM ResultsStayPreserved == Spec => []ResultsPreserve
<1>1. QInv => ResultsPreserve
  BY DEF QInv
<1>. QED BY ResultsInvariance, <1>1, PTL
=============================================================================
