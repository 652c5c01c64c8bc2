----------------------------- MODULE Preservation -----------------------------
(***************************************************************************)
(* The operator's backup and restore of lyte/persistence/preservation.py:  *)
(* an online backup of the live SQLite file into a bundle directory, and   *)
(* the import of a bundle's snapshot into an empty PostgreSQL schema.      *)
(* Each run leaves receipts in its own directory: intent.json first, then  *)
(* result.json or failure.json, unless the process dies or the directory   *)
(* refuses the file.                                                       *)
(*                                                                         *)
(* The live database has two pages and a number of committed writes; a     *)
(* page is named by the write that it shows.  A snapshot is its pages.     *)
(* A run of restore reads the snapshot of one backup, under the digest that*)
(* the backup's result.json states.                                        *)
(***************************************************************************)
EXTENDS Naturals, Sequences, FiniteSets

CONSTANTS Backup, Restore,
          SnapshotOf,   \* the backup each restore is given
          MaxWrites,    \* bound on writes of the live database
          MaxRows,      \* bound on rows the application writes to the target
          Damaged,      \* a file that is no readable database
          None

Page == {1, 2}
Pages == [Page -> 0..MaxWrites]
File == Pages \cup {Damaged, None}
Effect == {"SNAPSHOT_WRITTEN", "SNAPSHOT_NOT_QUALIFIED",
           "NOT_COMMITTED", "COMMIT_OUTCOME_UNKNOWN", "COMMITTED"}

ASSUME ConstantsAssumption ==
  /\ SnapshotOf \in [Restore -> Backup]
  /\ Backup \cap Restore = {}
  /\ {MaxWrites, MaxRows} \subseteq Nat
  /\ None \notin Restore
  /\ None \notin Pages
  /\ None \notin Effect

Receipt == [name : {"intent", "result", "failure"}, effect : Effect \cup {None},
            digest : File]

Run == Backup \cup Restore

VARIABLES writes,    \* committed writes of the live database
          snapshot,  \* snapshot.sqlite of each backup
          seen,      \* the write each copying pass has begun at
          begun,     \* the write each backup began at
          frozen,    \* input.sqlite of each restore
          lock,      \* the restore holding the target's tables
          target,    \* committed content of the target: an import, then rows
          imports,   \* the restores that committed, with what they found
          effect,    \* what each run holds of its effect
          receipts,  \* receipts in each run's directory
          pc

vars == <<writes, snapshot, seen, begun, frozen, lock, target, imports, effect, receipts, pc>>

Init ==
  /\ writes = 0
  /\ snapshot = [b \in Backup |-> None]
  /\ seen = [b \in Backup |-> 0]
  /\ begun = [b \in Backup |-> 0]
  /\ frozen = [r \in Restore |-> None]
  /\ lock = None
  /\ target = [import |-> None, rows |-> 0]
  /\ imports = <<>>
  /\ effect = [r \in Run |-> IF r \in Backup THEN "SNAPSHOT_NOT_QUALIFIED" ELSE "NOT_COMMITTED"]
  /\ receipts = [r \in Run |-> {}]
  /\ pc = [r \in Run |-> "start"]

-----------------------------------------------------------------------------
(* Receipts and failures, for both. *)

GoTo(r, label) == pc' = [pc EXCEPT ![r] = label]

Live == UNCHANGED <<writes, snapshot, seen, begun>>
Importing == UNCHANGED <<frozen, lock, target, imports>>

Written(r, name, eff, digest) ==
  receipts' = [receipts EXCEPT ![r] = @ \cup {[name |-> name, effect |-> eff, digest |-> digest]}]

\* The directory is made, then intent.json; a directory that is there already
\* is never written to.
Intend(r) ==
  /\ pc[r] = "start"
  /\ Written(r, "intent", None, None)
  /\ UNCHANGED effect

\* An exception, in a step of run r: what it holds is let go, failure.json
\* is next.
Raise(r) ==
  /\ pc[r] \notin {"start", "failing", "ended", "crashed"}
  /\ GoTo(r, "failing")
  /\ lock' = IF lock = r THEN None ELSE lock
  /\ UNCHANGED <<writes, snapshot, seen, begun, frozen, target, imports, effect>>

\* A step fails: input, output, lock, target or timeout.
StepFails(r) == pc[r] # "result" /\ Raise(r) /\ UNCHANGED receipts

\* failure.json states the effect as far as it is known; the file may fail too.
WriteFailure(r) ==
  /\ pc[r] = "failing"
  /\ \/ Written(r, "failure", effect[r], None)
     \/ UNCHANGED receipts
  /\ GoTo(r, "ended")
  /\ Live /\ Importing /\ UNCHANGED effect

\* The process dies: its transaction is rolled back, its files stay.
Crash(r) ==
  /\ pc[r] \notin {"start", "ended", "crashed"}
  /\ GoTo(r, "crashed")
  /\ lock' = IF lock = r THEN None ELSE lock
  /\ UNCHANGED <<writes, snapshot, seen, begun, frozen, target, imports, effect, receipts>>

ResultEffect(r) == IF r \in Backup THEN "SNAPSHOT_WRITTEN" ELSE effect[r]
ResultDigest(r) == IF r \in Backup THEN snapshot[r] ELSE frozen[r]

\* result.json is written and flushed; the flush of its directory may fail
\* when the file is there already.
WriteResult(r) ==
  /\ pc[r] = "result"
  /\ \/ /\ Written(r, "result", ResultEffect(r), ResultDigest(r))
        /\ GoTo(r, "ended")
        /\ Live /\ Importing /\ UNCHANGED effect
     \/ /\ Written(r, "result", ResultEffect(r), ResultDigest(r))
        /\ Raise(r)
     \/ Raise(r) /\ UNCHANGED receipts

-----------------------------------------------------------------------------
(* backup *)

BeginBackup(b) ==
  /\ Intend(b)
  /\ GoTo(b, "copy")
  /\ begun' = [begun EXCEPT ![b] = writes]
  /\ UNCHANGED <<writes, snapshot, seen>> /\ Importing

\* A step of the online backup begins a pass: it copies the first page.
CopyFirst(b) ==
  /\ pc[b] = "copy"
  /\ snapshot' = [snapshot EXCEPT ![b] = [i \in Page |-> IF i = 1 THEN writes ELSE 0]]
  /\ seen' = [seen EXCEPT ![b] = writes]
  /\ GoTo(b, "copyrest")
  /\ UNCHANGED <<writes, begun, effect, receipts>> /\ Importing

\* Defect: a pass goes on over writes made since it began.
PassHolds_Never(b) == TRUE

\* SQLite starts the copy again when the database has been written meanwhile.
PassHolds(b) == seen[b] = writes

CopyRest(b) ==
  /\ pc[b] = "copyrest"
  /\ \/ /\ PassHolds(b)
        /\ snapshot' = [snapshot EXCEPT ![b] = [@ EXCEPT ![2] = writes]]
        /\ GoTo(b, "summarize")
     \/ ~PassHolds(b) /\ GoTo(b, "copy") /\ UNCHANGED snapshot
  /\ UNCHANGED <<writes, seen, begun, effect, receipts>> /\ Importing

\* The snapshot's schema, integrity, rows and chains are checked: what is
\* readable and consistent qualifies.
Summarize(b) ==
  /\ pc[b] = "summarize"
  /\ snapshot[b] # Damaged
  /\ GoTo(b, "result")
  /\ Live /\ Importing /\ UNCHANGED <<effect, receipts>>

-----------------------------------------------------------------------------
(* restore *)

\* Defect: whatever file there is is imported.
Exact_Unchecked(r, file) == file # None

\* The copy has the digest that the backup's result.json states.
Exact(r, file) ==
  \E x \in receipts[SnapshotOf[r]] : x.name = "result" /\ x.digest = file

\* The operator passes the digest of a successful backup receipt.
BeginRestore(r) ==
  /\ \E x \in receipts[SnapshotOf[r]] : x.name = "result"
  /\ Intend(r)
  /\ GoTo(r, "freeze")
  /\ Live /\ Importing

\* The run owns a copy of the snapshot, whose digest it checks, and never reads
\* the snapshot again.
Freeze(r) ==
  /\ pc[r] = "freeze"
  /\ frozen' = [frozen EXCEPT ![r] = snapshot[SnapshotOf[r]]]
  /\ GoTo(r, "check")
  /\ Live /\ UNCHANGED <<lock, target, imports, effect, receipts>>

CheckDigest(r) ==
  /\ pc[r] = "check"
  /\ Exact(r, frozen[r]) /\ frozen[r] # Damaged
  /\ GoTo(r, "lock")
  /\ Live /\ Importing /\ UNCHANGED <<effect, receipts>>

\* LOCK TABLE ... ACCESS EXCLUSIVE NOWAIT: StepFails if another run holds them.
LockTables(r) ==
  /\ pc[r] = "lock"
  /\ lock = None
  /\ lock' = r
  /\ GoTo(r, "inspect")
  /\ Live /\ UNCHANGED <<frozen, target, imports, effect, receipts>>

\* Defect: rows that are there are left alone.
Empty_Unchecked == TRUE

Empty == target = [import |-> None, rows |-> 0]

\* The target is empty and all rows are inserted, read back and equal.
ImportRows(r) ==
  /\ pc[r] = "inspect"
  /\ Empty
  /\ GoTo(r, "commit")
  /\ Live /\ Importing /\ UNCHANGED <<effect, receipts>>

\* Defect: the run still says that nothing is committed.
BeforeCommit_Unmarked(r) == UNCHANGED effect

BeforeCommit(r) == effect' = [effect EXCEPT ![r] = "COMMIT_OUTCOME_UNKNOWN"]

\* From here on the outcome is not known until the commit returns.
AnnounceCommit(r) ==
  /\ pc[r] = "commit"
  /\ BeforeCommit(r)
  /\ GoTo(r, "committing")
  /\ Live /\ Importing /\ UNCHANGED receipts

Import(r) ==
  /\ target' = [target EXCEPT !.import = frozen[r]]
  /\ imports' = Append(imports, [run |-> r, over |-> target])
  /\ lock' = None
  /\ UNCHANGED frozen

CommitImport(r) ==
  /\ pc[r] = "committing"
  /\ Import(r)
  /\ effect' = [effect EXCEPT ![r] = "COMMITTED"]
  /\ GoTo(r, "readback")
  /\ Live /\ UNCHANGED receipts

\* The commit took effect and its answer was lost, or the process died then.
CommitAnswerLost(r) ==
  /\ pc[r] = "committing"
  /\ Import(r)
  /\ \/ GoTo(r, "failing")
     \/ GoTo(r, "crashed")
  /\ Live /\ UNCHANGED <<effect, receipts>>

\* Another connection reads the target again; rows written since do not match.
ReadBack(r) ==
  /\ pc[r] = "readback"
  /\ lock = None
  /\ \/ /\ target = [import |-> frozen[r], rows |-> 0]
        /\ GoTo(r, "result")
     \/ /\ target # [import |-> frozen[r], rows |-> 0]
        /\ GoTo(r, "failing")
  /\ Live /\ Importing /\ UNCHANGED <<effect, receipts>>

-----------------------------------------------------------------------------
(* What goes on around the runs. *)

\* The service writes on while it is backed up.
SourceWrite ==
  /\ writes < MaxWrites
  /\ writes' = writes + 1
  /\ UNCHANGED <<snapshot, seen, begun, effect, receipts, pc>> /\ Importing

\* The retained file is damaged, or replaced by a later snapshot.
Replace(b) ==
  /\ pc[b] = "ended" /\ snapshot[b] # None
  /\ \E file \in {Damaged} \cup {[i \in Page |-> w] : w \in 0..writes} :
       snapshot' = [snapshot EXCEPT ![b] = file]
  /\ UNCHANGED <<writes, seen, begun, effect, receipts, pc>> /\ Importing

\* An application writes to the target; it waits for the table locks.
TargetWrite ==
  /\ lock = None
  /\ target.rows < MaxRows
  /\ target' = [target EXCEPT !.rows = @ + 1]
  /\ Live /\ UNCHANGED <<frozen, lock, imports, effect, receipts, pc>>

-----------------------------------------------------------------------------
BackupStep(b) == BeginBackup(b) \/ CopyFirst(b) \/ CopyRest(b) \/ Summarize(b)

RestoreStep(r) ==
  \/ BeginRestore(r) \/ Freeze(r) \/ CheckDigest(r) \/ LockTables(r) \/ ImportRows(r)
  \/ AnnounceCommit(r) \/ CommitImport(r) \/ CommitAnswerLost(r) \/ ReadBack(r)

Next ==
  \/ \E b \in Backup : BackupStep(b) \/ Replace(b)
  \/ \E r \in Restore : RestoreStep(r)
  \/ \E r \in Run : StepFails(r) \/ WriteFailure(r) \/ WriteResult(r) \/ Crash(r)
  \/ SourceWrite \/ TargetWrite

Spec == Init /\ [][Next]_vars

-----------------------------------------------------------------------------
(* Correctness. *)

\* Files, locks, receipts and labels keep their types.
TypeOK ==
  /\ writes \in 0..MaxWrites
  /\ snapshot \in [Backup -> File]
  /\ seen \in [Backup -> 0..MaxWrites]
  /\ begun \in [Backup -> 0..MaxWrites]
  /\ frozen \in [Restore -> File]
  /\ lock \in Restore \cup {None}
  /\ target \in [import : File, rows : 0..MaxRows]
  /\ imports \in Seq([run : Restore, over : [import : File, rows : 0..MaxRows]])
  /\ effect \in [Run -> Effect]
  /\ receipts \in [Run -> SUBSET Receipt]
  /\ pc \in [Run -> {"start", "copy", "copyrest", "summarize", "freeze", "check", "lock",
                     "inspect", "commit", "committing", "readback", "result", "failing",
                     "ended", "crashed"}]

\* A backup's result.json describes one committed state of the live database,
\* between the backup's beginning and now, however many writes it was copied
\* across.
SnapshotsAtOneInstant ==
  \A b \in Backup : \A x \in receipts[b] : x.name = "result" =>
    \E w \in begun[b]..writes : x.digest = [i \in Page |-> w]

\* "An unknown commit outcome ... do not blindly retry", and whoever does
\* imports nothing twice: of all runs one commits, into an empty target.
ImportedOnce ==
  /\ Len(imports) <= 1
  /\ \A i \in DOMAIN imports : imports[i].over = [import |-> None, rows |-> 0]

Imported(r) == \E i \in DOMAIN imports : imports[i].run = r

\* What a bundle states stays true: COMMITTED was committed, NOT_COMMITTED never
\* is; only COMMIT_OUTCOME_UNKNOWN leaves it open.
EffectsTruthful ==
  \A r \in Restore : \A x \in receipts[r] :
    /\ x.effect = "COMMITTED" => Imported(r)
    /\ x.effect = "NOT_COMMITTED" => ~Imported(r)

\* A restore's result.json stands for a target that held exactly the snapshot
\* that the backup qualified, damaged or replaced as the file may be since.
ResultsPreserve ==
  \A r \in Restore :
    Imported(r) =>
      /\ target.import = frozen[r]
      /\ \E x \in receipts[SnapshotOf[r]] : x.name = "result" /\ x.digest = target.import
=============================================================================
