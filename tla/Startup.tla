--------------------------------- MODULE Startup ---------------------------------
(***************************************************************************)
(* Processes that start in demo mode on one persistent volume: the scope,  *)
(* the scenario's receipt, the entities and the seed memory, each in a     *)
(* transaction of its own (lyte/app.py, lyte/demo.py).  A process may      *)
(* crash after any of them and be started again, in the same release or in *)
(* another.  The database is SQLite or PostgreSQL: SQLite reads a stream's *)
(* head without a lock, so that a write which took the next sequence in    *)
(* between has this one refused (_locked_head).                            *)
(***************************************************************************)
EXTENDS Integers, FiniteSets

CONSTANTS Process, DemoRelease,
          Scenario(_),   \* the scenario that a release is built with
          Entity,        \* the entities that the scenario seeds
          MaxStarts      \* bound on starts

None == 0

\* None is no release's number and no scenario's digest.
ASSUME Numbered ==
  /\ None \notin DemoRelease
  /\ \A r \in DemoRelease : Scenario(r) # None

VARIABLES tenant, workspace,  \* whether the demo scope's rows are there
          receipt,  \* the scenario whose receipt holds the fixed key
          row,      \* the latest version of each entity, and the release that wrote it
          memory,   \* the number of seed memories, the sequence of the memory stream's head
          proc,
          starts

vars == <<tenant, workspace, receipt, row, memory, proc, starts>>
volume == <<tenant, workspace, receipt, row, memory>>

Off == [phase |-> "off", release |-> None, seen |-> None, todo |-> {}, raced |-> FALSE]
GoTo(p, phase) == proc' = [proc EXCEPT ![p].phase = phase]
\* Rows of the release, which differ from those of another in their source revision.
Current(p, e) == row[e].release = proc[p].release
Written(p, e) == [version |-> row[e].version + 1, release |-> proc[p].release]

-----------------------------------------------------------------------------

\* _make_runtime, up to the demo scope.
Start(p, r) ==
  /\ proc[p].phase \in {"off", "failed"} /\ starts < MaxStarts
  /\ starts' = starts + 1
  /\ proc' = [proc EXCEPT ![p] = [Off EXCEPT !.phase = "tenant", !.release = r]]
  /\ UNCHANGED volume

\* _ensure_demo_scope: a row that is already there is passed over.
CreateTenant(p) ==
  /\ proc[p].phase = "tenant"
  /\ tenant' = TRUE
  /\ GoTo(p, "workspace")
  /\ UNCHANGED <<workspace, receipt, row, memory, starts>>
CreateWorkspace(p) ==
  /\ proc[p].phase = "workspace"
  /\ workspace' = TRUE
  /\ GoTo(p, "receipt")
  /\ UNCHANGED <<tenant, receipt, row, memory, starts>>

\* The receipt's payload has the scenario's digest.
Digest(r) == Scenario(r)

\* Defect: a receipt that is there already is taken for a finished seeding.
AfterReceipt_Skips == IF receipt = None THEN "batch" ELSE "serving"
\* The entities are seeded whether the receipt is new or replayed.
AfterReceipt == "batch"

\* seed_demo: append_receipt under a fixed key, a replay if the digest is the same.
SeedReceipt(p) ==
  /\ proc[p].phase = "receipt"
  /\ LET digest == Digest(proc[p].release)
     IN  IF receipt \in {None, digest}
         THEN /\ receipt' = digest /\ GoTo(p, AfterReceipt)
         ELSE /\ GoTo(p, "failed") /\ UNCHANGED receipt
  /\ UNCHANGED <<tenant, workspace, row, memory, starts>>

\* The processes in that phase are overtaken: what they have read and will write is replaced by q.
Overtaken(q, phase) ==
  [x \in Process |-> IF x # q /\ proc[x].phase = phase THEN [proc[x] EXCEPT !.raced = TRUE] ELSE proc[x]]

\* upsert_operational_batch: one transaction, read and then written.
ReadBatch(p) ==
  /\ proc[p].phase = "batch"
  /\ proc' = [proc EXCEPT ![p] = [@ EXCEPT !.phase = "write", !.seen = row]]
  /\ UNCHANGED <<volume, starts>>
WriteBatch(p) ==
  /\ proc[p].phase = "write"
  /\ row' = [e \in Entity |-> IF Current(p, e) THEN row[e] ELSE Written(p, e)]
  /\ proc' = [IF row' = row THEN proc ELSE Overtaken(p, "upsert") EXCEPT ![p].phase = "memory", ![p].seen = None]
  /\ UNCHANGED <<tenant, workspace, receipt, memory, starts>>
\* The rows it read were replaced: nothing is written, and every entity is taken by itself.
RefuseBatch(p) ==
  /\ proc[p].phase = "write" /\ proc[p].seen # row
  /\ proc' = [proc EXCEPT ![p] = [@ EXCEPT !.phase = "read", !.seen = None, !.todo = Entity]]
  /\ UNCHANGED <<volume, starts>>

Settle(p, e) ==
  [proc[p] EXCEPT !.todo = @ \ {e}, !.seen = None, !.raced = FALSE,
                  !.phase = IF proc[p].todo = {e} THEN "memory" ELSE "read"]

\* get_operational, and the entity is passed over if it is this release's.
ReadItem(p, e) ==
  /\ proc[p].phase = "read" /\ e \in proc[p].todo
  /\ proc' = [proc EXCEPT ![p] =
       IF Current(p, e) THEN Settle(p, e)
       ELSE [@ EXCEPT !.phase = "upsert", !.seen = [entity |-> e, rows |-> row]]]
  /\ UNCHANGED <<volume, starts>>
\* upsert_operational with the version that was read.
WriteItem(p) ==
  /\ proc[p].phase = "upsert"
  /\ LET e == proc[p].seen.entity
     IN  /\ row[e].version = proc[p].seen.rows[e].version
         /\ row' = [row EXCEPT ![e] = Written(p, e)]
         /\ proc' = [Overtaken(p, "upsert") EXCEPT ![p] = Settle(p, e)]
  /\ UNCHANGED <<tenant, workspace, receipt, memory, starts>>
\* OperationalConflict, outside any handler: the version has moved, or another entity's row took
\* the sequence.  It ends the start.
RefuseItem(p) ==
  /\ proc[p].phase = "upsert" /\ proc[p].seen.rows # row
  /\ GoTo(p, "failed")
  /\ UNCHANGED <<volume, starts>>

\* Defect: the list is not asked, and every start appends.
NoneListed_Always == TRUE
NoneListed == memory = 0

\* list_memory, and append_memory if it is empty, in another transaction.
ReadMemory(p) ==
  /\ proc[p].phase = "memory"
  /\ GoTo(p, IF NoneListed THEN "remember" ELSE "serving")
  /\ UNCHANGED <<volume, starts>>
\* Over the head as it is now, which may have a memory of another start.
SeedMemory(p) ==
  /\ proc[p].phase = "remember"
  /\ memory' = memory + 1
  /\ proc' = [Overtaken(p, "remember") EXCEPT ![p].phase = "serving"]
  /\ UNCHANGED <<tenant, workspace, receipt, row, starts>>
\* The head was read before another start appended: append_memory has no handler for the
\* IntegrityError of the sequence, and the start ends.
RefuseMemory(p) ==
  /\ proc[p].phase = "remember" /\ memory > 0
  /\ GoTo(p, "failed")
  /\ UNCHANGED <<volume, starts>>

\* The process ends, or the database ends its start (a lock timeout, a lost connection).
Crash(p) ==
  /\ proc[p].phase \notin {"off", "failed"}
  /\ proc' = [proc EXCEPT ![p] = Off]
  /\ UNCHANGED <<volume, starts>>

Init ==
  /\ tenant = FALSE /\ workspace = FALSE /\ receipt = None /\ memory = 0 /\ starts = 0
  /\ row = [e \in Entity |-> [version |-> 0, release |-> None]]
  /\ proc = [p \in Process |-> Off]
Next ==
  \E p \in Process :
    \/ \E r \in DemoRelease : Start(p, r)
    \/ CreateTenant(p) \/ CreateWorkspace(p) \/ SeedReceipt(p)
    \/ ReadBatch(p) \/ WriteBatch(p) \/ RefuseBatch(p)
    \/ \E e \in Entity : ReadItem(p, e)
    \/ WriteItem(p) \/ RefuseItem(p) \/ ReadMemory(p) \/ SeedMemory(p) \/ RefuseMemory(p) \/ Crash(p)
Spec == Init /\ [][Next]_vars

-----------------------------------------------------------------------------
(* Properties. *)

\* Whoever serves in demo mode serves a whole fixture: the scope, the receipt of its own scenario,
\* every entity and a memory, whatever crashes, other starts and releases came before or came
\* between the transactions of its own start (seed_demo).
ServesSeeded ==
  \A p \in Process : proc[p].phase = "serving" =>
    /\ tenant /\ workspace /\ receipt = Scenario(proc[p].release) /\ memory > 0
    /\ \A e \in Entity : row[e].version > 0

\* A start fails only if the volume holds another scenario under the fixed key, or if another
\* process wrote between this one's last read and the write it was refused, of entities or of the
\* memory (OperationalConflict of _upsert_rows, IntegrityError of append_memory); a start by itself
\* never does, whatever release and whatever interrupted start left the volume behind.
FailuresEarned ==
  \A p \in Process : proc[p].phase = "failed" =>
    \/ receipt # Scenario(proc[p].release)
    \/ proc[p].raced

\* A second seed memory can only come of two starts that both listed none before either appended:
\* a start over a volume that has one, after whatever crash, adds none (seed_demo).
MemoriesEarned ==
  \A p \in Process : proc[p].phase = "remember" /\ memory > 0 => proc[p].raced

\* All three for every start of seed_demo on one volume.
StartupSound == ServesSeeded /\ FailuresEarned /\ MemoriesEarned

=============================================================================
