----------------------------- MODULE SurfaceProofs -----------------------------
(***************************************************************************)
(* The demo seeding, the analysis route, the session ledger, the readiness *)
(* check, the build receipt, the lists and the enterprise question, for    *)
(* any number of whatever they serve.                                      *)
(* Each part has its invariant, the lemmas on its steps and its theorems.  *)
(***************************************************************************)
EXTENDS Startup, AnalysisRoute, SessionLedger, SchemaReadiness, BuildReceipt, Paging,
        EnterpriseAsk, FiniteSetTheorems, TLAPS

-----------------------------------------------------------------------------
(* Startup.  What a start has behind it is durable and never taken back: the scope's rows stay,  *)
(* the fixed key keeps its first scenario, versions and memories only grow.  So what each phase  *)
(* may rely on (Behind) is kept by whatever other processes do (OthersKeep), and a process need  *)
(* only be followed through its own steps.                                                       *)

RowType == [version : Nat, release : DemoRelease \cup {None}]
ReadType == [entity : Entity, rows : [Entity -> RowType]]
Phases == {"off", "tenant", "workspace", "receipt", "batch", "write", "read", "upsert", "memory",
           "remember", "serving", "failed"}
ProcType ==
  [phase : Phases, release : DemoRelease \cup {None},
   seen : {None} \cup [Entity -> RowType] \cup ReadType, todo : SUBSET Entity, raced : BOOLEAN]

Typed ==
  /\ tenant \in BOOLEAN /\ workspace \in BOOLEAN
  /\ row \in [Entity -> RowType]
  /\ memory \in Nat
  /\ proc \in [Process -> ProcType]

Seeding == {"batch", "write", "read", "upsert", "memory", "remember", "serving"}
Seeded == {"memory", "remember", "serving"}

\* The volume has what process p has done and still relies on.
Behind(p) ==
  LET phase == proc[p].phase
  IN  /\ phase # "off" /\ phase # "failed" => proc[p].release \in DemoRelease
      /\ phase \in Seeding \cup {"workspace", "receipt"} => tenant
      /\ phase \in Seeding \cup {"receipt"} => workspace
      /\ phase \in Seeding => receipt = Scenario(proc[p].release)
      /\ phase \in Seeded => \A e \in Entity : row[e].version > 0
      /\ phase \in {"read", "upsert"} => \A e \in Entity \ proc[p].todo : row[e].version > 0
      /\ phase = "serving" => memory > 0

\* A refusal that is still to come, or that ended the start, was another process's doing.
Excused(p) ==
  /\ proc[p].phase = "upsert" =>
       /\ proc[p].seen \in ReadType
       /\ row # proc[p].seen.rows => proc[p].raced = TRUE
  /\ proc[p].phase = "remember" /\ memory > 0 => proc[p].raced = TRUE
  /\ proc[p].phase = "failed" =>
       receipt \notin {None, Scenario(proc[p].release)} \/ proc[p].raced = TRUE

\* A row without versions is no release's.
Unwritten == \A e \in Entity : row[e].version = 0 => row[e].release = None

SInv == Typed /\ Unwritten /\ \A p \in Process : Behind(p) /\ Excused(p)

-----------------------------------------------------------------------------
(* What the steps leave to the processes that do not take them. *)

\* The volume only gains.
Gains ==
  /\ tenant => tenant'
  /\ workspace => workspace'
  /\ receipt # None => receipt' = receipt
  /\ \A e \in Entity : row[e].version > 0 => row'[e].version > 0
  /\ memory > 0 => memory' > 0

\* Another process's record changes in raced at most, and does if what it has read was written.
Beside(q) ==
  /\ proc'[q].phase = proc[q].phase /\ proc'[q].release = proc[q].release
  /\ proc'[q].seen = proc[q].seen /\ proc'[q].todo = proc[q].todo
  /\ proc[q].raced = TRUE => proc'[q].raced = TRUE
  /\ proc[q].phase = "upsert" /\ row' # row => proc'[q].raced = TRUE
  /\ proc[q].phase = "remember" /\ memory' # memory => proc'[q].raced = TRUE

\* Overtaking touches nothing of another process's record but raced.
LEMMA Overtaking ==
  ASSUME SInv, NEW p \in Process, NEW phase \in {"upsert", "remember"}, NEW q \in Process \ {p}
  PROVE  /\ Overtaken(p, phase)[q] \in ProcType
         /\ Overtaken(p, phase)[q] = IF proc[q].phase = phase THEN [proc[q] EXCEPT !.raced = TRUE] ELSE proc[q]
<1>1. proc[q] \in ProcType
  BY DEF SInv, Typed
<1>2. Overtaken(p, phase)[q] = IF proc[q].phase = phase THEN [proc[q] EXCEPT !.raced = TRUE] ELSE proc[q]
  BY DEF Overtaken
<1>. QED  BY <1>1, <1>2 DEF ProcType

\* A step that overtakes a phase and writes nothing that the other phase has read.
LEMMA OvertakenBeside ==
  ASSUME SInv, NEW p \in Process, NEW phase \in {"upsert", "remember"}, NEW q \in Process \ {p},
         proc'[q] = Overtaken(p, phase)[q],
         row' = row \/ phase = "upsert", memory' = memory \/ phase = "remember"
  PROVE  Beside(q)
<1>1. proc[q] \in ProcType
  BY DEF SInv, Typed
<1>2. proc'[q] = IF proc[q].phase = phase THEN [proc[q] EXCEPT !.raced = TRUE] ELSE proc[q]
  BY Overtaking
<1>. QED  BY <1>1, <1>2 DEF Beside, ProcType

\* A process that does not move keeps what it relies on.
LEMMA OthersKeep ==
  ASSUME SInv, Gains, NEW q \in Process, Beside(q)
  PROVE  Behind(q)' /\ Excused(q)'
<1>1. Behind(q) /\ Excused(q) /\ proc[q] \in ProcType
  BY DEF SInv, Typed
<1>2. receipt = Scenario(proc[q].release) /\ proc[q].release \in DemoRelease => receipt # None
  BY Numbered
<1>3. Behind(q)'
  BY <1>1, <1>2 DEF Behind, Gains, Beside, Seeding, Seeded
<1>4. Excused(q)'
  BY <1>1 DEF Excused, Gains, Beside
<1>. QED  BY <1>3, <1>4

\* All of the invariant but the process that moves.
LEMMA OwnStep ==
  ASSUME SInv, NEW p \in Process, Typed', Unwritten', Gains,
         \A q \in Process \ {p} : Beside(q), Behind(p)', Excused(p)'
  PROVE  SInv'
<1>1. \A q \in Process \ {p} : Behind(q)' /\ Excused(q)'
  BY OthersKeep
<1>. QED  BY <1>1 DEF SInv

\* The first scenario stays: an old receipt is a digest or nothing.
LEMMA StartKeeps ==
  ASSUME SInv, NEW p \in Process, NEW r \in DemoRelease, Start(p, r)
  PROVE  SInv'
<1>1. Typed' /\ Unwritten'
  BY DEF SInv, Typed, Unwritten, Start, volume, ProcType, Phases, Off
<1>2. Gains /\ \A q \in Process \ {p} : Beside(q)
  BY DEF SInv, Typed, Start, volume, Gains, Beside
<1>3. Behind(p)' /\ Excused(p)'
  BY DEF SInv, Typed, Start, volume, Behind, Excused, ProcType, Off, Seeding, Seeded
<1>. QED  BY <1>1, <1>2, <1>3, OwnStep

LEMMA CrashKeeps ==
  ASSUME SInv, NEW p \in Process, Crash(p)
  PROVE  SInv'
<1>1. Typed' /\ Unwritten'
  BY DEF SInv, Typed, Unwritten, Crash, volume, ProcType, Phases, Off
<1>2. Gains /\ \A q \in Process \ {p} : Beside(q)
  BY DEF SInv, Typed, Crash, volume, Gains, Beside
<1>3. Behind(p)' /\ Excused(p)'
  BY DEF SInv, Typed, Crash, volume, Behind, Excused, ProcType, Off, Seeding, Seeded
<1>. QED  BY <1>1, <1>2, <1>3, OwnStep

\* The scope's rows and the receipt.
LEMMA ScopeKeeps ==
  ASSUME SInv, NEW p \in Process,
         CreateTenant(p) \/ CreateWorkspace(p) \/ SeedReceipt(p)
  PROVE  SInv'
<1>. USE DEF GoTo
<1>0. proc[p] \in ProcType /\ Behind(p)
  BY DEF SInv, Typed
<1>1. CASE CreateTenant(p)
  <2>1. Typed' /\ Unwritten'
    BY <1>0, <1>1 DEF SInv, Typed, Unwritten, CreateTenant, ProcType, Phases
  <2>2. Gains /\ \A q \in Process \ {p} : Beside(q)
    BY <1>1 DEF SInv, Typed, CreateTenant, Gains, Beside
  <2>3. Behind(p)' /\ Excused(p)'
    BY <1>0, <1>1 DEF SInv, Typed, CreateTenant, Behind, Excused, ProcType, Seeding, Seeded
  <2>. QED  BY <2>1, <2>2, <2>3, OwnStep
<1>2. CASE CreateWorkspace(p)
  <2>1. Typed' /\ Unwritten'
    BY <1>0, <1>2 DEF SInv, Typed, Unwritten, CreateWorkspace, ProcType, Phases
  <2>2. Gains /\ \A q \in Process \ {p} : Beside(q)
    BY <1>2 DEF SInv, Typed, CreateWorkspace, Gains, Beside
  <2>3. Behind(p)' /\ Excused(p)'
    BY <1>0, <1>2 DEF SInv, Typed, CreateWorkspace, Behind, Excused, ProcType, Seeding, Seeded
  <2>. QED  BY <2>1, <2>2, <2>3, OwnStep
<1>3. CASE SeedReceipt(p)
  <2>1. Typed' /\ Unwritten'
    BY <1>0, <1>3 DEF SInv, Typed, Unwritten, SeedReceipt, AfterReceipt, ProcType, Phases
  <2>2. Gains /\ \A q \in Process \ {p} : Beside(q)
    BY <1>3 DEF SInv, Typed, SeedReceipt, Gains, Beside
  <2>3. Behind(p)' /\ Excused(p)'
    BY <1>0, <1>3 DEF SInv, Typed, SeedReceipt, AfterReceipt, Digest, Behind, Excused, ProcType,
                      Seeding, Seeded
  <2>. QED  BY <2>1, <2>2, <2>3, OwnStep
<1>. QED  BY <1>1, <1>2, <1>3

\* The batch writes every entity that is not this release's: those that are have versions.
LEMMA BatchKeeps ==
  ASSUME SInv, NEW p \in Process, ReadBatch(p) \/ WriteBatch(p) \/ RefuseBatch(p)
  PROVE  SInv'
<1>0. proc[p] \in ProcType /\ Behind(p)
  BY DEF SInv, Typed
<1>1. CASE ReadBatch(p)
  <2>1. Typed' /\ Unwritten'
    BY <1>0, <1>1 DEF SInv, Typed, Unwritten, ReadBatch, volume, ProcType, Phases
  <2>2. Gains /\ \A q \in Process \ {p} : Beside(q)
    BY <1>1 DEF SInv, Typed, ReadBatch, volume, Gains, Beside
  <2>3. Behind(p)' /\ Excused(p)'
    BY <1>0, <1>1 DEF SInv, Typed, ReadBatch, volume, Behind, Excused, ProcType, Seeding, Seeded
  <2>. QED  BY <2>1, <2>2, <2>3, OwnStep
<1>2. CASE WriteBatch(p)
  <2>. DEFINE others == IF row' = row THEN proc ELSE Overtaken(p, "upsert")
  <2>0. /\ proc' = [others EXCEPT ![p].phase = "memory", ![p].seen = None]
        /\ DOMAIN others = Process /\ others[p] = proc[p]
    BY <1>2 DEF SInv, Typed, WriteBatch, Overtaken
  <2>1. /\ proc' \in [Process -> ProcType]
        /\ \A q \in Process \ {p} : proc'[q] = others[q]
        /\ proc'[p].phase = "memory" /\ proc'[p].release = proc[p].release
    <3>1. proc'[p] = [proc[p] EXCEPT !.phase = "memory", !.seen = None]
      BY <2>0
    <3>2. proc'[p] \in ProcType /\ proc'[p].phase = "memory" /\ proc'[p].release = proc[p].release
      BY <1>0, <3>1 DEF ProcType, Phases
    <3>3. \A q \in Process \ {p} : proc'[q] = others[q] /\ others[q] \in ProcType
      BY <2>0, Overtaking DEF SInv, Typed
    <3>4. proc' = [q \in Process |-> proc'[q]]
      BY <2>0 DEF Overtaken, SInv, Typed
    <3>. QED  BY <3>2, <3>3, <3>4
  <2>2. /\ row' \in [Entity -> RowType] /\ Unwritten'
        /\ \A e \in Entity : row'[e].version > 0
    <3>1. proc[p].release \in DemoRelease
      BY <1>0, <1>2 DEF Behind, WriteBatch
    <3>2. row' = [e \in Entity |-> IF Current(p, e) THEN row[e] ELSE Written(p, e)]
      BY <1>2 DEF WriteBatch
    <3>3. ASSUME NEW e \in Entity
          PROVE  row'[e] \in RowType /\ row'[e].version > 0
      BY <3>1, <3>2, Numbered DEF SInv, Typed, Unwritten, Current, Written, RowType
    <3>. QED  BY <3>2, <3>3 DEF Unwritten
  <2>3. Typed'
    BY <1>2, <2>1, <2>2 DEF SInv, Typed, WriteBatch
  <2>4. Gains /\ \A q \in Process \ {p} : Beside(q)
    <3>1. Gains
      BY <1>2, <2>2 DEF WriteBatch, Gains
    <3>2. ASSUME NEW q \in Process \ {p}
          PROVE  Beside(q)
      <4>1. memory' = memory /\ proc'[q] = others[q]
        BY <1>2, <2>1 DEF WriteBatch
      <4>2. CASE row' # row
        <5>1. proc'[q] = Overtaken(p, "upsert")[q]
          BY <4>1, <4>2
        <5>. QED  BY <4>1, <5>1, OvertakenBeside
      <4>3. CASE row' = row
        BY <4>1, <4>3 DEF Beside
      <4>. QED  BY <4>2, <4>3
    <3>. QED  BY <3>1, <3>2
  <2>5. Behind(p)' /\ Excused(p)'
    BY <1>0, <1>2, <2>1, <2>2 DEF WriteBatch, Behind, Excused, Seeding, Seeded
  <2>. QED  BY <2>2, <2>3, <2>4, <2>5, OwnStep
<1>3. CASE RefuseBatch(p)
  <2>1. Typed' /\ Unwritten'
    BY <1>0, <1>3 DEF SInv, Typed, Unwritten, RefuseBatch, volume, ProcType, Phases
  <2>2. Gains /\ \A q \in Process \ {p} : Beside(q)
    BY <1>3 DEF SInv, Typed, RefuseBatch, volume, Gains, Beside
  <2>3. Behind(p)' /\ Excused(p)'
    BY <1>0, <1>3 DEF SInv, Typed, RefuseBatch, volume, Behind, Excused, ProcType, Seeding, Seeded
  <2>. QED  BY <2>1, <2>2, <2>3, OwnStep
<1>. QED  BY <1>1, <1>2, <1>3

\* What settling an entity does to a process's own record.
LEMMA Settling ==
  ASSUME SInv, NEW p \in Process, NEW e \in Entity
  PROVE  /\ Settle(p, e) \in ProcType
         /\ Settle(p, e).phase \in {"read", "memory"}
         /\ Settle(p, e).phase = "memory" => proc[p].todo = {e}
         /\ Settle(p, e).todo = proc[p].todo \ {e} /\ Settle(p, e).release = proc[p].release
BY Zenon DEF SInv, Typed, Settle, ProcType, Phases

\* Item by item: an entity leaves the list once it has a version.
LEMMA ReadItemKeeps ==
  ASSUME SInv, NEW p \in Process, NEW e \in Entity, ReadItem(p, e)
  PROVE  SInv'
<1>0. proc[p] \in ProcType /\ Behind(p) /\ proc[p].release \in DemoRelease
  BY DEF SInv, Typed, Behind, ReadItem
<1>1. proc' \in [Process -> ProcType] /\ \A q \in Process \ {p} : proc'[q] = proc[q]
  BY <1>0, Settling DEF SInv, Typed, ReadItem, ProcType, ReadType, RowType, Phases
<1>2. Typed' /\ Unwritten'
  BY <1>1 DEF SInv, Typed, Unwritten, ReadItem, volume
<1>3. Gains /\ \A q \in Process \ {p} : Beside(q)
  BY <1>1 DEF ReadItem, volume, Gains, Beside
<1>4. CASE Current(p, e)
  <2>1. proc'[p] = Settle(p, e) /\ row[e].version > 0
    BY <1>0, <1>4, Numbered DEF SInv, Typed, Unwritten, ReadItem, Current, RowType
  <2>2. /\ proc'[p].phase \in {"read", "memory"} /\ proc'[p].release = proc[p].release
        /\ proc'[p].todo = proc[p].todo \ {e}
        /\ proc'[p].phase = "memory" => proc[p].todo = {e}
    BY <2>1, Settling
  <2>3. tenant /\ workspace /\ receipt = Scenario(proc[p].release)
        /\ \A d \in Entity \ (proc[p].todo \ {e}) : row[d].version > 0
    BY <1>0, <2>1 DEF ReadItem, Behind, Seeding
  <2>4. UNCHANGED volume
    BY DEF ReadItem
  <2>5. Behind(p)'
    BY <1>0, <2>2, <2>3, <2>4 DEF volume, Behind, Seeded
  <2>6. Excused(p)'
    BY <2>2 DEF Excused
  <2>. QED  BY <1>2, <1>3, <2>5, <2>6, OwnStep
<1>5. CASE ~Current(p, e)
  <2>1. Behind(p)'
    BY <1>0, <1>5 DEF SInv, Typed, ReadItem, volume, Behind, ProcType, Seeding, Seeded
  <2>2. Excused(p)'
    BY <1>0, <1>5 DEF SInv, Typed, ReadItem, volume, Excused, ProcType, ReadType, RowType
  <2>. QED  BY <1>2, <1>3, <2>1, <2>2, OwnStep
<1>. QED  BY <1>4, <1>5

\* A conditional write is over the version that was read.
LEMMA WriteItemKeeps ==
  ASSUME SInv, NEW p \in Process, WriteItem(p)
  PROVE  SInv'
<1>. DEFINE e == proc[p].seen.entity
<1>0. proc[p] \in ProcType /\ Behind(p) /\ Excused(p) /\ e \in Entity /\ proc[p].release \in DemoRelease
  BY DEF SInv, Typed, Behind, Excused, WriteItem, ReadType
<1>1. /\ row' = [row EXCEPT ![e] = Written(p, e)]
      /\ proc' = [Overtaken(p, "upsert") EXCEPT ![p] = Settle(p, e)]
  BY DEF WriteItem
<1>2. /\ proc' \in [Process -> ProcType] /\ proc'[p] = Settle(p, e)
      /\ \A q \in Process \ {p} : proc'[q] = Overtaken(p, "upsert")[q]
  <2>1. DOMAIN Overtaken(p, "upsert") = Process
    BY DEF Overtaken
  <2>2. proc'[p] = Settle(p, e) /\ proc'[p] \in ProcType
    BY <1>0, <1>1, <2>1, Settling
  <2>3. \A q \in Process \ {p} : proc'[q] = Overtaken(p, "upsert")[q] /\ proc'[q] \in ProcType
    BY <1>1, <2>1, Overtaking
  <2>4. proc' = [q \in Process |-> proc'[q]]
    BY <1>1, <2>1
  <2>. QED  BY <2>2, <2>3, <2>4
<1>3. Written(p, e) \in RowType /\ Written(p, e).version > 0
  BY <1>0 DEF SInv, Typed, Written, RowType
<1>4. row' \in [Entity -> RowType] /\ Unwritten' /\ row'[e].version > 0
      /\ \A d \in Entity : row[d].version > 0 => row'[d].version > 0
  BY <1>0, <1>1, <1>3 DEF SInv, Typed, Unwritten
<1>5. Typed'
  BY <1>2, <1>4 DEF SInv, Typed, WriteItem
<1>6. Gains /\ \A q \in Process \ {p} : Beside(q)
  <2>1. tenant' = tenant /\ workspace' = workspace /\ receipt' = receipt /\ memory' = memory
    BY DEF WriteItem
  <2>2. Gains
    BY <1>4, <2>1 DEF Gains
  <2>3. ASSUME NEW q \in Process \ {p}  PROVE Beside(q)
    BY <1>2, <2>1, <2>3, OvertakenBeside
  <2>. QED  BY <2>2, <2>3
<1>7. /\ proc'[p].phase \in {"read", "memory"} /\ proc'[p].release = proc[p].release
      /\ proc'[p].todo = proc[p].todo \ {e}
      /\ proc'[p].phase = "memory" => proc[p].todo = {e}
  BY <1>0, <1>2, Settling
<1>8. /\ tenant' /\ workspace' /\ receipt' = Scenario(proc[p].release)
      /\ \A d \in Entity \ (proc[p].todo \ {e}) : row'[d].version > 0
  <2>1. proc[p].phase = "upsert" /\ tenant' = tenant /\ workspace' = workspace /\ receipt' = receipt
    BY DEF WriteItem
  <2>2. tenant /\ workspace /\ receipt = Scenario(proc[p].release)
    BY <1>0, <2>1 DEF Behind, Seeding
  <2>3. \A d \in Entity \ proc[p].todo : row[d].version > 0
    BY <1>0, <2>1 DEF Behind
  <2>4. \A d \in Entity \ (proc[p].todo \ {e}) : row'[d].version > 0
    BY <1>4, <2>3
  <2>5. tenant' = TRUE /\ workspace' = TRUE
    BY <2>1, <2>2
  <2>. QED  BY <2>1, <2>2, <2>4, <2>5
<1>9. Behind(p)'
  BY <1>0, <1>7, <1>8 DEF Behind, Seeding, Seeded
<1>10. Excused(p)'
  BY <1>7 DEF Excused
<1>. QED  BY <1>4, <1>5, <1>6, <1>9, <1>10, OwnStep

\* A refused write was overtaken by another process's.
LEMMA RefusalKeeps ==
  ASSUME SInv, NEW p \in Process, RefuseItem(p) \/ RefuseMemory(p)
  PROVE  SInv'
<1>0. proc[p] \in ProcType /\ Behind(p) /\ Excused(p)
  BY DEF SInv, Typed
<1>1. /\ proc' = [proc EXCEPT ![p].phase = "failed"] /\ proc[p].raced = TRUE
      /\ UNCHANGED volume
  BY <1>0 DEF RefuseItem, RefuseMemory, GoTo, Excused
<1>2. Typed' /\ Unwritten'
  BY <1>0, <1>1 DEF SInv, Typed, Unwritten, volume, ProcType, Phases
<1>3. Gains /\ \A q \in Process \ {p} : Beside(q)
  BY <1>1 DEF SInv, Typed, volume, Gains, Beside
<1>4. Behind(p)' /\ Excused(p)'
  BY <1>0, <1>1 DEF SInv, Typed, volume, Behind, Excused, ProcType, Seeding, Seeded
<1>. QED  BY <1>2, <1>3, <1>4, OwnStep

LEMMA ReadMemoryKeeps ==
  ASSUME SInv, NEW p \in Process, ReadMemory(p)
  PROVE  SInv'
<1>0. proc[p] \in ProcType /\ Behind(p)
  BY DEF SInv, Typed
<1>1. Typed' /\ Unwritten'
  BY <1>0 DEF SInv, Typed, Unwritten, ReadMemory, GoTo, volume, ProcType, Phases
<1>2. Gains /\ \A q \in Process \ {p} : Beside(q)
  BY DEF SInv, Typed, ReadMemory, GoTo, volume, Gains, Beside
<1>3. Behind(p)' /\ Excused(p)'
  BY <1>0 DEF SInv, Typed, ReadMemory, NoneListed, GoTo, volume, Behind, Excused, ProcType,
              Seeding, Seeded
<1>. QED  BY <1>1, <1>2, <1>3, OwnStep

\* Whoever is about to append beside the new memory is overtaken.
LEMMA SeedMemoryKeeps ==
  ASSUME SInv, NEW p \in Process, SeedMemory(p)
  PROVE  SInv'
<1>0. proc[p] \in ProcType /\ Behind(p)
  BY DEF SInv, Typed
<1>1. /\ proc' = [Overtaken(p, "remember") EXCEPT ![p].phase = "serving"]
      /\ DOMAIN Overtaken(p, "remember") = Process /\ Overtaken(p, "remember")[p] = proc[p]
      /\ tenant' = tenant /\ workspace' = workspace /\ receipt' = receipt /\ row' = row
      /\ memory' = memory + 1 /\ memory \in Nat
  BY DEF SInv, Typed, SeedMemory, Overtaken
<1>2. proc'[p] = [proc[p] EXCEPT !.phase = "serving"] /\ proc'[p] \in ProcType
  BY <1>0, <1>1 DEF ProcType, Phases
<1>3. \A q \in Process \ {p} : proc'[q] = Overtaken(p, "remember")[q] /\ proc'[q] \in ProcType
  BY <1>1, Overtaking
<1>4. proc' = [q \in Process |-> proc'[q]]
  BY <1>1
<1>5. Typed' /\ Unwritten'
  <2>1. \A q \in Process : proc'[q] \in ProcType
    BY <1>2, <1>3
  <2>2. proc' \in [Process -> ProcType]
    BY <1>4, <2>1
  <2>. QED  BY <1>1, <2>2 DEF SInv, Typed, Unwritten
<1>6. Gains /\ \A q \in Process \ {p} : Beside(q)
  <2>1. Gains
    BY <1>1 DEF Gains
  <2>2. ASSUME NEW q \in Process \ {p}  PROVE Beside(q)
    BY <1>1, <1>3, <2>2, OvertakenBeside
  <2>. QED  BY <2>1, <2>2
<1>7. Behind(p)' /\ Excused(p)'
  <2>1. proc[p].phase = "remember"
    BY DEF SeedMemory
  <2>2. proc'[p].phase = "serving" /\ proc'[p].release = proc[p].release
    BY <1>0, <1>2 DEF ProcType
  <2>. QED  BY <1>0, <1>1, <2>1, <2>2 DEF Behind, Excused, Seeding, Seeded
<1>. QED  BY <1>5, <1>6, <1>7, OwnStep

-----------------------------------------------------------------------------
(* The theorem. *)

LEMMA Beginning ==
  ASSUME Init
  PROVE  SInv
BY DEF Init, SInv, Typed, Unwritten, Behind, Excused, ProcType, RowType, Phases, Off, Seeding, Seeded

LEMMA StepKeeps ==
  ASSUME SInv, [Next]_vars
  PROVE  SInv'
<1>1. ASSUME NEW p \in Process, NEW r \in DemoRelease, Start(p, r)  PROVE SInv'
  BY <1>1, StartKeeps
<1>2. ASSUME NEW p \in Process, CreateTenant(p) \/ CreateWorkspace(p) \/ SeedReceipt(p)  PROVE SInv'
  BY <1>2, ScopeKeeps
<1>3. ASSUME NEW p \in Process, ReadBatch(p) \/ WriteBatch(p) \/ RefuseBatch(p)  PROVE SInv'
  BY <1>3, BatchKeeps
<1>4. ASSUME NEW p \in Process, NEW e \in Entity, ReadItem(p, e)  PROVE SInv'
  BY <1>4, ReadItemKeeps
<1>5. ASSUME NEW p \in Process, WriteItem(p)  PROVE SInv'
  BY <1>5, WriteItemKeeps
<1>6. ASSUME NEW p \in Process, RefuseItem(p) \/ RefuseMemory(p)  PROVE SInv'
  BY <1>6, RefusalKeeps
<1>7. ASSUME NEW p \in Process, ReadMemory(p)  PROVE SInv'
  BY <1>7, ReadMemoryKeeps
<1>8. ASSUME NEW p \in Process, SeedMemory(p)  PROVE SInv'
  BY <1>8, SeedMemoryKeeps
<1>9. ASSUME NEW p \in Process, Crash(p)  PROVE SInv'
  BY <1>9, CrashKeeps
<1>10. CASE UNCHANGED vars
  BY <1>10 DEF vars, SInv, Typed, Unwritten, Behind, Excused
<1>. QED  BY <1>1, <1>2, <1>3, <1>4, <1>5, <1>6, <1>7, <1>8, <1>9, <1>10 DEF Next

\* Whoever serves serves the whole fixture; whoever fails met another release's scenario, or was
\* overtaken by another process between a read and the write that was refused, of an entity or of
\* the memory; and only who was overtaken is to add a memory to one that is there: however many
\* processes, releases, entities and starts there are (seed_demo and _upsert_rows of lyte/demo.py,
\* append_memory of the store).
THEOREM StartsAreSound == Spec => []StartupSound
<1>1. Init => SInv
  BY Beginning
<1>2. SInv /\ [Next]_vars => SInv'
  BY StepKeeps
<1>3. SInv => StartupSound
  <2>1. SInv => ServesSeeded
    BY DEF SInv, Behind, ServesSeeded, Seeding, Seeded
  <2>2. SInv => FailuresEarned
    BY DEF SInv, Excused, FailuresEarned
  <2>3. SInv => MemoriesEarned
    BY DEF SInv, Excused, MemoriesEarned
  <2>. QED  BY <2>1, <2>2, <2>3 DEF StartupSound
<1>. QED  BY <1>1, <1>2, <1>3, PTL DEF Spec

-----------------------------------------------------------------------------
(* AnalysisRoute.  What a request has verified and counted was in the chain when it looked and   *)
(* the chain only grows (Checked), so the bundle it commits comes after all of it (Earned).  A   *)
(* key and a reference are each appended once (KeysOnce, RefsOnce), so that the entries before a *)
(* bundle are as many as its place says, and the bundle under a reply's key stays the one        *)
(* (Backed).                                                                                     *)

Cited == UNION {Refs(a) : a \in Payload}
Outputs == {Output(a, n) : a \in Payload, n \in Nat}

Verification == [verified : SUBSET Cited, counted : Nat, intact : BOOLEAN,
                 state : {"VERIFIED_SCOPED", "PARTIAL"}]
BundleEntry == [kind : {"analysis.completed"}, key : Key, payload : Payload, output : Outputs,
                verification : Verification]
EvidenceEntry == [kind : {"evidence"}, ref : Evidence]
Entry == BundleEntry \cup EvidenceEntry

Active == [phase : {"verify", "head", "commit"}, key : Key, payload : Payload, output : Outputs,
           todo : SUBSET Cited, verified : SUBSET Cited, counted : Nat, intact : BOOLEAN]
Reply == [key : Key, payload : Payload, formulas : Outputs, trace : Verification, receipt : Outputs]

TypeOK ==
  /\ chain \in Seq(Entry)
  /\ release \in [Replica -> Nat]
  /\ req \in [Replica -> Active \cup {NoRequest}]
  /\ replies \subseteq Reply

\* A reference is among the first n entries.
Receipted(e, n) == \E j \in 1 .. n : chain[j].kind = "evidence" /\ chain[j].ref = e

IsBundle(n) == chain[n].kind = "analysis.completed"

KeysOnce ==
  \A i, j \in DOMAIN chain : IsBundle(i) /\ IsBundle(j) /\ chain[i].key = chain[j].key => i = j
RefsOnce ==
  \A i, j \in DOMAIN chain : ~IsBundle(i) /\ ~IsBundle(j) /\ chain[i].ref = chain[j].ref => i = j

\* What a verification says of the n entries before its bundle.
Tells(v, n, a) ==
  /\ \A e \in v.verified : Receipted(e, n)
  /\ v.state = "VERIFIED_SCOPED" => v.verified = Refs(a)
  /\ v.counted <= n

Earned ==
  \A n \in DOMAIN chain : IsBundle(n) => Tells(chain[n].verification, n - 1, chain[n].payload)

\* What a request has seen is there.
Seen(r) == (\A e \in r.verified : Receipted(e, Len(chain))) /\ r.counted <= Len(chain)

Checked == \A p \in Replica : req[p] # NoRequest => Seen(req[p])

\* A reply is of a bundle.
Backs(n, s) ==
  /\ IsBundle(n) /\ chain[n].key = s.key /\ chain[n].payload = s.payload
  /\ chain[n].output = s.formulas /\ chain[n].output = s.receipt /\ chain[n].verification = s.trace

Backed == \A s \in replies : \E n \in DOMAIN chain : Backs(n, s)

AInv == TypeOK /\ KeysOnce /\ RefsOnce /\ Earned /\ Checked /\ Backed

-----------------------------------------------------------------------------
(* The chain. *)

LEMMA EntriesAre ==
  ASSUME TypeOK
  PROVE  /\ Len(chain) \in Nat /\ DOMAIN chain = 1 .. Len(chain)
         /\ \A n \in DOMAIN chain : /\ chain[n] \in Entry
                                    /\ IsBundle(n) => chain[n] \in BundleEntry
                                    /\ ~IsBundle(n) => chain[n] \in EvidenceEntry
<1>1. /\ Len(chain) \in Nat /\ DOMAIN chain = 1 .. Len(chain)
      /\ \A n \in DOMAIN chain : chain[n] \in Entry
  BY DEF TypeOK
<1>2. /\ \A b \in BundleEntry : b.kind = "analysis.completed"
      /\ \A x \in EvidenceEntry : x.kind = "evidence"
  BY DEF BundleEntry, EvidenceEntry
<1>. QED BY <1>1, <1>2 DEF Entry, IsBundle

LEMMA Readings ==
  ASSUME TypeOK
  PROVE  /\ \A e : e \in Ingested <=> Receipted(e, Len(chain))
         /\ \A b : b \in Bundles <=> \E n \in DOMAIN chain : IsBundle(n) /\ chain[n] = b
         /\ \A k, b : b \in Held(k) <=> \E n \in DOMAIN chain : IsBundle(n) /\ chain[n] = b /\ b.key = k
<1>1. Len(chain) \in Nat /\ DOMAIN chain = 1 .. Len(chain)
  BY EntriesAre
<1>. QED BY <1>1 DEF Ingested, Bundles, Held, Receipted, IsBundle, ToSet

\* An entry that may be added: a reference that is new, or a bundle under a new key that tells
\* what is so.
MayAdd(x) ==
  \/ x \in EvidenceEntry /\ ~Receipted(x.ref, Len(chain))
  \/ /\ x \in BundleEntry
     /\ \A n \in DOMAIN chain : IsBundle(n) => chain[n].key # x.key
     /\ Tells(x.verification, Len(chain), x.payload)

LEMMA Grown ==
  ASSUME AInv, NEW x, MayAdd(x), chain' = Append(chain, x)
  PROVE  /\ chain' \in Seq(Entry) /\ Len(chain') = Len(chain) + 1
         /\ \A n \in DOMAIN chain : n \in DOMAIN chain' /\ chain'[n] = chain[n]
         /\ chain'[Len(chain) + 1] = x
         /\ \A n \in 0 .. Len(chain) : \A e : Receipted(e, n) => Receipted(e, n)'
         /\ \A e : Receipted(e, Len(chain)) => Receipted(e, Len(chain))'
         /\ KeysOnce' /\ RefsOnce' /\ Earned'
<1>0. PICK m \in Nat : m = Len(chain)
  BY EntriesAre DEF AInv
<1>1. /\ TypeOK /\ m = Len(chain) /\ DOMAIN chain = 1 .. m /\ x \in Entry /\ chain \in Seq(Entry)
      /\ \A n \in DOMAIN chain : /\ IsBundle(n) => chain[n] \in BundleEntry
                                 /\ ~IsBundle(n) => chain[n] \in EvidenceEntry
  BY <1>0, EntriesAre DEF AInv, MayAdd, Entry, TypeOK
<1>2. /\ chain' \in Seq(Entry) /\ Len(chain') = m + 1 /\ DOMAIN chain' = 1 .. m + 1
      /\ \A n \in 1 .. m : chain'[n] = chain[n]
      /\ chain'[m + 1] = x
  BY <1>1
<1>3. \A n \in 0 .. m : \A e : Receipted(e, n) => Receipted(e, n)'
  BY <1>1, <1>2 DEF Receipted
<1>4. \A e : Receipted(e, m) => Receipted(e, Len(chain))'
  BY <1>1, <1>2 DEF Receipted
<1>5. \A n \in 1 .. m : (IsBundle(n))' <=> IsBundle(n)
  BY <1>2 DEF IsBundle
<1>6. \A n \in 1 .. m + 1 : n \in 1 .. m \/ n = m + 1
  BY <1>1
<1>7. CASE x \in EvidenceEntry /\ ~Receipted(x.ref, m)
  <2>1. ~(IsBundle(m + 1))'
    BY <1>2, <1>7 DEF IsBundle, EvidenceEntry
  <2>2. \A n \in 1 .. m : ~IsBundle(n) => chain[n].ref # x.ref
    BY <1>1, <1>7 DEF Receipted, EvidenceEntry
  <2>3. KeysOnce'
    BY <1>1, <1>2, <1>5, <1>6, <2>1 DEF AInv, KeysOnce
  <2>4. RefsOnce'
    BY <1>1, <1>2, <1>5, <1>6, <2>2 DEF AInv, RefsOnce
  <2>5. Earned'
    <3>1. SUFFICES ASSUME NEW n \in DOMAIN chain', (IsBundle(n))'
                   PROVE  Tells(chain[n].verification, n - 1, chain[n].payload)'
      BY DEF Earned
    <3>2. n \in 1 .. m /\ IsBundle(n) /\ n - 1 \in 0 .. m
      BY <1>1, <1>2, <1>5, <1>6, <2>1, <3>1
    <3>3. Tells(chain[n].verification, n - 1, chain[n].payload)
      BY <1>1, <3>2 DEF AInv, Earned
    <3>. QED BY <1>1, <1>2, <1>3, <3>2, <3>3 DEF Tells
  <2>. QED BY <1>1, <1>2, <1>3, <1>4, <2>3, <2>4, <2>5
<1>8. CASE /\ x \in BundleEntry
           /\ \A n \in DOMAIN chain : IsBundle(n) => chain[n].key # x.key
           /\ Tells(x.verification, m, x.payload)
  <2>1. (IsBundle(m + 1))'
    BY <1>2, <1>8 DEF IsBundle, BundleEntry
  <2>2. KeysOnce'
    BY <1>1, <1>2, <1>5, <1>6, <1>8 DEF AInv, KeysOnce
  <2>3. RefsOnce'
    BY <1>1, <1>2, <1>5, <1>6, <2>1 DEF AInv, RefsOnce
  <2>4. Earned'
    <3>1. SUFFICES ASSUME NEW n \in DOMAIN chain', (IsBundle(n))'
                   PROVE  Tells(chain[n].verification, n - 1, chain[n].payload)'
      BY DEF Earned
    <3>2. CASE n \in 1 .. m
      <4>1. IsBundle(n) /\ n - 1 \in 0 .. m
        BY <1>1, <1>5, <3>1, <3>2
      <4>2. Tells(chain[n].verification, n - 1, chain[n].payload)
        BY <1>1, <3>2, <4>1 DEF AInv, Earned
      <4>. QED BY <1>1, <1>2, <1>3, <3>2, <4>1, <4>2 DEF Tells
    <3>3. CASE n = m + 1
      <4>1. n - 1 = m /\ m \in 0 .. m
        BY <1>1, <3>3
      <4>. QED BY <1>2, <1>3, <1>8, <3>3, <4>1 DEF Tells
    <3>. QED BY <1>2, <1>6, <3>2, <3>3
  <2>. QED BY <1>1, <1>2, <1>3, <1>4, <2>2, <2>3, <2>4
<1>. QED BY <1>1, <1>7, <1>8 DEF MayAdd

-----------------------------------------------------------------------------
(* The steps. *)

\* The chain stands or is added to; a request that moves has seen what is there; a new reply is of
\* a bundle.
LEMMA Kept ==
  ASSUME AInv,
         chain' = chain \/ \E x : MayAdd(x) /\ chain' = Append(chain, x),
         release' \in [Replica -> Nat],
         req' \in [Replica -> Active \cup {NoRequest}],
         \A p \in Replica : \/ req'[p] = req[p] \/ req'[p] = NoRequest
                            \/ chain' = chain /\ Seen(req'[p]),
         \A s \in replies' : s \in replies \/ (s \in Reply /\ \E n \in DOMAIN chain' : Backs(n, s)')
  PROVE  AInv'
<1>1. /\ chain' \in Seq(Entry) /\ KeysOnce' /\ RefsOnce' /\ Earned'
      /\ \A n \in DOMAIN chain : n \in DOMAIN chain' /\ chain'[n] = chain[n]
      /\ \A e : Receipted(e, Len(chain)) => Receipted(e, Len(chain))'
      /\ Len(chain) \in Nat /\ Len(chain') \in Nat /\ Len(chain) <= Len(chain')
  <2>0. Len(chain) \in Nat
    BY EntriesAre DEF AInv
  <2>1. CASE chain' = chain
    <3>1. chain \in Seq(Entry) /\ KeysOnce /\ RefsOnce /\ Earned
      BY DEF AInv, TypeOK
    <3>2. KeysOnce' /\ RefsOnce'
      BY <2>1, <3>1 DEF KeysOnce, RefsOnce, IsBundle
    <3>3. Earned'
      BY <2>1, <3>1 DEF Earned, IsBundle, Tells, Receipted
    <3>4. \A e : Receipted(e, Len(chain)) => Receipted(e, Len(chain))'
      BY <2>1 DEF Receipted
    <3>. QED BY <2>0, <2>1, <3>1, <3>2, <3>3, <3>4
  <2>2. CASE \E x : MayAdd(x) /\ chain' = Append(chain, x)
    BY <2>0, <2>2, Grown
  <2>. QED BY <2>1, <2>2
<1>2. TypeOK'
  BY <1>1 DEF AInv, TypeOK
<1>3. Checked'
  <2>1. SUFFICES ASSUME NEW p \in Replica, req'[p] # NoRequest PROVE Seen(req[p])'
    BY DEF Checked
  <2>2. CASE req'[p] = req[p]
    <3>1. req[p] \in Active /\ Seen(req[p])
      BY <2>1, <2>2 DEF AInv, TypeOK, Checked
    <3>2. req[p].counted \in Nat
      BY <3>1 DEF Active
    <3>. QED BY <1>1, <2>2, <3>1, <3>2 DEF Seen
  <2>3. CASE chain' = chain /\ Seen(req'[p])
    BY <2>3 DEF Seen, Receipted
  <2>. QED BY <2>1, <2>2, <2>3
<1>4. Backed'
  <2>1. \A s \in replies : \E n \in DOMAIN chain : Backs(n, s)
    BY DEF AInv, Backed
  <2>2. \A n \in DOMAIN chain : \A s : Backs(n, s) => Backs(n, s)'
    BY <1>1 DEF Backs, IsBundle
  <2>. QED BY <1>1, <2>1, <2>2 DEF Backed
<1>. QED BY <1>1, <1>2, <1>3, <1>4 DEF AInv

\* A request that nothing durable depends on yet.
LEMMA Moves ==
  ASSUME AInv, NEW p \in Replica, NEW r \in Active \cup {NoRequest}, r # NoRequest => Seen(r),
         chain' = chain, replies' = replies, release' \in [Replica -> Nat],
         req' = [req EXCEPT ![p] = r]
  PROVE  AInv'
<1>1. /\ req' \in [Replica -> Active \cup {NoRequest}]
      /\ \A q \in Replica : req'[q] = IF q = p THEN r ELSE req[q]
  BY DEF AInv, TypeOK
<1>2. \A q \in Replica : req'[q] = req[q] \/ req'[q] = NoRequest \/ Seen(req'[q])
  BY <1>1
<1>3. \A s \in replies' : s \in replies
  OBVIOUS
<1>. QED BY <1>1, <1>2, <1>3, Kept

\* A request in hand.
LEMMA InHand ==
  ASSUME AInv, NEW p \in Replica, req[p].phase # "idle"
  PROVE  req[p] \in Active /\ Seen(req[p]) /\ NoRequest \notin Active
BY DEF AInv, TypeOK, Checked, NoRequest, Active

LEMMA ArriveKeeps ==
  ASSUME AInv, NEW p \in Replica, NEW k \in Key, NEW a \in Payload, Arrive(p, k, a)
  PROVE  AInv'
<1>. DEFINE r == [phase |-> "verify", key |-> k, payload |-> a, output |-> Output(a, release[p]),
                  todo |-> Refs(a), verified |-> {}, counted |-> 0, intact |-> FALSE]
<1>1. Output(a, release[p]) \in Outputs /\ Refs(a) \in SUBSET Cited
  BY DEF AInv, TypeOK, Outputs, Cited
<1>2. r \in Active
  BY <1>1 DEF Active
<1>3. Seen(r)
  BY EntriesAre DEF Seen, AInv
<1>. HIDE DEF r
<1>4. req' = [req EXCEPT ![p] = r]
  BY DEF Arrive, r
<1>5. release' \in [Replica -> Nat]
  BY DEF Arrive, AInv, TypeOK
<1>. QED BY <1>2, <1>3, <1>4, <1>5, Moves DEF Arrive

LEMMA CheckRefKeeps ==
  ASSUME AInv, NEW p \in Replica, NEW e \in Cited, CheckRef(p, e)
  PROVE  AInv'
<1>. DEFINE r == [req[p] EXCEPT !.todo = @ \ {e},
                                !.verified = IF Resolves(e) THEN @ \cup {e} ELSE @]
<1>1. req[p] \in Active /\ Seen(req[p])
  BY InHand DEF CheckRef
<1>2. /\ r \in Active /\ r.counted = req[p].counted
      /\ r.verified = IF Resolves(e) THEN req[p].verified \cup {e} ELSE req[p].verified
  BY <1>1 DEF Active
<1>3. Resolves(e) => Receipted(e, Len(chain))
  BY Readings DEF Resolves, AInv
<1>4. Seen(r)
  BY <1>1, <1>2, <1>3 DEF Seen
<1>5. req' = [req EXCEPT ![p] = r]
  BY DEF CheckRef
<1>6. release' \in [Replica -> Nat]
  BY DEF CheckRef, AInv, TypeOK
<1>. HIDE DEF r
<1>. QED BY <1>2, <1>4, <1>5, <1>6, Moves DEF CheckRef

LEMMA ReadKeeps ==
  ASSUME AInv, NEW p \in Replica, ReadRows(p) \/ ReadHead(p)
  PROVE  AInv'
<1>1. req[p] \in Active /\ Seen(req[p])
  BY InHand DEF ReadRows, ReadHead
<1>2. Len(chain) \in Nat
  BY EntriesAre DEF AInv
<1>3. release' \in [Replica -> Nat] /\ chain' = chain /\ replies' = replies
  BY DEF ReadRows, ReadHead, AInv, TypeOK
<1>4. CASE ReadRows(p)
  <2>. DEFINE r == [req[p] EXCEPT !.phase = "head", !.counted = Len(chain)]
  <2>1. r \in Active /\ r.verified = req[p].verified /\ r.counted = Len(chain)
    BY <1>1, <1>2 DEF Active
  <2>2. Seen(r)
    BY <1>1, <1>2, <2>1 DEF Seen
  <2>3. req' = [req EXCEPT ![p] = r]
    BY <1>4 DEF ReadRows
  <2>. HIDE DEF r
  <2>. QED BY <1>3, <2>1, <2>2, <2>3, Moves
<1>5. CASE ReadHead(p)
  <2>. DEFINE r == [req[p] EXCEPT !.phase = "commit", !.intact = (Len(chain) = req[p].counted)]
  <2>1. r \in Active /\ r.verified = req[p].verified /\ r.counted = req[p].counted
    BY <1>1 DEF Active
  <2>2. Seen(r)
    BY <1>1, <2>1 DEF Seen
  <2>3. req' = [req EXCEPT ![p] = r]
    BY <1>5 DEF ReadHead
  <2>. HIDE DEF r
  <2>. QED BY <1>3, <2>1, <2>2, <2>3, Moves
<1>. QED BY <1>4, <1>5

LEMMA DropKeeps ==
  ASSUME AInv, NEW p \in Replica, Conflict(p) \/ VerificationFails(p) \/ Deploy(p)
  PROVE  AInv'
<1>1. release' \in [Replica -> Nat]
  BY DEF Conflict, VerificationFails, Deploy, AInv, TypeOK
<1>2. chain' = chain /\ replies' = replies /\ req' = [req EXCEPT ![p] = NoRequest]
  BY DEF Conflict, VerificationFails, Deploy
<1>. QED BY <1>1, <1>2, Moves

LEMMA IngestKeeps ==
  ASSUME AInv, NEW e \in Evidence, Ingest(e)
  PROVE  AInv'
<1>. DEFINE x == [kind |-> "evidence", ref |-> e]
<1>1. x \in EvidenceEntry /\ x.ref = e
  BY DEF EvidenceEntry
<1>2. ~Receipted(e, Len(chain))
  BY Readings DEF Ingest, AInv
<1>3. MayAdd(x)
  BY <1>1, <1>2 DEF MayAdd
<1>. HIDE DEF x
<1>4. chain' = Append(chain, x)
  BY DEF Ingest, x
<1>5. release' = release /\ req' = req /\ replies' = replies
  BY DEF Ingest
<1>. QED BY <1>3, <1>4, <1>5, Kept DEF AInv, TypeOK

\* A bundle that is committed tells what is so.
LEMMA BundleMayAdd ==
  ASSUME AInv, NEW r \in Active, Seen(r), Held(r.key) = {}
  PROVE  MayAdd(Bundle(r))
<1>1. /\ Recorded(r) \in Verification /\ Recorded(r).verified = r.verified
      /\ Recorded(r).counted = r.counted
      /\ Recorded(r).state = "VERIFIED_SCOPED" => r.verified = Refs(r.payload)
  BY DEF Recorded, Verification, Active
<1>2. Tells(Recorded(r), Len(chain), r.payload)
  BY <1>1 DEF Tells, Seen
<1>3. /\ Bundle(r) \in BundleEntry /\ Bundle(r).key = r.key /\ Bundle(r).payload = r.payload
      /\ Bundle(r).verification = Recorded(r)
  BY <1>1 DEF Bundle, BundleEntry, Active
<1>4. \A n \in DOMAIN chain : IsBundle(n) => chain[n].key # r.key
  BY Readings DEF AInv
<1>. QED BY <1>2, <1>3, <1>4 DEF MayAdd

\* Committing leaves a bundle under the key, which is the one that a reply would quote.
LEMMA Commits ==
  ASSUME AInv, NEW r \in Active, Seen(r), chain' = Committed(r)
  PROVE  /\ chain' = chain \/ \E x : MayAdd(x) /\ chain' = Append(chain, x)
         /\ \E n \in DOMAIN chain' : /\ (IsBundle(n))' /\ chain'[n] = Stored(r)
                                     /\ chain'[n].key = r.key /\ chain'[n] \in BundleEntry
<1>1. CASE Held(r.key) = {}
  <2>1. MayAdd(Bundle(r)) /\ chain' = Append(chain, Bundle(r)) /\ Stored(r) = Bundle(r)
    BY <1>1, BundleMayAdd DEF Committed, Stored
  <2>2. Len(chain) \in Nat /\ chain' \in Seq(Entry) /\ Len(chain') = Len(chain) + 1
    BY <2>1, Grown, EntriesAre DEF AInv
  <2>3. Len(chain) + 1 \in DOMAIN chain' /\ chain'[Len(chain) + 1] = Bundle(r)
    BY <2>1, <2>2, Grown
  <2>4. Bundle(r).kind = "analysis.completed" /\ Bundle(r).key = r.key
    BY DEF Bundle
  <2>5. Bundle(r) \in BundleEntry
    BY <2>1, <2>4 DEF MayAdd, EvidenceEntry
  <2>. QED BY <2>1, <2>3, <2>4, <2>5 DEF IsBundle
<1>2. CASE Held(r.key) # {}
  <2>1. chain' = chain /\ Stored(r) \in Held(r.key)
    BY <1>2 DEF Committed, Stored
  <2>2. PICK n \in DOMAIN chain : IsBundle(n) /\ chain[n] = Stored(r) /\ Stored(r).key = r.key
    BY <2>1, Readings DEF AInv
  <2>3. chain[n] \in BundleEntry
    BY <2>2, EntriesAre DEF AInv
  <2>. QED BY <2>1, <2>2, <2>3 DEF IsBundle
<1>. QED BY <1>1, <1>2
LEMMA AnswerKeeps ==
  ASSUME AInv, NEW p \in Replica, Commit(p) \/ Fail(p)
  PROVE  AInv'
<1>. DEFINE r == req[p]
<1>1. r \in Active /\ Seen(r) /\ \A b \in Held(r.key) : b.payload = r.payload
  BY InHand DEF Commit, Fail
<1>2. /\ release' \in [Replica -> Nat] /\ req' \in [Replica -> Active \cup {NoRequest}]
      /\ \A q \in Replica : req'[q] = req[q] \/ req'[q] = NoRequest
  BY DEF Commit, Fail, AInv, TypeOK
<1>. HIDE DEF r
<1>3. CASE Fail(p)
  <2>1. replies' = replies /\ (chain' = chain \/ chain' = Committed(r))
    BY <1>3 DEF Fail, r
  <2>. QED BY <1>1, <1>2, <2>1, Commits, Kept
<1>4. CASE Commit(p)
  <2>0. PICK s : s = [key |-> r.key, payload |-> r.payload, formulas |-> r.output,
                      trace |-> Stored(r).verification, receipt |-> Stored(r).output]
    OBVIOUS
  <2>1. chain' = Committed(r) /\ replies' = IF Same(r) THEN replies \cup {s} ELSE replies
    BY <1>4, <2>0 DEF Commit, r
  <2>2. PICK n \in DOMAIN chain' : /\ (IsBundle(n))' /\ chain'[n] = Stored(r)
                                   /\ chain'[n].key = r.key /\ chain'[n] \in BundleEntry
    BY <1>1, <2>1, Commits
  <2>3. Stored(r).payload = r.payload
    <3>1. CASE Held(r.key) = {}
      BY <3>1 DEF Stored, Bundle
    <3>2. CASE Held(r.key) # {}
      BY <1>1, <3>2 DEF Stored
    <3>. QED BY <3>1, <3>2
  <2>4. Same(r) => s \in Reply /\ Backs(n, s)'
    <3>1. ASSUME Same(r) PROVE s \in Reply
      BY <1>1, <2>0, <2>2, <3>1 DEF Same, Reply, Active, BundleEntry
    <3>2. ASSUME Same(r) PROVE Backs(n, s)'
      BY <2>0, <2>2, <2>3, <3>2 DEF Same, Backs
    <3>. QED BY <3>1, <3>2
  <2>5. \A x \in replies' : x \in replies \/ (x \in Reply /\ \E m \in DOMAIN chain' : Backs(m, x)')
    BY <2>1, <2>2, <2>4
  <2>. QED BY <1>1, <1>2, <2>1, <2>5, Commits, Kept
<1>. QED BY <1>3, <1>4

LEMMA InitHolds == AnalysisInit => AInv
<1>. SUFFICES ASSUME AnalysisInit PROVE AInv
  OBVIOUS
<1>1. chain = <<>> /\ DOMAIN chain = {} /\ replies = {} /\ \A p \in Replica : req[p] = NoRequest
  BY DEF AnalysisInit
<1>. QED BY <1>1 DEF AnalysisInit, AInv, TypeOK, KeysOnce, RefsOnce, Earned, Checked, Backed

\* The inductive invariant of the analysis route, from the moment a request reads its evidence to
\* the bundle and the reply (verify_boundary, verify_chain, append_analysis_bundle).
THEOREM AnalysisInvariance == AnalysisSpec => []AInv
<1>1. AInv /\ [AnalysisNext]_analysisVars => AInv'
  <2>. SUFFICES ASSUME AInv, [AnalysisNext]_analysisVars PROVE AInv'
    OBVIOUS
  <2>1. CASE UNCHANGED analysisVars
    BY <2>1 DEF analysisVars, AInv, TypeOK, KeysOnce, RefsOnce, Earned, Checked, Backed, Seen, Backs, Tells,
                Receipted, IsBundle
  <2>2. ASSUME NEW p \in Replica, NEW k \in Key, NEW a \in Payload, Arrive(p, k, a) PROVE AInv'
    BY <2>2, ArriveKeeps
  <2>3. ASSUME NEW p \in Replica, NEW e \in Cited, CheckRef(p, e) PROVE AInv'
    BY <2>3, CheckRefKeeps
  <2>4. ASSUME NEW p \in Replica, ReadRows(p) \/ ReadHead(p) PROVE AInv'
    BY <2>4, ReadKeeps
  <2>5. ASSUME NEW p \in Replica, Conflict(p) \/ VerificationFails(p) \/ Deploy(p) PROVE AInv'
    BY <2>5, DropKeeps
  <2>6. ASSUME NEW p \in Replica, Commit(p) \/ Fail(p) PROVE AInv'
    BY <2>6, AnswerKeeps
  <2>7. ASSUME NEW e \in Evidence, Ingest(e) PROVE AInv'
    BY <2>7, IngestKeeps
  <2>. QED BY <2>1, <2>2, <2>3, <2>4, <2>5, <2>6, <2>7 DEF AnalysisNext, Serve, Others, Cited
<1>. QED BY InitHolds, <1>1, PTL DEF AnalysisSpec

-----------------------------------------------------------------------------
(* What follows. *)

LEMMA EntriesDiffer ==
  ASSUME AInv, NEW i \in DOMAIN chain, NEW j \in DOMAIN chain, chain[i] = chain[j]
  PROVE  i = j
BY DEF AInv, KeysOnce, RefsOnce, IsBundle

\* The entries before a bundle are as many as its place says.
LEMMA BeforeBundle ==
  ASSUME AInv, NEW n \in DOMAIN chain
  PROVE  /\ Before(chain[n]) = {chain[j] : j \in 1 .. n - 1}
         /\ n \in Nat \ {0} /\ Cardinality(Before(chain[n])) = n - 1
<1>1. Len(chain) \in Nat /\ DOMAIN chain = 1 .. Len(chain) /\ n \in Nat \ {0}
  BY EntriesAre DEF AInv
<1>2. \A j \in 1 .. n - 1 : j \in DOMAIN chain /\ j < n
  BY <1>1
<1>3. \A j \in DOMAIN chain : j < n => j \in 1 .. n - 1
  BY <1>1
<1>4. Before(chain[n]) = {chain[j] : j \in 1 .. n - 1}
  BY <1>2, <1>3, EntriesDiffer DEF Before
<1>. DEFINE f == [j \in 1 .. n - 1 |-> chain[j]]
<1>5. f \in Bijection(1 .. n - 1, Before(chain[n]))
  BY <1>2, <1>4, EntriesDiffer DEF Bijection, Injection, Surjection, IsInjective
<1>6. IsFiniteSet(1 .. n - 1) /\ Cardinality(1 .. n - 1) = n - 1
  <2>1. 1 \in Int /\ n - 1 \in Int
    BY <1>1
  <2>2. Cardinality(1 .. n - 1) = IF 1 > n - 1 THEN 0 ELSE n - 1 - 1 + 1
    BY <2>1, FS_Interval
  <2>. QED BY <1>1, <2>1, <2>2, FS_Interval
<1>7. Cardinality(Before(chain[n])) = Cardinality(1 .. n - 1)
  BY <1>5, <1>6, FS_Bijection DEF ExistsBijection
<1>. QED BY <1>1, <1>4, <1>6, <1>7

\* What POST /analyze calls verified was durable before the bundle that says so, though it was read
\* in earlier transactions; and whoever is answered 200 holds the one bundle of its key, of
\* whichever release and after however many retries.
THEOREM AnalysesStayHonest == AnalysisSpec => []AnalysesHold
<1>1. ASSUME AInv PROVE VerifiedIsDurable
  <2>1. SUFFICES ASSUME NEW b \in Bundles
                 PROVE  /\ b.verification.verified
                             \subseteq {x.ref : x \in {y \in Before(b) : y.kind = "evidence"}}
                        /\ b.verification.state = "VERIFIED_SCOPED"
                             => b.verification.verified = Refs(b.payload)
                        /\ b.verification.counted <= Cardinality(Before(b))
    BY DEF VerifiedIsDurable
  <2>2. PICK n \in DOMAIN chain : IsBundle(n) /\ chain[n] = b
    BY <1>1, Readings DEF AInv
  <2>3. Tells(b.verification, n - 1, b.payload)
    BY <1>1, <2>2 DEF AInv, Earned
  <2>4. Before(b) = {chain[j] : j \in 1 .. n - 1} /\ Cardinality(Before(b)) = n - 1
    BY <1>1, <2>2, BeforeBundle
  <2>5. \A e \in b.verification.verified :
          \E y \in Before(b) : y.kind = "evidence" /\ y.ref = e
    BY <2>3, <2>4 DEF Tells, Receipted
  <2>. QED BY <2>3, <2>4, <2>5 DEF Tells
<1>2. ASSUME AInv PROVE RepliesOfOneBundle
  <2>1. SUFFICES ASSUME NEW s \in replies
                 PROVE  \E b \in Bundles :
                          /\ Held(s.key) = {b} /\ s.payload = b.payload
                          /\ s.formulas = b.output /\ s.receipt = b.output /\ s.trace = b.verification
    BY DEF RepliesOfOneBundle
  <2>2. PICK n \in DOMAIN chain : Backs(n, s)
    BY <1>2 DEF AInv, Backed
  <2>3. IsBundle(n) /\ chain[n].key = s.key
    BY <2>2 DEF Backs
  <2>4. chain[n] \in Bundles
    BY <1>2, <2>3, Readings DEF AInv
  <2>5. Held(s.key) = {chain[n]}
    BY <1>2, <2>3, Readings DEF AInv, KeysOnce
  <2>. QED BY <2>2, <2>4, <2>5 DEF Backs
<1>3. AInv => AnalysesHold
  BY <1>1, <1>2 DEF AnalysesHold
<1>. QED BY AnalysisInvariance, <1>3, PTL

-----------------------------------------------------------------------------
(* SessionLedger.  An id says whose it is and of what (Tied), so a row that was there already    *)
(* under a receipt's id is of the same session and payload, and ids are there once (IdsOnce): an *)
(* append that is ignored has lost nothing (InHands).  Instants only pass (Dated).                *)

Scopes == {Placeholder} \cup {SessionOf[c] : c \in Caller}
Sources == {"github-actions", "analysis"}
Contents == Content \cup Nat
IdType == {"minted", "rebound"} \X Sources \X Scopes \X Contents \X BOOLEAN \X Nat

ReceiptType ==
  [id : IdType, scope : Scopes, kind : Sources, payload : Contents, url : BOOLEAN, at : Nat]
LedgerRow ==
  [id : IdType, scope : Scopes, kind : {"analysis", "journey", "source"}, payload : Contents,
   url : BOOLEAN, at : Nat, summary : Summaries("analysis")]

LedgerTyped ==
  /\ rows \subseteq LedgerRow
  /\ now \in Nat \ {0} /\ published \in Seq(Nat) /\ Len(published) > 0
  /\ stage \in [Caller -> {"idle", "fetched", "held", "appended"}]
  /\ fetched \in [Caller -> Nat]
  /\ minted \in [Caller -> ReceiptType \cup {NoReceipt}]
  /\ \A c \in Caller : stage[c] \in {"held", "appended"} => minted[c] \in ReceiptType

\* An id says whose it is and of what; without a source it says nothing else.
Tied(r) ==
  /\ r.id[3] = r.scope /\ r.id[4] = r.payload /\ r.id[5] = r.url
  /\ ~r.url => r.id = Id("minted", "analysis", r.scope, r.payload, FALSE, 0)

IdsOnce == \A r, q \in rows : r.id = q.id => r = q

\* The payload of an observation is a run list, published by the instant it bears.
Later(payload, at) == payload \in DOMAIN published /\ published[payload] <= at

Dated ==
  /\ \A i \in DOMAIN published : published[i] <= now
  /\ \A c \in Caller : stage[c] = "fetched" => fetched[c] \in DOMAIN published
  /\ \A r \in rows : r.kind = "source" => Later(r.payload, r.at)

\* A receipt in hand: one without a source is of its caller's session from the start.
WellMinted(r) ==
  /\ Tied(r)
  /\ r.scope = Placeholder => r.url
  /\ r.kind = "github-actions" => r.at > 0 /\ Later(r.payload, r.at)

IsStored(c) ==
  \E r \in OfSession(SessionOf[c]) : r.id = minted[c].id /\ r.payload = minted[c].payload

InHands ==
  \A c \in Caller :
    /\ stage[c] \in {"held", "appended"} => WellMinted(minted[c])
    /\ stage[c] = "appended" => IsStored(c)

LInv ==
  /\ LedgerTyped /\ IdsOnce /\ Dated /\ InHands /\ \A r \in rows : Tied(r)
  /\ AppendsStay /\ ReadingsStay

-----------------------------------------------------------------------------

\* A step that leaves the table and the lists may change one caller's stage and receipt.
LEMMA OthersKeepHands ==
  ASSUME LInv, rows \subseteq rows', published \in Seq(Nat), published' = published,
         NEW c \in Caller, stage'[c] = stage[c], minted'[c] = minted[c]
  PROVE  /\ stage[c] \in {"held", "appended"} => WellMinted(minted[c])'
         /\ stage[c] = "appended" => IsStored(c)'
<1>1. stage[c] \in {"held", "appended"} => WellMinted(minted[c])
  BY DEF LInv, InHands
<1>2. stage[c] = "appended" => IsStored(c)
  BY DEF LInv, InHands
<1>. QED BY <1>1, <1>2 DEF WellMinted, Tied, Id, Later, IsStored, OfSession

LEMMA OneMoves ==
  ASSUME LInv, rows' = rows, published' = published, now' = now, acked' = acked, shown' = shown,
         NEW c \in Caller, NEW s \in {"idle", "fetched", "held"},
         NEW r \in ReceiptType \cup {NoReceipt}, NEW n \in Nat,
         stage' = [stage EXCEPT ![c] = s], minted' = [minted EXCEPT ![c] = r],
         fetched' = [fetched EXCEPT ![c] = n],
         s = "held" => r \in ReceiptType /\ WellMinted(r),
         s = "fetched" => n \in DOMAIN published
  PROVE  LInv'
<1>1. LedgerTyped'
  BY DEF LInv, LedgerTyped
<1>2. Dated'
  BY DEF LInv, LedgerTyped, Dated, Later
<1>3. InHands'
  <2>1. SUFFICES ASSUME NEW d \in Caller
                 PROVE  /\ stage'[d] \in {"held", "appended"} => WellMinted(minted[d])'
                        /\ stage'[d] = "appended" => IsStored(d)'
    BY DEF InHands
  <2>2. CASE d = c
    <3>1. stage'[d] = s /\ minted'[d] = r
      BY <2>2 DEF LInv, LedgerTyped
    <3>. QED BY <3>1 DEF WellMinted, Tied, Id, Later
  <2>3. CASE d # c
    <3>1. stage'[d] = stage[d] /\ minted'[d] = minted[d]
      BY <2>3 DEF LInv, LedgerTyped
    <3>. QED BY <3>1, OthersKeepHands DEF LInv, LedgerTyped
  <2>. QED BY <2>2, <2>3
<1>4. IdsOnce' /\ (\A q \in rows : Tied(q))' /\ AppendsStay' /\ ReadingsStay'
  BY DEF LInv, IdsOnce, Tied, Id, AppendsStay, ReadingsStay, OfSession
<1>. QED BY <1>1, <1>2, <1>3, <1>4 DEF LInv

LEMMA MintedIsSound ==
  ASSUME LInv, NEW scope \in Scopes, NEW sort \in Sources, NEW payload \in Contents,
         NEW url \in BOOLEAN,
         ~url => sort = "analysis",
         sort = "github-actions" => url /\ payload \in DOMAIN published,
         scope = Placeholder => url
  PROVE  /\ Minted(scope, sort, payload, url) \in ReceiptType
         /\ WellMinted(Minted(scope, sort, payload, url))
<1>. DEFINE r == Minted(scope, sort, payload, url)
<1>1. now \in Nat \ {0} /\ \A i \in DOMAIN published : published[i] <= now
  BY DEF LInv, LedgerTyped, Dated
<1>2. r \in ReceiptType
  BY <1>1 DEF Minted, Id, ReceiptType, IdType
<1>3. Tied(r)
  BY DEF Minted, Id, Tied
<1>4. WellMinted(r)
  BY <1>1, <1>3 DEF WellMinted, Minted, Later
<1>. QED BY <1>2, <1>4

LEMMA ReboundIsSound ==
  ASSUME LInv, NEW r \in ReceiptType, WellMinted(r), r.url, NEW scope \in Scopes
  PROVE  Rebound(r, scope) \in ReceiptType /\ WellMinted(Rebound(r, scope))
<1>. DEFINE q == Rebound(r, scope)
<1>1. /\ q.id = Id("rebound", r.kind, scope, r.payload, r.url, r.at)
      /\ q.scope = scope /\ q.kind = r.kind /\ q.payload = r.payload /\ q.url = r.url /\ q.at = r.at
  BY DEF Rebound, ReceiptType
<1>2. q \in ReceiptType
  BY DEF Rebound, ReceiptType, IdType, Id
<1>. QED BY <1>1, <1>2 DEF WellMinted, Tied, Id

LEMMA AppendKeeps ==
  ASSUME LInv, NEW c \in Caller, NEW sort \in {"analysis", "journey", "source"},
         NEW summary \in Summaries(sort), AppendRow(c, sort, summary)
  PROVE  LInv'
<1>. DEFINE x == RowOf(minted[c], sort, summary)
<1>1. minted[c] \in ReceiptType /\ WellMinted(minted[c]) /\ minted[c].scope = SessionOf[c]
  BY DEF AppendRow, LInv, LedgerTyped, InHands
<1>2. /\ x.id = minted[c].id /\ x.scope = SessionOf[c] /\ x.kind = sort
      /\ x.payload = minted[c].payload /\ x.url = minted[c].url
      /\ x.at = IF minted[c].at = 0 THEN now ELSE minted[c].at
  BY <1>1 DEF RowOf
<1>3. summary \in Summaries("analysis")
  BY DEF Summaries
<1>4. x \in LedgerRow
  BY <1>1, <1>3 DEF RowOf, LedgerRow, ReceiptType, LInv, LedgerTyped
<1>5. Tied(x)
  BY <1>1, <1>2 DEF WellMinted, Tied
<1>6. x.kind = "source" => Later(x.payload, x.at)
  BY <1>1, <1>2 DEF AppendRow, WellMinted, ReceiptType
<1>. HIDE DEF x
<1>7. /\ rows' = (IF \E r \in rows : r.id = x.id THEN rows ELSE rows \cup {x})
      /\ published' = published /\ now' = now /\ fetched' = fetched /\ minted' = minted
      /\ acked' = acked /\ shown' = shown /\ stage' = [stage EXCEPT ![c] = "appended"]
  BY DEF AppendRow, Inserted, Idle, x
<1>8. \E r \in rows' : r.id = x.id /\ r.scope = x.scope /\ r.payload = x.payload
  <2>1. CASE \E r \in rows : r.id = x.id
    BY <1>5, <1>7, <2>1 DEF LInv, Tied
  <2>2. CASE ~\E r \in rows : r.id = x.id
    BY <1>7, <2>2
  <2>. QED BY <2>1, <2>2
<1>9. LedgerTyped'
  BY <1>1, <1>4, <1>7 DEF LInv, LedgerTyped
<1>10. IdsOnce'
  BY <1>7 DEF LInv, IdsOnce
<1>11. Dated'
  BY <1>6, <1>7 DEF LInv, LedgerTyped, Dated, Later
<1>12. InHands'
  <2>1. SUFFICES ASSUME NEW d \in Caller
                 PROVE  /\ stage'[d] \in {"held", "appended"} => WellMinted(minted[d])'
                        /\ stage'[d] = "appended" => IsStored(d)'
    BY DEF InHands
  <2>2. CASE d = c
    <3>1. WellMinted(minted[c])'
      BY <1>1, <1>7 DEF WellMinted, Tied, Id, Later
    <3>2. IsStored(c)'
      BY <1>1, <1>2, <1>7, <1>8 DEF IsStored, OfSession
    <3>. QED BY <2>2, <3>1, <3>2
  <2>3. CASE d # c
    <3>1. stage'[d] = stage[d] /\ minted'[d] = minted[d] /\ rows \subseteq rows'
      BY <1>7, <2>3 DEF LInv, LedgerTyped
    <3>. QED BY <1>7, <3>1, OthersKeepHands DEF LInv, LedgerTyped
  <2>. QED BY <2>2, <2>3
<1>13. (\A q \in rows : Tied(q))'
  BY <1>5, <1>7 DEF LInv, Tied, Id
<1>14. AppendsStay' /\ ReadingsStay'
  BY <1>7 DEF LInv, AppendsStay, ReadingsStay, OfSession
<1>. QED BY <1>9, <1>10, <1>11, <1>12, <1>13, <1>14 DEF LInv

\* What is shown is of the session that asked.
LEMMA CitesOwn ==
  ASSUME NEW S, NEW n, NEW records \in [1 .. n -> S], NEW topic,
         NEW cited \in Citations(topic, records)
  PROVE  cited \subseteq S
<1>1. \A places : places \subseteq DOMAIN records => At(records, places) \subseteq S
  BY DEF At
<1>2. \A kinds : OfKind(records, kinds) \subseteq DOMAIN records
  BY DEF OfKind
<1>3. \A places : places \subseteq DOMAIN records => First(records, places) \subseteq S
  BY <1>1 DEF First
<1>4. At(records, OfKind(records, {"analysis", "journey"})) \subseteq S
  BY <1>1, <1>2
<1>5. Hottest(records) \subseteq S
  BY <1>1, <1>2 DEF Hottest
<1>6. First(records, {i \in OfKind(records, {"analysis"}) : records[i].summary.agents}) \subseteq S
  BY <1>2, <1>3
<1>7. First(records, OfKind(records, {"journey"})) \subseteq S
      /\ First(records, OfKind(records, {"source"})) \subseteq S
  BY <1>2, <1>3
<1>8. At(records, {i \in DOMAIN records : i <= 5}) \subseteq S
  BY <1>1
<1>9. CASE topic \in {"impact", "agent", "journey", "source"}
  BY <1>4, <1>6, <1>7, <1>9 DEF Citations
<1>10. CASE topic = "service"
  <2>1. cited = {} \/ \E r \in Hottest(records) : cited = {r}
    BY <1>10 DEF Citations
  <2>. QED BY <1>5, <2>1
<1>11. CASE topic \notin {"impact", "service", "agent", "journey", "source"}
  BY <1>8, <1>11 DEF Citations
<1>. QED BY <1>9, <1>10, <1>11

LEMMA ReadKeepsLedger ==
  ASSUME LInv, UNCHANGED <<rows, now, published, stage, fetched, minted, acked>>,
         shown'.rows \subseteq OfSession(shown'.session)
  PROVE  LInv'
<1>1. LedgerTyped' /\ IdsOnce' /\ Dated'
  BY DEF LInv, LedgerTyped, IdsOnce, Dated, Later
<1>2. InHands'
  BY OthersKeepHands DEF LInv, LedgerTyped, InHands
<1>3. (\A q \in rows : Tied(q))' /\ AppendsStay' /\ ReadingsStay'
  BY DEF LInv, Tied, Id, AppendsStay, ReadingsStay, OfSession
<1>. QED BY <1>1, <1>2, <1>3 DEF LInv

LEMMA ShowKeeps ==
  ASSUME LInv, NEW scope, Get(scope) \/ \E topic \in Topics : Ask(scope, topic)
  PROVE  LInv'
<1>1. UNCHANGED <<rows, now, published, stage, fetched, minted, acked>>
  BY DEF Get, Ask, Idle
<1>2. CASE Get(scope)
  BY <1>1, <1>2, ReadKeepsLedger DEF Get
<1>3. ASSUME NEW topic \in Topics, Ask(scope, topic) PROVE LInv'
  <2>0. PICK records \in Recent(scope) :
          \E cited \in Citations(topic, records) :
            shown' = [session |-> scope, rows |-> cited]
    BY <1>3 DEF Ask
  <2>1. PICK cited \in Citations(topic, records) :
          shown' = [session |-> scope, rows |-> cited]
    BY <2>0
  <2>. DEFINE mine == OfSession(scope)
              size == IF Cardinality(mine) < Window THEN Cardinality(mine) ELSE Window
  <2>2. records \in [1 .. size -> mine]
    BY <2>1 DEF Recent
  <2>. QED BY <1>1, <2>1, <2>2, CitesOwn, ReadKeepsLedger
<1>. QED BY <1>2, <1>3

LEMMA EndsKeep ==
  ASSUME LInv, ProcessEnds
  PROVE  LInv'
<1>1. /\ stage' = [c \in Caller |-> "idle"] /\ minted' = [c \in Caller |-> NoReceipt]
      /\ fetched' = [c \in Caller |-> 0]
      /\ UNCHANGED <<rows, now, published, acked, shown>>
  BY DEF ProcessEnds, Idle
<1>2. LedgerTyped'
  BY <1>1 DEF LInv, LedgerTyped
<1>3. Dated' /\ InHands'
  BY <1>1 DEF LInv, Dated, InHands, Later
<1>4. IdsOnce' /\ (\A q \in rows : Tied(q))' /\ AppendsStay' /\ ReadingsStay'
  BY <1>1 DEF LInv, IdsOnce, Tied, Id, AppendsStay, ReadingsStay, OfSession
<1>. QED BY <1>2, <1>3, <1>4 DEF LInv

\* The clock goes on, and lists are published at its present instant.
LEMMA TimeKeeps ==
  ASSUME LInv, Tick \/ Publish
  PROVE  LInv'
<1>1. /\ now' \in Nat \ {0} /\ now' >= now /\ published' \in Seq(Nat) /\ Len(published') > 0
      /\ \A i \in DOMAIN published : i \in DOMAIN published' /\ published'[i] = published[i]
      /\ \A i \in DOMAIN published' : published'[i] <= now'
      /\ UNCHANGED <<rows, stage, fetched, minted, acked, shown>>
  <2>0. /\ now \in Nat \ {0} /\ published \in Seq(Nat) /\ Len(published) > 0
        /\ \A i \in DOMAIN published : published[i] <= now
        /\ \A i \in DOMAIN published : published[i] \in Nat
    BY DEF LInv, LedgerTyped, Dated
  <2>1. CASE Tick
    BY <2>0, <2>1 DEF Tick
  <2>2. CASE Publish
    BY <2>0, <2>2 DEF Publish
  <2>. QED BY <2>1, <2>2
<1>2. LedgerTyped'
  BY <1>1 DEF LInv, LedgerTyped
<1>3. Dated'
  BY <1>1 DEF LInv, Dated, Later
<1>4. InHands'
  BY <1>1 DEF LInv, InHands, WellMinted, Tied, Id, Later, IsStored, OfSession
<1>5. IdsOnce' /\ (\A q \in rows : Tied(q))' /\ AppendsStay' /\ ReadingsStay'
  BY <1>1 DEF LInv, IdsOnce, Tied, Id, AppendsStay, ReadingsStay, OfSession
<1>. QED BY <1>2, <1>3, <1>4, <1>5 DEF LInv

LEMMA ReturnKeeps ==
  ASSUME LInv, NEW c \in Caller, Return(c)
  PROVE  LInv'
<1>1. /\ acked' = acked \cup {[session |-> SessionOf[c], id |-> minted[c].id,
                               payload |-> minted[c].payload]}
      /\ minted' = [minted EXCEPT ![c] = NoReceipt] /\ stage' = [stage EXCEPT ![c] = "idle"]
      /\ UNCHANGED <<rows, now, published, fetched, shown>> /\ IsStored(c)
  BY DEF Return, Idle, LInv, InHands
<1>2. LedgerTyped'
  BY <1>1 DEF LInv, LedgerTyped
<1>3. Dated'
  BY <1>1 DEF LInv, LedgerTyped, Dated, Later
<1>4. InHands'
  <2>1. \A d \in Caller : d = c \/ (stage'[d] = stage[d] /\ minted'[d] = minted[d])
    BY <1>1 DEF LInv, LedgerTyped
  <2>2. stage'[c] = "idle"
    BY <1>1 DEF LInv, LedgerTyped
  <2>. QED BY <1>1, <2>1, <2>2, OthersKeepHands DEF InHands, LInv, LedgerTyped
<1>5. AppendsStay'
  BY <1>1 DEF LInv, AppendsStay, IsStored, OfSession
<1>6. IdsOnce' /\ (\A q \in rows : Tied(q))' /\ ReadingsStay'
  BY <1>1 DEF LInv, IdsOnce, Tied, Id, ReadingsStay, OfSession
<1>. QED BY <1>2, <1>3, <1>4, <1>5, <1>6 DEF LInv

LEMMA MintKeeps ==
  ASSUME LInv, NEW c \in Caller,
         \/ Fetch(c) \/ Observe(c) \/ Rebind(c)
         \/ \E payload \in Content, url \in BOOLEAN : Analyze(c, payload, url)
  PROVE  LInv'
<1>1. CASE Fetch(c)
  <2>1. minted[c] \in ReceiptType \cup {NoReceipt} /\ minted' = [minted EXCEPT ![c] = minted[c]]
    BY <1>1 DEF Fetch, LInv, LedgerTyped
  <2>2. Len(published) \in Nat /\ Len(published) \in DOMAIN published
    BY DEF LInv, LedgerTyped
  <2>. QED BY <1>1, <2>1, <2>2, OneMoves DEF Fetch
<1>2. CASE Observe(c)
  <2>. DEFINE r == Minted(Placeholder, "github-actions", fetched[c], TRUE)
  <2>1. fetched[c] \in DOMAIN published /\ fetched[c] \in Nat
    BY <1>2 DEF Observe, LInv, LedgerTyped, Dated
  <2>2. r \in ReceiptType /\ WellMinted(r)
    BY <2>1, MintedIsSound DEF Scopes, Sources, Contents
  <2>. HIDE DEF r
  <2>3. minted' = [minted EXCEPT ![c] = r] /\ stage' = [stage EXCEPT ![c] = "held"]
        /\ fetched' = [fetched EXCEPT ![c] = 0]
        /\ UNCHANGED <<rows, published, now, acked, shown>>
    BY <1>2 DEF Observe, Idle, r
  <2>. QED BY <2>2, <2>3, OneMoves
<1>3. CASE Rebind(c)
  <2>. DEFINE r == Rebound(minted[c], SessionOf[c])
  <2>1. minted[c] \in ReceiptType /\ WellMinted(minted[c]) /\ minted[c].url
    BY <1>3 DEF Rebind, LInv, LedgerTyped, InHands, WellMinted
  <2>2. r \in ReceiptType /\ WellMinted(r)
    BY <2>1, ReboundIsSound DEF Scopes
  <2>. HIDE DEF r
  <2>3. minted' = [minted EXCEPT ![c] = r] /\ stage' = [stage EXCEPT ![c] = "held"]
        /\ fetched' = [fetched EXCEPT ![c] = fetched[c]] /\ fetched[c] \in Nat
        /\ UNCHANGED <<rows, published, now, acked, shown>>
    BY <1>3 DEF Rebind, Idle, r, LInv, LedgerTyped
  <2>. QED BY <2>2, <2>3, OneMoves
<1>4. ASSUME NEW payload \in Content, NEW url \in BOOLEAN, Analyze(c, payload, url) PROVE LInv'
  <2>. DEFINE r == Minted(SessionOf[c], "analysis", payload, url)
  <2>1. r \in ReceiptType /\ WellMinted(r)
    BY MintedIsSound, SessionsAssumption DEF Scopes, Sources, Contents
  <2>. HIDE DEF r
  <2>2. minted' = [minted EXCEPT ![c] = r] /\ stage' = [stage EXCEPT ![c] = "held"]
        /\ fetched' = [fetched EXCEPT ![c] = fetched[c]] /\ fetched[c] \in Nat
        /\ UNCHANGED <<rows, published, now, acked, shown>>
    BY <1>4 DEF Analyze, Idle, r, LInv, LedgerTyped
  <2>. QED BY <2>1, <2>2, OneMoves
<1>. QED BY <1>1, <1>2, <1>3, <1>4

\* The table of SessionLedger keeps ids once, each telling whose row it is, and every receipt in
\* hand is sound whatever other callers append and whenever the process ends (append, mint and
\* rebind_receipt_scope of lyte_engine/memory.py).
THEOREM LedgerInvariance == SessionSpec => []LInv
<1>1. SessionInit => LInv
  <2>1. SUFFICES ASSUME SessionInit PROVE LInv
    OBVIOUS
  <2>2. LedgerTyped
    BY <2>1 DEF SessionInit, LedgerTyped
  <2>3. IdsOnce /\ InHands /\ (\A r \in rows : Tied(r)) /\ AppendsStay /\ ReadingsStay
    BY <2>1 DEF SessionInit, IdsOnce, InHands, AppendsStay, ReadingsStay
  <2>4. Dated
    <3>1. DOMAIN published = {1} /\ published[1] = 1 /\ now = 1 /\ rows = {}
      BY <2>1 DEF SessionInit
    <3>2. \A c \in Caller : stage[c] # "fetched"
      BY <2>1 DEF SessionInit
    <3>. QED BY <3>1, <3>2 DEF Dated
  <2>. QED BY <2>2, <2>3, <2>4 DEF LInv
<1>2. LInv /\ [SessionNext]_sessionVars => LInv'
  <2>. SUFFICES ASSUME LInv, [SessionNext]_sessionVars PROVE LInv'
    OBVIOUS
  <2>1. CASE UNCHANGED sessionVars
    BY <2>1, ReadKeepsLedger DEF sessionVars, LInv, ReadingsStay
  <2>2. CASE Tick \/ Publish \/ ProcessEnds
    BY <2>2, TimeKeeps, EndsKeep
  <2>3. ASSUME NEW c \in Caller,
               \/ Fetch(c) \/ Observe(c) \/ Rebind(c)
               \/ \E payload \in Content, url \in BOOLEAN : Analyze(c, payload, url)
        PROVE  LInv'
    BY <2>3, MintKeeps
  <2>4. ASSUME NEW c \in Caller, Return(c) PROVE LInv'
    BY <2>4, ReturnKeeps
  <2>5. ASSUME NEW c \in Caller, NEW sort \in {"analysis", "journey", "source"},
               NEW summary \in Summaries(sort), AppendRow(c, sort, summary)
        PROVE  LInv'
    BY <2>5, AppendKeeps
  <2>6. ASSUME NEW scope, Get(scope) \/ \E topic \in Topics : Ask(scope, topic) PROVE LInv'
    BY <2>6, ShowKeeps
  <2>. QED BY <2>1, <2>2, <2>3, <2>4, <2>5, <2>6 DEF SessionNext
<1>. QED BY <1>1, <1>2, PTL DEF SessionSpec

\* What append returned for stays in its caller's session with its payload, what recent, get and
\* answer_question show is of the session that asked, a source row is not older than what it
\* records and what names no source is in a session once (INSERT OR IGNORE on the receipt id).
THEOREM SessionsStaySound == SessionSpec => []SessionsHold
<1>1. ASSUME LInv PROVE RowsSound
  <2>1. \A r \in rows : r.kind = "source" => published[r.payload] <= r.at
    BY <1>1 DEF LInv, Dated, Later
  <2>2. ASSUME NEW r \in rows, NEW q \in rows, ~r.url, ~q.url, r.scope = q.scope,
               r.payload = q.payload
        PROVE  r = q
    BY <1>1, <2>2 DEF LInv, Tied, IdsOnce
  <2>. QED BY <2>1, <2>2 DEF RowsSound
<1>2. LInv => SessionsHold
  BY <1>1 DEF LInv, SessionsHold
<1>. QED BY LedgerInvariance, <1>2, PTL

-----------------------------------------------------------------------------
(* SchemaReadiness.  The version row is written last and, on SQLite, no statement of an upgrade  *)
(* runs before those in front of it (Upgrading), so a row at the head vouches for every table    *)
(* and guard until a downgrade begins.  A request has lived through what it will answer (Lived): *)
(* it found every table, and whoever writes the row after that finds them all still there.       *)

ReadinessType == {"none", "MISSING_REQUIRED_TABLES", "MISSING_MIGRATION_REVISION", "STALE_MIGRATION_REVISION",
          "READY_MIGRATED", "READY_LOCAL_SCHEMA", "UNAVAILABLE"}
Revisions == {{}, {HeadRevision}, {Foreign}}
Migrations == [op : {"none", "upgrade", "downgrade"}, at : Nat]
FactNames == {"head", "guarded", "local", "downgraded"}

ViewType == [tables : SUBSET Tables, versioned : BOOLEAN, revision : Revisions]

DatabaseTyped ==
  /\ tables \subseteq Tables /\ guards \subseteq Guards
  /\ versioned \in BOOLEAN /\ revision \in Revisions
  /\ production \in BOOLEAN /\ downgraded \in BOOLEAN
  /\ migration \in Migrations
RequestsTyped ==
  /\ activity \in [AppProcess -> {"down", "creating", "up", "listed", "versions read"}]
  /\ missing \in [AppProcess -> SUBSET Tables]
  /\ present \in [AppProcess -> ViewType]
  /\ seen \in [AppProcess -> SUBSET FactNames]
  /\ readiness \in [AppProcess -> ReadinessType]

\* An upgrade has made what its statements so far make, and has not given the revision.
Upgrading ==
  migration.op = "upgrade" =>
    /\ ~downgraded /\ revision = {} /\ dialect = "sqlite" /\ migration.at > 0
    /\ \A n \in 1 .. migration.at - 1 : Exists(n)
Downgrading == migration.op = "downgrade" => downgraded /\ dialect = "sqlite"

\* A request has lived through a whole schema at the head, with its guards or in a downgrade.
Vouched(p) == "head" \in seen[p] /\ {"guarded", "downgraded"} \cap seen[p] # {}

\* ReadyWasTrue of one process.
Truthful(p) ==
  /\ readiness[p] = "READY_MIGRATED" => Vouched(p)
  /\ readiness[p] = "READY_LOCAL_SCHEMA" => "local" \in seen[p] /\ ~production

\* What a request that found every table knows from the revision that it reads, or will read.
Lived(p) ==
  activity[p] \in InRequest /\ present[p].tables = Tables =>
    /\ activity[p] = "listed" /\ revision = {HeadRevision} => Vouched(p)
    /\ activity[p] = "versions read" /\ present[p].revision = {HeadRevision} => Vouched(p)
    /\ ~present[p].versioned => "local" \in seen[p]

DatabaseInv == DatabaseTyped /\ Upgrading /\ Downgrading /\ HeadIsWhole
SchemaInv == DatabaseInv /\ RequestsTyped /\ \A p \in AppProcess : Truthful(p) /\ Lived(p)

-----------------------------------------------------------------------------

LEMMA Lengths ==
  /\ Len(TableOrder) \in Nat /\ Len(Immutable) \in Nat
  /\ UpgradeLength \in Nat /\ StampAt = UpgradeLength + 1
  /\ UpgradeLength = Len(TableOrder) + Len(Immutable)
  /\ DOMAIN TableOrder = 1 .. Len(TableOrder) /\ DOMAIN Immutable = 1 .. Len(Immutable)
  /\ \A n \in DOMAIN TableOrder : TableOrder[n] \in Tables
  /\ \A n \in DOMAIN Immutable : Immutable[n] \in Guards
  /\ \A t \in Tables : \E n \in DOMAIN TableOrder : TableOrder[n] = t
  /\ \A t \in Guards : \E n \in DOMAIN Immutable : Immutable[n] = t
<1>1. TableOrder \in Seq(Tables) /\ Immutable \in Seq(Guards)
  BY TablesAssumption
<1>2. /\ \A t \in Tables : \E n \in DOMAIN TableOrder : TableOrder[n] = t
      /\ \A t \in Guards : \E n \in DOMAIN Immutable : Immutable[n] = t
  BY DEF Tables, Guards, ToSet
<1>3. /\ \A n \in DOMAIN TableOrder : TableOrder[n] \in Tables
      /\ \A n \in DOMAIN Immutable : Immutable[n] \in Guards
  BY DEF Tables, Guards, ToSet
<1>4. Len(TableOrder) \in Nat /\ Len(Immutable) \in Nat
      /\ DOMAIN TableOrder = 1 .. Len(TableOrder) /\ DOMAIN Immutable = 1 .. Len(Immutable)
  BY <1>1
<1>. QED BY <1>2, <1>3, <1>4 DEF UpgradeLength, StampAt

LEMMA FactsAre ==
  /\ Facts \subseteq FactNames
  /\ "head" \in Facts <=> Whole /\ revision = {HeadRevision}
  /\ "guarded" \in Facts <=> Whole /\ revision = {HeadRevision} /\ guards = Guards
  /\ "local" \in Facts <=> Whole /\ ~versioned
  /\ "downgraded" \in Facts <=> downgraded
BY DEF Facts, FactNames

\* When every statement has run, the schema is whole.
LEMMA AllMade ==
  ASSUME DatabaseTyped, \A n \in 1 .. UpgradeLength : Exists(n)
  PROVE  Whole /\ guards = Guards
<1>1. ASSUME NEW t \in Tables PROVE t \in tables
  <2>1. PICK n \in DOMAIN TableOrder : TableOrder[n] = t
    BY <1>1, Lengths
  <2>2. n \in 1 .. UpgradeLength /\ n <= Len(TableOrder)
    BY <2>1, Lengths
  <2>. QED BY <2>1, <2>2 DEF Exists
<1>2. ASSUME NEW t \in Guards PROVE t \in guards
  <2>1. PICK n \in DOMAIN Immutable : Immutable[n] = t
    BY <1>2, Lengths
  <2>2. /\ Len(TableOrder) + n \in 1 .. UpgradeLength /\ ~(Len(TableOrder) + n <= Len(TableOrder))
        /\ (Len(TableOrder) + n) - Len(TableOrder) = n
    BY <2>1, Lengths
  <2>. QED BY <2>1, <2>2 DEF Exists
<1>. QED BY <1>1, <1>2 DEF DatabaseTyped, Whole

-----------------------------------------------------------------------------
\* The database in the steps of a migration and of a creating process.

\* A step that gives the revision leaves a whole schema.
Stamps == revision' = {HeadRevision} /\ revision # {HeadRevision} => Whole' /\ guards' = Guards


LEMMA DatabaseIs ==
  ASSUME DatabaseInv
  PROVE  /\ DatabaseTyped /\ Upgrading /\ Downgrading /\ HeadIsWhole
         /\ migration.op \in {"none", "upgrade", "downgrade"} /\ migration.at \in Nat
         /\ NoMigration \in Migrations /\ NoMigration.op = "none"
BY DEF DatabaseInv, DatabaseTyped, Migrations, NoMigration

\* What is left to show when no upgrade goes on.
LEMMA Settles ==
  ASSUME DatabaseTyped', migration'.op # "upgrade",
         migration'.op = "downgrade" => downgraded' /\ dialect' = "sqlite",
         revision' = {HeadRevision} /\ ~downgraded' => Whole' /\ guards' = Guards, Stamps
  PROVE  DatabaseInv' /\ Stamps
BY DEF DatabaseInv, Upgrading, Downgrading, HeadIsWhole

LEMMA BeginKeeps ==
  ASSUME DatabaseInv, BeginUpgrade \/ BeginDowngrade
  PROVE  DatabaseInv' /\ Stamps
<1>1. CASE BeginUpgrade
  <2>1. /\ migration' = [op |-> "upgrade", at |-> 1] /\ revision' = {} /\ downgraded' = FALSE
        /\ versioned' = TRUE /\ dialect' = "sqlite"
        /\ UNCHANGED <<tables, guards, production>>
    BY <1>1, Lengths DEF BeginUpgrade, ProcessesStay
  <2>2. DatabaseTyped' /\ Stamps /\ Downgrading' /\ HeadIsWhole'
    BY <2>1, DatabaseIs DEF DatabaseTyped, Migrations, Revisions, Stamps, Downgrading, HeadIsWhole
  <2>3. Upgrading'
    BY <2>1 DEF Upgrading
  <2>. QED BY <2>2, <2>3 DEF DatabaseInv
<1>2. CASE BeginDowngrade
  <2>1. /\ migration' = [op |-> "downgrade", at |-> UpgradeLength] /\ downgraded' = TRUE
        /\ dialect' = "sqlite" /\ UNCHANGED <<tables, guards, production, versioned, revision>>
    BY <1>2 DEF BeginDowngrade, ProcessesStay, database
  <2>2. DatabaseTyped' /\ migration'.op # "upgrade" /\ Stamps
    BY <2>1, DatabaseIs, Lengths DEF DatabaseTyped, Migrations, Stamps
  <2>. QED BY <2>1, <2>2, Settles
<1>. QED BY <1>1, <1>2

LEMMA UpgradeKeeps ==
  ASSUME DatabaseInv, UpgradeStatement
  PROVE  DatabaseInv' /\ Stamps
<1>0. PICK n : n = migration.at
  OBVIOUS
<1>1. /\ n \in Nat /\ n > 0 /\ n <= UpgradeLength /\ ~downgraded /\ revision = {} /\ dialect = "sqlite"
      /\ \A m \in 1 .. n - 1 : Exists(m)
  BY <1>0, DatabaseIs DEF Upgrading, UpgradeStatement
<1>2. /\ UNCHANGED <<versioned, revision, downgraded, dialect, production>> /\ migration.op = "upgrade"
  BY DEF UpgradeStatement, ProcessesStay
<1>3. CASE Exists(n)
  <2>1. migration' = NoMigration /\ UNCHANGED <<tables, guards>>
    BY <1>0, <1>3 DEF UpgradeStatement
  <2>2. DatabaseTyped' /\ migration'.op = "none" /\ Stamps
    BY <1>1, <1>2, <2>1, DatabaseIs DEF DatabaseTyped, Stamps
  <2>. QED BY <1>1, <1>2, <2>2, Settles
<1>4. CASE ~Exists(n)
  <2>1. migration' = [migration EXCEPT !.at = n + 1]
    BY <1>0, <1>4 DEF UpgradeStatement
  <2>2. migration' \in Migrations /\ migration'.op = "upgrade" /\ migration'.at = n + 1
    BY <1>1, <1>2, <2>1, DatabaseIs DEF Migrations, DatabaseTyped
  <2>3. /\ tables \subseteq tables' /\ guards \subseteq guards' /\ tables' \subseteq Tables
        /\ guards' \subseteq Guards /\ Exists(n)'
    <3>1. tables \subseteq Tables /\ guards \subseteq Guards
      BY DatabaseIs DEF DatabaseTyped
    <3>2. CASE n <= Len(TableOrder)
      <4>1. tables' = tables \cup {TableOrder[n]} /\ UNCHANGED guards
        BY <1>0, <1>4, <3>2 DEF UpgradeStatement
      <4>2. TableOrder[n] \in Tables
        BY <1>1, <3>2, Lengths
      <4>3. \A m : m <= Len(TableOrder) /\ TableOrder[m] \in tables' => Exists(m)'
        BY DEF Exists
      <4>. QED BY <3>1, <3>2, <4>1, <4>2, <4>3
    <3>3. CASE ~(n <= Len(TableOrder))
      <4>1. guards' = guards \cup {Immutable[n - Len(TableOrder)]} /\ UNCHANGED tables
        BY <1>0, <1>4, <3>3 DEF UpgradeStatement
      <4>2. Immutable[n - Len(TableOrder)] \in Guards
        <5>1. n - Len(TableOrder) \in 1 .. Len(Immutable)
          BY <1>1, <3>3, Lengths
        <5>. QED BY <5>1, Lengths
      <4>3. \A m : ~(m <= Len(TableOrder)) /\ Immutable[m - Len(TableOrder)] \in guards' => Exists(m)'
        BY DEF Exists
      <4>. QED BY <3>1, <3>3, <4>1, <4>2, <4>3
    <3>. QED BY <3>2, <3>3
  <2>4. ASSUME NEW m \in 1 .. n PROVE Exists(m)'
    <3>1. m = n \/ m \in 1 .. n - 1
      BY <1>1
    <3>2. Exists(m) => Exists(m)'
      BY <2>3 DEF Exists
    <3>. QED BY <1>1, <2>3, <3>1, <3>2
  <2>5. Upgrading'
    <3>1. (n + 1) - 1 = n /\ n + 1 > 0
      BY <1>1
    <3>2. \A m \in 1 .. migration'.at - 1 : Exists(m)'
      BY <2>2, <2>4, <3>1
    <3>. QED BY <1>1, <1>2, <2>2, <3>1, <3>2 DEF Upgrading
  <2>6. DatabaseTyped' /\ Downgrading' /\ HeadIsWhole' /\ Stamps
    BY <1>1, <1>2, <2>2, <2>3, DatabaseIs DEF DatabaseTyped, Downgrading, HeadIsWhole, Stamps
  <2>. QED BY <2>5, <2>6 DEF DatabaseInv
<1>. QED BY <1>3, <1>4

LEMMA StampKeeps ==
  ASSUME DatabaseInv, Stamp
  PROVE  DatabaseInv' /\ Stamps
<1>1. \A n \in 1 .. UpgradeLength : Exists(n)
  <2>1. /\ migration.op = "upgrade" /\ migration.at = UpgradeLength + 1
        /\ (UpgradeLength + 1) - 1 = UpgradeLength
    BY Lengths DEF Stamp
  <2>. QED BY <2>1, DatabaseIs DEF Upgrading
<1>2. Whole /\ guards = Guards
  BY <1>1, AllMade DEF DatabaseInv
<1>3. /\ migration' = NoMigration /\ revision' = {HeadRevision}
      /\ UNCHANGED <<tables, guards, production, versioned, downgraded>>
  BY DEF Stamp, ProcessesStay
<1>4. Whole' /\ guards' = Guards
  BY <1>2, <1>3 DEF Whole
<1>5. DatabaseTyped' /\ migration'.op = "none" /\ Stamps
  BY <1>3, <1>4, DatabaseIs DEF DatabaseTyped, Revisions, Stamps
<1>. QED BY <1>3, <1>4, <1>5, Settles

LEMMA DowngradeKeeps ==
  ASSUME DatabaseInv, DowngradeStatement \/ Unstamp
  PROVE  DatabaseInv' /\ Stamps
<1>1. CASE DowngradeStatement
  <2>1. /\ migration.op = "downgrade" /\ downgraded /\ migration.at >= 1 /\ dialect' = "sqlite"
        /\ UNCHANGED <<versioned, revision, downgraded, production>>
    BY <1>1, DatabaseIs DEF DowngradeStatement, ProcessesStay, Downgrading
  <2>2. tables' \subseteq tables /\ guards' \subseteq guards
    BY <1>1 DEF DowngradeStatement
  <2>3. migration' \in Migrations /\ migration'.op # "upgrade"
    <3>1. migration' = NoMigration \/ migration' = [migration EXCEPT !.at = migration.at - 1]
      BY <1>1 DEF DowngradeStatement
    <3>2. migration.at - 1 \in Nat /\ migration \in Migrations
      BY <2>1, DatabaseIs DEF DatabaseTyped
    <3>. QED BY <2>1, <3>1, <3>2, DatabaseIs DEF Migrations
  <2>4. DatabaseTyped' /\ Stamps
    BY <2>1, <2>2, <2>3, DatabaseIs DEF DatabaseTyped, Stamps
  <2>. QED BY <2>1, <2>3, <2>4, Settles
<1>2. CASE Unstamp
  <2>1. /\ migration' = NoMigration /\ revision' = {}
        /\ UNCHANGED <<tables, guards, production, versioned, downgraded>>
    BY <1>2 DEF Unstamp, ProcessesStay
  <2>2. DatabaseTyped' /\ migration'.op = "none" /\ Stamps
    BY <2>1, DatabaseIs DEF DatabaseTyped, Revisions, Stamps
  <2>. QED BY <2>1, <2>2, Settles
<1>. QED BY <1>1, <1>2

LEMMA AtOnceKeeps ==
  ASSUME DatabaseInv, UpgradeTransaction \/ DowngradeTransaction \/ MigrationCrashes
  PROVE  DatabaseInv' /\ Stamps
<1>1. CASE UpgradeTransaction
  <2>1. /\ tables' = Tables /\ guards' = Guards /\ versioned' = TRUE /\ revision' = {HeadRevision}
        /\ downgraded' = FALSE /\ dialect = "postgresql" /\ UNCHANGED <<migration, production>>
    BY <1>1 DEF UpgradeTransaction, ProcessesStay
  <2>2. migration'.op = "none"
    BY <2>1, DatabaseIs DEF Upgrading, Downgrading
  <2>3. DatabaseTyped' /\ Stamps /\ Whole'
    BY <2>1, DatabaseIs DEF DatabaseTyped, Revisions, Stamps, Whole
  <2>. QED BY <2>1, <2>2, <2>3, Settles
<1>2. CASE DowngradeTransaction
  <2>1. /\ tables' = {} /\ guards' = {} /\ revision' = {} /\ downgraded' = TRUE
        /\ dialect = "postgresql" /\ UNCHANGED <<migration, production, versioned>>
    BY <1>2 DEF DowngradeTransaction, ProcessesStay
  <2>2. DatabaseTyped' /\ Stamps /\ migration'.op = "none"
    BY <2>1, DatabaseIs DEF DatabaseTyped, Revisions, Stamps, Upgrading, Downgrading
  <2>. QED BY <2>1, <2>2, Settles
<1>3. CASE MigrationCrashes
  BY <1>3, DatabaseIs, Settles DEF MigrationCrashes, database, ProcessesStay, DatabaseTyped, Stamps,
                                   HeadIsWhole, Whole
<1>. QED BY <1>1, <1>2, <1>3

\* A step of a process adds a table at most.
LEMMA ProcessKeepsDatabase ==
  ASSUME DatabaseInv, NEW p \in AppProcess, ProcessStep(p)
  PROVE  DatabaseInv' /\ UNCHANGED <<production, revision>>
<1>1. /\ UNCHANGED <<dialect, production, migration, downgraded, guards, versioned, revision>>
      /\ tables \subseteq tables' /\ tables' \subseteq Tables
  <2>1. tables \subseteq Tables
    BY DatabaseIs DEF DatabaseTyped
  <2>2. CASE CreateTable(p)
    BY <2>1, <2>2, Lengths DEF CreateTable, Settled
  <2>3. CASE StartProduction(p) \/ ListMissing(p) \/ CreationDone(p) \/ ProcessCrashes(p)
    BY <2>1, <2>3 DEF StartProduction, ListMissing, CreationDone, ProcessCrashes, Settled, database
  <2>4. CASE ListTables(p) \/ ReadVersions(p) \/ AnswerReadiness(p) \/ ReadinessFails(p)
    BY <2>1, <2>4 DEF ListTables, ReadVersions, AnswerReadiness, ReadinessFails, Settled, database
  <2>. QED BY <2>2, <2>3, <2>4 DEF ProcessStep
<1>2. Upgrading'
  <2>1. ASSUME NEW n, Exists(n) PROVE Exists(n)'
    BY <1>1, <2>1 DEF Exists
  <2>. QED BY <1>1, <2>1, DatabaseIs DEF Upgrading
<1>3. HeadIsWhole'
  BY <1>1, DatabaseIs DEF HeadIsWhole, Whole
<1>. QED BY <1>1, <1>2, <1>3, DatabaseIs DEF DatabaseTyped, DatabaseInv, Downgrading

-----------------------------------------------------------------------------
\* The requests.

LEMMA SchemaParts ==
  ASSUME SchemaInv
  PROVE  /\ DatabaseInv /\ DatabaseTyped /\ RequestsTyped
         /\ \A p \in AppProcess : Truthful(p) /\ Lived(p)
BY DEF SchemaInv, DatabaseInv

\* What a request has lived through it has lived through for good.
LEMMA RequestStands ==
  ASSUME SchemaInv, NEW p \in AppProcess, UNCHANGED production, seen[p] \subseteq seen'[p],
         activity'[p] = activity[p], present'[p] = present[p], readiness'[p] = readiness[p],
         revision' = {HeadRevision} /\ revision # {HeadRevision} /\ activity'[p] \in InRequest
           => {"head", "guarded"} \subseteq seen'[p]
  PROVE  Truthful(p)' /\ Lived(p)'
<1>1. Truthful(p) /\ Lived(p)
  BY SchemaParts
<1>2. Vouched(p) => Vouched(p)'
  BY DEF Vouched
<1>3. {"head", "guarded"} \subseteq seen'[p] => Vouched(p)'
  BY DEF Vouched
<1>4. Truthful(p)'
  BY <1>1, <1>2 DEF Truthful
<1>5. Lived(p)'
  BY <1>1, <1>2, <1>3 DEF Lived
<1>. QED BY <1>4, <1>5

LEMMA WitnessGrows ==
  ASSUME seen \in [AppProcess -> SUBSET FactNames], Witness
  PROVE  /\ seen' \in [AppProcess -> SUBSET FactNames]
         /\ \A p \in AppProcess : /\ seen[p] \subseteq seen'[p]
                                  /\ activity'[p] \in InRequest => Facts' \subseteq seen'[p]
<1>1. Facts' \subseteq FactNames
  BY DEF Facts, FactNames
<1>. QED BY <1>1 DEF Witness

LEMMA MigrationKeeps ==
  ASSUME SchemaInv, Migrate
  PROVE  SchemaInv'
<1>1. DatabaseInv' /\ Stamps
  BY SchemaParts, BeginKeeps, UpgradeKeeps, StampKeeps, DowngradeKeeps, AtOnceKeeps DEF Migrate
<1>2. UNCHANGED <<production, activity, missing, present, readiness>> /\ Witness
  BY DEF Migrate, BeginUpgrade, UpgradeStatement, Stamp, UpgradeTransaction, BeginDowngrade,
         DowngradeStatement, Unstamp, DowngradeTransaction, MigrationCrashes, ProcessesStay
<1>3. UNCHANGED <<production, activity, missing, present, readiness>>
  BY <1>2
<1>4. /\ seen' \in [AppProcess -> SUBSET FactNames]
      /\ \A p \in AppProcess : /\ seen[p] \subseteq seen'[p]
                               /\ activity'[p] \in InRequest => Facts' \subseteq seen'[p]
  BY <1>2, SchemaParts, WitnessGrows DEF RequestsTyped
<1>5. revision' = {HeadRevision} /\ revision # {HeadRevision} => {"head", "guarded"} \subseteq Facts'
  BY <1>1 DEF Stamps, Facts, Whole
<1>6. ASSUME NEW p \in AppProcess PROVE Truthful(p)' /\ Lived(p)'
  BY <1>3, <1>4, <1>5, RequestStands
<1>7. RequestsTyped'
  BY <1>3, <1>4, SchemaParts DEF RequestsTyped
<1>. QED BY <1>1, <1>6, <1>7 DEF SchemaInv

\* A process does not stamp, and leaves the requests of others alone.
LEMMA ProcessesKeep ==
  ASSUME SchemaInv, NEW q \in AppProcess, ProcessStep(q), RequestsTyped', Truthful(q)', Lived(q)',
         \A p \in AppProcess \ {q} :
           /\ seen[p] \subseteq seen'[p] /\ activity'[p] = activity[p]
           /\ present'[p] = present[p] /\ readiness'[p] = readiness[p]
  PROVE  SchemaInv'
<1>1. DatabaseInv' /\ UNCHANGED <<production, revision>>
  BY SchemaParts, ProcessKeepsDatabase
<1>2. ASSUME NEW p \in AppProcess, p # q PROVE Truthful(p)' /\ Lived(p)'
  BY <1>1, <1>2, RequestStands
<1>. QED BY <1>1, <1>2 DEF SchemaInv

LEMMA CreationKeeps ==
  ASSUME SchemaInv, NEW q \in AppProcess,
         StartProduction(q) \/ ListMissing(q) \/ CreateTable(q) \/ CreationDone(q)
  PROVE  SchemaInv'
<1>1. ProcessStep(q) /\ Witness /\ UNCHANGED <<present, readiness, production>>
  BY DEF ProcessStep, StartProduction, ListMissing, CreateTable, CreationDone, Settled
<1>2. /\ activity' \in [AppProcess -> {"down", "creating", "up", "listed", "versions read"}]
      /\ activity'[q] \notin InRequest /\ \A p \in AppProcess \ {q} : activity'[p] = activity[p]
      /\ missing' \in [AppProcess -> SUBSET Tables]
  <2>1. /\ activity \in [AppProcess -> {"down", "creating", "up", "listed", "versions read"}]
        /\ missing \in [AppProcess -> SUBSET Tables]
    BY SchemaParts DEF RequestsTyped
  <2>2. CASE StartProduction(q)
    BY <2>1, <2>2 DEF StartProduction, Proceeds, InRequest
  <2>3. CASE ListMissing(q)
    BY <2>1, <2>3 DEF ListMissing, Proceeds, InRequest
  <2>4. CASE CreateTable(q)
    BY <2>1, <2>4 DEF CreateTable, Proceeds, InRequest
  <2>5. CASE CreationDone(q)
    BY <2>1, <2>5 DEF CreationDone, Proceeds, InRequest
  <2>. QED BY <2>2, <2>3, <2>4, <2>5
<1>3. /\ seen' \in [AppProcess -> SUBSET FactNames]
      /\ \A p \in AppProcess : seen[p] \subseteq seen'[p]
  BY <1>1, SchemaParts, WitnessGrows DEF RequestsTyped
<1>4. Truthful(q)'
  BY <1>1, <1>3, SchemaParts DEF Truthful, Vouched
<1>5. Lived(q)'
  BY <1>2 DEF Lived
<1>6. RequestsTyped'
  BY <1>1, <1>2, <1>3, SchemaParts DEF RequestsTyped
<1>. QED BY <1>1, <1>2, <1>3, <1>4, <1>5, <1>6, ProcessesKeep

LEMMA EndingKeeps ==
  ASSUME SchemaInv, NEW q \in AppProcess, ProcessCrashes(q) \/ ReadinessFails(q)
  PROVE  SchemaInv'
<1>1. ProcessStep(q)
  BY DEF ProcessStep
<1>2. NoTables \in ViewType
  BY DEF NoTables, ViewType, Revisions
<1>3. /\ activity \in [AppProcess -> {"down", "creating", "up", "listed", "versions read"}]
      /\ missing \in [AppProcess -> SUBSET Tables] /\ present \in [AppProcess -> ViewType]
      /\ seen \in [AppProcess -> SUBSET FactNames] /\ readiness \in [AppProcess -> ReadinessType]
  BY SchemaParts DEF RequestsTyped
<1>4. /\ RequestsTyped' /\ activity'[q] \notin InRequest /\ readiness'[q] \in {"none", "UNAVAILABLE"}
      /\ \A p \in AppProcess \ {q} :
           /\ seen[p] \subseteq seen'[p] /\ activity'[p] = activity[p]
           /\ present'[p] = present[p] /\ readiness'[p] = readiness[p]
  <2>1. CASE ProcessCrashes(q)
    BY <1>2, <1>3, <2>1 DEF ProcessCrashes, RequestsTyped, InRequest, ReadinessType
  <2>2. CASE ReadinessFails(q)
    BY <1>2, <1>3, <2>2 DEF ReadinessFails, Proceeds, RequestsTyped, InRequest, ReadinessType
  <2>. QED BY <2>1, <2>2
<1>5. Truthful(q)' /\ Lived(q)'
  BY <1>4 DEF Truthful, Lived
<1>. QED BY <1>1, <1>4, <1>5, ProcessesKeep

LEMMA ListingKeeps ==
  ASSUME SchemaInv, NEW q \in AppProcess, ListTables(q)
  PROVE  SchemaInv'
<1>. DEFINE view == [tables |-> tables, versioned |-> versioned, revision |-> {}]
<1>1. /\ ProcessStep(q) /\ activity' = [activity EXCEPT ![q] = "listed"]
      /\ present' = [present EXCEPT ![q] = view] /\ readiness' = [readiness EXCEPT ![q] = "none"]
      /\ seen' = [seen EXCEPT ![q] = Facts]
      /\ UNCHANGED <<missing, tables, versioned, revision, guards, downgraded, production>>
  BY DEF ProcessStep, ListTables, Proceeds, database, Settled
<1>2. view \in ViewType
  BY SchemaParts DEF ViewType, DatabaseTyped, Revisions
<1>3. RequestsTyped'
  BY <1>1, <1>2, SchemaParts, FactsAre DEF RequestsTyped, ReadinessType
<1>4. /\ seen'[q] = Facts /\ activity'[q] = "listed" /\ present'[q] = view /\ readiness'[q] = "none"
      /\ \A p \in AppProcess \ {q} :
           /\ seen[p] \subseteq seen'[p] /\ activity'[p] = activity[p]
           /\ present'[p] = present[p] /\ readiness'[p] = readiness[p]
  BY <1>1, SchemaParts DEF RequestsTyped
<1>5. Truthful(q)'
  BY <1>4 DEF Truthful
<1>6. tables = Tables /\ revision = {HeadRevision} =>
        "head" \in Facts /\ {"guarded", "downgraded"} \cap Facts # {}
  BY SchemaParts, DatabaseIs, FactsAre DEF HeadIsWhole, Whole
<1>7. tables = Tables /\ ~versioned => "local" \in Facts
  BY FactsAre DEF Whole
<1>8. tables = Tables /\ revision = {HeadRevision} => Vouched(q)'
  BY <1>4, <1>6 DEF Vouched
<1>9. tables = Tables /\ ~versioned => "local" \in seen'[q]
  BY <1>4, <1>7
<1>10. /\ view.tables = tables /\ view.versioned = versioned /\ revision' = revision
       /\ activity'[q] # "versions read"
  BY <1>1, <1>4
<1>. HIDE DEF view
<1>11. Lived(q)'
  BY <1>4, <1>8, <1>9, <1>10 DEF Lived
<1>. QED BY <1>1, <1>3, <1>4, <1>5, <1>11, ProcessesKeep

LEMMA ReadingKeeps ==
  ASSUME SchemaInv, NEW q \in AppProcess, ReadVersions(q)
  PROVE  SchemaInv'
<1>. DEFINE view == [present[q] EXCEPT !.revision = IF present[q].versioned THEN revision ELSE {}]
<1>1. /\ ProcessStep(q) /\ activity' = [activity EXCEPT ![q] = "versions read"] /\ activity[q] = "listed"
      /\ present' = [present EXCEPT ![q] = view] /\ Witness /\ UNCHANGED <<missing, readiness, production>>
  BY DEF ProcessStep, ReadVersions, Proceeds, database, Settled
<1>2. present[q] \in ViewType /\ revision \in Revisions
  BY SchemaParts DEF RequestsTyped, DatabaseTyped
<1>3. /\ view \in ViewType /\ view.tables = present[q].tables /\ view.versioned = present[q].versioned
      /\ view.revision = {HeadRevision} => revision = {HeadRevision}
  BY <1>2 DEF ViewType, Revisions
<1>4. /\ seen' \in [AppProcess -> SUBSET FactNames]
      /\ \A p \in AppProcess : seen[p] \subseteq seen'[p]
  BY <1>1, SchemaParts, WitnessGrows DEF RequestsTyped
<1>. HIDE DEF view
<1>5. RequestsTyped'
  BY <1>1, <1>3, <1>4, SchemaParts DEF RequestsTyped
<1>6. /\ activity'[q] = "versions read" /\ present'[q] = view /\ readiness'[q] = readiness[q]
      /\ \A p \in AppProcess \ {q} :
           /\ seen[p] \subseteq seen'[p] /\ activity'[p] = activity[p]
           /\ present'[p] = present[p] /\ readiness'[p] = readiness[p]
  BY <1>1, <1>4, SchemaParts DEF RequestsTyped
<1>7. Vouched(q) => Vouched(q)'
  BY <1>4 DEF Vouched
<1>8. Truthful(q)'
  BY <1>1, <1>4, <1>6, <1>7, SchemaParts DEF Truthful
<1>9. Lived(q)'
  <2>1. Lived(q) /\ activity[q] \in InRequest
    BY <1>1, SchemaParts DEF InRequest
  <2>. QED BY <1>1, <1>3, <1>4, <1>6, <1>7, <2>1 DEF Lived
<1>. QED BY <1>1, <1>4, <1>5, <1>6, <1>8, <1>9, ProcessesKeep

\* What a ready state rests on.
LEMMA ReadyStates ==
  ASSUME NEW view \in ViewType
  PROVE  /\ State(view) \in ReadinessType
         /\ State(view) = "READY_MIGRATED" => view.tables = Tables /\ view.revision = {HeadRevision}
         /\ State(view) = "READY_LOCAL_SCHEMA" => view.tables = Tables /\ ~view.versioned /\ ~production
<1>1. view.tables \subseteq Tables /\ view.versioned \in BOOLEAN /\ view.revision \in Revisions
  BY DEF ViewType
<1>2. Lacking(view) = {} => view.tables = Tables
  BY <1>1 DEF Lacking
<1>3. {HeadRevision} # {}
  OBVIOUS
<1>. QED BY <1>1, <1>2, <1>3 DEF State, ReadinessType, Damaged, Revisions

LEMMA AnswerKeepsSchema ==
  ASSUME SchemaInv, NEW q \in AppProcess, AnswerReadiness(q)
  PROVE  SchemaInv'
<1>1. PICK state \in {State(present[q]), "UNAVAILABLE"} : readiness' = [readiness EXCEPT ![q] = state]
  BY DEF AnswerReadiness
<1>2. /\ ProcessStep(q) /\ activity' = [activity EXCEPT ![q] = "up"] /\ activity[q] = "versions read"
      /\ present' = [present EXCEPT ![q] = NoTables] /\ UNCHANGED <<missing, seen, production>>
  BY DEF ProcessStep, AnswerReadiness, Proceeds, Settled
<1>3. present[q] \in ViewType /\ NoTables \in ViewType
  BY SchemaParts DEF RequestsTyped, NoTables, ViewType, Revisions
<1>4. state \in ReadinessType
  BY <1>3, ReadyStates DEF ReadinessType
<1>5. RequestsTyped'
  BY <1>1, <1>2, <1>3, <1>4, SchemaParts DEF RequestsTyped
<1>6. /\ activity'[q] = "up" /\ readiness'[q] = state /\ seen'[q] = seen[q]
      /\ \A p \in AppProcess \ {q} :
           /\ seen[p] \subseteq seen'[p] /\ activity'[p] = activity[p]
           /\ present'[p] = present[p] /\ readiness'[p] = readiness[p]
  BY <1>1, <1>2, SchemaParts DEF RequestsTyped
<1>7. Lived(q) /\ activity[q] \in InRequest
  BY <1>2, SchemaParts DEF InRequest
<1>8. state = "READY_MIGRATED" => Vouched(q)
  BY <1>1, <1>2, <1>3, <1>7, ReadyStates DEF Lived
<1>9. state = "READY_LOCAL_SCHEMA" => "local" \in seen[q] /\ ~production
  BY <1>1, <1>2, <1>3, <1>7, ReadyStates DEF Lived
<1>10. Truthful(q)'
  BY <1>2, <1>6, <1>8, <1>9 DEF Truthful, Vouched
<1>11. Lived(q)'
  BY <1>6 DEF Lived, InRequest
<1>. QED BY <1>2, <1>5, <1>6, <1>10, <1>11, ProcessesKeep

-----------------------------------------------------------------------------

\* The invariant holds in every state that migrations, crashes, starts and checks reach.
THEOREM SchemaInvariance == SchemaSpec => []SchemaInv
<1>1. SchemaInit => SchemaInv
  <2>. SUFFICES ASSUME SchemaInit PROVE SchemaInv
    OBVIOUS
  <2>1. NoTables \in ViewType
    BY DEF NoTables, ViewType, Revisions
  <2>2. RequestsTyped
    BY <2>1 DEF SchemaInit, RequestsTyped, ReadinessType
  <2>3. DatabaseTyped
    BY DEF SchemaInit, DatabaseTyped, Migrations, NoMigration, Revisions
  <2>4. Upgrading /\ Downgrading
    BY DEF SchemaInit, Upgrading, Downgrading, NoMigration
  <2>5. HeadIsWhole
    BY DEF SchemaInit, HeadIsWhole, HeadRevision, Foreign
  <2>6. \A p \in AppProcess : Truthful(p) /\ Lived(p)
    BY DEF SchemaInit, Truthful, Lived, InRequest
  <2>. QED BY <2>2, <2>3, <2>4, <2>5, <2>6 DEF SchemaInv, DatabaseInv
<1>2. SchemaInv /\ [SchemaNext]_schemaVars => SchemaInv'
  <2>. SUFFICES ASSUME SchemaInv, [SchemaNext]_schemaVars PROVE SchemaInv'
    OBVIOUS
  <2>1. CASE Migrate
    BY <2>1, MigrationKeeps
  <2>2. ASSUME NEW p \in AppProcess, ProcessStep(p) PROVE SchemaInv'
    BY <2>2, CreationKeeps, EndingKeeps, ListingKeeps, ReadingKeeps, AnswerKeepsSchema DEF ProcessStep
  <2>3. CASE UNCHANGED schemaVars
    <3>1. UNCHANGED <<dialect, production, tables, guards, versioned, revision, migration, downgraded,
                      activity, missing, present, seen, readiness>>
      BY <2>3 DEF schemaVars, database
    <3>2. /\ DatabaseTyped' /\ Upgrading' /\ Downgrading' /\ HeadIsWhole'
      BY <3>1, SchemaParts, DatabaseIs DEF DatabaseTyped, Upgrading, Downgrading, HeadIsWhole, Whole, Exists
    <3>3. RequestsTyped' /\ \A p \in AppProcess : Truthful(p)' /\ Lived(p)'
      BY <3>1, SchemaParts DEF RequestsTyped, Truthful, Lived, Vouched
    <3>. QED BY <3>2, <3>3 DEF SchemaInv, DatabaseInv
  <2>. QED BY <2>1, <2>2, <2>3 DEF SchemaNext
<1>. QED BY <1>1, <1>2, PTL DEF SchemaSpec

\* What readiness calls ready was a whole schema at one instant of the request, and the version
\* row vouches for every table and guard outside a downgrade, wherever a migration, a crash or
\* another process's create_all falls (schema_readiness, migrations/env.py).
THEOREM SchemaStaysSound == SchemaSpec => []SchemaSound
<1>1. SchemaInv => SchemaSound
  BY DEF SchemaInv, DatabaseInv, SchemaSound, ReadyWasTrue, Truthful, Vouched
<1>. QED BY SchemaInvariance, <1>1, PTL

-----------------------------------------------------------------------------
(* BuildReceipt.  The bytes on disk are those of two releases at most (OnDisk), so a request that *)
(* found its release already being replaced has a file that it will not read as that release has  *)
(* it (Spoilt), until the second replacement changes the marker, which is read last (Judging).    *)

Manifests == UNION {[listed -> Nat \ {Gone}] : listed \in SUBSET Paths}
Documents ==
  {NoDocument, Malformed} \cup [revision : Release, entries : Manifests, digest : Release \X Manifests]
Verdicts ==
  {"none", "MISSING", "MISSING_OPTIONAL_LOCAL", "INVALID", "SOURCE_MISMATCH", "VERIFIED", "PAYLOAD_MISMATCH"}

FilesTyped ==
  /\ disk \in [Paths -> Nat]
  /\ receiptFile \in Documents /\ generating \in Documents
  /\ env \in {Unset, Invalid} \cup Release
  /\ deploying \in [release : Release, left : SUBSET Paths]
ObserversTyped ==
  /\ progress \in [Observer -> {"idle", "source", "receipt", "walk", "read", "judged"}]
  /\ source \in [Observer -> [state : {"MISMATCH", "UNBOUND", "OBSERVED"}, revision : Nat]]
  /\ found \in [Observer -> Documents]
  /\ walked \in [Observer -> {<<>>} \cup [left : SUBSET DOMAIN Path, entries : [Paths -> Nat]]]
  /\ verdict \in [Observer -> Verdicts]
  /\ whole \in [Observer -> SUBSET Release]

\* Between two deployments the disk has one release; during one, a file that is still to be
\* written has the bytes of the release before, or is missing if they are other bytes.
OnDisk ==
  LET n == deploying.release
  IN  /\ deploying.left # {} => n > 1
      /\ \A path \in Paths \ deploying.left : disk[path] = Bytes[path][n]
      /\ \A path \in deploying.left :
           \/ disk[path] = Bytes[path][n - 1]
           \/ disk[path] = Gone /\ Bytes[path][n - 1] # Bytes[path][n]

\* A document whose digest is right lists a release that was on disk as a whole.
Faithful(doc) ==
  Sound(doc) =>
    /\ doc.revision \in Release /\ doc.revision <= deploying.release
    /\ doc.revision = deploying.release => deploying.left = {}
    /\ doc.entries = FilesOf(doc.revision)

Unread(r) == IF progress[r] = "read" THEN {Path[i] : i \in walked[r].left} ELSE Paths

\* A file that has changed since release n, and will not be read as release n had it.
Spoilt(r, n, path) ==
  /\ disk[path] # Bytes[path][n] /\ Bytes[path][deploying.release] # Bytes[path][n]
  /\ path \in Unread(r) \/ walked[r].entries[path] # Bytes[path][n]

\* A request that looks at the payload saw its release whole, or cannot find it verified.
Judging(r) ==
  LET n == found[r].revision
  IN  /\ Sound(found[r]) /\ Faithful(found[r]) /\ source[r].revision = n
      /\ \/ n \in whole[r]
         \/ deploying.release > n + 1
         \/ deploying.release = n + 1 /\ \E path \in Paths : Spoilt(r, n, path)

Observing(r) ==
  /\ InFlight(r) => WholeNow \subseteq whole[r]
  /\ progress[r] \in {"receipt", "walk", "read", "judged"} /\ source[r].revision # 0 =>
       env \in {Unset, source[r].revision}
  /\ progress[r] \in {"walk", "read"} => Judging(r)
  /\ progress[r] = "read" => walked[r] # <<>> /\ Len(Path) \in walked[r].left
  /\ progress[r] = "judged" /\ verdict[r] = "VERIFIED" =>
       /\ found[r].revision \in whole[r] /\ found[r].revision # 0
       /\ source[r].revision = found[r].revision

FilesInv == FilesTyped /\ OnDisk /\ Faithful(receiptFile) /\ Faithful(generating)
BuildInv == FilesInv /\ ObserversTyped /\ \A r \in Observer : Observing(r)

-----------------------------------------------------------------------------
\* The files.

LEMMA Shipped ==
  /\ Len(Path) \in Nat /\ Len(Path) \in DOMAIN Path /\ Marker \in Paths /\ Marker = Path[Len(Path)]
  /\ \A i \in DOMAIN Path : Path[i] \in Paths
  /\ DOMAIN Path = 1 .. Len(Path)
  /\ 1 \in Release /\ Release \subseteq Nat \ {0}
  /\ \A path \in Paths, n \in Release : Bytes[path][n] \in Nat \ {Gone}
  /\ \A n \in Release : FilesOf(n) \in [Paths -> Nat \ {Gone}] /\ Bytes[Marker][n] = n
  /\ \A n \in Release, path \in Paths : FilesOf(n)[path] = Bytes[path][n]
<1>1. /\ Builds \in Nat \ {0} /\ Path \in Seq(Paths) /\ Path # <<>>
      /\ Bytes \in [Paths -> [Release -> Nat \ {Gone}]]
      /\ \A n \in Release : Bytes[Marker][n] = n
  BY FilesAssumption
<1>2. Len(Path) \in Nat /\ Len(Path) > 0 /\ DOMAIN Path = 1 .. Len(Path)
  BY <1>1
<1>3. Len(Path) \in DOMAIN Path /\ \A i \in DOMAIN Path : Path[i] \in Paths
  BY <1>2 DEF Paths
<1>. QED BY <1>1, <1>2, <1>3 DEF Marker, Release, FilesOf, Gone

\* A manifest of files that are all there lists them all.
LEMMA ListsAll ==
  ASSUME NEW files \in [Paths -> Nat]
  PROVE  /\ Entries(files) \in Manifests
         /\ (\A path \in Paths : files[path] # Gone) => Entries(files) = files
         /\ \A other \in [Paths -> Nat \ {Gone}] : Entries(files) = other => files = other
<1>. DEFINE listed == {path \in Paths : files[path] # Gone}
<1>1. Entries(files) = [path \in listed |-> files[path]]
  BY DEF Entries
<1>2. Entries(files) \in [listed -> Nat \ {Gone}] /\ listed \in SUBSET Paths
  BY <1>1
<1>3. Entries(files) \in Manifests
  BY <1>2 DEF Manifests
<1>4. (\A path \in Paths : files[path] # Gone) => Entries(files) = files
  BY <1>1
<1>5. ASSUME NEW other \in [Paths -> Nat \ {Gone}], Entries(files) = other PROVE files = other
  <2>1. listed = Paths
    BY <1>1, <1>5
  <2>. QED BY <1>1, <1>5, <2>1
<1>. QED BY <1>3, <1>4, <1>5

\* What the marker may say: not a release older than the one before the one being written.
LEMMA MarkerSays ==
  ASSUME FilesInv
  PROVE  /\ disk[Marker] \in {Gone, deploying.release - 1, deploying.release}
         /\ deploying.left = {} => disk = FilesOf(deploying.release)
         /\ deploying \in [release : Release, left : SUBSET Paths]
         /\ deploying.release \in Release /\ deploying.left \subseteq Paths
<1>1. /\ disk \in [Paths -> Nat] /\ deploying.release \in Release /\ deploying.left \subseteq Paths
      /\ deploying \in [release : Release, left : SUBSET Paths]
  BY DEF FilesInv, FilesTyped
<1>2. deploying.left # {} => deploying.release - 1 \in Release
  <2>1. Builds \in Nat
    BY FilesAssumption
  <2>2. deploying.left # {} => deploying.release > 1
    BY DEF FilesInv, OnDisk
  <2>. QED BY <1>1, <2>1, <2>2 DEF Release
<1>3. disk[Marker] \in {Gone, deploying.release - 1, deploying.release}
  BY <1>1, <1>2, Shipped DEF FilesInv, OnDisk
<1>4. deploying.left = {} => disk = FilesOf(deploying.release)
  BY <1>1 DEF FilesInv, OnDisk, FilesOf
<1>. QED BY <1>1, <1>3, <1>4

LEMMA Documented ==
  ASSUME NEW n \in Release, NEW entries \in Manifests
  PROVE  /\ Document(n, entries) \in Documents /\ Document(n, entries).revision = n
         /\ Document(n, entries).entries = entries
BY DEF Document, Documents

LEMMA NoneIsSound ==
  /\ ~Sound(NoDocument) /\ ~Sound(Malformed)
  /\ NoDocument \in Documents /\ Malformed \in Documents
<1>1. \A x, y : <<x, y>> # <<>>
  OBVIOUS
<1>. QED BY <1>1 DEF Sound, NoDocument, Malformed, Documents

LEMMA GeneratesFaithful ==
  ASSUME FilesInv, Generate
  PROVE  FilesInv'
<1>. DEFINE d == deploying.release
<1>1. /\ deploying.left = {} /\ generating' = Document(disk[Marker], Entries(disk))
      /\ UNCHANGED <<disk, receiptFile, env, deploying>>
  BY DEF Generate, Quiet, deployment
<1>2. disk = FilesOf(d) /\ d \in Release
  BY <1>1, MarkerSays
<1>3. disk[Marker] = d /\ Entries(disk) = FilesOf(d) /\ Entries(disk) \in Manifests
  <2>1. /\ FilesOf(d) \in [Paths -> Nat \ {Gone}] /\ FilesOf(d) \in [Paths -> Nat]
        /\ FilesOf(d)[Marker] = d
    BY <1>2, Shipped
  <2>2. \A path \in Paths : FilesOf(d)[path] # Gone
    BY <2>1
  <2>. QED BY <1>2, <2>1, <2>2, ListsAll
<1>4. generating' \in Documents /\ generating'.revision = d /\ generating'.entries = FilesOf(d)
  BY <1>1, <1>2, <1>3, Documented
<1>5. Faithful(generating)'
  <2>1. d \in Nat /\ deploying' = deploying
    BY <1>1, <1>2, Shipped
  <2>. QED BY <1>1, <1>2, <1>4, <2>1 DEF Faithful
<1>6. FilesTyped' /\ OnDisk' /\ Faithful(receiptFile)'
  BY <1>1, <1>4 DEF FilesInv, FilesTyped, OnDisk, Faithful, Sound, FilesOf
<1>. QED BY <1>5, <1>6 DEF FilesInv

\* The steps of a deployment: no file gets bytes of an earlier release.
LEMMA BeginsDeploy ==
  ASSUME FilesInv, BeginDeploy
  PROVE  /\ FilesInv'
         /\ deploying'.release = deploying.release + 1 /\ UNCHANGED <<disk, env>>
         /\ \A doc : Faithful(doc) => Faithful(doc)'
<1>0. PICK d : d = deploying.release
  OBVIOUS
<1>1. /\ deploying.left = {} /\ deploying' = [release |-> d + 1, left |-> Paths] /\ d < Builds
      /\ UNCHANGED <<disk, receiptFile, env, generating>>
  BY <1>0 DEF BeginDeploy, Quiet
<1>2. d \in Release /\ d \in Nat /\ d + 1 \in Release /\ d + 1 > 1 /\ (d + 1) - 1 = d /\ disk = FilesOf(d)
  <2>1. d \in Release /\ disk = FilesOf(d) /\ Builds \in Nat /\ d \in Nat \ {0}
    BY <1>0, <1>1, MarkerSays, FilesAssumption, Shipped
  <2>. QED BY <1>1, <2>1 DEF Release
<1>3. deploying'.release = d + 1 /\ deploying'.left = Paths
  BY <1>1
<1>4. FilesTyped'
  BY <1>1, <1>2 DEF FilesInv, FilesTyped
<1>5. OnDisk'
  <2>1. \A path \in Paths : disk'[path] = Bytes[path][d]
    BY <1>1, <1>2, Shipped
  <2>. QED BY <1>2, <1>3, <2>1 DEF OnDisk
<1>6. ASSUME NEW doc, Faithful(doc) PROVE Faithful(doc)'
  <2>1. ASSUME Sound(doc)
        PROVE  /\ doc.revision \in Release /\ doc.revision <= d + 1 /\ doc.revision # d + 1
               /\ doc.entries = FilesOf(doc.revision)
    <3>1. doc.revision \in Release /\ doc.revision <= d /\ doc.entries = FilesOf(doc.revision)
      BY <1>0, <1>6, <2>1 DEF Faithful
    <3>2. doc.revision \in Nat
      BY <3>1, Shipped
    <3>. QED BY <1>2, <3>1, <3>2
  <2>. QED BY <1>3, <2>1 DEF Faithful
<1>7. Faithful(receiptFile)' /\ Faithful(generating)'
  <2>1. Faithful(receiptFile)' /\ Faithful(generating)' <=>
          \A doc \in {receiptFile, generating} : Faithful(doc)'
    BY <1>1 DEF Faithful
  <2>. QED BY <1>6, <2>1 DEF FilesInv
<1>. QED BY <1>0, <1>1, <1>3, <1>4, <1>5, <1>6, <1>7 DEF FilesInv

LEMMA ReplacesFile ==
  ASSUME FilesInv, ReplaceFile
  PROVE  /\ FilesInv'
         /\ deploying'.release = deploying.release /\ UNCHANGED <<receiptFile, env, generating>>
         /\ \A path \in Paths : disk'[path] \in {disk[path], Gone, Bytes[path][deploying.release]}
         /\ deploying.left # {}
         /\ \A doc : Faithful(doc) => Faithful(doc)'
<1>0. PICK d : d = deploying.release
  OBVIOUS
<1>1. PICK path \in deploying.left :
        \/ /\ disk' = [disk EXCEPT ![path] = Bytes[path][d]]
           /\ deploying' = [deploying EXCEPT !.left = deploying.left \ {path}]
        \/ /\ ~(Bytes[path][d] = disk[path] \/ disk[path] = Gone)
           /\ disk' = [disk EXCEPT ![path] = Gone] /\ UNCHANGED deploying
  BY <1>0 DEF ReplaceFile
<1>2. UNCHANGED <<receiptFile, env, generating>>
  BY DEF ReplaceFile
<1>3. /\ disk \in [Paths -> Nat] /\ deploying \in [release : Release, left : SUBSET Paths]
      /\ d \in Release /\ path \in Paths /\ deploying.left \subseteq Paths /\ Bytes[path][d] \in Nat
  BY <1>0, <1>1, MarkerSays, Shipped DEF FilesInv, FilesTyped
<1>4. /\ deploying'.release = d /\ deploying'.left \subseteq deploying.left
      /\ deploying' \in [release : Release, left : SUBSET Paths]
      /\ disk' \in [Paths -> Nat]
      /\ \A other \in Paths \ {path} : disk'[other] = disk[other]
      /\ \/ disk'[path] = Bytes[path][d] /\ deploying'.left = deploying.left \ {path}
         \/ /\ disk'[path] = Gone /\ deploying'.left = deploying.left
            /\ disk[path] # Gone /\ disk[path] # Bytes[path][d]
  BY <1>0, <1>1, <1>3 DEF Gone
<1>5. FilesTyped'
  BY <1>2, <1>4 DEF FilesInv, FilesTyped
<1>6. OnDisk'
  <2>1. /\ d > 1
        /\ \A other \in Paths \ deploying.left : disk[other] = Bytes[other][d]
        /\ \A other \in deploying.left :
             \/ disk[other] = Bytes[other][d - 1]
             \/ disk[other] = Gone /\ Bytes[other][d - 1] # Bytes[other][d]
    BY <1>0, <1>1 DEF FilesInv, OnDisk
  <2>. QED BY <1>1, <1>3, <1>4, <2>1 DEF OnDisk
<1>7. ASSUME NEW doc, Faithful(doc) PROVE Faithful(doc)'
  <2>1. ASSUME Sound(doc)
        PROVE  /\ doc.revision \in Release /\ doc.revision <= d /\ doc.revision # d
               /\ doc.entries = FilesOf(doc.revision)
    BY <1>0, <1>1, <1>7, <2>1 DEF Faithful
  <2>. QED BY <1>4, <2>1 DEF Faithful
<1>8. Faithful(receiptFile)' /\ Faithful(generating)'
  <2>1. Faithful(receiptFile)' /\ Faithful(generating)' <=>
          \A doc \in {receiptFile, generating} : Faithful(doc)'
    BY <1>2 DEF Faithful
  <2>. QED BY <1>7, <2>1 DEF FilesInv
<1>. QED BY <1>0, <1>1, <1>2, <1>4, <1>5, <1>6, <1>7, <1>8 DEF FilesInv

\* The replacement of the receipt, or the generator's death.
LEMMA ReplacesReceipt ==
  ASSUME FilesInv, ReplaceReceipt \/ GeneratorDies
  PROVE  FilesInv'
<1>1. /\ UNCHANGED <<disk, env, deploying>> /\ generating' = NoDocument
      /\ receiptFile' \in {receiptFile, generating}
  BY DEF ReplaceReceipt, GeneratorDies, deployment
<1>2. FilesTyped' /\ OnDisk'
  BY <1>1, NoneIsSound DEF FilesInv, FilesTyped, OnDisk
<1>3. Faithful(receiptFile)' /\ Faithful(generating)'
  BY <1>1, NoneIsSound DEF FilesInv, Faithful
<1>. QED BY <1>2, <1>3 DEF FilesInv

-----------------------------------------------------------------------------
\* The observers, while the files change.

LEMMA DeployAside ==
  ASSUME BuildInv, FilesInv', whole' \in [Observer -> SUBSET Release],
         UNCHANGED <<env, progress, source, found, walked, verdict>>,
         \A r \in Observer :
           /\ whole[r] \subseteq whole'[r]
           /\ InFlight(r) => WholeNow' \subseteq whole'[r]
           /\ progress[r] \in {"walk", "read"} => Judging(r)'
  PROVE  BuildInv'
<1>1. ObserversTyped'
  BY DEF BuildInv, ObserversTyped
<1>2. ASSUME NEW r \in Observer PROVE Observing(r)'
  BY <1>2 DEF BuildInv, Observing, InFlight
<1>. QED BY <1>1, <1>2 DEF BuildInv

LEMMA DeployKeeps ==
  ASSUME BuildInv, DeployStep
  PROVE  BuildInv'
<1>. USE DEF BuildInv
<1>1. /\ UNCHANGED <<env, progress, source, found, walked, verdict>>
      /\ whole \in [Observer -> SUBSET Release]
      /\ FilesInv /\ \A r \in Observer : Observing(r)
  BY DEF DeployStep, BeginDeploy, ReplaceFile, Generate, ReplaceReceipt, GeneratorDies, deployment,
         requests, ObserversTyped
<1>2. ASSUME NEW r \in Observer, progress[r] \in {"walk", "read"}
      PROVE  /\ found[r].revision \in Release /\ found[r].revision \in Nat
             /\ found[r].revision <= deploying.release /\ Judging(r)
             /\ Faithful(found[r]) /\ Sound(found[r])
  <2>1. Judging(r)
    BY <1>1, <1>2 DEF Observing
  <2>. QED BY <2>1, Shipped DEF Judging, Faithful
<1>3. CASE Generate \/ ReplaceReceipt \/ GeneratorDies
  <2>1. UNCHANGED <<disk, deploying, whole>> /\ FilesInv'
    BY <1>3, GeneratesFaithful, ReplacesReceipt
       DEF Generate, ReplaceReceipt, GeneratorDies, deployment
  <2>2. ASSUME NEW r \in Observer, progress[r] \in {"walk", "read"} PROVE Judging(r)'
    BY <1>1, <1>2, <2>1, <2>2 DEF Judging, Faithful, Sound, Spoilt, Unread
  <2>3. \A r \in Observer : InFlight(r) => WholeNow' \subseteq whole'[r]
    BY <1>1, <2>1 DEF Observing, WholeNow
  <2>. QED BY <1>1, <2>1, <2>2, <2>3, DeployAside
<1>4. CASE BeginDeploy
  <2>1. /\ FilesInv' /\ deploying'.release = deploying.release + 1 /\ UNCHANGED <<disk, whole>>
        /\ \A doc : Faithful(doc) => Faithful(doc)'
    BY <1>4, BeginsDeploy DEF BeginDeploy
  <2>2. deploying.release \in Nat
    BY MarkerSays, Shipped
  <2>3. ASSUME NEW r \in Observer, progress[r] \in {"walk", "read"} PROVE Judging(r)'
    <3>1. PICK n : n = found[r].revision
      OBVIOUS
    <3>2. n \in whole[r] \/ deploying'.release > n + 1
      BY <1>2, <2>1, <2>2, <2>3, <3>1 DEF Judging
    <3>3. Faithful(found[r])'
      BY <1>1, <1>2, <2>1, <2>3
    <3>. QED BY <1>1, <1>2, <2>1, <2>3, <3>1, <3>2, <3>3 DEF Judging, Sound
  <2>4. \A r \in Observer : InFlight(r) => WholeNow' \subseteq whole'[r]
    BY <1>1, <2>1 DEF Observing, WholeNow
  <2>. QED BY <1>1, <2>1, <2>3, <2>4, DeployAside
<1>5. CASE ReplaceFile
  <2>1. /\ FilesInv' /\ deploying'.release = deploying.release
        /\ \A path \in Paths : disk'[path] \in {disk[path], Gone, Bytes[path][deploying.release]}
        /\ \A doc : Faithful(doc) => Faithful(doc)'
    BY <1>5, ReplacesFile
  <2>2. whole' = [r \in Observer |-> IF InFlight(r) THEN whole[r] \cup WholeNow' ELSE whole[r]]
    BY <1>5 DEF ReplaceFile
  <2>3. WholeNow' \subseteq Release
    BY DEF WholeNow
  <2>4. /\ whole' \in [Observer -> SUBSET Release]
        /\ \A r \in Observer : whole[r] \subseteq whole'[r]
        /\ \A r \in Observer : InFlight(r) => WholeNow' \subseteq whole'[r]
    BY <1>1, <2>2, <2>3
  <2>5. ASSUME NEW r \in Observer, progress[r] \in {"walk", "read"} PROVE Judging(r)'
    <3>1. PICK n : n = found[r].revision
      OBVIOUS
    <3>2. ASSUME NEW path \in Paths, Spoilt(r, n, path) PROVE Spoilt(r, n, path)'
      <4>1. Bytes[path][n] # Gone
        BY <1>2, <2>5, <3>1, Shipped DEF Gone
      <4>. QED BY <1>1, <2>1, <3>2, <4>1 DEF Spoilt, Unread
    <3>3. Faithful(found[r])'
      BY <1>1, <1>2, <2>1, <2>5
    <3>4. \/ n \in whole'[r]
          \/ deploying'.release > n + 1
          \/ deploying'.release = n + 1 /\ \E path \in Paths : Spoilt(r, n, path)'
      BY <1>2, <2>1, <2>4, <2>5, <3>1, <3>2 DEF Judging
    <3>. QED BY <1>1, <1>2, <2>5, <3>1, <3>3, <3>4 DEF Judging, Sound
  <2>. QED BY <1>1, <2>1, <2>4, <2>5, DeployAside
<1>. QED BY <1>3, <1>4, <1>5 DEF DeployStep

-----------------------------------------------------------------------------
\* The steps of a request, which leave the files and the other requests alone.

LEMMA ObserverAside ==
  ASSUME BuildInv, NEW r \in Observer, ObserverStep(r), ObserversTyped', Observing(r)',
         \A p \in Observer \ {r} :
           /\ progress'[p] = progress[p] /\ source'[p] = source[p] /\ found'[p] = found[p]
           /\ walked'[p] = walked[p] /\ verdict'[p] = verdict[p] /\ whole'[p] = whole[p]
  PROVE  BuildInv'
<1>1. UNCHANGED <<disk, env, deploying, receiptFile, generating>>
  BY DEF ObserverStep, BeginObservation, ReadSource, ReadReceipt, ListPayload, ReadEntry, AnswerObserver,
         Disk, deployment
<1>2. FilesInv'
  BY <1>1 DEF BuildInv, FilesInv, FilesTyped, OnDisk, Faithful, Sound
<1>3. ASSUME NEW p \in Observer, p # r PROVE Observing(p)'
  <2>1. Observing(p)
    BY DEF BuildInv
  <2>2. Judging(p) => Judging(p)'
    BY <1>1, <1>3 DEF Judging, Faithful, Sound, Spoilt, Unread
  <2>. QED BY <1>1, <1>3, <2>1, <2>2 DEF Observing, InFlight, WholeNow
<1>. QED BY <1>2, <1>3 DEF BuildInv

LEMMA BuildParts ==
  ASSUME BuildInv
  PROVE  /\ FilesInv /\ FilesTyped /\ ObserversTyped /\ \A r \in Observer : Observing(r)
         /\ WholeNow \subseteq Release
BY DEF BuildInv, FilesInv, WholeNow

\* source_identity names the release that the environment names, if that names one.
LEMMA IdentityIs ==
  ASSUME FilesTyped
  PROVE  /\ Identity \in [state : {"MISMATCH", "UNBOUND", "OBSERVED"}, revision : Nat]
         /\ Identity.revision # 0 => env \in {Unset, Identity.revision}
<1>. DEFINE named == {n \in Release : env = n \/ disk[Marker] = n}
<1>1. PICK n : n = CHOOSE m \in named : TRUE
  OBVIOUS
<1>2. Release \subseteq Nat \ {0} /\ env \in {Unset, Invalid} \cup Release
  BY Shipped DEF FilesTyped
<1>3. Identity = IF env = Invalid \/ Cardinality(named) > 1 THEN [state |-> "MISMATCH", revision |-> 0]
                 ELSE IF named = {} THEN [state |-> "UNBOUND", revision |-> 0]
                 ELSE [state |-> "OBSERVED", revision |-> n]
  BY <1>1 DEF Identity
<1>4. named # {} => n \in named
  BY <1>1
<1>5. ASSUME n \in named, env \in Release, env # n PROVE Cardinality(named) > 1
  <2>1. IsFiniteSet(named)
    <3>1. Builds \in Nat /\ 1 \in Nat
      BY FilesAssumption
    <3>2. IsFiniteSet(Release)
      BY <3>1, FS_Interval DEF Release
    <3>. QED BY <3>2, FS_Subset
  <2>2. {env, n} \subseteq named /\ IsFiniteSet({env, n}) /\ Cardinality({env, n}) = 2
    <3>1. IsFiniteSet({n}) /\ Cardinality({n}) = 1
      BY FS_Singleton
    <3>2. IsFiniteSet({n} \cup {env}) /\ Cardinality({n} \cup {env}) = 2
      BY <1>5, <3>1, FS_AddElement
    <3>3. {n} \cup {env} = {env, n}
      OBVIOUS
    <3>. QED BY <1>5, <3>2, <3>3
  <2>3. Cardinality(named) >= 2 /\ Cardinality(named) \in Nat
    BY <2>1, <2>2, FS_Subset, FS_CardinalityType
  <2>. QED BY <2>3
<1>. HIDE DEF named
<1>6. n \in named => n \in Release
  BY DEF named
<1>7. Identity \in [state : {"MISMATCH", "UNBOUND", "OBSERVED"}, revision : Nat]
  BY <1>2, <1>3, <1>4, <1>6
<1>8. Identity.revision # 0 =>
        env # Invalid /\ ~(Cardinality(named) > 1) /\ n \in named /\ Identity.revision = n
  BY <1>3, <1>4
<1>. QED BY <1>2, <1>5, <1>7, <1>8

LEMMA BeginReadKeeps ==
  ASSUME BuildInv, NEW r \in Observer, BeginObservation(r) \/ ReadSource(r) \/ AnswerObserver(r)
  PROVE  BuildInv'
<1>1. ObserverStep(r) /\ UNCHANGED <<disk, env, deploying>>
  BY DEF ObserverStep, BeginObservation, ReadSource, AnswerObserver, Disk, deployment
<1>2. /\ progress \in [Observer -> {"idle", "source", "receipt", "walk", "read", "judged"}]
      /\ source \in [Observer -> [state : {"MISMATCH", "UNBOUND", "OBSERVED"}, revision : Nat]]
      /\ verdict \in [Observer -> Verdicts] /\ whole \in [Observer -> SUBSET Release]
  BY BuildParts DEF ObserversTyped
<1>3. /\ ObserversTyped'
      /\ \A p \in Observer \ {r} :
           /\ progress'[p] = progress[p] /\ source'[p] = source[p] /\ found'[p] = found[p]
           /\ walked'[p] = walked[p] /\ verdict'[p] = verdict[p] /\ whole'[p] = whole[p]
  <2>1. CASE BeginObservation(r)
    <3>1. /\ progress' = [progress EXCEPT ![r] = "source"] /\ whole' = [whole EXCEPT ![r] = WholeNow]
          /\ verdict' = [verdict EXCEPT ![r] = "none"] /\ UNCHANGED <<source, found, walked>>
      BY <2>1 DEF BeginObservation, Advances
    <3>. QED BY <1>2, <3>1, BuildParts DEF ObserversTyped, Verdicts
  <2>2. CASE ReadSource(r)
    <3>1. /\ progress' = [progress EXCEPT ![r] = "receipt"] /\ source' = [source EXCEPT ![r] = Identity]
          /\ UNCHANGED <<found, walked, verdict, whole>>
      BY <2>2 DEF ReadSource, Advances
    <3>. QED BY <1>2, <3>1, BuildParts, IdentityIs DEF ObserversTyped
  <2>3. CASE AnswerObserver(r)
    <3>1. /\ progress' = [progress EXCEPT ![r] = "idle"] /\ source' = [source EXCEPT ![r] = NoSource]
          /\ UNCHANGED <<found, walked, verdict, whole>>
      BY <2>3 DEF AnswerObserver, Advances
    <3>. QED BY <1>2, <3>1, BuildParts DEF ObserversTyped, NoSource
  <2>. QED BY <2>1, <2>2, <2>3
<1>4. Observing(r)'
  <2>1. CASE BeginObservation(r)
    <3>1. progress'[r] = "source" /\ whole'[r] = WholeNow /\ WholeNow' = WholeNow
      BY <1>1, <1>2, <2>1 DEF BeginObservation, Advances, WholeNow
    <3>. QED BY <3>1 DEF Observing
  <2>2. CASE ReadSource(r)
    <3>1. /\ progress[r] = "source" /\ progress'[r] = "receipt" /\ source'[r] = Identity
          /\ whole'[r] = whole[r] /\ WholeNow' = WholeNow
      BY <1>1, <1>2, <2>2 DEF ReadSource, Advances, WholeNow
    <3>2. WholeNow \subseteq whole[r]
      BY <3>1, BuildParts DEF Observing, InFlight
    <3>. QED BY <1>1, <3>1, <3>2, BuildParts, IdentityIs DEF Observing
  <2>3. CASE AnswerObserver(r)
    <3>1. progress'[r] = "idle"
      BY <1>2, <2>3 DEF AnswerObserver, Advances
    <3>. QED BY <3>1 DEF Observing, InFlight
  <2>. QED BY <2>1, <2>2, <2>3
<1>. QED BY <1>1, <1>3, <1>4, ObserverAside

\* A step that does not verify ends a request, or leaves what it has still to judge.
LEMMA LookKeeps ==
  ASSUME BuildInv, NEW r \in Observer, ReadReceipt(r) \/ ListPayload(r) \/ ReadEntry(r),
         ObserversTyped',
         progress'[r] \in {"walk", "read", "judged"},
         progress'[r] \in {"walk", "read"} => Judging(r)',
         progress'[r] = "read" => walked'[r] # <<>> /\ Len(Path) \in walked'[r].left,
         progress'[r] = "judged" /\ verdict'[r] = "VERIFIED" =>
           /\ found'[r].revision \in whole[r] /\ found'[r].revision # 0
           /\ source[r].revision = found'[r].revision,
         \A p \in Observer \ {r} :
           /\ progress'[p] = progress[p] /\ found'[p] = found[p]
           /\ walked'[p] = walked[p] /\ verdict'[p] = verdict[p]
  PROVE  BuildInv'
<1>1. ObserverStep(r) /\ UNCHANGED <<disk, env, source, whole>> /\ progress[r] \in {"receipt", "walk", "read"}
  BY DEF ObserverStep, ReadReceipt, ListPayload, ReadEntry, Advances, Disk, deployment
<1>2. Observing(r)'
  <2>1. WholeNow' = WholeNow /\ Observing(r)
    BY <1>1, BuildParts DEF WholeNow
  <2>. QED BY <1>1, <2>1 DEF Observing, InFlight
<1>. QED BY <1>1, <1>2, ObserverAside

\* What a request that has found a receipt of its own source may hope for.
LEMMA ReceiptKeeps ==
  ASSUME BuildInv, NEW r \in Observer, ReadReceipt(r)
  PROVE  BuildInv'
<1>1. /\ progress \in [Observer -> {"idle", "source", "receipt", "walk", "read", "judged"}]
      /\ source \in [Observer -> [state : {"MISMATCH", "UNBOUND", "OBSERVED"}, revision : Nat]]
      /\ found \in [Observer -> Documents] /\ receiptFile \in Documents
      /\ walked \in [Observer -> {<<>>} \cup [left : SUBSET DOMAIN Path, entries : [Paths -> Nat]]]
      /\ verdict \in [Observer -> Verdicts] /\ whole \in [Observer -> SUBSET Release]
  BY BuildParts DEF ObserversTyped, FilesTyped
<1>2. /\ found' = [found EXCEPT ![r] = receiptFile] /\ progress[r] = "receipt"
      /\ UNCHANGED <<source, whole, disk, deploying>>
  BY DEF ReadReceipt, Advances, Disk, deployment
<1>3. \/ /\ progress' = [progress EXCEPT ![r] = "walk"] /\ UNCHANGED <<walked, verdict>>
         /\ OwnSource(receiptFile, source[r]) /\ Sound(receiptFile)
      \/ /\ progress' = [progress EXCEPT ![r] = "judged"] /\ walked' = [walked EXCEPT ![r] = <<>>]
         /\ \E state \in Verdicts \ {"VERIFIED"} : verdict' = [verdict EXCEPT ![r] = state]
  <2>1. CASE receiptFile = NoDocument
    BY <2>1 DEF ReadReceipt, Advances, Judged, Verdicts
  <2>2. CASE receiptFile # NoDocument /\ receiptFile = Malformed
    BY <2>2 DEF ReadReceipt, Advances, Judged, Verdicts
  <2>3. CASE receiptFile \notin {NoDocument, Malformed}
    BY <2>3 DEF ReadReceipt, Advances, Judged, Verdicts
  <2>. QED BY <2>1, <2>2, <2>3
<1>4. /\ ObserversTyped'
      /\ \A p \in Observer \ {r} :
           /\ progress'[p] = progress[p] /\ found'[p] = found[p]
           /\ walked'[p] = walked[p] /\ verdict'[p] = verdict[p]
      /\ progress'[r] \in {"walk", "judged"}
      /\ progress'[r] = "walk" => OwnSource(receiptFile, source[r]) /\ Sound(receiptFile)
      /\ progress'[r] = "judged" => verdict'[r] # "VERIFIED"
  <2>1. /\ source' \in [Observer -> [state : {"MISMATCH", "UNBOUND", "OBSERVED"}, revision : Nat]]
        /\ found' \in [Observer -> Documents] /\ whole' \in [Observer -> SUBSET Release]
        /\ \A p \in Observer \ {r} : found'[p] = found[p]
    BY <1>1, <1>2
  <2>2. CASE progress' = [progress EXCEPT ![r] = "walk"] /\ UNCHANGED <<walked, verdict>>
    BY <1>1, <1>3, <2>1, <2>2 DEF ObserversTyped
  <2>3. CASE progress' = [progress EXCEPT ![r] = "judged"]
    <3>1. progress'[r] = "judged" /\ progress' # [progress EXCEPT ![r] = "walk"]
      BY <1>1, <2>3
    <3>2. PICK state \in Verdicts \ {"VERIFIED"} : /\ verdict' = [verdict EXCEPT ![r] = state]
                                                   /\ walked' = [walked EXCEPT ![r] = <<>>]
      BY <1>3, <3>1
    <3>3. /\ verdict' \in [Observer -> Verdicts] /\ verdict'[r] # "VERIFIED"
          /\ \A p \in Observer \ {r} : verdict'[p] = verdict[p]
      BY <1>1, <3>2
    <3>4. /\ walked' \in [Observer -> {<<>>} \cup [left : SUBSET DOMAIN Path, entries : [Paths -> Nat]]]
          /\ \A p \in Observer \ {r} : walked'[p] = walked[p]
      BY <1>1, <3>2
    <3>. QED BY <1>1, <2>1, <2>3, <3>1, <3>3, <3>4 DEF ObserversTyped
  <2>. QED BY <1>3, <2>2, <2>3
<1>5. ASSUME progress'[r] = "walk" PROVE Judging(r)'
  <2>1. PICK n : n = receiptFile.revision
    OBVIOUS
  <2>2. PICK d : d = deploying.release
    OBVIOUS
  <2>3. /\ Sound(receiptFile) /\ source[r].revision = n
        /\ n \in Release /\ n \in Nat /\ d \in Release /\ d \in Nat /\ n <= d
        /\ n = d => deploying.left = {}
    <3>1. /\ Sound(receiptFile) /\ source[r].revision = n /\ Faithful(receiptFile) /\ d \in Release
      BY <1>4, <1>5, <2>1, <2>2, BuildParts, MarkerSays DEF OwnSource, FilesInv
    <3>. QED BY <2>1, <2>2, <3>1, Shipped DEF Faithful
  <2>4. WholeNow \subseteq whole[r]
    BY <1>2, BuildParts DEF Observing, InFlight
  <2>5. ASSUME disk = FilesOf(n) PROVE n \in whole[r]
    BY <2>3, <2>4, <2>5 DEF WholeNow
  <2>6. \/ n \in whole[r]
        \/ d > n + 1
        \/ d = n + 1 /\ \E path \in Paths : Spoilt(r, n, path)'
    <3>1. ASSUME d = n + 1, disk # FilesOf(n) PROVE \E path \in Paths : Spoilt(r, n, path)'
      <4>1. disk \in [Paths -> Nat] /\ FilesOf(n) = [path \in Paths |-> Bytes[path][n]]
        BY BuildParts DEF FilesTyped, FilesOf
      <4>2. PICK path \in Paths : disk[path] # Bytes[path][n]
        BY <3>1, <4>1
      <4>3. Bytes[path][d] # Bytes[path][n]
        <5>1. d - 1 = n
          BY <2>3, <3>1
        <5>2. \/ disk[path] = Bytes[path][d]
              \/ disk[path] = Bytes[path][d - 1]
              \/ Bytes[path][d - 1] # Bytes[path][d]
          BY <2>2, BuildParts DEF FilesInv, OnDisk
        <5>. QED BY <4>2, <5>1, <5>2
      <4>4. path \in Unread(r)'
        BY <1>5 DEF Unread
      <4>. QED BY <1>2, <2>2, <4>2, <4>3, <4>4 DEF Spoilt
    <3>2. n = d => n \in whole[r]
      BY <2>2, <2>3, <2>5, BuildParts, MarkerSays
    <3>. QED BY <2>3, <2>5, <3>1, <3>2
  <2>7. found'[r] = receiptFile /\ source'[r] = source[r] /\ whole'[r] = whole[r] /\ deploying' = deploying
    BY <1>1, <1>2
  <2>8. Faithful(found[r])'
    BY <2>7, BuildParts DEF FilesInv, Faithful, Sound
  <2>. QED BY <2>1, <2>2, <2>3, <2>6, <2>7, <2>8 DEF Judging, Sound
<1>. QED BY <1>4, <1>5, LookKeeps

LEMMA ListingKeepsBuild ==
  ASSUME BuildInv, NEW r \in Observer, ListPayload(r)
  PROVE  BuildInv'
<1>1. /\ progress \in [Observer -> {"idle", "source", "receipt", "walk", "read", "judged"}]
      /\ walked \in [Observer -> {<<>>} \cup [left : SUBSET DOMAIN Path, entries : [Paths -> Nat]]]
      /\ verdict \in [Observer -> Verdicts] /\ ObserversTyped /\ Observing(r)
  BY BuildParts DEF ObserversTyped
<1>2. /\ progress[r] = "walk" /\ UNCHANGED <<found, source, whole, disk, deploying>> /\ Judging(r)
  BY <1>1 DEF ListPayload, Advances, Disk, deployment, Observing
<1>. DEFINE listing == [left |-> {i \in DOMAIN Path : disk[Path[i]] # Gone},
                        entries |-> [path \in Paths |-> Gone]]
<1>3. CASE disk[Marker] = Gone
  <2>1. /\ progress' = [progress EXCEPT ![r] = "judged"] /\ walked' = [walked EXCEPT ![r] = <<>>]
        /\ verdict' = [verdict EXCEPT ![r] = "INVALID"]
    BY <1>3 DEF ListPayload, Advances, Judged
  <2>2. "INVALID" \in Verdicts
    BY DEF Verdicts
  <2>3. /\ ObserversTyped' /\ progress'[r] = "judged" /\ verdict'[r] # "VERIFIED"
        /\ \A p \in Observer \ {r} :
             /\ progress'[p] = progress[p] /\ found'[p] = found[p]
             /\ walked'[p] = walked[p] /\ verdict'[p] = verdict[p]
    BY <1>1, <1>2, <2>1, <2>2 DEF ObserversTyped
  <2>. QED BY <2>3, LookKeeps
<1>4. CASE disk[Marker] # Gone
  <2>1. /\ progress' = [progress EXCEPT ![r] = "read"] /\ walked' = [walked EXCEPT ![r] = listing]
        /\ UNCHANGED verdict
    BY <1>4 DEF ListPayload, Advances
  <2>2. /\ listing \in [left : SUBSET DOMAIN Path, entries : [Paths -> Nat]]
        /\ Len(Path) \in listing.left /\ listing # <<>>
        /\ \A path \in Paths : listing.entries[path] = Gone
    <3>1. [path \in Paths |-> Gone] \in [Paths -> Nat]
      BY DEF Gone
    <3>2. Len(Path) \in listing.left
      BY <1>4, Shipped
    <3>3. listing # <<>>
      OBVIOUS
    <3>. QED BY <3>1, <3>2, <3>3
  <2>. HIDE DEF listing
  <2>3. /\ ObserversTyped' /\ progress'[r] = "read" /\ walked'[r] = listing
        /\ \A p \in Observer \ {r} :
             /\ progress'[p] = progress[p] /\ found'[p] = found[p]
             /\ walked'[p] = walked[p] /\ verdict'[p] = verdict[p]
    BY <1>1, <1>2, <2>1, <2>2 DEF ObserversTyped
  <2>4. PICK n : n = found[r].revision
    OBVIOUS
  <2>5. ASSUME NEW path \in Paths, Spoilt(r, n, path) PROVE Spoilt(r, n, path)'
    <3>1. n \in Release
      BY <1>2, <2>4 DEF Judging, Faithful
    <3>2. Bytes[path][n] # Gone
      BY <3>1, Shipped
    <3>. QED BY <1>2, <2>2, <2>3, <2>5, <3>2 DEF Spoilt
  <2>6. Judging(r)'
    BY <1>2, <2>4, <2>5 DEF Judging, Faithful, Sound
  <2>. QED BY <2>2, <2>3, <2>6, LookKeeps
<1>. QED BY <1>3, <1>4

LEMMA ReadingKeepsBuild ==
  ASSUME BuildInv, NEW r \in Observer, ReadEntry(r)
  PROVE  BuildInv'
<1>1. /\ progress \in [Observer -> {"idle", "source", "receipt", "walk", "read", "judged"}]
      /\ walked \in [Observer -> {<<>>} \cup [left : SUBSET DOMAIN Path, entries : [Paths -> Nat]]]
      /\ verdict \in [Observer -> Verdicts] /\ ObserversTyped /\ Observing(r)
      /\ disk \in [Paths -> Nat]
  BY BuildParts DEF ObserversTyped, FilesTyped
<1>2. /\ progress[r] = "read" /\ UNCHANGED <<found, source, whole, disk, deploying>> /\ Judging(r)
      /\ walked[r] # <<>> /\ Len(Path) \in walked[r].left
      /\ walked[r] \in [left : SUBSET DOMAIN Path, entries : [Paths -> Nat]]
  BY <1>1 DEF ReadEntry, Disk, deployment, Observing
<1>3. PICK i \in walked[r].left :
        LET path == Path[i]
            entries == [walked[r].entries EXCEPT ![path] = disk[path]]
        IN  /\ \A j \in walked[r].left : i <= j
            /\ IF disk[path] = Gone
               THEN Advances(r, "read", "judged") /\ Judged(r, "INVALID")
               ELSE IF walked[r].left # {i}
               THEN /\ walked' = [walked EXCEPT ![r] = [left |-> walked[r].left \ {i}, entries |-> entries]]
                    /\ UNCHANGED <<progress, verdict>>
               ELSE /\ Advances(r, "read", "judged")
                    /\ Judged(r, IF SamePayload(entries, found[r]) THEN "VERIFIED" ELSE "PAYLOAD_MISMATCH")
  BY <1>2 DEF ReadEntry
<1>4. PICK path : path = Path[i]
  OBVIOUS
<1>5. PICK entries : entries = [walked[r].entries EXCEPT ![path] = disk[path]]
  OBVIOUS
<1>6. /\ i \in DOMAIN Path /\ path \in Paths /\ entries \in [Paths -> Nat] /\ entries[path] = disk[path]
      /\ \A other \in Paths \ {path} : entries[other] = walked[r].entries[other]
  BY <1>1, <1>2, <1>4, <1>5, Shipped
<1>7. PICK n : n = found[r].revision
  OBVIOUS
<1>8. /\ n \in Release /\ n \in Nat \ {0} /\ found[r].entries = FilesOf(n) /\ Sound(found[r])
      /\ source[r].revision = n
  BY <1>2, <1>7, Shipped DEF Judging, Faithful
<1>9. ASSUME NEW state \in Verdicts, Advances(r, "read", "judged"), Judged(r, state),
             state = "VERIFIED" => n \in whole[r]
      PROVE  BuildInv'
  <2>1. /\ progress' = [progress EXCEPT ![r] = "judged"] /\ walked' = [walked EXCEPT ![r] = <<>>]
        /\ verdict' = [verdict EXCEPT ![r] = state]
    BY <1>9 DEF Advances, Judged
  <2>2. /\ ObserversTyped' /\ progress'[r] = "judged" /\ verdict'[r] = state
        /\ \A p \in Observer \ {r} :
             /\ progress'[p] = progress[p] /\ found'[p] = found[p]
             /\ walked'[p] = walked[p] /\ verdict'[p] = verdict[p]
    BY <1>1, <1>2, <1>9, <2>1 DEF ObserversTyped
  <2>. QED BY <1>2, <1>7, <1>8, <1>9, <2>2, LookKeeps
<1>10. CASE disk[path] = Gone
  BY <1>3, <1>4, <1>9, <1>10 DEF Verdicts
<1>11. CASE disk[path] # Gone /\ walked[r].left # {i}
  <2>1. /\ walked' = [walked EXCEPT ![r] = [left |-> walked[r].left \ {i}, entries |-> entries]]
        /\ UNCHANGED <<progress, verdict>> /\ \A j \in walked[r].left : i <= j
    BY <1>3, <1>4, <1>5, <1>11
  <2>2. /\ [left |-> walked[r].left \ {i}, entries |-> entries]
             \in [left : SUBSET DOMAIN Path, entries : [Paths -> Nat]]
        /\ [left |-> walked[r].left \ {i}, entries |-> entries] # <<>>
    BY <1>2, <1>6
  <2>3. /\ ObserversTyped' /\ walked'[r].left = walked[r].left \ {i} /\ walked'[r].entries = entries
        /\ walked'[r] # <<>>
        /\ \A p \in Observer \ {r} :
             /\ progress'[p] = progress[p] /\ found'[p] = found[p]
             /\ walked'[p] = walked[p] /\ verdict'[p] = verdict[p]
    BY <1>1, <1>2, <2>1, <2>2 DEF ObserversTyped
  <2>4. Len(Path) \in walked'[r].left
    <3>1. i # Len(Path)
      <4>1. PICK j \in walked[r].left : j # i
        BY <1>11
      <4>2. i <= j /\ i \in 1 .. Len(Path) /\ j \in 1 .. Len(Path) /\ Len(Path) \in Nat
        BY <1>2, <1>6, <2>1, <4>1, Shipped
      <4>. QED BY <4>1, <4>2
    <3>. QED BY <1>2, <2>3, <3>1
  <2>5. ASSUME NEW other \in Paths, Spoilt(r, n, other) PROVE Spoilt(r, n, other)'
    <3>1. other \in Unread(r)' \/ walked'[r].entries[other] # Bytes[other][n]
      <4>1. CASE other = path
        BY <1>6, <2>3, <2>5, <4>1 DEF Spoilt
      <4>2. CASE other # path /\ other \in Unread(r)
        <5>1. PICK j \in walked[r].left : other = Path[j]
          BY <1>2, <4>2 DEF Unread
        <5>2. j \in walked'[r].left
          BY <1>4, <2>3, <4>2, <5>1
        <5>. QED BY <1>2, <2>1, <5>1, <5>2 DEF Unread
      <4>3. CASE other # path /\ walked[r].entries[other] # Bytes[other][n]
        BY <1>6, <2>3, <4>3
      <4>. QED BY <2>5, <4>1, <4>2, <4>3 DEF Spoilt
    <3>. QED BY <1>2, <2>5, <3>1 DEF Spoilt
  <2>6. Judging(r)'
    BY <1>2, <1>7, <2>5 DEF Judging, Faithful, Sound
  <2>. QED BY <1>2, <2>1, <2>3, <2>4, <2>6, LookKeeps
<1>12. CASE disk[path] # Gone /\ walked[r].left = {i}
  <2>1. Advances(r, "read", "judged") /\ i = Len(Path) /\ path = Marker
        /\ Judged(r, IF SamePayload(entries, found[r]) THEN "VERIFIED" ELSE "PAYLOAD_MISMATCH")
    BY <1>2, <1>3, <1>4, <1>5, <1>12, Shipped
  <2>2. ASSUME SamePayload(entries, found[r]) PROVE n \in whole[r]
    <3>1. entries = FilesOf(n) /\ \A other \in Paths : entries[other] = Bytes[other][n]
      <4>1. Entries(entries) = FilesOf(n)
        BY <1>8, <2>2 DEF SamePayload
      <4>2. FilesOf(n) \in [Paths -> Nat \ {Gone}] /\ entries \in [Paths -> Nat]
        BY <1>6, <1>8, Shipped
      <4>3. entries = FilesOf(n)
        BY <4>1, <4>2, ListsAll
      <4>. QED BY <1>8, <4>3, Shipped
    <3>2. disk[Marker] = n
      BY <1>6, <1>8, <2>1, <3>1, Shipped
    <3>3. ~(deploying.release > n + 1)
      <4>1. disk[Marker] \in {0, deploying.release - 1, deploying.release} /\ deploying.release \in Nat
        BY BuildParts, MarkerSays, Shipped DEF Gone
      <4>. QED BY <1>8, <3>2, <4>1
    <3>4. ASSUME NEW other \in Paths, Spoilt(r, n, other) PROVE FALSE
      <4>1. CASE other = path
        BY <1>6, <3>1, <3>4, <4>1 DEF Spoilt
      <4>2. CASE other # path
        <5>1. other \notin Unread(r)
          BY <1>2, <1>4, <1>12, <4>2 DEF Unread
        <5>. QED BY <1>6, <3>1, <3>4, <4>2, <5>1 DEF Spoilt
      <4>. QED BY <4>1, <4>2
    <3>. QED BY <1>2, <1>7, <3>3, <3>4 DEF Judging
  <2>. QED BY <1>9, <2>1, <2>2 DEF Verdicts
<1>. QED BY <1>10, <1>11, <1>12

-----------------------------------------------------------------------------

\* The invariant holds whatever deployments, generators and requests do.
THEOREM BuildInvariance == BuildSpec => []BuildInv
<1>1. BuildInit => BuildInv
  <2>. SUFFICES ASSUME BuildInit PROVE BuildInv
    OBVIOUS
  <2>1. /\ disk = FilesOf(1) /\ env \in {Unset, Invalid} \cup Release /\ 1 \in Release
        /\ deploying = [release |-> 1, left |-> {}] /\ generating = NoDocument
    BY Shipped DEF BuildInit
  <2>2. disk \in [Paths -> Nat \ {Gone}] /\ \A path \in Paths : disk[path] = Bytes[path][1]
    BY <2>1, Shipped
  <2>3. receiptFile \in Documents /\ Faithful(receiptFile)
    <3>1. CASE receiptFile \in {NoDocument, Malformed}
      BY <3>1, NoneIsSound DEF Faithful
    <3>2. ASSUME NEW path \in Paths, NEW n \in Release,
                 receiptFile = [Document(1, FilesOf(1)) EXCEPT !.entries[path] = Bytes[path][n]]
          PROVE  receiptFile \in Documents /\ Faithful(receiptFile)
      <4>1. PICK listed : listed = [FilesOf(1) EXCEPT ![path] = Bytes[path][n]]
        OBVIOUS
      <4>2. /\ receiptFile.revision = 1 /\ receiptFile.entries = listed
            /\ receiptFile.digest = <<1, FilesOf(1)>>
            /\ receiptFile = [revision |-> 1, entries |-> listed, digest |-> <<1, FilesOf(1)>>]
        BY <3>2, <4>1 DEF Document
      <4>3. listed \in [Paths -> Nat \ {Gone}] /\ FilesOf(1) \in [Paths -> Nat \ {Gone}]
        BY <2>1, <4>1, Shipped
      <4>4. listed \in Manifests /\ FilesOf(1) \in Manifests
        BY <4>3 DEF Manifests
      <4>5. receiptFile \in Documents
        <5>1. <<1, FilesOf(1)>> \in Release \X Manifests
          BY <2>1, <4>4
        <5>. QED BY <2>1, <4>2, <4>4, <5>1 DEF Documents
      <4>6. Sound(receiptFile) => receiptFile.entries = FilesOf(1)
        BY <4>2 DEF Sound
      <4>. QED BY <2>1, <4>2, <4>5, <4>6 DEF Faithful
    <3>3. \/ receiptFile \in {NoDocument, Malformed}
          \/ \E path \in Paths, n \in Release :
               receiptFile = [Document(1, FilesOf(1)) EXCEPT !.entries[path] = Bytes[path][n]]
      BY DEF BuildInit
    <3>. QED BY <3>1, <3>2, <3>3
  <2>4. FilesInv
    <3>1. FilesTyped
      BY <2>1, <2>2, <2>3, NoneIsSound DEF FilesTyped
    <3>2. OnDisk
      BY <2>1, <2>2 DEF OnDisk
    <3>3. Faithful(generating)
      BY <2>1, NoneIsSound DEF Faithful
    <3>. QED BY <2>3, <3>1, <3>2, <3>3 DEF FilesInv
  <2>5. ObserversTyped
    BY NoneIsSound DEF BuildInit, ObserversTyped, NoSource, Verdicts
  <2>6. \A r \in Observer : Observing(r)
    BY DEF BuildInit, Observing, InFlight
  <2>. QED BY <2>4, <2>5, <2>6 DEF BuildInv
<1>2. BuildInv /\ [BuildNext]_buildVars => BuildInv'
  <2>. SUFFICES ASSUME BuildInv, [BuildNext]_buildVars PROVE BuildInv'
    OBVIOUS
  <2>1. CASE DeployStep
    BY <2>1, DeployKeeps
  <2>2. ASSUME NEW r \in Observer, ObserverStep(r) PROVE BuildInv'
    BY <2>2, BeginReadKeeps, ReceiptKeeps, ListingKeepsBuild, ReadingKeepsBuild DEF ObserverStep
  <2>3. CASE UNCHANGED buildVars
    <3>1. UNCHANGED <<disk, receiptFile, env, deploying, generating, progress, source, found, walked,
                      verdict, whole>>
      BY <2>3 DEF buildVars
    <3>2. FilesInv'
      BY <3>1, BuildParts DEF FilesInv, FilesTyped, OnDisk, Faithful, Sound
    <3>3. ASSUME NEW r \in Observer PROVE Judging(r) => Judging(r)'
      BY <3>1 DEF Judging, Faithful, Sound, Spoilt, Unread
    <3>. QED BY <3>1, <3>2, <3>3, BuildParts, DeployAside DEF ObserversTyped, Observing, WholeNow
  <2>. QED BY <2>1, <2>2, <2>3 DEF BuildNext
<1>. QED BY <1>1, <1>2, PTL DEF BuildSpec

\* observe_build_receipt reads the files one by one while a deployment replaces them, and still
\* says VERIFIED only of a release that was on disk as a whole at one instant of the request,
\* and that the environment, where it names one, names too.
THEOREM VerifiedStaysARelease == BuildSpec => []VerifiedIsARelease
<1>1. BuildInv => VerifiedIsARelease
  BY DEF BuildInv, Observing, VerifiedIsARelease
<1>. QED BY BuildInvariance, <1>1, PTL

-----------------------------------------------------------------------------
(* The lists.  What a walk asked for when it began keeps its place or moves towards the end, and *)
(* a page that does not reach it is full and names the next one (Reached).  So a walk that ends  *)
(* has met all of it, unless it says that it was cut.                                            *)

Words == Subject \cup {AnyOf}
MemoryRow == [kind : Kind, subject : Subject]
Items == IF list = "entities" THEN Nat \X Nat ELSE Nat
WalkType ==
  [kind : Kind \cup {AnyOf}, subject : Words, offset : Int, pages : Nat,
   items : SUBSET Items, cut : BOOLEAN,
   state : {"idle", "walking", "done", "rejected"}, due : SUBSET Nat]

PagingTyped ==
  /\ list \in {"memory", "receipts", "entities"}
  /\ memoryRows \in Seq(MemoryRow) /\ receiptCount \in Nat
  /\ version \in [1 .. LastEntity -> Nat]
  /\ walk \in [Client -> WalkType]

\* What a walk is to have: all that matches as long as it has read no page.
DueOf(w) == IF w.pages = 0 THEN Matching(w) ELSE w.due

\* All that is due is in the list still, and in hand or at the next offset or after it.
Ahead(w) ==
  /\ DueOf(w) \subseteq Matching(w)
  /\ \A e \in DueOf(w) : e \in Names(w) \/ w.offset <= Place(Matching(w), e)

Walked(w) ==
  /\ w.pages = 0 => w.offset = 0 /\ w.due = {}
  /\ w.state = "walking" => w.offset \in Nat
  /\ w.state = "walking" /\ ~w.cut => Ahead(w)
  /\ w.state = "done" /\ ~w.cut => w.due \subseteq Names(w)

PagingInv == PagingTyped /\ \A c \in Client : Walked(walk[c])

-----------------------------------------------------------------------------
(* Places in a finite set of numbers. *)

InFront(S, e) == {x \in S : IF list = "memory" THEN x > e ELSE x < e}

LEMMA PlaceIs ==
  ASSUME NEW S \in SUBSET Nat, IsFiniteSet(S), NEW e \in S
  PROVE  /\ IsFiniteSet(InFront(S, e)) /\ Place(S, e) = Cardinality(InFront(S, e))
         /\ Place(S, e) \in 0 .. Cardinality(S) - 1
<1>1. Place(S, e) = Cardinality(InFront(S, e))
  BY DEF Place, InFront
<1>2. InFront(S, e) \in SUBSET (S \ {e}) /\ e \in Nat
  BY DEF InFront
<1>3. IsFiniteSet(S \ {e}) /\ Cardinality(S \ {e}) = Cardinality(S) - 1 /\ Cardinality(S) \in Nat
  BY FS_RemoveElement, FS_CardinalityType
<1>4. /\ IsFiniteSet(InFront(S, e)) /\ Cardinality(InFront(S, e)) <= Cardinality(S \ {e})
      /\ Cardinality(InFront(S, e)) \in Nat
  BY <1>2, <1>3, FS_Subset, FS_CardinalityType
<1>. QED BY <1>1, <1>3, <1>4

\* A row never moves towards the front when others come.
LEMMA PlaceMoves ==
  ASSUME NEW T \in SUBSET Nat, IsFiniteSet(T), NEW S \in SUBSET T, NEW e \in S
  PROVE  Place(S, e) <= Place(T, e)
<1>1. InFront(S, e) \in SUBSET InFront(T, e)
  BY DEF InFront
<1>2. IsFiniteSet(InFront(T, e)) /\ Place(T, e) = Cardinality(InFront(T, e))
  BY PlaceIs
<1>3. Place(S, e) = Cardinality(InFront(S, e))
  BY DEF Place, InFront
<1>. QED BY <1>1, <1>2, <1>3, FS_Subset

LEMMA PlacesDiffer ==
  ASSUME NEW S \in SUBSET Nat, IsFiniteSet(S), NEW e \in S, NEW f \in S, e # f
  PROVE  Place(S, e) # Place(S, f)
<1>1. ASSUME NEW x \in S, NEW y \in S, x \in InFront(S, y), x \notin InFront(S, x),
             InFront(S, x) \subseteq InFront(S, y)
      PROVE  Place(S, x) # Place(S, y)
  <2>1. /\ IsFiniteSet(InFront(S, y)) /\ Place(S, y) = Cardinality(InFront(S, y))
        /\ Place(S, x) = Cardinality(InFront(S, x))
    BY PlaceIs
  <2>2. Cardinality(InFront(S, y)) = Cardinality(InFront(S, x)) => InFront(S, y) = InFront(S, x)
    BY <1>1, <2>1, FS_Subset
  <2>. QED BY <1>1, <2>1, <2>2
<1>2. e \in Nat /\ f \in Nat
  OBVIOUS
<1>3. CASE e \in InFront(S, f)
  <2>1. e \notin InFront(S, e)
    BY <1>2 DEF InFront
  <2>2. ASSUME NEW x \in InFront(S, e) PROVE x \in InFront(S, f)
    <3>1. x \in S /\ x \in Nat
      BY <2>2 DEF InFront
    <3>. QED BY <1>2, <1>3, <2>2, <3>1 DEF InFront
  <2>. QED BY <1>1, <1>3, <2>1, <2>2
<1>4. CASE f \in InFront(S, e)
  <2>1. f \notin InFront(S, f)
    BY <1>2 DEF InFront
  <2>2. ASSUME NEW x \in InFront(S, f) PROVE x \in InFront(S, e)
    <3>1. x \in S /\ x \in Nat
      BY <2>2 DEF InFront
    <3>. QED BY <1>2, <1>4, <2>2, <3>1 DEF InFront
  <2>. QED BY <1>1, <1>4, <2>1, <2>2
<1>5. e \in InFront(S, f) \/ f \in InFront(S, e)
  BY <1>2 DEF InFront
<1>. QED BY <1>3, <1>4, <1>5

\* No place is empty: otherwise the rows, one more than the places left, would share one.
LEMMA PlacesFilled ==
  ASSUME NEW S \in SUBSET Nat, IsFiniteSet(S), NEW k \in 0 .. Cardinality(S) - 1
  PROVE  \E e \in S : Place(S, e) = k
<1>. DEFINE n == Cardinality(S)
            others == (0 .. n - 1) \ {k}
            place == [e \in S |-> Place(S, e)]
<1>. SUFFICES ASSUME \A e \in S : Place(S, e) # k PROVE FALSE
  OBVIOUS
<1>1. n \in Nat
  BY FS_CardinalityType
<1>2. IsFiniteSet(0 .. n - 1) /\ Cardinality(0 .. n - 1) = n
  BY <1>1, FS_Interval
<1>3. IsFiniteSet(others) /\ Cardinality(others) = n - 1
  BY <1>2, FS_RemoveElement
<1>4. place \in [S -> others]
  <2>1. \A e \in S : Place(S, e) \in others
    BY PlaceIs
  <2>. QED BY <2>1
<1>5. Cardinality(others) < Cardinality(S)
  BY <1>1, <1>3
<1>. HIDE DEF others, place
<1>6. \E x, y \in S : x # y /\ place[x] = place[y]
  BY <1>3, <1>4, <1>5, FS_PigeonHole
<1>. QED BY <1>6, PlacesDiffer DEF place

\* As many rows as n places have.
Between(S, a, n) == {e \in S : a <= Place(S, e) /\ Place(S, e) < a + n}

LEMMA PlacesHold ==
  ASSUME NEW S \in SUBSET Nat, IsFiniteSet(S), NEW a \in Nat, NEW n \in Nat, a + n <= Cardinality(S)
  PROVE  Cardinality(Between(S, a, n)) = n
<1>. DEFINE R == Between(S, a, n)
            places == a .. a + n - 1
            at == [k \in places |-> CHOOSE e \in S : Place(S, e) = k]
            place == [e \in R |-> Place(S, e)]
<1>0. Cardinality(S) \in Nat /\ R \in SUBSET S
  BY FS_CardinalityType DEF Between
<1>1. IsFiniteSet(R) /\ Cardinality(R) \in Nat
  BY <1>0, FS_Subset, FS_CardinalityType
<1>2. IsFiniteSet(places) /\ Cardinality(places) = n
  BY FS_Interval
<1>3. \A k \in places : at[k] \in S /\ Place(S, at[k]) = k
  <2>. SUFFICES ASSUME NEW k \in places PROVE at[k] \in S /\ Place(S, at[k]) = k
    OBVIOUS
  <2>1. k \in 0 .. Cardinality(S) - 1
    BY <1>0
  <2>. QED BY <2>1, PlacesFilled
<1>4. at \in [places -> R]
  <2>1. \A k \in places : at[k] \in R
    BY <1>3 DEF Between
  <2>. QED BY <2>1
<1>5. at \in Injection(places, R)
  BY <1>3, <1>4 DEF Injection, IsInjective
<1>6. n <= Cardinality(R)
  BY <1>1, <1>2, <1>5, FS_Injection
<1>7. place \in Injection(R, places)
  <2>1. \A e \in R : Place(S, e) \in places
    BY PlaceIs DEF Between
  <2>2. \A e, f \in R : Place(S, e) = Place(S, f) => e = f
    BY <1>0, PlacesDiffer
  <2>. QED BY <2>1, <2>2 DEF Injection, IsInjective
<1>8. Cardinality(R) <= n
  BY <1>2, <1>7, FS_Injection
<1>. QED BY <1>1, <1>6, <1>8

\* A scan that is not cut has examined everything.
LEMMA NotCut ==
  ASSUME NEW S \in SUBSET Nat, IsFiniteSet(S), Cardinality(Foremost(S, ScanRead)) <= ScanLimit
  PROVE  Foremost(S, ScanRead) = S /\ Foremost(S, ScanLimit) = S
<1>. DEFINE n == Cardinality(S)
<1>1. n \in Nat /\ ScanLimit \in Nat /\ ScanRead = ScanLimit + 1
  BY FS_CardinalityType, PagesAssumption DEF ScanRead
<1>2. n <= ScanLimit
  <2>. SUFFICES ASSUME n > ScanLimit PROVE FALSE
    BY <1>1
  <2>0. PICK a \in Nat : a = 0
    OBVIOUS
  <2>1. a + ScanRead <= Cardinality(S) /\ ScanRead \in Nat /\ a + ScanRead = ScanRead
    BY <1>1, <2>0
  <2>2. Foremost(S, ScanRead) = Between(S, a, ScanRead)
    <3>1. \A e \in S : Place(S, e) \in 0 .. n - 1
      BY PlaceIs
    <3>2. \A e \in S : a <= Place(S, e)
      BY <1>1, <2>0, <3>1
    <3>. QED BY <2>1, <3>2 DEF Foremost, Between
  <2>3. Cardinality(Between(S, a, ScanRead)) = ScanRead
    BY <2>1, PlacesHold
  <2>. QED BY <1>1, <2>2, <2>3
<1>3. \A e \in S : Place(S, e) < ScanLimit /\ Place(S, e) < ScanRead
  <2>. SUFFICES ASSUME NEW e \in S PROVE Place(S, e) < ScanLimit /\ Place(S, e) < ScanRead
    OBVIOUS
  <2>1. Place(S, e) \in 0 .. n - 1
    BY PlaceIs
  <2>. QED BY <1>1, <1>2, <2>1
<1>. QED BY <1>3 DEF Foremost

\* The rows of a page, which are as many as it holds if the list goes on.
LEMMA PageIs ==
  ASSUME NEW S \in SUBSET Nat, IsFiniteSet(S), NEW offset \in Nat
  PROVE  /\ PageAt(S, offset) \in SUBSET S
         /\ Cardinality(PageAt(S, offset)) \in Nat
         /\ \A e \in S : offset <= Place(S, e) /\ e \notin PageAt(S, offset) =>
              /\ offset + Limit <= Place(S, e)
              /\ Cardinality(PageAt(S, offset)) = Limit
              /\ offset + Limit < Cardinality(S)
<1>1. PageAt(S, offset) \in SUBSET S
  BY DEF PageAt
<1>2. Cardinality(PageAt(S, offset)) \in Nat
  BY <1>1, FS_Subset, FS_CardinalityType
<1>3. ASSUME NEW e \in S, offset <= Place(S, e), e \notin PageAt(S, offset)
      PROVE  /\ offset + Limit <= Place(S, e)
             /\ Cardinality(PageAt(S, offset)) = Limit
             /\ offset + Limit < Cardinality(S)
  <2>1. Limit \in Nat /\ Cardinality(S) \in Nat /\ Place(S, e) \in 0 .. Cardinality(S) - 1
    BY PlaceIs, FS_CardinalityType, PagesAssumption
  <2>2. offset + Limit <= Place(S, e)
    BY <1>3, <2>1 DEF PageAt
  <2>3. offset + Limit <= Cardinality(S)
    BY <2>1, <2>2
  <2>4. PageAt(S, offset) = Between(S, offset, Limit)
    BY DEF PageAt, Between
  <2>5. Cardinality(PageAt(S, offset)) = Limit
    BY <2>1, <2>3, <2>4, PlacesHold
  <2>. QED BY <2>1, <2>2, <2>5
<1>. QED BY <1>1, <1>2, <1>3

\* The lists are finite sets of numbers.
LEMMA ListsAre ==
  ASSUME PagingTyped, NEW w
  PROVE  /\ Matching(w) \in SUBSET Nat /\ IsFiniteSet(Matching(w))
         /\ \A S \in SUBSET (DOMAIN memoryRows) : S \in SUBSET Nat /\ IsFiniteSet(S)
<1>1. /\ DOMAIN memoryRows = 1 .. Len(memoryRows) /\ Len(memoryRows) \in Nat
      /\ receiptCount \in Nat /\ LastEntity \in Nat
      /\ list \in {"memory", "receipts", "entities"}
  BY PagesAssumption DEF PagingTyped
<1>2. /\ IsFiniteSet(1 .. Len(memoryRows)) /\ IsFiniteSet(1 .. receiptCount)
      /\ IsFiniteSet(1 .. LastEntity)
  BY <1>1, FS_Interval
<1>3. ASSUME NEW S \in SUBSET (DOMAIN memoryRows) PROVE S \in SUBSET Nat /\ IsFiniteSet(S)
  BY <1>1, <1>2, <1>3, FS_Subset
<1>4. CASE list = "memory"
  <2>1. Matching(w) \in SUBSET (DOMAIN memoryRows)
    BY <1>4 DEF Matching
  <2>. QED BY <1>3, <2>1
<1>5. CASE list = "receipts"
  BY <1>1, <1>2, <1>3, <1>5 DEF Matching
<1>6. CASE list = "entities"
  <2>1. Matching(w) \in SUBSET (1 .. LastEntity)
    BY <1>6 DEF Matching, Listed
  <2>2. IsFiniteSet(Matching(w))
    BY <1>2, <2>1, FS_Subset
  <2>. QED BY <1>1, <1>3, <2>1, <2>2
<1>. QED BY <1>1, <1>3, <1>4, <1>5, <1>6

ListsFinite == \A w : Matching(w) \in SUBSET Nat /\ IsFiniteSet(Matching(w))

LEMMA ListsStayFinite == PagingTyped => ListsFinite
BY ListsAre DEF ListsFinite

ItemNames(items) == IF list = "entities" THEN {i[1] : i \in items} ELSE items

\* A page has what it reaches: what is due and not on it is at the next offset or after it.
LEMMA Reached ==
  ASSUME PagingTyped, NEW w, w.offset \in Nat, NEW page, page = PageOf(w)
  PROVE  /\ page.items \in SUBSET Items /\ page.cut \in BOOLEAN
         /\ page.next \in Nat \cup {End}
         /\ ~page.cut => \A e \in Matching(w) : w.offset <= Place(Matching(w), e) =>
              e \in ItemNames(page.items) \/ (page.next # End /\ page.next <= Place(Matching(w), e))
<1>1. Matching(w) \in SUBSET Nat /\ IsFiniteSet(Matching(w)) /\ Limit \in Nat /\ End = -1
  BY ListsAre, PagesAssumption DEF End
<1>2. CASE list = "memory"
  <2>. DEFINE candidates == Foremost({n \in DOMAIN memoryRows : Wanted(w, memoryRows[n])}, ScanRead)
              scanned == Foremost(candidates, ScanLimit)
              matched == {n \in scanned : About(w, memoryRows[n])}
              held == PageAt(matched, w.offset)
              reached == w.offset + Cardinality(held)
  <2>1. page = [items |-> held, cut |-> Cardinality(candidates) > ScanLimit,
                next |-> IF Cardinality(matched) > reached THEN reached ELSE End]
    BY <1>2 DEF PageOf, MemoryPage
  <2>2. matched \in SUBSET (DOMAIN memoryRows)
    BY DEF Foremost
  <2>3. matched \in SUBSET Nat /\ IsFiniteSet(matched)
    BY <2>2, ListsAre
  <2>. HIDE DEF matched
  <2>4. held \in SUBSET matched /\ Cardinality(held) \in Nat
    BY <2>3, PageIs
  <2>5. /\ page.items = held /\ page.cut \in BOOLEAN
        /\ page.cut <=> Cardinality(candidates) > ScanLimit
        /\ page.next = IF Cardinality(matched) > reached THEN reached ELSE End
    <3>. DEFINE isCut == Cardinality(candidates) > ScanLimit
                more == IF Cardinality(matched) > reached THEN reached ELSE End
    <3>1. isCut \in BOOLEAN
      OBVIOUS
    <3>2. page = [items |-> held, cut |-> isCut, next |-> more]
      BY <2>1
    <3>. HIDE DEF isCut, more, held
    <3>3. page.items = held /\ page.cut = isCut /\ page.next = more
      BY <3>2
    <3>. QED BY <3>1, <3>3 DEF isCut, more
  <2>. HIDE DEF held, candidates
  <2>6. ASSUME ~page.cut PROVE matched = Matching(w)
    <3>. DEFINE W == {n \in DOMAIN memoryRows : Wanted(w, memoryRows[n])}
    <3>1. W \in SUBSET Nat /\ IsFiniteSet(W)
      BY ListsAre
    <3>2. candidates = Foremost(W, ScanRead)
      BY DEF candidates
    <3>. HIDE DEF W
    <3>3. Cardinality(candidates) <= ScanLimit
      <4>1. candidates \in SUBSET W
        BY <3>2 DEF Foremost
      <4>2. Cardinality(candidates) \in Nat /\ ScanLimit \in Nat
        BY <3>1, <4>1, FS_Subset, FS_CardinalityType, PagesAssumption
      <4>. QED BY <2>5, <2>6, <4>2
    <3>4. candidates = W /\ Foremost(W, ScanLimit) = W
      BY <3>1, <3>2, <3>3, NotCut
    <3>5. matched = {n \in W : About(w, memoryRows[n])}
      BY <3>4 DEF matched
    <3>. QED BY <1>2, <3>5 DEF Matching, W
  <2>7. ASSUME ~page.cut, NEW e \in Matching(w), w.offset <= Place(Matching(w), e), e \notin held
        PROVE  page.next # End /\ page.next <= Place(Matching(w), e)
    <3>1. matched = Matching(w)
      BY <2>6, <2>7
    <3>2. /\ w.offset + Limit <= Place(matched, e) /\ Cardinality(held) = Limit
          /\ w.offset + Limit < Cardinality(matched)
      BY <2>3, <2>7, <3>1, PageIs DEF held
    <3>3. Cardinality(matched) \in Nat
      BY <2>3, FS_CardinalityType
    <3>4. page.next = w.offset + Limit
      BY <2>5, <3>2, <3>3, <1>1
    <3>. QED BY <1>1, <3>1, <3>2, <3>4
  <2>8. page.items \in SUBSET Items
    BY <1>2, <2>3, <2>4, <2>5 DEF Items
  <2>9. page.next \in Nat \cup {End}
    BY <2>4, <2>5
  <2>10. ItemNames(page.items) = held
    BY <1>2, <2>5 DEF ItemNames
  <2>. QED BY <2>5, <2>7, <2>8, <2>9, <2>10
<1>3. CASE list # "memory"
  <2>. DEFINE held == PageAt(Matching(w), w.offset)
              items == IF list = "receipts" THEN held ELSE {<<e, version[e]>> : e \in held}
  <2>1. page = FullPage(w, items)
    BY <1>3 DEF PagingTyped, PageOf, ReceiptPage, EntityPage, Matching
  <2>2. /\ held \in SUBSET Matching(w) /\ Cardinality(held) \in Nat
        /\ \A e \in Matching(w) : w.offset <= Place(Matching(w), e) /\ e \notin held =>
             w.offset + Limit <= Place(Matching(w), e) /\ Cardinality(held) = Limit
    BY <1>1, PageIs
  <2>3. IsFiniteSet(held)
    BY <1>1, <2>2, FS_Subset
  <2>4. Cardinality(items) = Cardinality(held)
    <3>1. CASE list = "receipts"
      BY <3>1
    <3>2. CASE list # "receipts"
      <4>. DEFINE pair == [e \in held |-> <<e, version[e]>>]
      <4>1. pair \in Bijection(held, items)
        BY <3>2 DEF Bijection, Injection, Surjection, IsInjective
      <4>. QED BY <2>3, <4>1, FS_Bijection DEF ExistsBijection
    <3>. QED BY <3>1, <3>2
  <2>5. ItemNames(items) = held
    <3>1. CASE list = "receipts"
      BY <3>1 DEF ItemNames
    <3>2. CASE list = "entities"
      <4>1. items = {<<e, version[e]>> : e \in held}
        BY <3>2
      <4>. HIDE DEF items, held
      <4>2. \A i \in items : i[1] \in held
        BY <4>1
      <4>3. \A e \in held : <<e, version[e]>> \in items /\ <<e, version[e]>>[1] = e
        BY <4>1
      <4>4. {i[1] : i \in items} = held
        BY <4>2, <4>3
      <4>. QED BY <3>2, <4>4 DEF ItemNames
    <3>. QED BY <1>3, <3>1, <3>2 DEF PagingTyped
  <2>6. items \in SUBSET Items
    <3>1. CASE list = "receipts"
      BY <1>1, <2>2, <3>1 DEF Items
    <3>2. CASE list # "receipts"
      <4>1. \A e \in Matching(w) : e \in Nat /\ version[e] \in Nat
        BY <1>3, <3>2 DEF PagingTyped, Matching, Listed
      <4>2. items = {<<e, version[e]>> : e \in held} /\ Items = Nat \X Nat
        BY <1>3, <3>2 DEF PagingTyped, Items
      <4>. QED BY <2>2, <4>1, <4>2
    <3>. QED BY <3>1, <3>2
  <2>7. /\ page.items = items /\ page.cut = FALSE
        /\ page.next = IF Cardinality(items) = Limit THEN w.offset + Limit ELSE End
    BY <2>1 DEF FullPage
  <2>. HIDE DEF items, held
  <2>8. page.next \in Nat \cup {End}
    BY <1>1, <2>7
  <2>9. ASSUME NEW e \in Matching(w), w.offset <= Place(Matching(w), e), e \notin held
        PROVE  page.next # End /\ page.next <= Place(Matching(w), e)
    BY <1>1, <2>2, <2>4, <2>7, <2>9
  <2>. QED BY <2>5, <2>6, <2>7, <2>8, <2>9
<1>. QED BY <1>2, <1>3

-----------------------------------------------------------------------------
(* The steps. *)

\* The lists grow under a walk, and what it was to have only moves towards the end.
LEMMA WalkedStays ==
  ASSUME PagingTyped, PagingTyped', list' = list, NEW w \in WalkType, Walked(w),
         Matching(w) \subseteq Matching(w)'
  PROVE  Walked(w)'
<1>1. Names(w)' = Names(w)
  BY DEF Names
<1>2. ASSUME Ahead(w), w.offset \in Nat, w.pages = 0 => w.offset = 0 PROVE Ahead(w)'
  <2>1. Matching(w)' \in SUBSET Nat /\ IsFiniteSet(Matching(w)')
    <3>1. PagingTyped' => ListsFinite'
      BY ListsStayFinite, PTL
    <3>. QED BY <3>1 DEF ListsFinite
  <2>2. \A S, e : Place(S, e)' = Place(S, e)
    BY DEF Place
  <2>3. PICK T : T = Matching(w)'
    OBVIOUS
  <2>4. \A e : Place(Matching(w), e)' = Place(T, e)
    BY <2>3 DEF Place
  <2>6. DueOf(w)' \subseteq T
    BY <1>2, <2>3 DEF Ahead, DueOf
  <2>7. ASSUME NEW e \in DueOf(w)', e \notin Names(w) PROVE w.offset <= Place(T, e)
    <3>1. CASE w.pages = 0
      <4>1. e \in T /\ Place(T, e) \in 0 .. Cardinality(T) - 1
        BY <2>1, <2>3, <2>6, <2>7, PlaceIs
      <4>2. Cardinality(T) \in Nat
        BY <2>1, <2>3, FS_CardinalityType
      <4>. QED BY <1>2, <3>1, <4>1, <4>2
    <3>2. CASE w.pages # 0
      <4>1. e \in DueOf(w)
        BY <2>7, <3>2 DEF DueOf
      <4>2. e \in Matching(w) /\ w.offset <= Place(Matching(w), e)
        BY <1>2, <2>7, <4>1 DEF Ahead
      <4>3. Matching(w) \in SUBSET T
        BY <2>3
      <4>4. Place(Matching(w), e) <= Place(T, e)
        BY <2>1, <2>3, <4>2, <4>3, PlaceMoves
      <4>5. Place(T, e) \in Int /\ Place(Matching(w), e) \in Int
        <5>1. IsFiniteSet(Matching(w)) /\ Matching(w) \in SUBSET Nat
          BY ListsAre
        <5>2. e \in T
          BY <4>2, <4>3
        <5>. QED BY <2>1, <2>3, <4>2, <5>1, <5>2, PlaceIs
      <4>. QED BY <1>2, <4>2, <4>4, <4>5
    <3>. QED BY <3>1, <3>2
  <2>. QED BY <1>1, <2>3, <2>4, <2>6, <2>7 DEF Ahead
<1>3. w.state = "walking" /\ ~w.cut => Ahead(w)'
  BY <1>2 DEF Walked
<1>. QED BY <1>1, <1>3 DEF Walked

\* Every writer only adds to what a walk asks for.
LEMMA ListsKeep ==
  ASSUME PagingInv, ListsGrow
  PROVE  PagingInv'
<1>. USE DEF PagingInv
<1>1. list' = list /\ walk' = walk
  BY DEF ListsGrow, AppendMemory, AppendChain, Upsert
<1>. DEFINE Grows == \A w : Matching(w) \subseteq Matching(w)'
<1>2. PagingTyped' /\ Grows
  <2>0. WalkType' = WalkType
    BY <1>1 DEF WalkType, Items
  <2>1. ASSUME NEW sort \in Kind, NEW s \in Subject, AppendMemory(sort, s)
        PROVE  PagingTyped' /\ Grows
    <3>. DEFINE r == [kind |-> sort, subject |-> s]
    <3>1. r \in MemoryRow /\ memoryRows \in Seq(MemoryRow) /\ memoryRows' = Append(memoryRows, r)
      BY <2>1 DEF AppendMemory, MemoryRow, PagingTyped
    <3>. HIDE DEF r
    <3>2. memoryRows' \in Seq(MemoryRow)
      BY <3>1
    <3>3. /\ DOMAIN memoryRows \subseteq DOMAIN memoryRows'
          /\ \A n \in DOMAIN memoryRows : memoryRows'[n] = memoryRows[n]
      BY <3>1
    <3>4. PagingTyped'
      BY <1>1, <2>0, <2>1, <3>2 DEF PagingTyped, AppendMemory
    <3>5. \A w : Matching(w) \subseteq Matching(w)'
      BY <2>1, <3>3 DEF Matching, AppendMemory, Wanted, About
    <3>. QED BY <3>4, <3>5
  <2>2. ASSUME AppendChain PROVE PagingTyped' /\ Grows
    <3>1. PagingTyped'
      BY <1>1, <2>0, <2>2 DEF PagingTyped, AppendChain
    <3>2. \A w : Matching(w) \subseteq Matching(w)'
      BY <2>2 DEF Matching, AppendChain, PagingTyped
    <3>. QED BY <3>1, <3>2
  <2>3. ASSUME NEW e \in 1 .. LastEntity, Upsert(e) PROVE PagingTyped' /\ Grows
    <3>1. PagingTyped'
      BY <1>1, <2>0, <2>3 DEF PagingTyped, Upsert
    <3>2. \A w : Matching(w) \subseteq Matching(w)'
      BY <2>3 DEF Matching, Listed, Upsert, PagingTyped
    <3>. QED BY <3>1, <3>2
  <2>. QED BY <2>1, <2>2, <2>3 DEF ListsGrow
<1>3. ASSUME NEW c \in Client PROVE Walked(walk[c])'
  <2>1. PICK w : w = walk[c]
    OBVIOUS
  <2>2. w \in WalkType /\ Walked(w) /\ walk'[c] = w
    BY <1>1, <2>1 DEF PagingTyped
  <2>3. Walked(w)'
    BY <1>1, <1>2, <2>2, WalkedStays
  <2>. QED BY <2>2, <2>3
<1>. QED BY <1>2, <1>3

\* A walk moves alone, and the lists are as they were.
LEMMA WalkMoves ==
  ASSUME PagingInv, UNCHANGED <<list, lists>>, NEW c \in Client, NEW v \in WalkType, Walked(v),
         walk' = [walk EXCEPT ![c] = v]
  PROVE  PagingInv'
<1>1. PagingTyped'
  <2>1. WalkType' = WalkType
    BY DEF WalkType, Items
  <2>. QED BY <2>1 DEF PagingInv, PagingTyped, lists
<1>2. \A w : Matching(w)' = Matching(w)
  BY DEF Matching, lists, Wanted, About, Listed
<1>3. ASSUME NEW d \in Client PROVE Walked(walk[d])'
  <2>1. PICK w : w = walk'[d]
    OBVIOUS
  <2>2. w \in WalkType /\ Walked(w)
    BY <2>1 DEF PagingInv, PagingTyped
  <2>3. Walked(w)'
    BY <1>1, <1>2, <2>2, WalkedStays DEF PagingInv
  <2>. QED BY <2>1, <2>3
<1>. QED BY <1>1, <1>3 DEF PagingInv

\* A page that ends the walk without a cut leaves nothing due.
LEMMA PageKeeps ==
  ASSUME PagingInv, NEW c \in Client, Step(c)
  PROVE  PagingInv'
<1>1. PICK w : w = walk[c]
  OBVIOUS
<1>2. w \in WalkType /\ Walked(w) /\ w.state = "walking"
  BY <1>1 DEF PagingInv, PagingTyped, Step
<1>3. PICK page : page = PageOf(w)
  OBVIOUS
<1>. DEFINE last == LastRead(w, page)
            cut == w.cut \/ page.cut \/ (last /\ page.next # End)
            state == IF last THEN "done" ELSE "walking"
            v == [w EXCEPT !.offset = page.next, !.pages = @ + 1, !.items = @ \cup page.items,
                           !.cut = cut, !.state = state, !.due = DueOf(w)]
<1>4. walk' = [walk EXCEPT ![c] = v] /\ UNCHANGED <<list, lists>>
  BY <1>1, <1>3 DEF Step, DueOf
<1>5. DueOf(w) \in SUBSET Nat
  BY <1>2, ListsAre DEF DueOf, WalkType, PagingInv
<1>6. /\ page.items \in SUBSET Items /\ page.next \in Nat \cup {End}
      /\ ~page.cut => \A e \in Matching(w) : w.offset <= Place(Matching(w), e) =>
           e \in ItemNames(page.items) \/ (page.next # End /\ page.next <= Place(Matching(w), e))
  BY <1>2, <1>3, Reached DEF PagingInv, Walked
<1>7. cut \in BOOLEAN /\ state \in {"done", "walking"}
  OBVIOUS
<1>8. /\ cut = FALSE => ~w.cut /\ ~page.cut /\ ~(last /\ page.next # End)
      /\ state = "done" <=> last
  OBVIOUS
<1>9. ~last => page.next # End
  BY DEF LastRead
<1>. HIDE DEF cut, state, last
<1>10. /\ v.kind = w.kind /\ v.subject = w.subject /\ v.offset = page.next /\ v.pages = w.pages + 1
       /\ v.items = w.items \cup page.items /\ v.cut = cut /\ v.state = state /\ v.due = DueOf(w)
  BY <1>2 DEF WalkType
<1>11. v \in WalkType
  <2>. DEFINE moved == [w EXCEPT !.offset = page.next, !.pages = @ + 1]
              met == [moved EXCEPT !.items = @ \cup page.items, !.cut = cut]
  <2>1. v = [met EXCEPT !.state = state, !.due = DueOf(w)]
    OBVIOUS
  <2>2. /\ w.kind \in Kind \cup {AnyOf} /\ w.subject \in Words /\ w.pages \in Nat
        /\ w.items \in SUBSET Items
    BY <1>2 DEF WalkType
  <2>3. page.next \in Int
    BY <1>6 DEF End
  <2>4. w.items \cup page.items \in SUBSET Items /\ w.pages + 1 \in Nat
    BY <1>6, <2>2
  <2>5. moved \in WalkType /\ moved.items = w.items
    BY <1>2, <2>2, <2>3, <2>4 DEF WalkType
  <2>. HIDE DEF v, moved
  <2>6. met \in WalkType
    BY <1>7, <2>4, <2>5 DEF WalkType
  <2>. HIDE DEF met
  <2>. QED BY <1>5, <1>7, <2>1, <2>6 DEF WalkType
<1>. HIDE DEF v
<1>12. Walked(v)
  <2>1. v.pages # 0 /\ DueOf(v) = v.due
    BY <1>2, <1>10 DEF WalkType, DueOf
  <2>2. Matching(v) = Matching(w)
    BY <1>10 DEF Matching, Wanted, About
  <2>3. Names(v) = Names(w) \cup ItemNames(page.items)
    BY <1>10 DEF Names, ItemNames
  <2>4. v.state = "walking" => page.next \in Nat /\ v.offset \in Nat
    BY <1>6, <1>7, <1>8, <1>9, <1>10
  <2>5. ASSUME ~v.cut
        PROVE  /\ v.state = "walking" => Ahead(v)
               /\ v.state = "done" => v.due \subseteq Names(v)
    <3>1. ~w.cut /\ ~page.cut /\ ~(last /\ page.next # End)
      BY <1>7, <1>8, <1>10, <2>5
    <3>2. Ahead(w)
      BY <1>2, <3>1 DEF Walked
    <3>3. \A e \in v.due : e \in Names(v) \/ (page.next # End /\ page.next <= Place(Matching(w), e))
      BY <1>6, <1>10, <2>3, <3>1, <3>2 DEF Ahead
    <3>4. v.state = "done" => page.next = End
      BY <1>8, <1>10, <3>1
    <3>5. v.due \subseteq Matching(w)
      BY <1>10, <3>2 DEF Ahead
    <3>. QED BY <1>10, <2>1, <2>2, <3>3, <3>4, <3>5 DEF Ahead
  <2>. QED BY <2>1, <2>4, <2>5 DEF Walked
<1>. QED BY <1>4, <1>11, <1>12, WalkMoves

\* A walk that begins has read nothing, and one that is rejected is done with.
LEMMA EndsOfWalkKeep ==
  ASSUME PagingInv, NEW c \in Client
  PROVE  /\ \A sort \in Kind \cup {AnyOf}, s \in Subject \cup {AnyOf} : BeginWalk(c, sort, s) => PagingInv'
         /\ Reject(c) => PagingInv'
<1>1. ASSUME NEW sort \in Kind \cup {AnyOf}, NEW s \in Subject \cup {AnyOf}, BeginWalk(c, sort, s)
      PROVE  PagingInv'
  <2>. DEFINE v == Fresh(sort, s)
  <2>1. v \in WalkType
    BY DEF Fresh, WalkType, Words
  <2>2. Walked(v)
    <3>1. v.offset = 0 /\ v.pages = 0 /\ v.due = {} /\ v.state = "walking"
      BY DEF Fresh
    <3>2. Ahead(v)
      <4>1. DueOf(v) = Matching(v)
        BY <3>1 DEF DueOf
      <4>2. \A e \in Matching(v) : Place(Matching(v), e) \in Nat
        <5>1. Matching(v) \in SUBSET Nat /\ IsFiniteSet(Matching(v))
          BY ListsAre DEF PagingInv
        <5>. QED BY <5>1, PlaceIs
      <4>. HIDE DEF v
      <4>. QED BY <3>1, <4>1, <4>2 DEF Ahead
    <3>. QED BY <3>1, <3>2 DEF Walked
  <2>3. walk' = [walk EXCEPT ![c] = v] /\ UNCHANGED <<list, lists>>
    BY <1>1 DEF BeginWalk
  <2>. HIDE DEF v
  <2>. QED BY <2>1, <2>2, <2>3, WalkMoves
<1>2. ASSUME Reject(c) PROVE PagingInv'
  <2>1. PICK w : w = walk[c]
    OBVIOUS
  <2>. DEFINE v == [w EXCEPT !.state = "rejected"]
  <2>2. w \in WalkType /\ Walked(w)
    BY <2>1 DEF PagingInv, PagingTyped
  <2>3. /\ v \in WalkType /\ v.state = "rejected" /\ v.pages = w.pages
        /\ v.offset = w.offset /\ v.due = w.due
    BY <2>2 DEF WalkType
  <2>4. walk' = [walk EXCEPT ![c] = v] /\ UNCHANGED <<list, lists>>
    BY <1>2, <2>1 DEF Reject
  <2>. HIDE DEF v
  <2>5. Walked(v)
    BY <2>2, <2>3 DEF Walked
  <2>. QED BY <2>3, <2>4, <2>5, WalkMoves
<1>. QED BY <1>1, <1>2

\* What a walk is to have is in hand or still ahead of it, however the lists grow between its
\* pages and whenever other walks read (list_memory and list_operational_entities of
\* lyte/persistence/store.py, loadPage of lyte/ui/app.js).
THEOREM WalksInvariance == PagingSpec => []PagingInv
<1>1. PagingInit => PagingInv
  <2>. SUFFICES ASSUME PagingInit PROVE PagingInv
    OBVIOUS
  <2>. DEFINE first == [Fresh(AnyOf, AnyOf) EXCEPT !.state = "idle"]
  <2>1. /\ first \in WalkType /\ first.state = "idle" /\ first.pages = 0 /\ first.offset = 0
        /\ first.due = {}
    <3>. DEFINE opened == Fresh(AnyOf, AnyOf)
    <3>1. opened \in WalkType /\ opened.pages = 0 /\ opened.offset = 0 /\ opened.due = {}
      BY DEF Fresh, WalkType, Words
    <3>. HIDE DEF opened
    <3>2. [opened EXCEPT !.state = "idle"] \in WalkType
      BY <3>1 DEF WalkType
    <3>3. first = [opened EXCEPT !.state = "idle"]
      BY DEF opened
    <3>. HIDE DEF first
    <3>. QED BY <3>1, <3>2, <3>3 DEF WalkType
  <2>2. walk = [c \in Client |-> first]
    BY DEF PagingInit
  <2>. HIDE DEF first
  <2>3. \A c \in Client : walk[c] = first
    BY <2>2
  <2>4. PagingTyped
    BY <2>1, <2>2 DEF PagingInit, PagingTyped
  <2>5. Walked(first)
    BY <2>1 DEF Walked
  <2>. QED BY <2>3, <2>4, <2>5 DEF PagingInv
<1>2. PagingInv /\ [PagingNext]_pagingVars => PagingInv'
  <2>. SUFFICES ASSUME PagingInv, [PagingNext]_pagingVars PROVE PagingInv'
    OBVIOUS
  <2>1. CASE ListsGrow
    BY <2>1, ListsKeep
  <2>2. ASSUME NEW c \in Client,
               \/ \E sort \in Kind \cup {AnyOf}, s \in Subject \cup {AnyOf} : BeginWalk(c, sort, s)
               \/ Step(c)
               \/ Reject(c)
        PROVE  PagingInv'
    BY <2>2, PageKeeps, EndsOfWalkKeep
  <2>3. CASE UNCHANGED pagingVars
    <3>1. PagingTyped'
      BY <2>3 DEF PagingInv, PagingTyped, pagingVars, WalkType, Items
    <3>2. ASSUME NEW c \in Client PROVE Walked(walk[c])'
      <4>1. PICK w : w = walk[c]
        OBVIOUS
      <4>2. w \in WalkType /\ Walked(w) /\ walk'[c] = w /\ list' = list
        BY <2>3, <4>1 DEF PagingInv, PagingTyped, pagingVars
      <4>3. Matching(w)' = Matching(w)
        BY <2>3 DEF pagingVars, Matching, Wanted, About, Listed
      <4>4. Walked(w)'
        BY <3>1, <4>2, <4>3, WalkedStays DEF PagingInv
      <4>. QED BY <4>2, <4>4
    <3>. QED BY <3>1, <3>2 DEF PagingInv
  <2>. QED BY <2>1, <2>2, <2>3 DEF PagingNext, WalksMove
<1>. QED BY <1>1, <1>2, PTL DEF PagingSpec

\* A walk that ends with no page cut has all that it asked for when it began, for every page
\* size and scan limit and however many rows, receipts and versions come between its pages.
THEOREM WalksStayComplete == PagingSpec => []WalksComplete
<1>1. PagingInv => WalksComplete
  BY DEF PagingInv, Walked, WalksComplete
<1>. QED BY WalksInvariance, <1>1, PTL

-----------------------------------------------------------------------------
(* The enterprise question.  What the engine holds it has read in earlier transactions, so the   *)
(* invariant says of everything it holds what stays true of it: rows were the latest at some     *)
(* moment of the request (observed only grows), receipts are durable (the chain only grows), and *)
(* what a receipt says does not change.  The answer is assembled from those alone.               *)

\* Rows that were the latest at some moment of the request, with a truth label.
Read(S) == \A w \in S : w \in observed /\ w.truth \in Accepted

\* The durable receipts.
Durable == ToSet(evidence)

\* An executed action, and an improvement measured after it.
Improved ==
  \E x \in Durable, r \in Durable :
    /\ x.truth = "MEASURED" /\ x.kind = "action.executed" /\ r.truth = "MEASURED"
    /\ r.kind = "outcome.verified" /\ r.execution = x.hash /\ r.improved
    /\ x.at <= r.from /\ r.from < r.to

\* What was found of one action.
Execution(d) ==
  /\ d = [action |-> d.action, by |-> d.by, tried |-> d.tried]
  /\ Read({d.action})
  /\ \A x \in d.by : /\ x \in Durable /\ x.hash = d.action.execution
                     /\ x.truth = "MEASURED" /\ x.kind = "action.executed"

AskTyped ==
  /\ intent \in Intents
  /\ evidence \in Seq(Receipts(intent))
  /\ latest = [e \in AskEntity |-> latest[e]]
  /\ engine = [phase |-> engine.phase, have |-> engine.have, proven |-> engine.proven,
               executions |-> engine.executions, found |-> engine.found, used |-> engine.used,
               todo |-> engine.todo, answer |-> engine.answer]

\* Before the request nothing is held; from then on every latest row is observed.
Watching ==
  IF engine.phase = "idle"
  THEN DOMAIN engine.have = {} /\ engine.executions = {} /\ engine.proven = {}
  ELSE \A e \in AskEntity : latest[e] \in observed

HaveRead == \A k \in DOMAIN engine.have : Read(engine.have[k])

Executions ==
  /\ engine.executions # {} => {"ActionRequest", "OutcomeVerification"} \subseteq DOMAIN engine.have
  /\ \A d \in engine.executions : Execution(d)

Proven == Read(engine.proven) /\ (engine.proven # {} => Improved)

\* The selected rows; of an outcome they are the proven ones.
Chosen ==
  /\ Read(engine.used)
  /\ engine.phase \in {"idle", "load"} => engine.used = {}
  /\ intent = "outcome" => engine.used \subseteq engine.proven

Quoted ==
  /\ engine.found \subseteq Durable
  /\ engine.phase # "answered" => engine.answer = NoAnswer
  /\ engine.answer.rows \subseteq engine.used

AskInv == AskTyped /\ Watching /\ HaveRead /\ Executions /\ Proven /\ Chosen /\ Quoted /\ AnswersEarned

askRest == <<intent, latest, evidence, observed>>

\* A receipt is added to the durable ones.
LEMMA AppendedIsDurable ==
  ASSUME NEW S, NEW s \in Seq(S), NEW r \in S
  PROVE  Append(s, r) \in Seq(S) /\ ToSet(Append(s, r)) = ToSet(s) \cup {r}
<1>1. Append(s, r) \in Seq(S)
  OBVIOUS
<1>2. Len(Append(s, r)) = Len(s) + 1 /\ DOMAIN Append(s, r) = 1 .. Len(s) + 1 /\ DOMAIN s = 1 .. Len(s)
      /\ Len(s) \in Nat
  OBVIOUS
<1>3. \A i \in 1 .. Len(s) + 1 : Append(s, r)[i] = IF i \in 1 .. Len(s) THEN s[i] ELSE r
  OBVIOUS
<1>4. ASSUME NEW i \in 1 .. Len(s) + 1 PROVE Append(s, r)[i] \in ToSet(Append(s, r))
  BY <1>2 DEF ToSet
<1>6. Append(s, r)[Len(s) + 1] = r /\ r \in ToSet(Append(s, r))
  BY <1>2, <1>3, <1>4
<1>7. ASSUME NEW x \in ToSet(s) PROVE x \in ToSet(Append(s, r))
  <2>1. PICK i \in DOMAIN s : x = s[i]
    BY DEF ToSet
  <2>2. i \in 1 .. Len(s) + 1 /\ Append(s, r)[i] = x
    BY <1>2, <1>3, <2>1
  <2>. QED BY <1>4, <2>2
<1>5. ASSUME NEW x \in ToSet(Append(s, r)) PROVE x \in ToSet(s) \cup {r}
  <2>1. PICK i \in DOMAIN Append(s, r) : x = Append(s, r)[i]
    BY DEF ToSet
  <2>. QED BY <1>2, <1>3, <2>1 DEF ToSet
<1>. QED BY <1>1, <1>5, <1>6, <1>7

\* What is loaded, in one transaction, are latest rows with a label.
LEMMA LoadedIsRead ==
  ASSUME NEW sort, \A e \in AskEntity : latest[e] \in observed
  PROVE  Read(Loaded(sort))
  BY DEF Read, Loaded, FirstRows

\* Every selection is made of the rows that were loaded.
LEMMA SelectionsAreRead ==
  ASSUME AskInv, Missing = {}, NEW used \in Selections(engine.have)
  PROVE  Read(used) /\ (intent = "outcome" => used = engine.proven)
<1>1. \A k \in ToSet(KindsOf[intent]) : k \in DOMAIN engine.have \/ (k = "Decision" /\ AnyNamed)
  BY DEF Missing
<1>2. \A k \in DOMAIN engine.have : Read(Flagged(engine.have[k]))
  BY DEF AskInv, HaveRead, Read, Flagged
<1>3. \A k \in DOMAIN engine.have : Read(engine.have[k])
  BY DEF AskInv, HaveRead
<1>4. CASE intent \in {"ranking", "ranking_modeled"}
  <2>1. KindsOf[intent][1] \in ToSet(KindsOf[intent]) /\ KindsOf[intent][1] # "Decision"
    BY <1>4 DEF KindsOf, ToSet
  <2>2. KindsOf[intent][1] \in DOMAIN engine.have
    BY <1>1, <2>1
  <2>3. used \subseteq Flagged(engine.have[KindsOf[intent][1]])
    BY <1>4 DEF Selections
  <2>. QED BY <1>2, <1>4, <2>2, <2>3 DEF Read
<1>5. CASE intent \in {"journey", "incident"}
  <2>1. \E k \in {"CustomerJourney", "Incident"} :
          {k, "DeploymentEvent"} \subseteq ToSet(KindsOf[intent])
          /\ used \subseteq engine.have[k] \cup engine.have["DeploymentEvent"]
    BY <1>5 DEF KindsOf, ToSet, Selections, Closest, Flagged
  <2>2. PICK k \in {"CustomerJourney", "Incident"} :
          {k, "DeploymentEvent"} \subseteq ToSet(KindsOf[intent])
          /\ used \subseteq engine.have[k] \cup engine.have["DeploymentEvent"]
    BY <2>1
  <2>3. Read(engine.have[k]) /\ Read(engine.have["DeploymentEvent"])
    BY <1>1, <1>3, <2>2
  <2>. QED BY <1>5, <2>2, <2>3 DEF Read
<1>6. CASE intent = "review"
  <2>1. "Recommendation" \in ToSet(KindsOf[intent]) /\ "Decision" \in ToSet(KindsOf[intent])
    BY <1>6 DEF KindsOf, ToSet
  <2>2. "Recommendation" \in DOMAIN engine.have
    BY <1>1, <2>1
  <2>3. CASE Flagged(engine.have["Recommendation"]) # {}
    <3>1. used \subseteq Flagged(engine.have["Recommendation"])
      BY <1>6, <2>3 DEF Selections, Least
    <3>. QED BY <1>2, <1>6, <2>2, <3>1 DEF Read
  <2>4. CASE Flagged(engine.have["Recommendation"]) = {}
    <3>1. used \subseteq Flagged(engine.have["Decision"])
      BY <1>6, <2>4 DEF Selections, Least
    <3>2. "Decision" \in DOMAIN engine.have
      BY <1>1, <2>1, <2>4 DEF AnyNamed
    <3>. QED BY <1>2, <1>6, <3>1, <3>2 DEF Read
  <2>. QED BY <2>3, <2>4
<1>7. CASE intent = "formulas"
  <2>1. \E i \in DOMAIN KindsOf["formulas"] : used \subseteq Flagged(engine.have[KindsOf["formulas"][i]])
    BY <1>7 DEF Selections, Least, Earliest
  <2>2. PICK i \in DOMAIN KindsOf["formulas"] : used \subseteq Flagged(engine.have[KindsOf["formulas"][i]])
    BY <2>1
  <2>3. KindsOf["formulas"][i] \in ToSet(KindsOf[intent]) /\ KindsOf["formulas"][i] # "Decision"
    BY <1>7, <2>2 DEF KindsOf, ToSet
  <2>. QED BY <1>1, <1>2, <1>7, <2>2, <2>3 DEF Read
<1>8. CASE intent = "outcome"
  <2>1. used = engine.proven
    BY <1>8 DEF Selections
  <2>. QED BY <1>8, <2>1 DEF AskInv, Proven
<1>. QED BY <1>4, <1>5, <1>6, <1>7, <1>8, AskAssumption DEF AskInv, AskTyped, KindsOf

\* What is cited supports the row, and the answer claims no more than any of its rows.
LEMMA AnswersSupported ==
  ASSUME NEW used, \A w \in used : w.truth \in Accepted
  PROVE  \A w \in used : Strength[TruthOf(used)] <= Strength[w.truth]
<1>1. \A w \in used : w.truth \in Weakest(used)
  BY DEF Weakest
<1>. QED BY <1>1 DEF TruthOf, Strength, Accepted

\* What the engine holds stays true of it while rows are replaced and receipts appended.
LEMMA HeldStays ==
  ASSUME AskInv, UNCHANGED <<intent, engine>>, engine.phase # "answered",
         observed \subseteq observed', Durable \subseteq Durable', AskTyped', Watching'
  PROVE  AskInv'
<1>1. \A S : Read(S) => Read(S)'
  BY DEF Read
<1>2. Improved => Improved'
  BY DEF Improved
<1>3. HaveRead'
  BY <1>1 DEF AskInv, HaveRead
<1>4. Executions'
  <2>1. \A d : Execution(d) => Execution(d)'
    <3>. SUFFICES ASSUME NEW d, Execution(d) PROVE Execution(d)'
      OBVIOUS
    <3>1. Read({d.action})'
      BY <1>1 DEF Execution
    <3>. QED BY <3>1 DEF Execution
  <2>. QED BY <2>1 DEF AskInv, Executions
<1>5. Proven' /\ Chosen' /\ Quoted'
  BY <1>1, <1>2 DEF AskInv, Proven, Chosen, Quoted
<1>6. AnswersEarned'
  BY DEF AnswersEarned, AnswersGrounded, ImprovementEarned, Answered
<1>. QED BY <1>3, <1>4, <1>5, <1>6 DEF AskInv

\* A row is replaced; during a request, both versions are observed.
LEMMA UpsertKeepsAnswers ==
  ASSUME AskInv, NEW e \in AskEntity, NEW c, UpsertRow(e, c)
  PROVE  AskInv'
<1>1. UNCHANGED <<intent, evidence, engine>> /\ engine.phase # "answered"
  BY DEF UpsertRow
<1>2. observed \subseteq observed' /\ Durable \subseteq Durable'
  BY <1>1 DEF UpsertRow, Durable
<1>3. AskTyped'
  BY <1>1 DEF AskInv, AskTyped, UpsertRow
<1>4. \A d \in AskEntity : latest'[d] = IF d = e THEN c ELSE latest[d]
  BY DEF AskInv, AskTyped, UpsertRow
<1>5. Watching'
  BY <1>1, <1>4 DEF AskInv, Watching, UpsertRow
<1>. QED BY <1>1, <1>2, <1>3, <1>5, HeldStays

\* A receipt is appended.
LEMMA AppendKeepsAnswers ==
  ASSUME AskInv, NEW r \in Receipts(intent), AppendEvidence(r)
  PROVE  AskInv'
<1>1. UNCHANGED <<intent, latest, engine, observed>> /\ engine.phase # "answered"
  BY DEF AppendEvidence
<1>2. evidence' \in Seq(Receipts(intent)) /\ Durable \subseteq Durable'
  BY AppendedIsDurable DEF AskInv, AskTyped, AppendEvidence, Durable
<1>3. AskTyped' /\ Watching'
  BY <1>1, <1>2 DEF AskInv, AskTyped, Watching
<1>. QED BY <1>1, <1>2, <1>3, HeldStays

\* A request begins with nothing read.
LEMMA BeginKeepsAnswers ==
  ASSUME AskInv, BeginAsk
  PROVE  AskInv'
<1>1. UNCHANGED <<intent, latest, evidence>> /\ engine.phase = "idle"
  BY DEF BeginAsk
<1>2. engine' = [engine EXCEPT !.phase = "load"] /\ AskTyped'
  BY <1>1 DEF AskInv, AskTyped, BeginAsk
<1>3. engine'.phase = "load" /\ engine'.have = engine.have /\ engine'.executions = {}
      /\ engine'.proven = {} /\ engine'.used = {} /\ engine'.found = engine.found
      /\ engine'.answer = NoAnswer /\ DOMAIN engine.have = {}
  BY <1>1, <1>2 DEF AskInv, AskTyped, Watching, Chosen, Quoted
<1>4. Watching'
  BY <1>1, <1>3 DEF Watching, BeginAsk
<1>5. HaveRead' /\ Executions'
  BY <1>3 DEF HaveRead, Executions
<1>6. Proven' /\ Chosen'
  BY <1>3 DEF Proven, Chosen, Read
<1>7. Quoted' /\ AnswersEarned'
  BY <1>1, <1>3 DEF AskInv, Quoted, AnswersEarned, AnswersGrounded, ImprovementEarned, Answered, NoAnswer, Durable
<1>. QED BY <1>2, <1>4, <1>5, <1>6, <1>7 DEF AskInv

\* Steps of the engine leave the workspace as it is.
LEMMA WorkspaceKept ==
  ASSUME AskInv, UNCHANGED askRest, engine'.phase # "idle", engine.phase # "idle",
         engine' = [phase |-> engine'.phase, have |-> engine'.have, proven |-> engine'.proven,
                    executions |-> engine'.executions, found |-> engine'.found,
                    used |-> engine'.used, todo |-> engine'.todo, answer |-> engine'.answer]
  PROVE  /\ AskTyped' /\ Watching' /\ Durable' = Durable /\ (Improved => Improved')
         /\ \A S : Read(S) => Read(S)'
         /\ \A d : Execution(d) => Execution(d)'
<1>1. AskTyped' /\ Watching'
  BY DEF AskInv, AskTyped, Watching, askRest
<1>2. Durable' = Durable /\ \A S : Read(S) => Read(S)'
  BY DEF Durable, Read, askRest
<1>3. Improved => Improved'
  BY <1>2 DEF Improved
<1>4. ASSUME NEW d, Execution(d) PROVE Execution(d)'
  <2>1. Read({d.action})'
    BY <1>2, <1>4 DEF Execution
  <2>. QED BY <1>2, <1>4, <2>1 DEF Execution
<1>. QED BY <1>1, <1>2, <1>3, <1>4

\* Rows of one kind are loaded in one transaction.
LEMMA LoadKeepsAnswers ==
  ASSUME AskInv, Load
  PROVE  AskInv'
<1>1. UNCHANGED askRest /\ engine.phase = "load"
  BY DEF Load, askRest
<1>2. DEFINE with(sort) == [k \in DOMAIN engine.have \cup {sort} |->
                              IF k = sort THEN Loaded(sort) ELSE engine.have[k]]
<1>3. PICK sort : engine' = [engine EXCEPT !.have = with(sort)]
  BY DEF Load
<1>4. engine' = [phase |-> engine.phase, have |-> with(sort), proven |-> engine.proven,
                 executions |-> engine.executions, found |-> engine.found, used |-> engine.used,
                 todo |-> engine.todo, answer |-> engine.answer]
  BY <1>3 DEF AskInv, AskTyped
<1>5. PICK have : /\ have = with(sort) /\ DOMAIN have = DOMAIN engine.have \cup {sort}
                  /\ \A k \in DOMAIN have : have[k] = IF k = sort THEN Loaded(sort) ELSE engine.have[k]
  <2>. DEFINE have == with(sort)
  <2>1. DOMAIN have = DOMAIN engine.have \cup {sort}
        /\ \A k \in DOMAIN have : have[k] = IF k = sort THEN Loaded(sort) ELSE engine.have[k]
    OBVIOUS
  <2>. HIDE DEF with
  <2>. QED BY <2>1
<1>. HIDE DEF with
<1>6. /\ AskTyped' /\ Watching' /\ Durable' = Durable /\ (Improved => Improved')
      /\ \A S : Read(S) => Read(S)'
      /\ \A d : Execution(d) => Execution(d)'
  <2>1. engine' = [phase |-> engine'.phase, have |-> engine'.have, proven |-> engine'.proven,
                    executions |-> engine'.executions, found |-> engine'.found,
                    used |-> engine'.used, todo |-> engine'.todo, answer |-> engine'.answer]
    BY <1>4
  <2>2. engine'.phase # "idle" /\ engine.phase # "idle"
    BY <1>1, <1>4
  <2>. QED BY <1>1, <2>1, <2>2, WorkspaceKept
<1>7. Read(Loaded(sort))
  BY <1>1, LoadedIsRead DEF AskInv, Watching
<1>8. \A k \in DOMAIN have : Read(have[k])
  BY <1>5, <1>7 DEF AskInv, HaveRead
<1>9. HaveRead'
  BY <1>4, <1>5, <1>6, <1>8 DEF HaveRead
<1>10. Executions'
  BY <1>4, <1>5, <1>6 DEF AskInv, Executions
<1>11. Proven' /\ Chosen' /\ Quoted'
  BY <1>1, <1>4, <1>6 DEF AskInv, Proven, Chosen, Quoted, askRest
<1>12. AnswersEarned'
  BY <1>1, <1>4 DEF AnswersEarned, AnswersGrounded, ImprovementEarned, Answered
<1>. QED BY <1>6, <1>9, <1>10, <1>11, <1>12 DEF AskInv

\* The steps of a search for an outcome leave the rows that were loaded, and the workspace.
LEMMA SearchKeeps ==
  ASSUME AskInv, UNCHANGED askRest, engine.phase = "load", NEW executions, NEW proven,
         engine' = [engine EXCEPT !.executions = executions, !.proven = proven],
         \A d \in executions : Execution(d),
         executions # {} => {"ActionRequest", "OutcomeVerification"} \subseteq DOMAIN engine.have,
         Read(proven), proven # {} => Improved
  PROVE  AskInv'
<1>1. engine' = [phase |-> engine.phase, have |-> engine.have, proven |-> proven,
                 executions |-> executions, found |-> engine.found, used |-> engine.used,
                 todo |-> engine.todo, answer |-> engine.answer]
  BY DEF AskInv, AskTyped
<1>2. engine' = [phase |-> engine'.phase, have |-> engine'.have, proven |-> engine'.proven,
                 executions |-> engine'.executions, found |-> engine'.found,
                 used |-> engine'.used, todo |-> engine'.todo, answer |-> engine'.answer]
      /\ engine'.phase # "idle" /\ engine.phase # "idle"
  BY <1>1
<1>3. /\ AskTyped' /\ Watching' /\ Durable' = Durable /\ (Improved => Improved')
      /\ \A S : Read(S) => Read(S)'
      /\ \A d : Execution(d) => Execution(d)'
  BY <1>2, WorkspaceKept
<1>4. HaveRead'
  BY <1>1, <1>3 DEF AskInv, HaveRead
<1>5. Executions'
  BY <1>1, <1>3 DEF Executions
<1>6. Proven'
  BY <1>1, <1>3 DEF Proven
<1>7. Chosen' /\ Quoted'
  BY <1>1, <1>3 DEF AskInv, Chosen, Quoted, askRest
<1>8. AnswersEarned'
  BY <1>1 DEF AnswersEarned, AnswersGrounded, ImprovementEarned, Answered
<1>. QED BY <1>3, <1>4, <1>5, <1>6, <1>7, <1>8 DEF AskInv

\* The execution receipts of one action are looked up.
LEMMA FindExecutionKeepsAnswers ==
  ASSUME AskInv, FindExecution
  PROVE  AskInv'
<1>1. UNCHANGED askRest /\ engine.phase = "load" /\ Missing = {} /\ intent = "outcome"
  BY DEF FindExecution, askRest
<1>2. {"ActionRequest", "OutcomeVerification"} \subseteq DOMAIN engine.have
  BY <1>1 DEF Missing, KindsOf, ToSet
<1>3. PICK a \in Actions :
        engine' = [engine EXCEPT !.executions = @ \cup
          {[action |-> a, by |-> {x \in ByHash(a.execution) : Executes(a, x)}, tried |-> {}]}]
  BY DEF FindExecution
<1>. DEFINE extra == [action |-> a, by |-> {x \in ByHash(a.execution) : Executes(a, x)}, tried |-> {}]
<1>4. Read({a})
  BY <1>2 DEF AskInv, HaveRead, Read, Actions
<1>5. \A x \in extra.by : /\ x \in Durable /\ x.hash = a.execution
                          /\ x.truth = "MEASURED" /\ x.kind = "action.executed"
  BY DEF ByHash, Executes, Durable
<1>6. Execution(extra)
  BY <1>4, <1>5 DEF Execution
<1>7. engine' = [engine EXCEPT !.executions = engine.executions \cup {extra}, !.proven = engine.proven]
  BY <1>3 DEF AskInv, AskTyped
<1>. HIDE DEF extra
<1>8. \A d \in engine.executions \cup {extra} : Execution(d)
  BY <1>6 DEF AskInv, Executions
<1>. QED BY <1>1, <1>2, <1>7, <1>8, SearchKeeps DEF AskInv, Proven

\* One verification of an executed action is tried.
LEMMA FindOutcomeKeepsAnswers ==
  ASSUME AskInv, FindOutcome
  PROVE  AskInv'
<1>1. UNCHANGED askRest /\ engine.phase = "load"
  BY DEF FindOutcome, askRest
<1>2. PICK d \in engine.executions, v \in Verifications :
        engine' = [engine EXCEPT
            !.executions = (@ \ {d}) \cup {[d EXCEPT !.tried = @ \cup {v}]},
            !.proven = IF \E r \in ByHash(v.outcome), x \in d.by : Verifies(d.action, v, r, x)
                       THEN {d.action, v} ELSE {}]
  BY DEF FindOutcome
<1>. DEFINE next == [action |-> d.action, by |-> d.by, tried |-> d.tried \cup {v}]
            isProven == \E r \in ByHash(v.outcome), x \in d.by : Verifies(d.action, v, r, x)
            proven == IF isProven THEN {d.action, v} ELSE {}
            executions == (engine.executions \ {d}) \cup {next}
<1>3. Execution(d) /\ {"ActionRequest", "OutcomeVerification"} \subseteq DOMAIN engine.have
  BY DEF AskInv, Executions
<1>4. [d EXCEPT !.tried = @ \cup {v}] = next
  BY <1>3 DEF Execution
<1>5. Execution(next)
  BY <1>3 DEF Execution
<1>6. Read({d.action, v})
  BY <1>3 DEF AskInv, HaveRead, Read, Verifications, Execution
<1>7. isProven => Improved
  <2>. SUFFICES ASSUME NEW r \in ByHash(v.outcome), NEW x \in d.by, Verifies(d.action, v, r, x)
                PROVE  Improved
    OBVIOUS
  <2>1. x \in Durable /\ x.hash = d.action.execution /\ x.truth = "MEASURED" /\ x.kind = "action.executed"
    BY <1>3 DEF Execution
  <2>2. r \in Durable /\ r.truth = "MEASURED" /\ r.kind = "outcome.verified"
        /\ r.execution = d.action.execution /\ r.improved /\ x.at <= r.from /\ r.from < r.to
    BY DEF ByHash, Durable, Verifies, After
  <2>. QED BY <2>1, <2>2 DEF Improved
<1>8. engine' = [engine EXCEPT !.executions = executions, !.proven = proven]
  BY <1>2, <1>4
<1>. HIDE DEF next, isProven
<1>9. \A k \in executions : Execution(k)
  BY <1>5 DEF AskInv, Executions
<1>10. Read(proven) /\ (proven # {} => Improved)
  BY <1>6, <1>7 DEF Read
<1>. HIDE DEF executions, proven
<1>. QED BY <1>1, <1>3, <1>8, <1>9, <1>10, SearchKeeps

\* Rows are selected, or there are none to answer with.
LEMMA SelectKeepsAnswers ==
  ASSUME AskInv, Select
  PROVE  AskInv'
<1>1. UNCHANGED askRest /\ engine.phase = "load" /\ Missing = {}
  BY DEF Select, Searched, askRest
<1>2. engine.used = {} /\ engine.answer = NoAnswer
  BY <1>1 DEF AskInv, Chosen, Quoted
<1>3. \E phase \in {"answered", "cite"}, used \in Selections(engine.have) \cup {{}} : \E todo :
        engine' = [phase |-> phase, have |-> engine.have, proven |-> engine.proven,
                   executions |-> engine.executions, found |-> engine.found, used |-> used,
                   todo |-> todo, answer |-> engine.answer]
  <2>1. CASE Selections(engine.have) = {}
    <3>1. engine' = [engine EXCEPT !.phase = "answered"]
      BY <2>1 DEF Select
    <3>. QED BY <1>2, <3>1 DEF AskInv, AskTyped
  <2>2. CASE Selections(engine.have) # {}
    <3>1. PICK used \in Selections(engine.have) :
            engine' = [engine EXCEPT !.phase = "cite", !.used = used,
                                     !.todo = UNION {w.refs : w \in used}]
      BY <2>2 DEF Select
    <3>. QED BY <3>1 DEF AskInv, AskTyped
  <2>. QED BY <2>1, <2>2
<1>4. PICK phase \in {"answered", "cite"}, used \in Selections(engine.have) \cup {{}} : \E todo :
        engine' = [phase |-> phase, have |-> engine.have, proven |-> engine.proven,
                   executions |-> engine.executions, found |-> engine.found, used |-> used,
                   todo |-> todo, answer |-> engine.answer]
  BY <1>3
<1>5. Read(used) /\ (intent = "outcome" => used \subseteq engine.proven)
  BY <1>1, SelectionsAreRead DEF Read
<1>6. engine' = [phase |-> engine'.phase, have |-> engine'.have, proven |-> engine'.proven,
                 executions |-> engine'.executions, found |-> engine'.found,
                 used |-> engine'.used, todo |-> engine'.todo, answer |-> engine'.answer]
      /\ engine'.phase # "idle" /\ engine.phase # "idle"
  BY <1>1, <1>4
<1>7. /\ AskTyped' /\ Watching' /\ Durable' = Durable /\ (Improved => Improved')
      /\ \A S : Read(S) => Read(S)'
      /\ \A d : Execution(d) => Execution(d)'
  BY <1>1, <1>6, WorkspaceKept
<1>8. HaveRead' /\ Executions' /\ Proven'
  BY <1>4, <1>7 DEF AskInv, HaveRead, Executions, Proven
<1>9. Chosen'
  BY <1>1, <1>4, <1>5, <1>7 DEF Chosen, askRest
<1>10. Quoted' /\ AnswersEarned'
  BY <1>2, <1>4, <1>7 DEF AskInv, Quoted, NoAnswer, AnswersEarned, AnswersGrounded, ImprovementEarned, Answered
<1>. QED BY <1>7, <1>8, <1>9, <1>10 DEF AskInv

\* Receipts that are durable are found; the references that remain do not matter.
LEMMA CitationKeeps ==
  ASSUME AskInv, UNCHANGED askRest, engine.phase = "cite", NEW todo, NEW extra \in SUBSET Durable,
         engine' = [engine EXCEPT !.todo = todo, !.found = engine.found \cup extra]
  PROVE  AskInv'
<1>1. engine' = [phase |-> engine.phase, have |-> engine.have, proven |-> engine.proven,
                 executions |-> engine.executions, found |-> engine.found \cup extra,
                 used |-> engine.used, todo |-> todo, answer |-> engine.answer]
  BY DEF AskInv, AskTyped
<1>2. engine' = [phase |-> engine'.phase, have |-> engine'.have, proven |-> engine'.proven,
                 executions |-> engine'.executions, found |-> engine'.found,
                 used |-> engine'.used, todo |-> engine'.todo, answer |-> engine'.answer]
      /\ engine'.phase # "idle" /\ engine.phase # "idle"
  BY <1>1
<1>3. /\ AskTyped' /\ Watching' /\ Durable' = Durable /\ (Improved => Improved')
      /\ \A S : Read(S) => Read(S)'
      /\ \A d : Execution(d) => Execution(d)'
  BY <1>2, WorkspaceKept
<1>4. HaveRead' /\ Executions' /\ Proven'
  BY <1>1, <1>3 DEF AskInv, HaveRead, Executions, Proven
<1>5. Chosen' /\ Quoted'
  BY <1>1, <1>3 DEF AskInv, Chosen, Quoted, askRest
<1>6. AnswersEarned'
  BY <1>1 DEF AnswersEarned, AnswersGrounded, ImprovementEarned, Answered
<1>. QED BY <1>3, <1>4, <1>5, <1>6 DEF AskInv

\* One reference is looked up.
LEMMA ResolveKeepsAnswers ==
  ASSUME AskInv, NEW h, Resolve(h)
  PROVE  AskInv'
<1>1. UNCHANGED askRest /\ engine.phase = "cite"
  BY DEF Resolve, askRest
<1>2. engine' = [engine EXCEPT !.todo = engine.todo \ {h}, !.found = engine.found \cup ByHash(h)]
  BY DEF Resolve
<1>3. ByHash(h) \in SUBSET Durable
  BY DEF ByHash, Durable
<1>. QED BY <1>1, <1>2, <1>3, CitationKeeps

\* The other references are sought among the first receipts.
LEMMA FallbackKeepsAnswers ==
  ASSUME AskInv, Fallback
  PROVE  AskInv'
<1>1. UNCHANGED askRest /\ engine.phase = "cite"
  BY DEF Fallback, askRest
<1>. DEFINE n == IF Len(evidence) < ReceiptLimit THEN Len(evidence) ELSE ReceiptLimit
            first == ToSet(SubSeq(evidence, 1, n))
            extra == {r \in first : r.refs \cap engine.todo # {}}
<1>2. engine' = [engine EXCEPT !.todo = {}, !.found = engine.found \cup extra]
  BY DEF Fallback
<1>3. n \in Int /\ n <= Len(evidence)
  BY AskAssumption DEF AskInv, AskTyped
<1>. HIDE DEF n
<1>4. first \subseteq Durable
  BY <1>3 DEF AskInv, AskTyped, Durable, ToSet
<1>. HIDE DEF first
<1>5. extra \in SUBSET Durable
  BY <1>4
<1>. HIDE DEF extra
<1>. QED BY <1>1, <1>2, <1>5, CitationKeeps

\* The answer is assembled from what was read.
LEMMA ConcludeKeepsAnswers ==
  ASSUME AskInv, Conclude
  PROVE  AskInv'
<1>1. UNCHANGED askRest /\ engine.phase = "cite"
  BY DEF Conclude, askRest
<1>. DEFINE cites == {c \in engine.used \X engine.found : c[2] \in Cites(c[1])}
            full == [rows |-> engine.used, truth |-> TruthOf(engine.used), cites |-> cites]
            answer == IF Covered THEN full ELSE NoAnswer
<1>2. engine' = [phase |-> "answered", have |-> engine.have, proven |-> engine.proven,
                 executions |-> engine.executions, found |-> engine.found, used |-> engine.used,
                 todo |-> engine.todo, answer |-> answer]
  BY DEF Conclude, AskInv, AskTyped
<1>3. Read(engine.used) /\ engine.found \subseteq Durable
  BY DEF AskInv, Chosen, Quoted
<1>4. Covered => \A w \in engine.used : \E c \in cites : /\ c[1] = w /\ c[2] \in Durable
                                                         /\ Strength[c[2].truth] >= Strength[w.truth]
  <2>. SUFFICES ASSUME Covered, NEW w \in engine.used
                PROVE  \E c \in cites : /\ c[1] = w /\ c[2] \in Durable
                                        /\ Strength[c[2].truth] >= Strength[w.truth]
    OBVIOUS
  <2>1. PICK r : r \in Cites(w)
    BY DEF Covered
  <2>2. r \in engine.found /\ Strength[r.truth] >= Strength[w.truth]
    BY <2>1 DEF Cites, Compatible
  <2>3. <<w, r>> \in cites
    BY <2>1, <2>2
  <2>. HIDE DEF cites
  <2>. QED BY <1>3, <2>2, <2>3
<1>5. \A w \in engine.used : w \in observed /\ Strength[TruthOf(engine.used)] <= Strength[w.truth]
  BY <1>3, AnswersSupported DEF Read
<1>. HIDE DEF cites
<1>6. answer.rows \subseteq engine.used
      /\ (answer.rows # {} => Covered /\ answer.rows = engine.used /\ answer.cites = cites
                              /\ answer.truth = TruthOf(engine.used))
  BY DEF NoAnswer
<1>. HIDE DEF answer
<1>7. engine' = [phase |-> engine'.phase, have |-> engine'.have, proven |-> engine'.proven,
                 executions |-> engine'.executions, found |-> engine'.found,
                 used |-> engine'.used, todo |-> engine'.todo, answer |-> engine'.answer]
      /\ engine'.phase # "idle" /\ engine.phase # "idle"
  BY <1>1, <1>2
<1>8. /\ AskTyped' /\ Watching' /\ Durable' = Durable /\ (Improved => Improved')
      /\ \A S : Read(S) => Read(S)'
      /\ \A d : Execution(d) => Execution(d)'
  BY <1>1, <1>7, WorkspaceKept
<1>9. HaveRead' /\ Executions' /\ Proven' /\ Chosen'
  BY <1>1, <1>2, <1>8 DEF AskInv, HaveRead, Executions, Proven, Chosen, askRest
<1>10. Quoted'
  BY <1>2, <1>6, <1>8 DEF AskInv, Quoted
<1>11. AnswersGrounded'
  <2>. SUFFICES ASSUME answer.rows # {}, NEW w \in answer.rows
                PROVE  /\ w \in observed'
                       /\ \E c \in answer.cites : /\ c[1] = w /\ c[2] \in Durable'
                                                  /\ Strength[c[2].truth] >= Strength[w.truth]
                       /\ Strength[answer.truth] <= Strength[w.truth]
    BY <1>2 DEF AnswersGrounded, Answered, Durable
  <2>1. w \in engine.used /\ Covered /\ answer.cites = cites /\ answer.truth = TruthOf(engine.used)
    BY <1>6
  <2>. QED BY <1>1, <1>4, <1>5, <1>8, <2>1 DEF askRest
<1>12. ImprovementEarned'
  <2>. SUFFICES ASSUME answer.rows # {}, intent = "outcome"
                PROVE  Improved'
    BY <1>1, <1>2 DEF ImprovementEarned, Answered, Improved, Durable, askRest
  <2>1. engine.proven # {}
    BY <1>6 DEF AskInv, Chosen
  <2>. QED BY <1>8, <2>1 DEF AskInv, Proven
<1>. QED BY <1>8, <1>9, <1>10, <1>11, <1>12 DEF AskInv, AnswersEarned

\* What the engine holds of a question is true of it in every state.
THEOREM AskInvariance == AskSpec => []AskInv
<1>1. ASSUME AskInit PROVE AskInv
  <2>1. engine = [phase |-> "idle", have |-> NothingLoaded, proven |-> {}, executions |-> {},
                  found |-> {}, used |-> {}, todo |-> {}, answer |-> NoAnswer]
        /\ evidence = <<>> /\ intent \in Intents /\ latest = [e \in AskEntity |-> NoRow]
    BY <1>1 DEF AskInit
  <2>2. AskTyped
    BY <2>1 DEF AskTyped
  <2>3. Watching /\ HaveRead /\ Executions
    BY <2>1 DEF Watching, HaveRead, Executions, NothingLoaded
  <2>4. Proven /\ Chosen /\ Quoted
    BY <2>1 DEF Proven, Chosen, Quoted, Read, NoAnswer
  <2>5. AnswersEarned
    BY <2>1 DEF AnswersEarned, AnswersGrounded, ImprovementEarned, Answered
  <2>. QED BY <2>2, <2>3, <2>4, <2>5 DEF AskInv
<1>2. ASSUME AskInv, [AskNext]_askVars PROVE AskInv'
  <2>1. CASE Rewrite
    BY <1>2, <2>1, UpsertKeepsAnswers, AppendKeepsAnswers DEF Rewrite
  <2>2. CASE AskStep
    BY <1>2, <2>2, BeginKeepsAnswers, LoadKeepsAnswers, FindExecutionKeepsAnswers, FindOutcomeKeepsAnswers,
       SelectKeepsAnswers, ResolveKeepsAnswers, FallbackKeepsAnswers, ConcludeKeepsAnswers DEF AskStep
  <2>3. CASE UNCHANGED askVars
    <3>1. UNCHANGED <<intent, latest, evidence, engine, observed>>
      BY <2>3 DEF askVars
    <3>2. AskTyped' /\ Watching'
      BY <1>2, <3>1 DEF AskInv, AskTyped, Watching
    <3>3. HaveRead' /\ Executions' /\ Proven' /\ Chosen' /\ Quoted'
      BY <1>2, <3>1 DEF AskInv, HaveRead, Executions, Proven, Chosen, Quoted, Read, Durable, Execution, Improved
    <3>4. AnswersEarned'
      BY <1>2, <3>1 DEF AskInv, AnswersEarned, AnswersGrounded, ImprovementEarned, Answered
    <3>. QED BY <3>2, <3>3, <3>4 DEF AskInv
  <2>. QED BY <1>2, <2>1, <2>2, <2>3 DEF AskNext
<1>. QED BY <1>1, <1>2, PTL DEF AskSpec

\* Every answer rests on rows that were current and on durable receipts as strong as they are, and
\* a claimed improvement followed the execution that it cites (EnterpriseAskEngine.answer).
THEOREM AnswersStayEarned == AskSpec => []AnswersEarned
<1>1. AskInv => AnswersEarned
  BY DEF AskInv
<1>. QED BY <1>1, AskInvariance, PTL

=============================================================================
