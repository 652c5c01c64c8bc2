--------------------------- MODULE OperationalStore ---------------------------
(***************************************************************************)
(* The operational stream of one workspace: versioned entities written by  *)
(* insert_operational, upsert_operational and upsert_operational_batch of  *)
(* lyte/persistence/store.py, and the two callers that react to a conflict:*)
(* _persist_projection of lyte/api/routes_ingest.py ("project") and        *)
(* _upsert_rows of lyte/demo.py ("seed").  A call is a sequence of         *)
(* transactions, run statement by statement against the others'.           *)
(*                                                                         *)
(* A single write reads the entity's latest version before it locks the    *)
(* stream head; a batch locks the head first.  A row's data is its body,   *)
(* and its label for the truth label and source revision.                  *)
(***************************************************************************)
EXTENDS Naturals, Sequences, FiniteSets

CONSTANTS Call,      \* calls; each runs once
          Entity,    \* (entity kind, entity id) pairs
          Body,      \* body_json
          Label,     \* truth label and source revision
          Requests,  \* the requests calls may carry
          Dialects,  \* databases the deployment may run on
          None       \* absent value

Op == {"insert", "upsert", "project", "batch", "seed"}

Draft == [entity : Entity, body : Body, label : Label]
RequestType == [op : Op, drafts : Seq(Draft), expected : Nat \cup {None}]

\* Batches are refused when they name an entity twice; the rest write one draft.
ASSUME RequestsAssumption ==
  \A r \in Requests :
    /\ r \in RequestType
    /\ r.drafts # <<>>
    /\ r.op \notin {"batch", "seed"} => Len(r.drafts) = 1
    /\ r.op # "upsert" => r.expected = None
    /\ \A i, j \in DOMAIN r.drafts : r.drafts[i].entity = r.drafts[j].entity => i = j

ASSUME ConstantsAssumption ==
  /\ Dialects \subseteq {"postgresql", "sqlite"}
  /\ None \notin Call
  /\ None \notin Nat

HashOf(n, c) == <<n, c>>
Hash == Nat \X Call

Row == [seq : Nat, prev : Hash \cup {None}, call : Call,
        entity : Entity, version : Nat, body : Body, label : Label]
StreamHead == [seq : Nat, hash : Hash \cup {None}]
EmptyHead == [seq |-> 0, hash |-> None]

VARIABLES dialect,  \* the database in use; never changes
          log,      \* committed rows of the stream
          head,     \* committed row of stream_heads
          lock,     \* call holding the head's row lock
          rows,     \* <<entity, version>> each call holds FOR UPDATE
          writer,   \* call holding SQLite's database write lock
          req,      \* what each call asks for
          pc,       \* next statement of each call
          at,       \* which of its drafts a call is at
          converge, \* a seeding call's batch has failed: it goes draft by draft
          expect,   \* version the write in progress expects, None for any
          latest,   \* version it read
          seen,     \* stream head it read
          pending,  \* rows added to its session
          answer    \* what each call returned

vars == <<dialect, log, head, lock, rows, writer, req, pc, at, converge, expect,
          latest, seen, pending, answer>>

Init ==
  /\ dialect \in Dialects
  /\ log = <<>>
  /\ head = EmptyHead
  /\ lock = None
  /\ rows = [c \in Call |-> None]
  /\ writer = None
  /\ req \in [Call -> Requests]
  /\ pc = [c \in Call |-> "start"]
  /\ at = [c \in Call |-> 1]
  /\ converge = [c \in Call |-> FALSE]
  /\ expect = [c \in Call |-> None]
  /\ latest = [c \in Call |-> 0]
  /\ seen = [c \in Call |-> None]
  /\ pending = [c \in Call |-> <<>>]
  /\ answer = [c \in Call |-> None]

-----------------------------------------------------------------------------
(* What a call reads. *)

DraftOf(c) == req[c].drafts[at[c]]

Versions(e) == {log[i] : i \in {j \in DOMAIN log : log[j].entity = e}}

\* ORDER BY version DESC LIMIT 1; version 0 stands for no row.
LatestVersion(e) ==
  IF Versions(e) = {} THEN 0
  ELSE CHOOSE v \in {r.version : r \in Versions(e)} : \A r \in Versions(e) : r.version <= v

LatestRows(e) == {r \in Versions(e) : r.version = LatestVersion(e)}

\* The projection compares bodies; a batch also labels and source revisions.
SameBody(d) == \E r \in LatestRows(d.entity) : r.body = d.body
SameContent(d) == \E r \in LatestRows(d.entity) : r.body = d.body /\ r.label = d.label

NewRow(c, d, version, base) ==
  [seq |-> base.seq + 1, prev |-> base.hash, call |-> c,
   entity |-> d.entity, version |-> version, body |-> d.body, label |-> d.label]

\* Defect: the session's head advances in number only.
HeadAfter_KeepsHash(c, added) ==
  [seq |-> seen[c].seq + Len(added), hash |-> seen[c].hash]

\* The head in the session: advanced once per row added.
HeadAfter(c, added) ==
  IF added = <<>> THEN seen[c]
  ELSE [seq |-> seen[c].seq + Len(added), hash |-> HashOf(seen[c].seq + Len(added), c)]

\* Defect: no constraint on (entity, version).
Unique_NoVersion(c) ==
  \A i \in DOMAIN pending[c] : \A r \in {log[j] : j \in DOMAIN log} :
    r.seq # pending[c][i].seq

\* The unique constraints on the sequence and on (entity, version).
Unique(c) ==
  \A i \in DOMAIN pending[c] : \A r \in {log[j] : j \in DOMAIN log} :
    /\ r.seq # pending[c][i].seq
    /\ <<r.entity, r.version>> # <<pending[c][i].entity, pending[c][i].version>>

-----------------------------------------------------------------------------
(* The end of a transaction, and what the call does next. *)

\* Defect: the session is not closed, so the head's row lock stays.
EndSession_KeepsLock(c) ==
  /\ rows' = [rows EXCEPT ![c] = None]
  /\ writer' = IF writer = c THEN None ELSE writer
  /\ latest' = [latest EXCEPT ![c] = 0]
  /\ seen' = [seen EXCEPT ![c] = None]
  /\ pending' = [pending EXCEPT ![c] = <<>>]
  /\ UNCHANGED lock

EndSession(c) ==
  /\ lock' = IF lock = c THEN None ELSE lock
  /\ rows' = [rows EXCEPT ![c] = None]
  /\ writer' = IF writer = c THEN None ELSE writer
  /\ latest' = [latest EXCEPT ![c] = 0]
  /\ seen' = [seen EXCEPT ![c] = None]
  /\ pending' = [pending EXCEPT ![c] = <<>>]

SameSession == UNCHANGED <<lock, rows, writer, latest, seen, pending>>

GoTo(c, label) == pc' = [pc EXCEPT ![c] = label]
Stored == UNCHANGED <<dialect, log, head, req>>

Plan == UNCHANGED <<at, converge, expect, answer>>

Return(c, status) ==
  /\ GoTo(c, "done")
  /\ answer' = [answer EXCEPT ![c] = status]
  /\ UNCHANGED <<at, converge, expect>>

InBatch(c) == req[c].op = "batch" \/ (req[c].op = "seed" /\ ~converge[c])

\* A seeding call goes on to its next draft, or is through.
Advance(c) ==
  \/ /\ at[c] < Len(req[c].drafts)
     /\ at' = [at EXCEPT ![c] = @ + 1]
     /\ GoTo(c, "reread")
     /\ UNCHANGED <<converge, expect, answer>>
  \/ at[c] = Len(req[c].drafts) /\ Return(c, "ok")

\* OperationalConflict: the projection and the seeding batch look again, every
\* other caller is told.
Conflict(c) ==
  /\ EndSession(c)
  /\ \/ req[c].op = "project" /\ GoTo(c, "raced") /\ Plan
     \/ /\ req[c].op = "seed" /\ InBatch(c)
        /\ converge' = [converge EXCEPT ![c] = TRUE]
        /\ at' = [at EXCEPT ![c] = 1]
        /\ GoTo(c, "reread")
        /\ UNCHANGED <<expect, answer>>
     \/ /\ req[c].op # "project" /\ ~(req[c].op = "seed" /\ InBatch(c))
        /\ Return(c, "conflict")

-----------------------------------------------------------------------------
(* One write: _write_operational. *)

BeginWrite(c) ==
  /\ pc[c] = "start"
  /\ req[c].op \in {"insert", "upsert"}
  /\ expect' = [expect EXCEPT ![c] = IF req[c].op = "insert" THEN 0 ELSE req[c].expected]
  /\ GoTo(c, "latest")
  /\ Stored /\ SameSession /\ UNCHANGED <<at, converge, answer>>

\* Defect: the caller's expectation is not compared with what was read.
Refused_Never(c, version) == req[c].op = "insert" /\ version # 0

Refused(c, version) ==
  \/ req[c].op = "insert" /\ version # 0
  \/ expect[c] # None /\ expect[c] # version

Held(c, version) ==
  /\ dialect = "postgresql" /\ version # 0
  /\ \E d \in Call \ {c} : rows[d] = <<DraftOf(c).entity, version>>

\* The SELECT returns the row it has chosen: refused, or on to the head.
RowGranted(c, version) ==
  /\ ~Held(c, version)
  /\ \/ Refused(c, version) /\ Conflict(c)
     \/ /\ ~Refused(c, version)
        /\ latest' = [latest EXCEPT ![c] = version]
        /\ rows' = [rows EXCEPT ![c] = IF dialect = "postgresql" /\ version # 0
                                       THEN <<DraftOf(c).entity, version>> ELSE None]
        /\ GoTo(c, "head")
        /\ Plan /\ UNCHANGED <<lock, writer, seen, pending>>
  /\ Stored

SelectLatest(c) ==
  /\ pc[c] = "latest"
  /\ RowGranted(c, LatestVersion(DraftOf(c).entity))

\* ... FOR UPDATE waits for the row another writer holds; rows never change,
\* so the wait ends with the row chosen before it, latest or not.
RowWait(c) ==
  LET version == LatestVersion(DraftOf(c).entity)
  IN  /\ pc[c] = "latest"
      /\ Held(c, version)
      /\ latest' = [latest EXCEPT ![c] = version]
      /\ GoTo(c, "rowwait")
      /\ Stored /\ Plan /\ UNCHANGED <<lock, rows, writer, seen, pending>>

RowWaited(c) == pc[c] = "rowwait" /\ RowGranted(c, latest[c])

LockHead(c) ==
  /\ pc[c] = "head"
  /\ \/ dialect = "postgresql" /\ lock = None /\ lock' = c
     \/ dialect = "sqlite" /\ UNCHANGED lock
  /\ seen' = [seen EXCEPT ![c] = head]
  /\ IF InBatch(c)
     THEN GoTo(c, "draft") /\ UNCHANGED pending
     ELSE /\ pending' = [pending EXCEPT ![c] = <<NewRow(c, DraftOf(c), latest[c] + 1, head)>>]
          /\ GoTo(c, "flush")
  /\ Stored /\ Plan /\ UNCHANGED <<rows, writer, latest>>

-----------------------------------------------------------------------------
(* A batch: upsert_operational_batch. *)

BeginBatch(c) ==
  /\ pc[c] = "start"
  /\ InBatch(c)
  /\ GoTo(c, "head")
  /\ Stored /\ SameSession /\ Plan

\* The session's rows once a draft has been looked at.
Added(c, d) ==
  IF SameContent(d) THEN pending[c]
  ELSE Append(pending[c], NewRow(c, d, LatestVersion(d.entity) + 1, HeadAfter(c, pending[c])))

ReadDraft(c) ==
  LET added == Added(c, DraftOf(c))
  IN  /\ pc[c] = "draft"
      /\ \/ /\ at[c] < Len(req[c].drafts)
            /\ pending' = [pending EXCEPT ![c] = added]
            /\ at' = [at EXCEPT ![c] = @ + 1]
            /\ UNCHANGED <<lock, rows, writer, pc, converge, expect, latest, seen, answer>>
         \/ /\ at[c] = Len(req[c].drafts)
            /\ added # <<>>
            /\ pending' = [pending EXCEPT ![c] = added]
            /\ GoTo(c, "flush")
            /\ Plan /\ UNCHANGED <<lock, rows, writer, latest, seen>>
         \/ /\ at[c] = Len(req[c].drafts)
            /\ added = <<>>
            /\ EndSession(c)
            /\ Return(c, "ok")
      /\ Stored

-----------------------------------------------------------------------------
(* Flush and commit, for both. *)

WriterFree == dialect = "sqlite" => writer = None

Flush(c) ==
  /\ pc[c] = "flush"
  /\ WriterFree /\ Unique(c)
  /\ writer' = IF dialect = "sqlite" THEN c ELSE writer
  /\ GoTo(c, "commit")
  /\ Stored /\ Plan /\ UNCHANGED <<lock, rows, latest, seen, pending>>

FlushRefused(c) ==
  /\ pc[c] = "flush"
  /\ WriterFree /\ ~Unique(c)
  /\ Conflict(c)
  /\ Stored

Install(c) ==
  /\ log' = log \o pending[c]
  /\ head' = HeadAfter(c, pending[c])

Commit(c) ==
  /\ pc[c] = "commit"
  /\ Install(c)
  /\ EndSession(c)
  /\ IF converge[c] THEN Advance(c) ELSE Return(c, "ok")
  /\ UNCHANGED <<dialect, req>>

CommitReplyLost(c) ==
  /\ pc[c] = "commit"
  /\ Install(c)
  /\ EndSession(c)
  /\ Return(c, "failed")
  /\ UNCHANGED <<dialect, req>>

\* A database error or a crash of the process.
Abort(c) ==
  /\ pc[c] \notin {"start", "done"}
  /\ EndSession(c)
  /\ Return(c, "failed")
  /\ Stored

-----------------------------------------------------------------------------
(* The callers. *)

\* _persist_projection reads the projection, and writes what is news over the
\* version it has read.
ReadProjection(c) ==
  /\ pc[c] = "start"
  /\ req[c].op = "project"
  /\ \/ SameBody(DraftOf(c)) /\ Return(c, "current")
     \/ /\ ~SameBody(DraftOf(c))
        /\ expect' = [expect EXCEPT ![c] = LatestVersion(DraftOf(c).entity)]
        /\ GoTo(c, "latest")
        /\ UNCHANGED <<at, converge, answer>>
  /\ Stored /\ SameSession

\* After a conflict it accepts the winner's row if that says the same.
Raced(c) ==
  /\ pc[c] = "raced"
  /\ Return(c, IF SameBody(DraftOf(c)) THEN "current" ELSE "conflict")
  /\ Stored /\ SameSession

\* _upsert_rows, after its batch failed: one draft at a time.
Reread(c) ==
  /\ pc[c] = "reread"
  /\ \/ SameContent(DraftOf(c)) /\ Advance(c)
     \/ /\ ~SameContent(DraftOf(c))
        /\ expect' = [expect EXCEPT ![c] = LatestVersion(DraftOf(c).entity)]
        /\ GoTo(c, "latest")
        /\ UNCHANGED <<at, converge, answer>>
  /\ Stored /\ SameSession

-----------------------------------------------------------------------------
Progress(c) ==
  \/ SelectLatest(c) \/ RowWait(c) \/ RowWaited(c) \/ LockHead(c) \/ ReadDraft(c)
  \/ Flush(c) \/ FlushRefused(c) \/ Commit(c) \/ Raced(c) \/ Reread(c)

Step(c) ==
  \/ BeginWrite(c) \/ BeginBatch(c) \/ ReadProjection(c)
  \/ Progress(c)
  \/ CommitReplyLost(c) \/ Abort(c)

Terminated ==
  /\ \A c \in Call : pc[c] = "done"
  /\ UNCHANGED vars

Next == (\E c \in Call : Step(c)) \/ Terminated

Spec == Init /\ [][Next]_vars

\* A transaction the database and the process keep alive runs on.
FairSpec == Spec /\ \A c \in Call : WF_vars(Progress(c))

-----------------------------------------------------------------------------
(* Correctness. *)

\* Rows, locks, program counters and answers keep their types.
TypeOK ==
  /\ dialect \in Dialects
  /\ log \in Seq(Row)
  /\ head \in StreamHead
  /\ lock \in Call \cup {None}
  /\ rows \in [Call -> (Entity \X Nat) \cup {None}]
  /\ writer \in Call \cup {None}
  /\ req \in [Call -> Requests]
  /\ pc \in [Call -> {"start", "latest", "rowwait", "head", "draft", "flush", "commit",
                      "raced", "reread", "done"}]
  /\ at \in [Call -> Nat \ {0}]
  /\ converge \in [Call -> BOOLEAN]
  /\ expect \in [Call -> Nat \cup {None}]
  /\ latest \in [Call -> Nat]
  /\ seen \in [Call -> StreamHead \cup {None}]
  /\ pending \in [Call -> Seq(Row)]
  /\ answer \in [Call -> {"ok", "current", "conflict", "failed", None}]

\* What verify_chain looks for in the operational stream, whose writers read
\* the version before the head and in a batch chain rows in memory.
StreamIntact ==
  /\ \A i \in DOMAIN log :
       /\ log[i].seq = i
       /\ log[i].prev = IF i = 1 THEN None ELSE HashOf(i - 1, log[i - 1].call)
  /\ head = IF log = <<>> THEN EmptyHead
            ELSE [seq |-> Len(log), hash |-> HashOf(Len(log), log[Len(log)].call)]

\* The versions of an entity are 1, 2, 3, ... in the order of the stream: two
\* writers that read one version never both write its successor.
HistoriesLinear ==
  \A i \in DOMAIN log :
    log[i].version = 1 + Cardinality({j \in 1..i - 1 : log[j].entity = log[i].entity})

\* "Unchanged records are omitted": a batch, a seeding or a projection never
\* writes a version that says what the version before it says, however many
\* transactions lie between its reading and its writing.
NoIdleVersions ==
  \A i, j \in DOMAIN log :
    /\ log[i].entity = log[j].entity /\ log[j].version = log[i].version + 1
    /\ req[log[j].call].op \in {"batch", "seed", "project"}
    => /\ log[i].body = log[j].body => log[i].label # log[j].label
       /\ req[log[j].call].op = "project" => log[i].body # log[j].body

\* The two together, with the types: one history per entity, in which every version of these
\* callers says something new.
HistoriesHold == TypeOK /\ HistoriesLinear /\ NoIdleVersions

\* A call that has begun returns: row locks, head lock and write lock never
\* close a circle of waiting writers.
EveryCallReturns == \A c \in Call : (pc[c] # "start") ~> (pc[c] = "done")

\* Concurrent seeding converges: it never ends in a conflict.  Not a property of the code on
\* SQLite, where the item-by-item fallback of _upsert_rows may be refused too (README).
SeedingConverges ==
  \A c \in Call : req[c].op = "seed" => answer[c] # "conflict"

-----------------------------------------------------------------------------
(* Refinement: the history of an entity is what its rows say, by version. *)

RowsOf(e) == {i \in DOMAIN log : log[i].entity = e}
AtVersion(e, v) == {i \in RowsOf(e) : log[i].version = v}

Said(r) == [body |-> r.body, label |-> r.label]
History(e) ==
  [v \in 1 .. Cardinality(RowsOf(e)) |-> Said(log[CHOOSE i \in AtVersion(e, v) : TRUE])]

Versioned == INSTANCE AtomicVersions WITH history <- [e \in Entity |-> History(e)]

\* The transactions append to histories as single conditional steps would.
ImplementsVersions == Versioned!Spec

=============================================================================
