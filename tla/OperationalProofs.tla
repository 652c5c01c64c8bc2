-------------------------- MODULE OperationalProofs --------------------------
(***************************************************************************)
(* Proofs about OperationalStore: the chain of the operational stream, and *)
(* the one history of each entity.                                         *)
(*                                                                         *)
(* A single write reads the latest version before it locks the head, so    *)
(* what it read may be old.  The invariant says what it still knows then:  *)
(* the version read exists, and what the call writes differs from it.  The *)
(* unique constraints turn this into knowledge of the latest version.  A   *)
(* batch reads under the lock on PostgreSQL; on SQLite its rows follow the *)
(* latest versions only as long as the stream has not grown.               *)
(***************************************************************************)
EXTENDS OperationalStore, FiniteSetTheorems, SequenceTheorems, TLAPS

\* How many versions an entity has.
Count(e) == Cardinality(RowsOf(e))

\* The versions of an entity are 1 to their number.
Dense ==
  \A e \in Entity :
    /\ \A i \in RowsOf(e) : log[i].version \in 1 .. Count(e)
    /\ \A v \in 1 .. Count(e) : \E i \in RowsOf(e) : log[i].version = v

\* The head as it was when the stream had n rows.
HeadAt(n) == IF n = 0 THEN EmptyHead ELSE [seq |-> n, hash |-> HashOf(n, log[n].call)]

InTransaction == {"draft", "flush", "commit"}

\* The head a transaction has read was the head at some time.
Sighted(c) ==
  pc[c] \in InTransaction =>
    /\ seen[c] \in StreamHead /\ seen[c].seq <= Len(log)
    /\ seen[c] = HeadAt(seen[c].seq)

\* And it still is, once the database has let the transaction write.
Locked(c) ==
  /\ pc[c] \in InTransaction /\ dialect = "postgresql" => lock = c /\ seen[c].seq = Len(log)
  /\ pc[c] = "commit" /\ dialect = "sqlite" => writer = c /\ seen[c].seq = Len(log)

\* The rows of a transaction continue the chain from the head it has read.
Chained(c) ==
  /\ pc[c] \notin InTransaction => pending[c] = <<>>
  /\ pc[c] \in {"flush", "commit"} => pending[c] # <<>>
  /\ \A i \in DOMAIN pending[c] :
       /\ pending[c][i].seq = seen[c].seq + i /\ pending[c][i].call = c
       /\ pending[c][i].prev = IF i = 1 THEN seen[c].hash ELSE HashOf(seen[c].seq + i - 1, c)
  /\ \A i, j \in DOMAIN pending[c] : pending[c][i].entity = pending[c][j].entity => i = j

\* Where a call stands among its drafts.
Placed(c) ==
  /\ at[c] \in DOMAIN req[c].drafts
  /\ converge[c] => req[c].op = "seed"
  /\ pc[c] = "start" => ~converge[c]
  /\ pc[c] = "draft" => InBatch(c)
  /\ pc[c] \in {"latest", "rowwait"} => ~InBatch(c)
  /\ pc[c] = "reread" => req[c].op = "seed" /\ converge[c]
  /\ pc[c] = "draft" => \A i \in DOMAIN pending[c] :
                          \E k \in 1 .. at[c] - 1 : pending[c][i].entity = req[c].drafts[k].entity

\* A row says something else than a draft of these callers.
Differs(c, r, d) ==
  /\ r.body = d.body => r.label # d.label
  /\ req[c].op = "project" => r.body # d.body

Tells(c) == req[c].op \in {"batch", "seed", "project"}

\* A single write: what it has read, and what it knows of it.
Single(c) ==
  pc[c] \in {"latest", "rowwait", "head", "flush", "commit"} /\ ~InBatch(c) =>
    LET e == DraftOf(c).entity
    IN  /\ Tells(c) => /\ expect[c] \in Nat /\ expect[c] <= Count(e)
                       /\ \A i \in RowsOf(e) : log[i].version = expect[c] =>
                            Differs(c, log[i], DraftOf(c))
        /\ pc[c] # "latest" => latest[c] <= Count(e)
        /\ pc[c] \in {"head", "flush", "commit"} =>
             /\ expect[c] # None => latest[c] = expect[c]
             /\ req[c].op = "insert" => latest[c] = 0
        /\ pc[c] \in {"flush", "commit"} =>
             pending[c] = <<NewRow(c, DraftOf(c), latest[c] + 1, seen[c])>>
        /\ pc[c] = "commit" => latest[c] = Count(e)

\* A row that may follow the versions there are.
Follows(c, r) ==
  /\ r.version = Count(r.entity) + 1
  /\ Tells(c) => \A k \in RowsOf(r.entity) : log[k].version = Count(r.entity) => Differs(c, log[k], r)

\* A batch: every row follows, unless the stream has grown since.
Batched(c) ==
  pc[c] \in InTransaction /\ InBatch(c) /\ seen[c].seq = Len(log) =>
    \A i \in DOMAIN pending[c] : Follows(c, pending[c][i])

Local(c) == Sighted(c) /\ Locked(c) /\ Chained(c) /\ Placed(c) /\ Single(c) /\ Batched(c)

OInv ==
  /\ TypeOK /\ StreamIntact /\ Dense /\ HistoriesLinear /\ NoIdleVersions
  /\ \A c \in Call : Local(c)

-----------------------------------------------------------------------------
(* What is read. *)

LEMMA Counting ==
  ASSUME TypeOK, NEW e
  PROVE  /\ RowsOf(e) \subseteq 1 .. Len(log) /\ Len(log) \in Nat /\ DOMAIN log = 1 .. Len(log)
         /\ \A i \in RowsOf(e) : log[i] \in Row
         /\ IsFiniteSet(RowsOf(e)) /\ Count(e) \in Nat
<1>1. Len(log) \in Nat /\ DOMAIN log = 1 .. Len(log) /\ \A i \in DOMAIN log : log[i] \in Row
  BY DEF TypeOK
<1>2. RowsOf(e) \in SUBSET (1 .. Len(log))
  BY <1>1 DEF RowsOf
<1>3. IsFiniteSet(1 .. Len(log))
  BY <1>1, FS_Interval
<1>4. IsFiniteSet(RowsOf(e))
  BY <1>2, <1>3, FS_Subset
<1>. QED BY <1>1, <1>2, <1>4, FS_CardinalityType DEF Count, RowsOf

\* The latest version is the number of versions.
LEMMA LatestIsCount ==
  ASSUME TypeOK, Dense, NEW e \in Entity
  PROVE  LatestVersion(e) = Count(e) /\ Count(e) \in Nat
<1>1. Versions(e) = {log[i] : i \in RowsOf(e)}
  BY DEF Versions, RowsOf
<1>2. Count(e) \in Nat /\ IsFiniteSet(RowsOf(e))
  BY Counting
<1>3. CASE Count(e) = 0
  <2>1. RowsOf(e) = {}
    BY <1>2, <1>3, FS_EmptySet DEF Count
  <2>. QED BY <1>1, <1>2, <1>3, <2>1 DEF LatestVersion
<1>4. CASE Count(e) # 0
  <2>. DEFINE numbers == {r.version : r \in Versions(e)}
              highest(v) == \A r \in Versions(e) : r.version <= v
  <2>1. PICK i \in RowsOf(e) : log[i].version = Count(e)
    BY <1>2, <1>4 DEF Dense
  <2>2. Count(e) \in numbers /\ highest(Count(e)) /\ Versions(e) # {}
    BY <1>1, <1>2, <2>1 DEF Dense
  <2>3. \A v \in numbers : v \in Nat /\ v <= Count(e)
    BY <1>1, <1>2 DEF Dense
  <2>4. \A v \in numbers : highest(v) => v = Count(e)
    <3>1. SUFFICES ASSUME NEW v \in numbers, highest(v) PROVE v = Count(e)
      OBVIOUS
    <3>2. log[i].version <= v
      BY <1>1, <3>1
    <3>. QED BY <1>2, <2>1, <2>3, <3>1, <3>2
  <2>5. LatestVersion(e) = CHOOSE v \in numbers : highest(v)
    BY <2>2 DEF LatestVersion
  <2>. HIDE DEF numbers, highest
  <2>6. (CHOOSE v \in numbers : highest(v)) \in numbers /\ highest(CHOOSE v \in numbers : highest(v))
    BY <2>2
  <2>. QED BY <1>2, <2>4, <2>5, <2>6
<1>. QED BY <1>2, <1>3, <1>4

\* A draft that is news differs from the latest version, if there is one.
LEMMA News ==
  ASSUME TypeOK, Dense, NEW d \in Draft
  PROVE  /\ ~SameBody(d) <=> \A i \in RowsOf(d.entity) :
              log[i].version = Count(d.entity) => log[i].body # d.body
         /\ ~SameContent(d) <=> \A i \in RowsOf(d.entity) :
              log[i].version = Count(d.entity) => ~(log[i].body = d.body /\ log[i].label = d.label)
<1>1. d.entity \in Entity
  BY DEF Draft
<1>2. LatestRows(d.entity) = {log[i] : i \in {j \in RowsOf(d.entity) : log[j].version = Count(d.entity)}}
  BY <1>1, LatestIsCount DEF LatestRows, Versions, RowsOf
<1>. QED BY <1>2 DEF SameBody, SameContent

LEMMA Drafted ==
  ASSUME TypeOK, NEW c \in Call, Placed(c)
  PROVE  /\ req[c] \in RequestType /\ req[c].drafts \in Seq(Draft) /\ DraftOf(c) \in Draft
         /\ DraftOf(c).entity \in Entity /\ at[c] \in 1 .. Len(req[c].drafts)
         /\ \A i, j \in DOMAIN req[c].drafts :
              req[c].drafts[i].entity = req[c].drafts[j].entity => i = j
         /\ req[c].op \notin {"batch", "seed"} => Len(req[c].drafts) = 1
         /\ req[c].op # "upsert" => req[c].expected = None
         /\ req[c].expected \in Nat \cup {None}
<1>1. req[c] \in Requests
  BY DEF TypeOK
<1>2. req[c] \in RequestType /\ req[c].drafts \in Seq(Draft)
  BY <1>1, RequestsAssumption DEF RequestType
<1>3. at[c] \in 1 .. Len(req[c].drafts) /\ DraftOf(c) \in Draft
  BY <1>2 DEF Placed, DraftOf
<1>. QED BY <1>1, <1>2, <1>3, RequestsAssumption DEF Draft, RequestType

LEMMA NewRowTyped ==
  ASSUME NEW c \in Call, NEW d \in Draft, NEW version \in Nat, NEW base \in StreamHead
  PROVE  /\ NewRow(c, d, version, base) \in Row
         /\ NewRow(c, d, version, base).seq = base.seq + 1
         /\ NewRow(c, d, version, base).prev = base.hash
         /\ NewRow(c, d, version, base).call = c
         /\ NewRow(c, d, version, base).entity = d.entity
         /\ NewRow(c, d, version, base).version = version
         /\ NewRow(c, d, version, base).body = d.body
         /\ NewRow(c, d, version, base).label = d.label
BY DEF NewRow, Row, Draft, StreamHead

LEMMA HeadAfterTyped ==
  ASSUME TypeOK, NEW c \in Call, seen[c] \in StreamHead
  PROVE  \A added \in Seq(Row) :
           /\ HeadAfter(c, added) \in StreamHead
           /\ HeadAfter(c, added).seq = seen[c].seq + Len(added)
           /\ HeadAfter(c, added).hash = IF added = <<>> THEN seen[c].hash
                                         ELSE HashOf(seen[c].seq + Len(added), c)
<1>1. SUFFICES ASSUME NEW added \in Seq(Row)
               PROVE  /\ HeadAfter(c, added) \in StreamHead
                      /\ HeadAfter(c, added).seq = seen[c].seq + Len(added)
                      /\ HeadAfter(c, added).hash = IF added = <<>> THEN seen[c].hash
                                                    ELSE HashOf(seen[c].seq + Len(added), c)
  OBVIOUS
<1>2. seen[c].seq \in Nat /\ Len(added) \in Nat
  BY DEF StreamHead
<1>3. CASE added = <<>>
  BY <1>2, <1>3 DEF HeadAfter
<1>4. CASE added # <<>>
  BY <1>2, <1>4 DEF HeadAfter, StreamHead, Hash, HashOf
<1>. QED BY <1>3, <1>4

\* The session's rows after a draft: the same, or one more.
LEMMA AddedRows ==
  ASSUME OInv, NEW c \in Call, pc[c] = "draft"
  PROVE  LET d == DraftOf(c)
             row == NewRow(c, d, Count(d.entity) + 1, HeadAfter(c, pending[c]))
         IN  /\ row \in Row /\ HeadAfter(c, pending[c]) \in StreamHead
             /\ SameContent(d) => Added(c, d) = pending[c]
             /\ ~SameContent(d) => Added(c, d) = Append(pending[c], row)
             /\ Added(c, d) \in Seq(Row)
<1>1. /\ seen[c] \in StreamHead /\ pending[c] \in Seq(Row)
      /\ DraftOf(c) \in Draft /\ DraftOf(c).entity \in Entity
  BY Drafted DEF OInv, Local, Sighted, InTransaction, TypeOK
<1>2. HeadAfter(c, pending[c]) \in StreamHead
  BY <1>1, HeadAfterTyped DEF OInv
<1>3. LatestVersion(DraftOf(c).entity) = Count(DraftOf(c).entity) /\ Count(DraftOf(c).entity) \in Nat
  BY <1>1, LatestIsCount DEF OInv
<1>4. Count(DraftOf(c).entity) + 1 \in Nat
  BY <1>3
<1>5. \A v \in Nat : NewRow(c, DraftOf(c), v, HeadAfter(c, pending[c])) \in Row
  BY <1>1, <1>2, NewRowTyped
<1>6. NewRow(c, DraftOf(c), Count(DraftOf(c).entity) + 1, HeadAfter(c, pending[c])) \in Row
  BY <1>4, <1>5
<1>. QED BY <1>1, <1>2, <1>3, <1>6 DEF Added

-----------------------------------------------------------------------------
(* What a step changes. *)

LEMMA Framed ==
  ASSUME NEW c \in Call, Step(c)
  PROVE  /\ dialect' = dialect /\ req' = req
         /\ \/ log' = log /\ head' = head
            \/ pc[c] = "commit" /\ Install(c)
BY DEF Step, Progress, BeginWrite, BeginBatch, ReadProjection, SelectLatest, RowGranted, RowWait,
       RowWaited, LockHead, ReadDraft, Flush, FlushRefused, Commit, Raced, Reread, CommitReplyLost,
       Abort, Stored

Only(f, g, c) == \E x : g = [f EXCEPT ![c] = x]

LEMMA OwnChanges ==
  ASSUME TypeOK, NEW c \in Call, Step(c)
  PROVE  /\ pc' = pc \/ Only(pc, pc', c)
         /\ at' = at \/ Only(at, at', c)
         /\ converge' = converge \/ Only(converge, converge', c)
         /\ expect' = expect \/ Only(expect, expect', c)
         /\ latest' = latest \/ Only(latest, latest', c)
         /\ seen' = seen \/ Only(seen, seen', c)
         /\ pending' = pending \/ Only(pending, pending', c)
<1>1. pc' = pc \/ Only(pc, pc', c)
  BY DEF Step, Progress, BeginWrite, BeginBatch, ReadProjection, SelectLatest, RowGranted, RowWait,
       RowWaited, LockHead, ReadDraft, Flush, FlushRefused, Commit, Raced, Reread, CommitReplyLost,
       Abort, GoTo, Return, Advance, Conflict, Only
<1>2. at' = at \/ Only(at, at', c)
  BY DEF Step, Progress, BeginWrite, BeginBatch, ReadProjection, SelectLatest, RowGranted, RowWait,
       RowWaited, LockHead, ReadDraft, Flush, FlushRefused, Commit, Raced, Reread, CommitReplyLost,
       Abort, Return, Advance, Conflict, Plan, Only
<1>3. converge' = converge \/ Only(converge, converge', c)
  BY DEF Step, Progress, BeginWrite, BeginBatch, ReadProjection, SelectLatest, RowGranted, RowWait,
       RowWaited, LockHead, ReadDraft, Flush, FlushRefused, Commit, Raced, Reread, CommitReplyLost,
       Abort, Return, Advance, Conflict, Plan, Only
<1>4. expect' = expect \/ Only(expect, expect', c)
  BY DEF Step, Progress, BeginWrite, BeginBatch, ReadProjection, SelectLatest, RowGranted, RowWait,
       RowWaited, LockHead, ReadDraft, Flush, FlushRefused, Commit, Raced, Reread, CommitReplyLost,
       Abort, Return, Advance, Conflict, Plan, Only
<1>5. latest' = latest \/ Only(latest, latest', c)
  BY DEF Step, Progress, BeginWrite, BeginBatch, ReadProjection, SelectLatest, RowGranted, RowWait,
       RowWaited, LockHead, ReadDraft, Flush, FlushRefused, Commit, Raced, Reread, CommitReplyLost,
       Abort, EndSession, SameSession, Conflict, Only
<1>6. seen' = seen \/ Only(seen, seen', c)
  BY DEF Step, Progress, BeginWrite, BeginBatch, ReadProjection, SelectLatest, RowGranted, RowWait,
       RowWaited, LockHead, ReadDraft, Flush, FlushRefused, Commit, Raced, Reread, CommitReplyLost,
       Abort, EndSession, SameSession, Conflict, Only
<1>7. pending' = pending \/ Only(pending, pending', c)
  BY DEF Step, Progress, BeginWrite, BeginBatch, ReadProjection, SelectLatest, RowGranted, RowWait,
       RowWaited, LockHead, ReadDraft, Flush, FlushRefused, Commit, Raced, Reread, CommitReplyLost,
       Abort, EndSession, SameSession, Conflict, Only
<1>. QED BY <1>1, <1>2, <1>3, <1>4, <1>5, <1>6, <1>7

LEMMA OthersSame ==
  ASSUME TypeOK, NEW c \in Call, Step(c), NEW d \in Call, d # c
  PROVE  /\ pc'[d] = pc[d] /\ at'[d] = at[d] /\ converge'[d] = converge[d] /\ expect'[d] = expect[d]
         /\ latest'[d] = latest[d] /\ seen'[d] = seen[d] /\ pending'[d] = pending[d]
         /\ req'[d] = req[d]
<1>0. /\ pc' = pc \/ Only(pc, pc', c)
      /\ at' = at \/ Only(at, at', c)
      /\ converge' = converge \/ Only(converge, converge', c)
      /\ expect' = expect \/ Only(expect, expect', c)
      /\ latest' = latest \/ Only(latest, latest', c)
      /\ seen' = seen \/ Only(seen, seen', c)
      /\ pending' = pending \/ Only(pending, pending', c)
  BY OwnChanges
<1>1. pc'[d] = pc[d]
  BY <1>0 DEF TypeOK, Only
<1>2. at'[d] = at[d]
  BY <1>0 DEF TypeOK, Only
<1>3. converge'[d] = converge[d]
  BY <1>0 DEF TypeOK, Only
<1>4. expect'[d] = expect[d]
  BY <1>0 DEF TypeOK, Only
<1>5. latest'[d] = latest[d]
  BY <1>0 DEF TypeOK, Only
<1>6. seen'[d] = seen[d]
  BY <1>0 DEF TypeOK, Only
<1>7. pending'[d] = pending[d]
  BY <1>0 DEF TypeOK, Only
<1>. QED BY <1>1, <1>2, <1>3, <1>4, <1>5, <1>6, <1>7, Framed

\* Locks are taken when they are free, and only the holder lets go.
LEMMA LocksSame ==
  ASSUME TypeOK, NEW c \in Call, Step(c), NEW d \in Call, d # c
  PROVE  /\ lock = d => lock' = d
         /\ dialect = "sqlite" /\ writer = d => writer' = d
<1>1. d # None
  BY ConstantsAssumption
<1>2. lock = d => lock' = d
  BY <1>1 DEF Step, Progress, BeginWrite, BeginBatch, ReadProjection, SelectLatest, RowGranted, RowWait,
       RowWaited, LockHead, ReadDraft, Flush, FlushRefused, Commit, Raced, Reread, CommitReplyLost,
       Abort, EndSession, SameSession, Conflict
<1>3. dialect = "sqlite" /\ writer = d => writer' = d
  BY <1>1 DEF Step, Progress, BeginWrite, BeginBatch, ReadProjection, SelectLatest, RowGranted, RowWait,
       RowWaited, LockHead, ReadDraft, Flush, FlushRefused, Commit, Raced, Reread, CommitReplyLost,
       Abort, EndSession, SameSession, Conflict, WriterFree
<1>. QED BY <1>2, <1>3
-----------------------------------------------------------------------------
(* Types. *)

LEMMA Commits ==
  ASSUME OInv, NEW c \in Call, pc[c] = "commit", Install(c)
  PROVE  /\ pending[c] \in Seq(Row) /\ pending[c] # <<>> /\ Len(pending[c]) \in Nat \ {0}
         /\ seen[c] \in StreamHead /\ seen[c].seq = Len(log) /\ seen[c] = HeadAt(Len(log))
         /\ log' = log \o pending[c] /\ head' = HeadAfter(c, pending[c])
         /\ head' \in StreamHead /\ log' \in Seq(Row)
         /\ head' = [seq |-> Len(log) + Len(pending[c]),
                     hash |-> HashOf(Len(log) + Len(pending[c]), c)]
<1>1. /\ pending[c] \in Seq(Row) /\ pending[c] # <<>>
      /\ log \in Seq(Row)
  BY DEF OInv, Local, Chained, TypeOK
<1>2. /\ seen[c] \in StreamHead /\ seen[c] = HeadAt(seen[c].seq)
  BY DEF OInv, Local, Sighted, InTransaction
<1>3. dialect \in {"postgresql", "sqlite"}
  BY ConstantsAssumption DEF OInv, TypeOK
<1>4. seen[c].seq = Len(log)
  BY <1>3 DEF OInv, Local, Locked, InTransaction
<1>5. head' \in StreamHead
  BY <1>1, <1>2, HeadAfterTyped DEF OInv, Install
<1>. QED BY <1>1, <1>2, <1>4, <1>5 DEF Install, HeadAfter

LEMMA TypeInvariant ==
  ASSUME OInv, NEW c \in Call, Step(c)
  PROVE  TypeOK'
<1>. DEFINE e == DraftOf(c).entity
<1>1. /\ DraftOf(c) \in Draft /\ e \in Entity /\ LatestVersion(e) \in Nat
      /\ at[c] \in 1 .. Len(req[c].drafts) /\ Len(req[c].drafts) \in Nat
      /\ req[c].expected \in Nat \cup {None}
  BY Drafted, LatestIsCount DEF OInv, Local
<1>2. TypeOK
  BY DEF OInv
<1>. HIDE DEF e
<1>3. dialect' \in Dialects /\ req' \in [Call -> Requests]
  BY <1>2, Framed DEF TypeOK
<1>4. log' \in Seq(Row) /\ head' \in StreamHead
  BY <1>2, Framed, Commits DEF TypeOK
<1>5. lock' \in Call \cup {None}
  BY <1>2 DEF TypeOK, Step, Progress, BeginWrite, BeginBatch, ReadProjection, SelectLatest, RowGranted,
       RowWait, RowWaited, LockHead, ReadDraft, Flush, FlushRefused, Commit, Raced, Reread,
       CommitReplyLost, Abort, EndSession, SameSession, Conflict
<1>6. rows' \in [Call -> (Entity \X Nat) \cup {None}]
  <2>1. rows' = rows \/ \E x \in (Entity \X Nat) \cup {None} : rows' = [rows EXCEPT ![c] = x]
    BY <1>1, <1>2 DEF TypeOK, Step, Progress, BeginWrite, BeginBatch, ReadProjection, SelectLatest,
       RowGranted, RowWait, RowWaited, LockHead, ReadDraft, Flush, FlushRefused, Commit, Raced, Reread,
       CommitReplyLost, Abort, EndSession, SameSession, Conflict, e
  <2>. QED BY <1>2, <2>1 DEF TypeOK
<1>7. writer' \in Call \cup {None}
  BY <1>2 DEF TypeOK, Step, Progress, BeginWrite, BeginBatch, ReadProjection, SelectLatest, RowGranted,
       RowWait, RowWaited, LockHead, ReadDraft, Flush, FlushRefused, Commit, Raced, Reread,
       CommitReplyLost, Abort, EndSession, SameSession, Conflict
<1>8. pc' \in [Call -> {"start", "latest", "rowwait", "head", "draft", "flush", "commit",
                        "raced", "reread", "done"}]
  <2>1. pc' = pc \/ \E x \in {"latest", "rowwait", "head", "draft", "flush", "commit", "raced", "reread",
                              "done"} : pc' = [pc EXCEPT ![c] = x]
    BY DEF Step, Progress, BeginWrite, BeginBatch, ReadProjection, SelectLatest, RowGranted,
       RowWait, RowWaited, LockHead, ReadDraft, Flush, FlushRefused, Commit, Raced, Reread,
       CommitReplyLost, Abort, Conflict, Return, Advance, GoTo
  <2>. QED BY <1>2, <2>1 DEF TypeOK
<1>9. at' \in [Call -> Nat \ {0}]
  <2>1. at' = at \/ \E x \in {1, at[c] + 1} : at' = [at EXCEPT ![c] = x]
    BY <1>2 DEF TypeOK, Step, Progress, BeginWrite, BeginBatch, ReadProjection, SelectLatest, RowGranted,
       RowWait, RowWaited, LockHead, ReadDraft, Flush, FlushRefused, Commit, Raced, Reread,
       CommitReplyLost, Abort, Conflict, Return, Advance, Plan
  <2>2. at \in [Call -> Nat \ {0}] /\ 1 \in Nat \ {0} /\ at[c] + 1 \in Nat \ {0}
    BY <1>2 DEF TypeOK
  <2>. QED BY <2>1, <2>2
<1>10. converge' \in [Call -> BOOLEAN]
  <2>1. converge' = converge \/ converge' = [converge EXCEPT ![c] = TRUE]
    BY DEF Step, Progress, BeginWrite, BeginBatch, ReadProjection, SelectLatest, RowGranted,
       RowWait, RowWaited, LockHead, ReadDraft, Flush, FlushRefused, Commit, Raced, Reread,
       CommitReplyLost, Abort, Conflict, Return, Advance, Plan
  <2>. QED BY <1>2, <2>1 DEF TypeOK
<1>11. expect' \in [Call -> Nat \cup {None}]
  <2>1. expect' = expect \/ \E x \in {0, req[c].expected, LatestVersion(e)} :
                               expect' = [expect EXCEPT ![c] = x]
    BY DEF Step, Progress, BeginWrite, BeginBatch, ReadProjection, SelectLatest, RowGranted,
       RowWait, RowWaited, LockHead, ReadDraft, Flush, FlushRefused, Commit, Raced, Reread,
       CommitReplyLost, Abort, Conflict, Return, Advance, Plan, e
  <2>2. expect \in [Call -> Nat \cup {None}] /\ 0 \in Nat \cup {None}
    BY <1>2 DEF TypeOK
  <2>3. LatestVersion(e) \in Nat \cup {None}
    BY <1>1
  <2>. QED BY <1>1, <2>1, <2>2, <2>3
<1>12. latest' \in [Call -> Nat]
  <2>1. latest' = latest \/ \E x \in {0, latest[c], LatestVersion(e)} : latest' = [latest EXCEPT ![c] = x]
    BY DEF Step, Progress, BeginWrite, BeginBatch, ReadProjection, SelectLatest, RowGranted,
       RowWait, RowWaited, LockHead, ReadDraft, Flush, FlushRefused, Commit, Raced, Reread,
       CommitReplyLost, Abort, Conflict, EndSession, SameSession, e
  <2>. QED BY <1>1, <1>2, <2>1 DEF TypeOK
<1>13. seen' \in [Call -> StreamHead \cup {None}]
  <2>1. seen' = seen \/ \E x \in {None, head} : seen' = [seen EXCEPT ![c] = x]
    BY DEF Step, Progress, BeginWrite, BeginBatch, ReadProjection, SelectLatest, RowGranted,
       RowWait, RowWaited, LockHead, ReadDraft, Flush, FlushRefused, Commit, Raced, Reread,
       CommitReplyLost, Abort, Conflict, EndSession, SameSession
  <2>. QED BY <1>2, <2>1 DEF TypeOK
<1>14. pending' \in [Call -> Seq(Row)]
  <2>1. <<NewRow(c, DraftOf(c), latest[c] + 1, head)>> \in Seq(Row)
    <3>1. latest[c] + 1 \in Nat /\ head \in StreamHead
      BY <1>2 DEF TypeOK
    <3>2. NewRow(c, DraftOf(c), latest[c] + 1, head) \in Row
      BY <1>1, <3>1, NewRowTyped
    <3>. QED BY <3>2
  <2>2. pc[c] = "draft" => Added(c, DraftOf(c)) \in Seq(Row)
    BY AddedRows
  <2>3. \/ pending' = pending
        \/ pending' = [pending EXCEPT ![c] = <<>>]
        \/ pending' = [pending EXCEPT ![c] = <<NewRow(c, DraftOf(c), latest[c] + 1, head)>>]
        \/ pc[c] = "draft" /\ pending' = [pending EXCEPT ![c] = Added(c, DraftOf(c))]
    BY DEF Step, Progress, BeginWrite, BeginBatch, ReadProjection, SelectLatest, RowGranted,
       RowWait, RowWaited, LockHead, ReadDraft, Flush, FlushRefused, Commit, Raced, Reread,
       CommitReplyLost, Abort, Conflict, EndSession, SameSession
  <2>4. pending \in [Call -> Seq(Row)] /\ <<>> \in Seq(Row)
    BY <1>2 DEF TypeOK
  <2>. QED BY <2>1, <2>2, <2>3, <2>4
<1>15. answer' \in [Call -> {"ok", "current", "conflict", "failed", None}]
  <2>1. answer' = answer \/ \E x \in {"ok", "current", "conflict", "failed"} :
                               answer' = [answer EXCEPT ![c] = x]
    BY DEF Step, Progress, BeginWrite, BeginBatch, ReadProjection, SelectLatest, RowGranted,
       RowWait, RowWaited, LockHead, ReadDraft, Flush, FlushRefused, Commit, Raced, Reread,
       CommitReplyLost, Abort, Conflict, Return, Advance, Plan
  <2>. QED BY <1>2, <2>1 DEF TypeOK
<1>. QED BY <1>3, <1>4, <1>5, <1>6, <1>7, <1>8, <1>9, <1>10, <1>11, <1>12, <1>13, <1>14, <1>15 DEF TypeOK
-----------------------------------------------------------------------------
(* A step that commits nothing. *)

LEMMA Quiet ==
  ASSUME OInv, log' = log, head' = head, req' = req
  PROVE  /\ StreamIntact' /\ Dense' /\ HistoriesLinear' /\ NoIdleVersions'
         /\ \A e : RowsOf(e)' = RowsOf(e) /\ Count(e)' = Count(e)
<1>1. \A e : RowsOf(e)' = RowsOf(e) /\ Count(e)' = Count(e)
  BY DEF RowsOf, Count
<1>2. StreamIntact'
  BY DEF OInv, StreamIntact
<1>3. Dense'
  BY <1>1 DEF OInv, Dense
<1>4. HistoriesLinear'
  BY DEF OInv, HistoriesLinear
<1>5. NoIdleVersions'
  BY DEF OInv, NoIdleVersions
<1>. QED BY <1>1, <1>2, <1>3, <1>4, <1>5

LEMMA OthersQuiet ==
  ASSUME OInv, NEW c \in Call, Step(c), log' = log, head' = head, NEW d \in Call, d # c
  PROVE  Local(d)'
<1>1. /\ pc'[d] = pc[d] /\ at'[d] = at[d] /\ converge'[d] = converge[d] /\ expect'[d] = expect[d]
      /\ latest'[d] = latest[d] /\ seen'[d] = seen[d] /\ pending'[d] = pending[d]
      /\ req'[d] = req[d] /\ dialect' = dialect /\ req' = req
  BY OthersSame, Framed DEF OInv
<1>2. /\ lock = d => lock' = d
      /\ dialect = "sqlite" /\ writer = d => writer' = d
  BY LocksSame DEF OInv
<1>3. \A e : RowsOf(e)' = RowsOf(e) /\ Count(e)' = Count(e)
  BY <1>1, Quiet
<1>4. Local(d)
  BY DEF OInv
<1>5. Sighted(d)'
  BY <1>1, <1>4 DEF Local, Sighted, HeadAt
<1>6. Locked(d)'
  BY <1>1, <1>2, <1>4 DEF Local, Locked
<1>7. Chained(d)'
  BY <1>1, <1>4 DEF Local, Chained
<1>8. Placed(d)'
  BY <1>1, <1>4 DEF Local, Placed, InBatch
<1>9. Single(d)'
  BY <1>1, <1>3, <1>4 DEF Local, Single, InBatch, DraftOf, Tells, Differs, NewRow
<1>10. Batched(d)'
  BY <1>1, <1>3, <1>4 DEF Local, Batched, InBatch, Follows, Tells, Differs
<1>. QED BY <1>5, <1>6, <1>7, <1>8, <1>9, <1>10 DEF Local

\* Between transactions a call promises little.
LEMMA Resting ==
  ASSUME NEW c \in Call, pc'[c] \in {"done", "raced", "reread"}, pending'[c] = <<>>, req' = req,
         at'[c] \in DOMAIN req[c].drafts, converge'[c] => req[c].op = "seed",
         pc'[c] = "reread" => req[c].op = "seed" /\ converge'[c]
  PROVE  Local(c)'
<1>1. pc'[c] \notin InTransaction
  BY DEF InTransaction
<1>2. Sighted(c)' /\ Batched(c)' /\ Single(c)'
  BY <1>1 DEF Sighted, Batched, Single
<1>3. Locked(c)'
  BY <1>1 DEF Locked
<1>4. Chained(c)'
  BY DEF Chained
<1>5. Placed(c)'
  BY DEF Placed
<1>. QED BY <1>2, <1>3, <1>4, <1>5 DEF Local

\* What a call knows of itself at the start of a step.
LEMMA Known ==
  ASSUME OInv, NEW c \in Call, Step(c)
  PROVE  /\ Local(c) /\ TypeOK
         /\ at[c] \in DOMAIN req[c].drafts /\ 1 \in DOMAIN req[c].drafts
         /\ DOMAIN req[c].drafts = 1 .. Len(req[c].drafts) /\ Len(req[c].drafts) \in Nat
         /\ DraftOf(c) \in Draft /\ DraftOf(c).entity \in Entity
         /\ LatestVersion(DraftOf(c).entity) = Count(DraftOf(c).entity)
         /\ Count(DraftOf(c).entity) \in Nat
         /\ converge[c] => req[c].op = "seed"
         /\ dialect' = dialect /\ req' = req
         /\ pc \in [Call -> {"start", "latest", "rowwait", "head", "draft", "flush", "commit",
                             "raced", "reread", "done"}]
<1>1. Local(c) /\ TypeOK /\ Placed(c) /\ Dense
  BY DEF OInv, Local
<1>2. /\ req[c].drafts \in Seq(Draft) /\ at[c] \in DOMAIN req[c].drafts
      /\ DraftOf(c) \in Draft /\ DraftOf(c).entity \in Entity
      /\ converge[c] => req[c].op = "seed"
  BY <1>1, Drafted DEF Placed
<1>3. /\ DOMAIN req[c].drafts = 1 .. Len(req[c].drafts) /\ Len(req[c].drafts) \in Nat
      /\ 1 \in DOMAIN req[c].drafts
  BY <1>2
<1>. QED BY <1>1, <1>2, <1>3, LatestIsCount, Framed DEF TypeOK

LEMMA AfterConflict ==
  ASSUME OInv, NEW c \in Call, Step(c), Conflict(c)
  PROVE  Local(c)'
<1>1. /\ at[c] \in DOMAIN req[c].drafts /\ 1 \in DOMAIN req[c].drafts
      /\ converge[c] => req[c].op = "seed"
      /\ req' = req /\ TypeOK
  BY Known
<1>2. pending'[c] = <<>>
  BY <1>1 DEF Conflict, EndSession, TypeOK
<1>3. pc'[c] \in {"done", "raced", "reread"} /\ (pc'[c] = "reread" => req[c].op = "seed" /\ converge'[c])
  BY <1>1 DEF Conflict, GoTo, Return, Plan, TypeOK
<1>4. at'[c] \in DOMAIN req[c].drafts /\ (converge'[c] => req[c].op = "seed")
  BY <1>1 DEF Conflict, GoTo, Return, Plan, TypeOK
<1>. QED BY <1>1, <1>2, <1>3, <1>4, Resting

LEMMA AfterReturn ==
  ASSUME OInv, NEW c \in Call, Step(c), NEW status, Return(c, status), pending'[c] = <<>>
  PROVE  Local(c)'
<1>1. /\ at[c] \in DOMAIN req[c].drafts /\ req' = req /\ TypeOK
      /\ converge[c] => req[c].op = "seed"
  BY Known
<1>2. pc'[c] = "done" /\ at'[c] = at[c] /\ converge'[c] = converge[c]
  BY <1>1 DEF Return, GoTo, TypeOK
<1>. QED BY <1>1, <1>2, Resting

LEMMA AfterAdvance ==
  ASSUME OInv, NEW c \in Call, Step(c), Advance(c), pending'[c] = <<>>,
         req[c].op = "seed" /\ converge[c]
  PROVE  Local(c)'
<1>1. /\ at[c] \in 1 .. Len(req[c].drafts) /\ req' = req /\ TypeOK
      /\ DOMAIN req[c].drafts = 1 .. Len(req[c].drafts) /\ Len(req[c].drafts) \in Nat
  BY Known
<1>2. CASE Return(c, "ok")
  BY <1>2, AfterReturn
<1>3. CASE /\ at[c] < Len(req[c].drafts)
           /\ at' = [at EXCEPT ![c] = @ + 1]
           /\ GoTo(c, "reread")
           /\ UNCHANGED <<converge, expect, answer>>
  <2>1. pc'[c] = "reread" /\ at'[c] = at[c] + 1 /\ converge'[c] = converge[c]
    BY <1>1, <1>3 DEF GoTo, TypeOK
  <2>2. at'[c] \in DOMAIN req[c].drafts
    BY <1>1, <1>3, <2>1
  <2>. QED BY <1>1, <2>1, <2>2, Resting
<1>. QED BY <1>2, <1>3 DEF Advance
-----------------------------------------------------------------------------
(* A call's own step, short of committing. *)

\* A call outside a transaction that is about to write a draft.
LEMMA Outside ==
  ASSUME NEW c \in Call, pc'[c] \in {"latest", "rowwait", "head"}, pending'[c] = <<>>,
         req' = req, at'[c] \in DOMAIN req[c].drafts, converge'[c] => req[c].op = "seed",
         pc'[c] # "head" => ~InBatch(c)', Single(c)'
  PROVE  Local(c)'
<1>1. pc'[c] \notin InTransaction
  BY DEF InTransaction
<1>2. Sighted(c)' /\ Batched(c)'
  BY <1>1 DEF Sighted, Batched
<1>3. Locked(c)'
  BY <1>1 DEF Locked
<1>4. Chained(c)'
  BY DEF Chained
<1>5. Placed(c)'
  BY DEF Placed
<1>. QED BY <1>2, <1>3, <1>4, <1>5 DEF Local

LEMMA OwnBegin ==
  ASSUME OInv, NEW c \in Call, Step(c), BeginWrite(c) \/ BeginBatch(c)
  PROVE  Local(c)'
<1>1. /\ at[c] \in DOMAIN req[c].drafts /\ req' = req /\ TypeOK
      /\ converge[c] => req[c].op = "seed"
      /\ Chained(c) /\ Placed(c)
  BY Known DEF Local
<1>2. /\ pending'[c] = <<>> /\ at'[c] = at[c] /\ converge'[c] = converge[c]
  BY <1>1 DEF BeginWrite, BeginBatch, SameSession, Plan, Chained, InTransaction, TypeOK
<1>3. CASE BeginWrite(c)
  <2>1. pc'[c] = "latest" /\ ~InBatch(c)' /\ ~Tells(c)'
    BY <1>1, <1>3 DEF BeginWrite, GoTo, InBatch, Tells, TypeOK
  <2>2. Single(c)'
    BY <2>1 DEF Single
  <2>. QED BY <1>1, <1>2, <2>1, <2>2, Outside
<1>4. CASE BeginBatch(c)
  <2>1. pc'[c] = "head" /\ InBatch(c)'
    BY <1>1, <1>2, <1>4 DEF BeginBatch, GoTo, InBatch, TypeOK
  <2>2. Single(c)'
    BY <2>1 DEF Single
  <2>. QED BY <1>1, <1>2, <2>1, <2>2, Outside
<1>. QED BY <1>3, <1>4

\* What a caller has found to be news is written over the version it has read.
LEMMA OwnRead ==
  ASSUME OInv, NEW c \in Call, Step(c), ReadProjection(c) \/ Reread(c)
  PROVE  Local(c)'
<1>. DEFINE e == DraftOf(c).entity
<1>1. /\ at[c] \in DOMAIN req[c].drafts /\ req' = req /\ TypeOK
      /\ converge[c] => req[c].op = "seed"
      /\ Chained(c) /\ Placed(c)
      /\ DraftOf(c) \in Draft /\ LatestVersion(e) = Count(e) /\ Count(e) \in Nat
  BY Known DEF Local
<1>2. pending'[c] = <<>>
  BY <1>1 DEF ReadProjection, Reread, SameSession, Chained, InTransaction, TypeOK
<1>3. CASE \E status : Return(c, status)
  BY <1>2, <1>3, AfterReturn
<1>4. CASE Reread(c) /\ Advance(c)
  BY <1>1, <1>2, <1>4, AfterAdvance DEF Reread, Placed
<1>5. CASE /\ GoTo(c, "latest")
           /\ expect' = [expect EXCEPT ![c] = LatestVersion(e)]
           /\ UNCHANGED <<at, converge, answer>>
           /\ \/ req[c].op = "project" /\ ~SameBody(DraftOf(c))
              \/ req[c].op = "seed" /\ converge[c] /\ ~SameContent(DraftOf(c))
           /\ Stored
  <2>1. pc'[c] = "latest" /\ expect'[c] = Count(e) /\ at'[c] = at[c] /\ converge'[c] = converge[c]
    BY <1>1, <1>5 DEF GoTo, TypeOK
  <2>2. ~InBatch(c)' /\ DraftOf(c)' = DraftOf(c) /\ req'[c] = req[c]
    BY <1>1, <1>5, <2>1 DEF InBatch, DraftOf
  <2>3. \A i \in RowsOf(e) : log[i].version = Count(e) => Differs(c, log[i], DraftOf(c))
    <3>1. Dense
      BY DEF OInv
    <3>2. CASE req[c].op = "project" /\ ~SameBody(DraftOf(c))
      BY <1>1, <3>1, <3>2, News DEF Differs
    <3>3. CASE req[c].op = "seed" /\ converge[c] /\ ~SameContent(DraftOf(c))
      BY <1>1, <3>1, <3>3, News DEF Differs
    <3>. QED BY <1>5, <3>2, <3>3
  <2>4. log' = log /\ head' = head
    BY <1>5 DEF Stored
  <2>5. RowsOf(e)' = RowsOf(e) /\ Count(e)' = Count(e)
    BY <1>1, <2>2, <2>4 DEF RowsOf, Count
  <2>6. Single(c)'
    <3>1. /\ expect'[c] \in Nat /\ expect'[c] <= Count(e)
          /\ \A i \in RowsOf(e) : log[i].version = expect'[c] => Differs(c, log[i], DraftOf(c))
      BY <1>1, <2>1, <2>3
    <3>. QED BY <2>1, <2>2, <2>4, <2>5, <3>1 DEF Single, Differs
  <2>. QED BY <1>1, <1>2, <2>1, <2>2, <2>6, Outside
<1>6. CASE ReadProjection(c)
  <2>1. \/ Return(c, "current")
        \/ /\ ~SameBody(DraftOf(c))
           /\ expect' = [expect EXCEPT ![c] = LatestVersion(e)]
           /\ GoTo(c, "latest")
           /\ UNCHANGED <<at, converge, answer>>
    BY <1>6 DEF ReadProjection
  <2>2. Stored /\ req[c].op = "project"
    BY <1>6 DEF ReadProjection
  <2>. QED BY <1>3, <1>5, <2>1, <2>2
<1>7. CASE Reread(c)
  <2>1. \/ Advance(c)
        \/ /\ ~SameContent(DraftOf(c))
           /\ expect' = [expect EXCEPT ![c] = LatestVersion(e)]
           /\ GoTo(c, "latest")
           /\ UNCHANGED <<at, converge, answer>>
    BY <1>7 DEF Reread
  <2>2. Stored /\ req[c].op = "seed" /\ converge[c]
    BY <1>1, <1>7 DEF Reread, Placed
  <2>. QED BY <1>4, <1>5, <1>7, <2>1, <2>2
<1>. QED BY <1>6, <1>7

\* A row granted is the version expected, if one is; it may no longer be the latest.
LEMMA OwnGranted ==
  ASSUME OInv, NEW c \in Call, Step(c), NEW version \in Nat, pc[c] \in {"latest", "rowwait"},
         RowGranted(c, version), version <= Count(DraftOf(c).entity)
  PROVE  Local(c)'
<1>. DEFINE e == DraftOf(c).entity
<1>1. /\ at[c] \in DOMAIN req[c].drafts /\ req' = req /\ TypeOK
      /\ converge[c] => req[c].op = "seed"
      /\ Chained(c) /\ Placed(c) /\ Single(c) /\ ~InBatch(c)
  BY Known DEF Local, Placed
<1>2. CASE Conflict(c)
  BY <1>2, AfterConflict
<1>3. CASE /\ ~Refused(c, version)
           /\ latest' = [latest EXCEPT ![c] = version]
           /\ GoTo(c, "head")
           /\ Plan /\ UNCHANGED <<lock, writer, seen, pending>>
           /\ Stored
  <2>1. /\ pc'[c] = "head" /\ latest'[c] = version /\ expect' = expect /\ at' = at
        /\ converge' = converge /\ log' = log /\ pending' = pending
    BY <1>1, <1>3 DEF GoTo, Plan, Stored, TypeOK
  <2>2. pending'[c] = <<>>
    BY <1>1, <2>1 DEF Chained, InTransaction
  <2>3. /\ ~InBatch(c)' /\ DraftOf(c)' = DraftOf(c) /\ req'[c] = req[c]
        /\ RowsOf(e)' = RowsOf(e) /\ Count(e)' = Count(e)
    BY <1>1, <2>1 DEF InBatch, DraftOf, RowsOf, Count
  <2>4. /\ expect[c] # None => version = expect[c]
        /\ req[c].op = "insert" => version = 0
    BY <1>3 DEF Refused
  <2>5. Tells(c) => /\ expect[c] \in Nat /\ expect[c] <= Count(e)
                    /\ \A i \in RowsOf(e) : log[i].version = expect[c] => Differs(c, log[i], DraftOf(c))
    BY <1>1 DEF Single
  <2>6. Single(c)'
    BY <2>1, <2>3, <2>4, <2>5 DEF Single, Differs, Tells
  <2>. QED BY <1>1, <2>1, <2>2, <2>6, Outside
<1>. QED BY <1>2, <1>3 DEF RowGranted

LEMMA OwnSelect ==
  ASSUME OInv, NEW c \in Call, Step(c), SelectLatest(c) \/ RowWait(c) \/ RowWaited(c)
  PROVE  Local(c)'
<1>. DEFINE e == DraftOf(c).entity
<1>1. /\ at[c] \in DOMAIN req[c].drafts /\ req' = req /\ TypeOK
      /\ converge[c] => req[c].op = "seed"
      /\ Chained(c) /\ Placed(c) /\ Single(c)
      /\ LatestVersion(e) = Count(e) /\ Count(e) \in Nat
  BY Known DEF Local
<1>2. CASE SelectLatest(c)
  BY <1>1, <1>2, OwnGranted DEF SelectLatest
<1>3. CASE RowWaited(c)
  <2>1. ~InBatch(c)
    BY <1>1, <1>3 DEF RowWaited, Placed
  <2>2. latest[c] \in Nat /\ latest[c] <= Count(e)
    BY <1>1, <1>3, <2>1 DEF RowWaited, Single, TypeOK
  <2>. QED BY <1>3, <2>2, OwnGranted DEF RowWaited
<1>4. CASE RowWait(c)
  <2>1. /\ pc[c] = "latest" /\ pc'[c] = "rowwait" /\ latest'[c] = Count(e) /\ expect' = expect /\ at' = at
        /\ converge' = converge /\ log' = log /\ pending' = pending
    BY <1>1, <1>4 DEF RowWait, GoTo, Plan, Stored, TypeOK
  <2>2. ~InBatch(c) /\ pending'[c] = <<>>
    BY <1>1, <2>1 DEF Chained, InTransaction, Placed
  <2>3. /\ ~InBatch(c)' /\ DraftOf(c)' = DraftOf(c) /\ req'[c] = req[c]
        /\ RowsOf(e)' = RowsOf(e) /\ Count(e)' = Count(e)
    BY <1>1, <2>1, <2>2 DEF InBatch, DraftOf, RowsOf, Count
  <2>4. Tells(c) => /\ expect[c] \in Nat /\ expect[c] <= Count(e)
                    /\ \A i \in RowsOf(e) : log[i].version = expect[c] => Differs(c, log[i], DraftOf(c))
    BY <1>1, <2>1, <2>2 DEF Single
  <2>5. Single(c)'
    BY <1>1, <2>1, <2>3, <2>4 DEF Single, Differs, Tells
  <2>. QED BY <1>1, <2>1, <2>2, <2>3, <2>5, Outside
<1>. QED BY <1>2, <1>3, <1>4

\* The head a transaction locks is the end of the stream.
LEMMA OwnLock ==
  ASSUME OInv, NEW c \in Call, Step(c), LockHead(c)
  PROVE  Local(c)'
<1>. DEFINE d == DraftOf(c)
            e == d.entity
            row == NewRow(c, d, latest[c] + 1, head)
<1>1. /\ at[c] \in DOMAIN req[c].drafts /\ req' = req /\ dialect' = dialect /\ TypeOK
      /\ converge[c] => req[c].op = "seed"
      /\ Chained(c) /\ Placed(c) /\ Single(c) /\ d \in Draft
  BY Known DEF Local
<1>2. /\ pc[c] = "head" /\ seen'[c] = head /\ log' = log /\ head' = head
      /\ at' = at /\ converge' = converge /\ expect' = expect /\ latest' = latest
      /\ pc'[c] = IF InBatch(c) THEN "draft" ELSE "flush"
      /\ pending'[c] = IF InBatch(c) THEN <<>> ELSE <<row>>
  BY <1>1 DEF LockHead, GoTo, Plan, Stored, Chained, InTransaction, TypeOK
<1>3. head \in StreamHead /\ head = HeadAt(Len(log)) /\ head.seq = Len(log) /\ Len(log) \in Nat
  BY <1>1 DEF OInv, StreamIntact, HeadAt, EmptyHead, TypeOK
<1>4. InBatch(c)' = InBatch(c) /\ DraftOf(c)' = d /\ RowsOf(e)' = RowsOf(e) /\ Count(e)' = Count(e)
  BY <1>1, <1>2 DEF InBatch, DraftOf, RowsOf, Count
<1>5. Sighted(c)'
  <2>1. HeadAt(Len(log))' = HeadAt(Len(log))
    BY <1>2 DEF HeadAt
  <2>. QED BY <1>2, <1>3, <2>1 DEF Sighted, HeadAt
<1>6. Locked(c)'
  <2>1. pc'[c] # "commit" /\ (dialect = "postgresql" => lock' = c)
    BY <1>2 DEF LockHead
  <2>. QED BY <1>1, <1>2, <1>3, <2>1 DEF Locked
<1>7. /\ row.seq = head.seq + 1 /\ row.prev = head.hash /\ row.call = c
  BY DEF NewRow
<1>8. Chained(c)'
  <2>1. CASE InBatch(c)
    BY <1>2, <2>1 DEF Chained, InTransaction
  <2>2. CASE ~InBatch(c)
    BY <1>2, <1>7, <2>2 DEF Chained, InTransaction
  <2>. QED BY <2>1, <2>2
<1>9. Placed(c)'
  BY <1>1, <1>2, <1>4 DEF Placed
<1>10. Single(c)'
  <2>1. CASE InBatch(c)
    BY <1>4, <2>1 DEF Single
  <2>2. CASE ~InBatch(c)
    <3>1. NewRow(c, DraftOf(c), latest[c] + 1, seen[c])' = row
      BY <1>2, <1>4 DEF NewRow
    <3>2. Tells(c) => /\ expect[c] \in Nat /\ expect[c] <= Count(e)
                      /\ \A i \in RowsOf(e) : log[i].version = expect[c] => Differs(c, log[i], d)
      BY <1>1, <1>2, <2>2 DEF Single
    <3>3. /\ latest[c] <= Count(e)
          /\ expect[c] # None => latest[c] = expect[c]
          /\ req[c].op = "insert" => latest[c] = 0
      BY <1>1, <1>2, <2>2 DEF Single
    <3>4. pc'[c] = "flush" /\ pending'[c] = <<row>>
      BY <1>2, <2>2
    <3>. QED BY <1>1, <1>2, <1>4, <3>1, <3>2, <3>3, <3>4 DEF Single, Differs, Tells
  <2>. QED BY <2>1, <2>2
<1>11. Batched(c)'
  BY <1>2, <1>4 DEF Batched
<1>. QED BY <1>5, <1>6, <1>8, <1>9, <1>10, <1>11 DEF Local

\* A draft of a batch adds a row that follows the latest version, or none.
LEMMA OwnDraft ==
  ASSUME OInv, NEW c \in Call, Step(c), ReadDraft(c)
  PROVE  Local(c)'
<1>. DEFINE d == DraftOf(c)
            e == d.entity
            row == NewRow(c, d, Count(e) + 1, HeadAfter(c, pending[c]))
            rest == pending[c]
            added == Added(c, d)
<1>1. /\ at[c] \in DOMAIN req[c].drafts /\ req' = req /\ dialect' = dialect /\ TypeOK
      /\ DOMAIN req[c].drafts = 1 .. Len(req[c].drafts) /\ Len(req[c].drafts) \in Nat
      /\ d \in Draft /\ e \in Entity /\ Count(e) \in Nat
      /\ Local(c) /\ pc[c] = "draft" /\ InBatch(c)
  BY Known DEF ReadDraft, Local, Placed
<1>2. /\ Sighted(c) /\ Locked(c) /\ Chained(c) /\ Placed(c) /\ Batched(c)
      /\ rest \in Seq(Row) /\ seen[c] \in StreamHead /\ log \in Seq(Row)
  BY <1>1 DEF Local, Sighted, InTransaction, TypeOK
<1>3. CASE Return(c, "ok") /\ EndSession(c)
  <2>1. pending'[c] = <<>>
    BY <1>1, <1>3 DEF EndSession, TypeOK
  <2>. QED BY <1>3, <2>1, AfterReturn
<1>4. CASE /\ pending' = [pending EXCEPT ![c] = added]
           /\ UNCHANGED <<lock, rows, writer, converge, expect, latest, seen>>
           /\ Stored
           /\ \/ at[c] < Len(req[c].drafts) /\ at' = [at EXCEPT ![c] = @ + 1] /\ pc' = pc
              \/ added # <<>> /\ at' = at /\ GoTo(c, "flush")
  <2>1. /\ pending'[c] = added /\ seen'[c] = seen[c] /\ log' = log /\ lock' = lock
        /\ converge'[c] = converge[c] /\ pc'[c] \in {"draft", "flush"}
        /\ pc'[c] = "draft" => at'[c] = at[c] + 1 /\ at[c] < Len(req[c].drafts)
        /\ pc'[c] = "flush" => at'[c] = at[c] /\ added # <<>>
    BY <1>1, <1>4 DEF GoTo, Stored, TypeOK
  <2>2. /\ InBatch(c)' /\ \A x : RowsOf(x)' = RowsOf(x) /\ Count(x)' = Count(x)
    BY <1>1, <2>1 DEF InBatch, RowsOf, Count
  <2>3. /\ SameContent(d) => added = rest
        /\ ~SameContent(d) => added = Append(rest, row)
    BY <1>1, AddedRows
  <2>4. /\ row.seq = seen[c].seq + Len(rest) + 1 /\ row.call = c /\ row.entity = e
        /\ row.prev = IF rest = <<>> THEN seen[c].hash ELSE HashOf(seen[c].seq + Len(rest), c)
        /\ row.version = Count(e) + 1 /\ row.body = d.body /\ row.label = d.label
    BY <1>1, <1>2, HeadAfterTyped DEF NewRow
  <2>5. Len(rest) \in Nat /\ seen[c].seq \in Nat /\ DOMAIN rest = 1 .. Len(rest)
    BY <1>2 DEF StreamHead
  <2>. HIDE DEF row, rest, added, d, e
  <2>6. /\ \A i \in DOMAIN rest :
             /\ rest[i].seq = seen[c].seq + i /\ rest[i].call = c
             /\ rest[i].prev = IF i = 1 THEN seen[c].hash ELSE HashOf(seen[c].seq + i - 1, c)
             /\ \E k \in 1 .. at[c] - 1 : rest[i].entity = req[c].drafts[k].entity
        /\ \A i, j \in DOMAIN rest : rest[i].entity = rest[j].entity => i = j
    BY <1>1, <1>2 DEF Chained, Placed, rest
  <2>7. \A i \in DOMAIN rest : rest[i].entity # e
    <3>1. SUFFICES ASSUME NEW i \in DOMAIN rest, rest[i].entity = e PROVE FALSE
      OBVIOUS
    <3>2. PICK k \in 1 .. at[c] - 1 : rest[i].entity = req[c].drafts[k].entity
      BY <2>6
    <3>3. k \in DOMAIN req[c].drafts /\ k # at[c]
      BY <1>1, <3>2
    <3>4. req[c].drafts[k].entity = req[c].drafts[at[c]].entity
      BY <3>1, <3>2 DEF e, d, DraftOf
    <3>. QED BY <1>1, <1>2, <3>3, <3>4, Drafted
  <2>8. CASE SameContent(d)
    <3>1. added = rest
      BY <2>3, <2>8
    <3>2. Sighted(c)'
      BY <1>1, <1>2, <2>1 DEF Sighted, HeadAt, InTransaction
    <3>3. Locked(c)'
      BY <1>1, <1>2, <2>1 DEF Locked, InTransaction
    <3>4. Chained(c)'
      BY <1>1, <2>1, <2>6, <3>1 DEF Chained, InTransaction
    <3>5. Placed(c)'
      <4>1. at'[c] \in DOMAIN req'[c].drafts
        BY <1>1, <2>1
      <4>2. pc'[c] = "draft" => \A i \in DOMAIN pending'[c] :
               \E k \in 1 .. at'[c] - 1 : pending'[c][i].entity = req'[c].drafts[k].entity
        BY <1>1, <2>1, <2>6, <3>1
      <4>. QED BY <1>1, <1>2, <2>1, <2>2, <4>1, <4>2 DEF Placed
    <3>6. Single(c)'
      BY <2>2 DEF Single
    <3>7. Batched(c)'
      <4>1. seen[c].seq = Len(log) => \A i \in DOMAIN added : Follows(c, added[i])
        BY <1>1, <1>2, <3>1 DEF Batched, InTransaction, rest
      <4>. QED BY <1>1, <2>1, <2>2, <4>1 DEF Batched, Follows, Tells, Differs
    <3>. QED BY <3>2, <3>3, <3>4, <3>5, <3>6, <3>7 DEF Local
  <2>9. CASE ~SameContent(d)
    <3>1. added = Append(rest, row)
      BY <2>3, <2>9
    <3>2. /\ DOMAIN added = 1 .. Len(rest) + 1
          /\ \A i \in DOMAIN rest : added[i] = rest[i]
          /\ added[Len(rest) + 1] = row /\ added # <<>>
      BY <1>2, <2>5, <3>1 DEF rest
    <3>3. Sighted(c)'
      BY <1>1, <1>2, <2>1 DEF Sighted, HeadAt, InTransaction
    <3>4. Locked(c)'
      BY <1>1, <1>2, <2>1 DEF Locked, InTransaction
    <3>5. Chained(c)'
      <4>1. \A i \in DOMAIN added :
              /\ added[i].seq = seen[c].seq + i /\ added[i].call = c
              /\ added[i].prev = IF i = 1 THEN seen[c].hash ELSE HashOf(seen[c].seq + i - 1, c)
        <5>1. SUFFICES ASSUME NEW i \in DOMAIN added
                PROVE /\ added[i].seq = seen[c].seq + i /\ added[i].call = c
                      /\ added[i].prev = IF i = 1 THEN seen[c].hash ELSE HashOf(seen[c].seq + i - 1, c)
          OBVIOUS
        <5>2. CASE i \in DOMAIN rest
          BY <2>6, <3>2, <5>2
        <5>3. CASE i = Len(rest) + 1
          <6>1. rest = <<>> <=> i = 1
            BY <1>2, <2>5, <5>3 DEF rest
          <6>2. seen[c].seq + Len(rest) = seen[c].seq + i - 1
            BY <2>5, <5>3
          <6>. QED BY <2>4, <2>5, <3>2, <5>3, <6>1, <6>2
        <5>. QED BY <2>5, <3>2, <5>2, <5>3
      <4>2. \A i, j \in DOMAIN added : added[i].entity = added[j].entity => i = j
        BY <2>4, <2>5, <2>6, <2>7, <3>2
      <4>. QED BY <1>1, <2>1, <3>2, <4>1, <4>2 DEF Chained, InTransaction
    <3>6. Placed(c)'
      <4>1. at'[c] \in DOMAIN req'[c].drafts
        BY <1>1, <2>1
      <4>2. pc'[c] = "draft" => \A i \in DOMAIN pending'[c] :
               \E k \in 1 .. at'[c] - 1 : pending'[c][i].entity = req'[c].drafts[k].entity
        <5>1. SUFFICES ASSUME pc'[c] = "draft", NEW i \in DOMAIN added
                       PROVE  \E k \in 1 .. at[c] : added[i].entity = req[c].drafts[k].entity
          BY <1>1, <2>1
        <5>2. CASE i \in DOMAIN rest
          BY <1>1, <2>6, <3>2, <5>2
        <5>3. CASE i = Len(rest) + 1
          BY <1>1, <2>4, <3>2, <5>3 DEF e, d, DraftOf
        <5>. QED BY <2>5, <3>2, <5>2, <5>3
      <4>. QED BY <1>1, <1>2, <2>1, <2>2, <4>1, <4>2 DEF Placed
    <3>7. Single(c)'
      BY <2>2 DEF Single
    <3>8. Batched(c)'
      <4>1. SUFFICES ASSUME seen[c].seq = Len(log) PROVE Batched(c)'
        BY <2>1 DEF Batched
      <4>2. ASSUME NEW i \in DOMAIN added PROVE Follows(c, added[i])
        <5>1. CASE i \in DOMAIN rest
          BY <1>1, <1>2, <3>2, <4>1, <5>1 DEF Batched, InTransaction, rest
        <5>2. CASE i = Len(rest) + 1
          <6>1. \A k \in RowsOf(e) : log[k].version = Count(e) => ~(log[k].body = d.body /\ log[k].label = d.label)
            BY <1>1, <2>9, News DEF OInv, e
          <6>2. req[c].op # "project"
            BY <1>1 DEF InBatch
          <6>. QED BY <2>4, <3>2, <5>2, <6>1, <6>2 DEF Follows, Differs
        <5>. QED BY <2>5, <3>2, <5>1, <5>2
      <4>. QED BY <1>1, <2>1, <2>2, <4>2 DEF Batched, Follows, Tells, Differs
    <3>. QED BY <3>3, <3>4, <3>5, <3>6, <3>7, <3>8 DEF Local
  <2>. QED BY <2>8, <2>9
<1>. QED BY <1>3, <1>4 DEF ReadDraft, Plan

\* What the unique constraints accept was written over the end of the stream,
\* and over the latest version.
LEMMA OwnFlush ==
  ASSUME OInv, NEW c \in Call, Step(c), Flush(c)
  PROVE  Local(c)'
<1>. DEFINE e == DraftOf(c).entity
<1>1. /\ at[c] \in DOMAIN req[c].drafts /\ req' = req /\ dialect' = dialect /\ TypeOK
      /\ e \in Entity /\ Count(e) \in Nat
      /\ Local(c) /\ pc[c] = "flush" /\ Dense
  BY Known DEF Flush, OInv
<1>2. /\ Sighted(c) /\ Locked(c) /\ Chained(c) /\ Placed(c) /\ Single(c) /\ Batched(c)
      /\ seen[c] \in StreamHead /\ seen[c].seq <= Len(log)
  BY <1>1 DEF Local, Sighted, InTransaction
<1>3. /\ seen' = seen /\ log' = log /\ lock' = lock /\ pending' = pending /\ at' = at
      /\ converge' = converge /\ expect' = expect /\ latest' = latest
      /\ pc'[c] = "commit" /\ Unique(c) /\ (dialect = "sqlite" => writer' = c)
  BY <1>1 DEF Flush, GoTo, Stored, Plan, TypeOK
<1>4. /\ pending[c] \in Seq(Row) /\ pending[c] # <<>> /\ 1 \in DOMAIN pending[c]
      /\ pending[c][1].seq = seen[c].seq + 1
      /\ seen[c].seq \in Nat /\ Len(log) \in Nat /\ DOMAIN log = 1 .. Len(log)
  BY <1>1, <1>2 DEF Chained, TypeOK, StreamHead
<1>5. seen[c].seq = Len(log)
  <2>1. SUFFICES ASSUME seen[c].seq < Len(log) PROVE FALSE
    BY <1>2, <1>4
  <2>2. seen[c].seq + 1 \in DOMAIN log
    BY <1>4, <2>1
  <2>3. log[seen[c].seq + 1].seq = seen[c].seq + 1
    BY <2>2 DEF OInv, StreamIntact
  <2>. QED BY <1>3, <1>4, <2>2, <2>3 DEF Unique
<1>6. /\ InBatch(c)' = InBatch(c) /\ DraftOf(c)' = DraftOf(c)
      /\ \A x : RowsOf(x)' = RowsOf(x) /\ Count(x)' = Count(x)
  BY <1>1, <1>3 DEF InBatch, DraftOf, RowsOf, Count
<1>7. Sighted(c)'
  BY <1>1, <1>2, <1>3 DEF Sighted, HeadAt, InTransaction
<1>8. Locked(c)'
  BY <1>1, <1>2, <1>3, <1>5 DEF Locked, InTransaction
<1>9. Chained(c)'
  BY <1>1, <1>2, <1>3 DEF Chained, InTransaction
<1>10. Placed(c)'
  BY <1>1, <1>2, <1>3, <1>6 DEF Placed
<1>11. Single(c)'
  <2>1. CASE InBatch(c)
    BY <1>6, <2>1 DEF Single
  <2>2. CASE ~InBatch(c)
    <3>1. /\ pending[c] = <<NewRow(c, DraftOf(c), latest[c] + 1, seen[c])>>
          /\ latest[c] \in Nat /\ latest[c] <= Count(e)
          /\ expect[c] # None => latest[c] = expect[c]
          /\ req[c].op = "insert" => latest[c] = 0
      BY <1>1, <1>2, <2>2 DEF Single, TypeOK
    <3>2. pending[c][1].version = latest[c] + 1 /\ pending[c][1].entity = e
      BY <3>1 DEF NewRow
    <3>3. latest[c] = Count(e)
      <4>1. SUFFICES ASSUME latest[c] < Count(e) PROVE FALSE
        BY <1>1, <3>1
      <4>2. latest[c] + 1 \in 1 .. Count(e)
        BY <1>1, <3>1, <4>1
      <4>3. PICK k \in RowsOf(e) : log[k].version = latest[c] + 1
        BY <1>1, <4>2 DEF Dense
      <4>4. k \in DOMAIN log /\ log[k].entity = e
        BY <4>3 DEF RowsOf
      <4>. QED BY <1>3, <1>4, <3>2, <4>3, <4>4 DEF Unique
    <3>4. Tells(c) => /\ expect[c] \in Nat /\ expect[c] <= Count(e)
                      /\ \A k \in RowsOf(e) : log[k].version = expect[c] => Differs(c, log[k], DraftOf(c))
      BY <1>1, <1>2, <2>2 DEF Single
    <3>5. NewRow(c, DraftOf(c), latest[c] + 1, seen[c])' = NewRow(c, DraftOf(c), latest[c] + 1, seen[c])
      BY <1>3, <1>6 DEF NewRow
    <3>. QED BY <1>1, <1>3, <1>6, <3>1, <3>3, <3>4, <3>5 DEF Single, Differs, Tells
  <2>. QED BY <2>1, <2>2
<1>12. Batched(c)'
  BY <1>1, <1>2, <1>3, <1>6 DEF Batched, Follows, Tells, Differs, InTransaction
<1>. QED BY <1>7, <1>8, <1>9, <1>10, <1>11, <1>12 DEF Local

-----------------------------------------------------------------------------
(* Committing. *)

\* The log a commit leaves: the old one, then the transaction's rows.
LEMMA Grows ==
  ASSUME OInv, NEW c \in Call, pc[c] = "commit", Install(c)
  PROVE  /\ Len(log) \in Nat /\ Len(pending[c]) \in Nat \ {0}
         /\ DOMAIN log = 1 .. Len(log) /\ DOMAIN pending[c] = 1 .. Len(pending[c])
         /\ Len(log') = Len(log) + Len(pending[c])
         /\ DOMAIN log' = 1 .. Len(log) + Len(pending[c])
         /\ \A i \in DOMAIN log : log'[i] = log[i]
         /\ \A m \in DOMAIN pending[c] : log'[Len(log) + m] = pending[c][m]
<1>1. /\ log \in Seq(Row) /\ pending[c] \in Seq(Row) /\ Len(pending[c]) \in Nat \ {0}
      /\ log' = log \o pending[c]
  BY Commits DEF OInv, TypeOK
<1>. QED BY <1>1

\* Every row committed has the version after the latest, and says something new.
LEMMA CommitFollows ==
  ASSUME OInv, NEW c \in Call, pc[c] = "commit", Install(c)
  PROVE  /\ \A m \in DOMAIN pending[c] :
              /\ Follows(c, pending[c][m])
              /\ pending[c][m] \in Row /\ pending[c][m].entity \in Entity
              /\ pending[c][m].seq = Len(log) + m /\ pending[c][m].call = c
              /\ pending[c][m].prev = IF m = 1 THEN seen[c].hash ELSE HashOf(Len(log) + m - 1, c)
         /\ \A m, k \in DOMAIN pending[c] : pending[c][m].entity = pending[c][k].entity => m = k
<1>1. /\ pending[c] \in Seq(Row) /\ seen[c].seq = Len(log)
      /\ Batched(c) /\ Single(c) /\ Chained(c)
  BY Commits DEF OInv, Local
<1>2. \A m \in DOMAIN pending[c] : Follows(c, pending[c][m])
  <2>1. CASE InBatch(c)
    BY <1>1, <2>1 DEF Batched, InTransaction
  <2>2. CASE ~InBatch(c)
    <3>. DEFINE d == DraftOf(c)
                row == NewRow(c, d, latest[c] + 1, seen[c])
    <3>1. /\ pending[c] = <<row>> /\ latest[c] = Count(d.entity)
          /\ expect[c] # None => latest[c] = expect[c]
          /\ Tells(c) => /\ expect[c] \in Nat
                         /\ \A k \in RowsOf(d.entity) : log[k].version = expect[c] => Differs(c, log[k], d)
      BY <1>1, <2>2 DEF Single
    <3>2. /\ row.version = latest[c] + 1 /\ row.entity = d.entity
          /\ row.body = d.body /\ row.label = d.label
      BY DEF NewRow
    <3>3. Tells(c) => expect[c] = Count(d.entity)
      BY <3>1, ConstantsAssumption
    <3>4. Follows(c, row)
      BY <3>1, <3>2, <3>3 DEF Follows, Differs
    <3>. QED BY <3>1, <3>4
  <2>. QED BY <2>1, <2>2
<1>3. \A m \in DOMAIN pending[c] : pending[c][m] \in Row /\ pending[c][m].entity \in Entity
  <2>1. \A r \in Row : r.entity \in Entity
    BY DEF Row
  <2>2. \A m \in DOMAIN pending[c] : pending[c][m] \in Row
    BY <1>1
  <2>. QED BY <2>1, <2>2
<1>. QED BY <1>1, <1>2, <1>3 DEF Chained

\* An entity has one row more, or none.
LEMMA CountAfter ==
  ASSUME OInv, NEW c \in Call, pc[c] = "commit", Install(c), NEW e
  PROVE  /\ Count(e) \in Nat
         /\ (\A m \in DOMAIN pending[c] : pending[c][m].entity # e) =>
              RowsOf(e)' = RowsOf(e) /\ Count(e)' = Count(e)
         /\ \A m \in DOMAIN pending[c] : pending[c][m].entity = e =>
              RowsOf(e)' = RowsOf(e) \cup {Len(log) + m} /\ Count(e)' = Count(e) + 1
<1>. DEFINE n == Len(log)
            p == pending[c]
<1>1. /\ n \in Nat /\ Len(p) \in Nat \ {0}
      /\ DOMAIN log = 1 .. n /\ DOMAIN p = 1 .. Len(p) /\ DOMAIN log' = 1 .. n + Len(p)
      /\ \A i \in DOMAIN log : log'[i] = log[i]
      /\ \A m \in DOMAIN p : log'[n + m] = p[m]
  BY Grows
<1>2. \A m, k \in DOMAIN p : p[m].entity = p[k].entity => m = k
  BY CommitFollows
<1>3. Count(e) \in Nat /\ IsFiniteSet(RowsOf(e)) /\ RowsOf(e) \subseteq 1 .. n
  BY Counting DEF OInv
<1>. HIDE DEF n, p
<1>4. RowsOf(e)' = {j \in DOMAIN log' : log'[j].entity = e}
  BY DEF RowsOf
<1>5. \A j : j \in DOMAIN log' <=> (j \in DOMAIN log \/ \E m \in DOMAIN p : j = n + m)
  <2>1. SUFFICES ASSUME NEW j \in 1 .. n + Len(p), j \notin 1 .. n
                 PROVE  \E m \in 1 .. Len(p) : j = n + m
    BY <1>1
  <2>2. j - n \in 1 .. Len(p) /\ j = n + (j - n)
    BY <1>1, <2>1
  <2>. QED BY <2>2
<1>6. (\A m \in DOMAIN p : p[m].entity # e) => RowsOf(e)' = RowsOf(e)
  BY <1>1, <1>4, <1>5 DEF RowsOf
<1>7. ASSUME NEW m \in DOMAIN p, p[m].entity = e
      PROVE  RowsOf(e)' = RowsOf(e) \cup {n + m} /\ Count(e)' = Count(e) + 1
  <2>1. \A j : j \in RowsOf(e)' <=> j \in RowsOf(e) \/ j = n + m
    BY <1>1, <1>2, <1>4, <1>5, <1>7 DEF RowsOf
  <2>2. RowsOf(e)' = RowsOf(e) \cup {n + m}
    BY <2>1
  <2>3. n + m \notin RowsOf(e)
    BY <1>1, <1>3
  <2>4. Cardinality(RowsOf(e) \cup {n + m}) = Cardinality(RowsOf(e)) + 1
    BY <1>3, <2>3, FS_AddElement
  <2>. QED BY <2>2, <2>4 DEF Count
<1>. QED BY <1>3, <1>6, <1>7 DEF Count, n, p

\* Where a row of the new log comes from.
LEMMA OldOrNew ==
  ASSUME OInv, NEW c \in Call, pc[c] = "commit", Install(c), NEW i \in DOMAIN log'
  PROVE  \/ i \in DOMAIN log /\ log'[i] = log[i]
         \/ \E m \in DOMAIN pending[c] : i = Len(log) + m /\ log'[i] = pending[c][m]
<1>1. /\ Len(log) \in Nat /\ Len(pending[c]) \in Nat \ {0}
      /\ DOMAIN log = 1 .. Len(log) /\ DOMAIN pending[c] = 1 .. Len(pending[c])
      /\ DOMAIN log' = 1 .. Len(log) + Len(pending[c])
      /\ \A j \in DOMAIN log : log'[j] = log[j]
      /\ \A m \in DOMAIN pending[c] : log'[Len(log) + m] = pending[c][m]
  BY Grows
<1>2. CASE i \in 1 .. Len(log)
  BY <1>1, <1>2
<1>3. CASE i \notin 1 .. Len(log)
  <2>1. i - Len(log) \in 1 .. Len(pending[c]) /\ i = Len(log) + (i - Len(log))
    BY <1>1, <1>3
  <2>. QED BY <1>1, <2>1
<1>. QED BY <1>2, <1>3

LEMMA StreamAfter ==
  ASSUME OInv, NEW c \in Call, pc[c] = "commit", Install(c)
  PROVE  StreamIntact'
<1>. DEFINE n == Len(log)
            p == pending[c]
<1>1. /\ n \in Nat /\ Len(p) \in Nat \ {0}
      /\ DOMAIN log = 1 .. n /\ DOMAIN p = 1 .. Len(p)
      /\ Len(log') = n + Len(p) /\ DOMAIN log' = 1 .. n + Len(p)
      /\ \A i \in DOMAIN log : log'[i] = log[i]
      /\ \A m \in DOMAIN p : log'[n + m] = p[m]
  BY Grows
<1>2. \A m \in DOMAIN p : /\ p[m].seq = n + m /\ p[m].call = c
                          /\ p[m].prev = IF m = 1 THEN seen[c].hash ELSE HashOf(n + m - 1, c)
  BY CommitFollows
<1>3. seen[c] = HeadAt(n) /\ head' = [seq |-> n + Len(p), hash |-> HashOf(n + Len(p), c)]
  BY Commits
<1>4. \A i \in DOMAIN log :
        /\ log[i].seq = i
        /\ log[i].prev = IF i = 1 THEN None ELSE HashOf(i - 1, log[i - 1].call)
  BY DEF OInv, StreamIntact
<1>. HIDE DEF n, p
<1>5. \A i \in DOMAIN log' :
        /\ log'[i].seq = i
        /\ log'[i].prev = IF i = 1 THEN None ELSE HashOf(i - 1, log'[i - 1].call)
  <2>1. SUFFICES ASSUME NEW i \in DOMAIN log'
                 PROVE  /\ log'[i].seq = i
                        /\ log'[i].prev = IF i = 1 THEN None ELSE HashOf(i - 1, log'[i - 1].call)
    OBVIOUS
  <2>2. CASE i \in DOMAIN log
    <3>1. i # 1 => i - 1 \in DOMAIN log
      BY <1>1, <2>2
    <3>. QED BY <1>1, <1>4, <2>2, <3>1
  <2>3. ASSUME NEW m \in DOMAIN p, i = n + m, log'[i] = p[m]
        PROVE  /\ log'[i].seq = i
               /\ log'[i].prev = IF i = 1 THEN None ELSE HashOf(i - 1, log'[i - 1].call)
    <3>1. CASE m = 1
      <4>1. seen[c].hash = IF n = 0 THEN None ELSE HashOf(n, log[n].call)
        BY <1>3 DEF HeadAt, EmptyHead
      <4>2. i - 1 = n /\ (n # 0 => n \in DOMAIN log)
        BY <1>1, <2>3, <3>1
      <4>3. log'[i].seq = i /\ log'[i].prev = seen[c].hash
        BY <1>2, <2>3, <3>1
      <4>4. n = 0 => i = 1
        BY <2>3, <3>1
      <4>5. n # 0 => i # 1 /\ log'[i - 1] = log[n]
        BY <1>1, <2>3, <3>1, <4>2
      <4>. QED BY <4>1, <4>2, <4>3, <4>4, <4>5
    <3>2. CASE m # 1
      <4>1. m - 1 \in DOMAIN p /\ n + (m - 1) = i - 1 /\ n + m - 1 = i - 1 /\ i # 1
        BY <1>1, <2>3, <3>2
      <4>2. log'[i - 1].call = c
        BY <1>1, <1>2, <4>1
      <4>3. p[m].seq = i /\ p[m].prev = HashOf(i - 1, c)
        BY <1>2, <2>3, <3>2, <4>1
      <4>. QED BY <2>3, <4>1, <4>2, <4>3
    <3>. QED BY <3>1, <3>2
  <2>. QED BY <2>2, <2>3, OldOrNew DEF n, p
<1>6. head' = IF log' = <<>> THEN EmptyHead
              ELSE [seq |-> Len(log'), hash |-> HashOf(Len(log'), log'[Len(log')].call)]
  <2>0. Len(p) \in DOMAIN p
    BY <1>1
  <2>1. Len(p) \in DOMAIN p /\ log'[n + Len(p)].call = c
    BY <1>1, <1>2, <2>0
  <2>2. log' # <<>>
    BY <1>1
  <2>. QED BY <1>1, <1>3, <2>1, <2>2
<1>. QED BY <1>5, <1>6 DEF StreamIntact

LEMMA DenseAfter ==
  ASSUME OInv, NEW c \in Call, pc[c] = "commit", Install(c)
  PROVE  Dense'
<1>. DEFINE n == Len(log)
            p == pending[c]
<1>1. /\ n \in Nat /\ DOMAIN log = 1 .. n
      /\ \A i \in DOMAIN log : log'[i] = log[i]
      /\ \A m \in DOMAIN p : log'[n + m] = p[m]
  BY Grows
<1>2. SUFFICES ASSUME NEW e \in Entity
               PROVE  /\ \A i \in RowsOf(e)' : log'[i].version \in 1 .. Count(e)'
                      /\ \A v \in 1 .. Count(e)' : \E i \in RowsOf(e)' : log'[i].version = v
  BY DEF Dense
<1>3. /\ Count(e) \in Nat /\ RowsOf(e) \subseteq DOMAIN log
      /\ \A i \in RowsOf(e) : log[i].version \in 1 .. Count(e)
      /\ \A v \in 1 .. Count(e) : \E i \in RowsOf(e) : log[i].version = v
  BY CountAfter DEF OInv, Dense, RowsOf
<1>. HIDE DEF n, p
<1>4. CASE \A m \in DOMAIN p : p[m].entity # e
  <2>1. RowsOf(e)' = RowsOf(e) /\ Count(e)' = Count(e)
    BY <1>4, CountAfter DEF p
  <2>. QED BY <1>1, <1>3, <2>1
<1>5. ASSUME NEW m \in DOMAIN p, p[m].entity = e
      PROVE  /\ \A i \in RowsOf(e)' : log'[i].version \in 1 .. Count(e)'
             /\ \A v \in 1 .. Count(e)' : \E i \in RowsOf(e)' : log'[i].version = v
  <2>1. RowsOf(e)' = RowsOf(e) \cup {n + m} /\ Count(e)' = Count(e) + 1
    BY <1>5, CountAfter DEF p, n
  <2>2. log'[n + m].version = Count(e) + 1
    BY <1>1, <1>5, CommitFollows DEF Follows, p
  <2>3. \A i \in RowsOf(e) : log'[i].version = log[i].version /\ log'[i].version \in 1 .. Count(e) + 1
    BY <1>1, <1>3
  <2>4. \A i \in RowsOf(e)' : log'[i].version \in 1 .. Count(e)'
    BY <1>3, <2>1, <2>2, <2>3
  <2>5. \A v \in 1 .. Count(e) + 1 : v \in 1 .. Count(e) \/ v = Count(e) + 1
    BY <1>3
  <2>6. \A v \in 1 .. Count(e)' : \E i \in RowsOf(e)' : log'[i].version = v
    BY <1>3, <2>1, <2>2, <2>3, <2>5
  <2>. QED BY <2>4, <2>6
<1>. QED BY <1>4, <1>5

LEMMA LinearAfter ==
  ASSUME OInv, NEW c \in Call, pc[c] = "commit", Install(c)
  PROVE  HistoriesLinear'
<1>. DEFINE n == Len(log)
            p == pending[c]
            Before(i) == {j \in 1 .. i - 1 : log'[j].entity = log'[i].entity}
<1>1. /\ n \in Nat /\ DOMAIN log = 1 .. n /\ DOMAIN p = 1 .. Len(p) /\ Len(p) \in Nat
      /\ \A i \in DOMAIN log : log'[i] = log[i]
      /\ \A m \in DOMAIN p : log'[n + m] = p[m]
  BY Grows
<1>2. SUFFICES ASSUME NEW i \in DOMAIN log'
               PROVE  log'[i].version = 1 + Cardinality(Before(i))
  BY DEF HistoriesLinear
<1>3. CASE i \in DOMAIN log
  <2>1. Before(i) = {j \in 1 .. i - 1 : log[j].entity = log[i].entity}
    <3>1. \A j \in 1 .. i - 1 : j \in DOMAIN log
      BY <1>1, <1>3
    <3>. QED BY <1>1, <1>3, <3>1
  <2>. QED BY <1>1, <1>3, <2>1 DEF OInv, HistoriesLinear
<1>4. ASSUME NEW m \in DOMAIN p, i = n + m, log'[i] = p[m]
      PROVE  log'[i].version = 1 + Cardinality(Before(i))
  <2>1. \A k \in DOMAIN p : p[k].entity = p[m].entity => k = m
    BY CommitFollows
  <2>2. p[m].version = Count(p[m].entity) + 1 /\ Count(p[m].entity) \in Nat
    BY CommitFollows, CountAfter DEF Follows
  <2>. HIDE DEF p, n
  <2>3. \A j \in 1 .. i - 1 : log'[j].entity = p[m].entity <=> j \in DOMAIN log /\ log[j].entity = p[m].entity
    <3>1. SUFFICES ASSUME NEW j \in 1 .. i - 1, j \notin DOMAIN log PROVE log'[j].entity # p[m].entity
      BY <1>1
    <3>2. j - n \in DOMAIN p /\ n + (j - n) = j /\ j - n # m
      BY <1>1, <1>4, <3>1
    <3>. QED BY <1>1, <2>1, <3>2
  <2>4. \A j \in DOMAIN log : j \in 1 .. i - 1
    BY <1>1, <1>4
  <2>5. Before(i) = RowsOf(p[m].entity)
    BY <1>4, <2>3, <2>4 DEF RowsOf
  <2>6. Cardinality(Before(i)) = Count(p[m].entity)
    BY <2>5 DEF Count
  <2>. HIDE DEF Before
  <2>. QED BY <1>4, <2>2, <2>6
<1>. QED BY <1>3, <1>4, OldOrNew

LEMMA NewsAfter ==
  ASSUME OInv, NEW c \in Call, pc[c] = "commit", Install(c), req' = req
  PROVE  NoIdleVersions'
<1>. DEFINE n == Len(log)
            p == pending[c]
            Says(i, j) == /\ log'[i].body = log'[j].body => log'[i].label # log'[j].label
                          /\ req[log'[j].call].op = "project" => log'[i].body # log'[j].body
<1>1. /\ n \in Nat /\ DOMAIN log = 1 .. n
      /\ \A i \in DOMAIN log : log'[i] = log[i]
      /\ \A m \in DOMAIN p : log'[n + m] = p[m]
  BY Grows
<1>2. SUFFICES ASSUME NEW i \in DOMAIN log', NEW j \in DOMAIN log',
                      log'[i].entity = log'[j].entity, log'[j].version = log'[i].version + 1,
                      req[log'[j].call].op \in {"batch", "seed", "project"}
               PROVE  Says(i, j)
  BY DEF NoIdleVersions
<1>. DEFINE e == log'[j].entity
<1>3. /\ Count(e) \in Nat
      /\ \A k \in RowsOf(e) : log[k].version \in 1 .. Count(e)
  <2>1. e \in Entity
    <3>1. \A r \in Row : r.entity \in Entity
      BY DEF Row
    <3>2. log'[j] \in Row
      BY Commits
    <3>. QED BY <3>1, <3>2
  <2>. QED BY <2>1, CountAfter DEF OInv, Dense
<1>4. \A m \in DOMAIN p : Follows(c, p[m]) /\ p[m].call = c
  BY CommitFollows
<1>5. \A m, k \in DOMAIN p : p[m].entity = p[k].entity => m = k
  BY CommitFollows
<1>. HIDE DEF n, p
<1>6. CASE i \in DOMAIN log /\ j \in DOMAIN log
  BY <1>1, <1>2, <1>6 DEF OInv, NoIdleVersions
<1>7. ASSUME i \in DOMAIN log, NEW m \in DOMAIN p, j = n + m, log'[j] = p[m]
      PROVE  Says(i, j)
  <2>1. i \in RowsOf(e) /\ p[m].entity = e /\ log'[i] = log[i]
    BY <1>1, <1>2, <1>7 DEF RowsOf
  <2>2. p[m].version = Count(e) + 1
    BY <1>4, <2>1 DEF Follows
  <2>3. log[i].version = Count(e)
    BY <1>2, <1>3, <1>7, <2>1, <2>2
  <2>4. Tells(c) /\ p[m].call = c
    BY <1>2, <1>4, <1>7 DEF Tells
  <2>5. Differs(c, log[i], p[m])
    BY <1>4, <2>1, <2>3, <2>4 DEF Follows
  <2>. QED BY <1>7, <2>1, <2>4, <2>5 DEF Differs
<1>8. ASSUME NEW m \in DOMAIN p, i = n + m, log'[i] = p[m]
      PROVE  Says(i, j)
  <2>1. p[m].entity = e /\ p[m].version = Count(e) + 1
    BY <1>2, <1>4, <1>8 DEF Follows
  <2>2. log'[j].version = Count(e) + 2
    BY <1>2, <1>3, <1>8, <2>1
  <2>3. ASSUME j \in DOMAIN log PROVE FALSE
    <3>1. j \in RowsOf(e) /\ log'[j] = log[j]
      BY <1>1, <2>3 DEF RowsOf
    <3>2. log'[j].version \in 1 .. Count(e)
      BY <1>3, <3>1
    <3>. QED BY <1>3, <2>2, <3>2
  <2>4. ASSUME NEW k \in DOMAIN p, log'[j] = p[k] PROVE FALSE
    <3>1. p[k].entity = e
      BY <2>4
    <3>2. k = m
      BY <1>5, <2>1, <3>1
    <3>. QED BY <1>3, <2>1, <2>2, <2>4, <3>2
  <2>. QED BY <2>3, <2>4, OldOrNew DEF p
<1>. QED BY <1>6, <1>7, <1>8, OldOrNew DEF n, p

\* A commit leaves the others' knowledge true: a transaction that has read a head
\* is shut out by the lock, or will be refused.
LEMMA OthersCommit ==
  ASSUME OInv, NEW c \in Call, Step(c), pc[c] = "commit", Install(c), NEW d \in Call, d # c
  PROVE  Local(d)'
<1>1. /\ pc'[d] = pc[d] /\ at'[d] = at[d] /\ converge'[d] = converge[d] /\ expect'[d] = expect[d]
      /\ latest'[d] = latest[d] /\ seen'[d] = seen[d] /\ pending'[d] = pending[d]
      /\ req'[d] = req[d] /\ dialect' = dialect /\ req' = req
  BY OthersSame, Framed DEF OInv
<1>2. /\ Local(d) /\ dialect \in {"postgresql", "sqlite"}
      /\ at[d] \in DOMAIN req[d].drafts
      /\ latest[d] \in Nat
  BY ConstantsAssumption DEF OInv, TypeOK, Local, Placed
<1>3. /\ Len(log) \in Nat /\ Len(pending[c]) \in Nat \ {0}
      /\ DOMAIN log = 1 .. Len(log)
      /\ Len(log') = Len(log) + Len(pending[c])
      /\ \A i \in DOMAIN log : log'[i] = log[i]
      /\ \A m \in DOMAIN pending[c] : log'[Len(log) + m] = pending[c][m]
  BY Grows
<1>4. /\ dialect = "postgresql" => lock = c
      /\ dialect = "sqlite" => writer = c
  BY DEF OInv, Local, Locked, InTransaction
<1>5. /\ dialect = "postgresql" => pc[d] \notin InTransaction
      /\ dialect = "sqlite" => pc[d] # "commit"
  BY <1>2, <1>4 DEF Local, Locked
<1>6. pc[d] # "commit"
  BY <1>2, <1>5 DEF InTransaction
<1>7. Sighted(d)'
  <2>1. SUFFICES ASSUME pc[d] \in InTransaction
                 PROVE  /\ seen[d] \in StreamHead /\ seen[d].seq <= Len(log')
                        /\ seen[d] = HeadAt(seen[d].seq)'
    BY <1>1 DEF Sighted, HeadAt
  <2>2. seen[d] \in StreamHead /\ seen[d].seq \in Nat /\ seen[d].seq <= Len(log) /\ seen[d] = HeadAt(seen[d].seq)
    BY <1>2, <2>1 DEF Local, Sighted, StreamHead
  <2>3. seen[d].seq # 0 => log'[seen[d].seq] = log[seen[d].seq]
    BY <1>3, <2>2
  <2>. QED BY <1>1, <1>3, <2>2, <2>3 DEF HeadAt
<1>8. Locked(d)'
  BY <1>1, <1>5, <1>6 DEF Locked
<1>9. Chained(d)'
  BY <1>1, <1>2 DEF Local, Chained
<1>10. Placed(d)'
  BY <1>1, <1>2 DEF Local, Placed, InBatch
<1>11. Single(d)'
  <2>1. SUFFICES ASSUME pc[d] \in {"latest", "rowwait", "head", "flush"}, ~InBatch(d)
                 PROVE  Single(d)'
    BY <1>1, <1>6 DEF Single, InBatch
  <2>2. SUFFICES ASSUME NEW e, e = DraftOf(d).entity, DraftOf(d)' = DraftOf(d) PROVE Single(d)'
    BY <1>1 DEF DraftOf
  <2>3. Count(e) \in Nat /\ Count(e)' \in Nat /\ Count(e) <= Count(e)'
    <3>1. Count(e) \in Nat /\ (Count(e)' = Count(e) \/ Count(e)' = Count(e) + 1)
      BY CountAfter
    <3>. QED BY <3>1
  <2>4. ASSUME Tells(d)
        PROVE  /\ expect[d] \in Nat /\ expect[d] <= Count(e)'
               /\ \A i \in RowsOf(e)' : log'[i].version = expect[d] => Differs(d, log'[i], DraftOf(d))
    <3>1. /\ expect[d] \in Nat /\ expect[d] <= Count(e)
          /\ \A i \in RowsOf(e) : log[i].version = expect[d] => Differs(d, log[i], DraftOf(d))
      BY <1>2, <2>1, <2>2, <2>4 DEF Local, Single
    <3>2. ASSUME NEW i \in RowsOf(e)', log'[i].version = expect[d]
          PROVE  i \in RowsOf(e) /\ log'[i] = log[i]
      <4>1. i \in DOMAIN log' /\ log'[i].entity = e
        BY DEF RowsOf
      <4>2. CASE i \in DOMAIN log
        BY <1>3, <4>1, <4>2 DEF RowsOf
      <4>3. ASSUME NEW m \in DOMAIN pending[c], log'[i] = pending[c][m] PROVE FALSE
        <5>1. pending[c][m].version = Count(e) + 1
          BY <4>1, <4>3, CommitFollows DEF Follows
        <5>. QED BY <2>3, <3>1, <3>2, <4>3, <5>1
      <4>. QED BY <4>1, <4>2, <4>3, OldOrNew
    <3>. QED BY <2>3, <3>1, <3>2
  <2>5. pc[d] # "latest" => latest[d] <= Count(e)'
    <3>1. pc[d] # "latest" => latest[d] <= Count(e)
      BY <1>2, <2>1, <2>2 DEF Local, Single
    <3>. QED BY <1>2, <2>3, <3>1
  <2>6. /\ pc[d] \in {"head", "flush"} =>
             /\ expect[d] # None => latest[d] = expect[d]
             /\ req[d].op = "insert" => latest[d] = 0
        /\ pc[d] = "flush" => pending[d] = <<NewRow(d, DraftOf(d), latest[d] + 1, seen[d])>>
    BY <1>2, <2>1 DEF Local, Single
  <2>7. NewRow(d, DraftOf(d), latest[d] + 1, seen[d])' = NewRow(d, DraftOf(d), latest[d] + 1, seen[d])
    BY <1>1, <2>2 DEF NewRow
  <2>. QED BY <1>1, <1>6, <2>2, <2>4, <2>5, <2>6, <2>7 DEF Single, Differs, Tells
<1>12. Batched(d)'
  <2>1. SUFFICES ASSUME pc[d] \in InTransaction PROVE seen[d].seq # Len(log')
    BY <1>1 DEF Batched
  <2>2. seen[d].seq \in Nat /\ seen[d].seq <= Len(log)
    BY <1>2, <2>1 DEF Local, Sighted, StreamHead
  <2>. QED BY <1>3, <2>2
<1>. QED BY <1>7, <1>8, <1>9, <1>10, <1>11, <1>12 DEF Local

LEMMA OwnCommit ==
  ASSUME OInv, NEW c \in Call, Step(c), Commit(c) \/ CommitReplyLost(c)
  PROVE  Local(c)'
<1>1. TypeOK /\ (converge[c] => req[c].op = "seed")
  BY Known
<1>2. pending'[c] = <<>>
  BY <1>1 DEF Commit, CommitReplyLost, EndSession, TypeOK
<1>3. CASE \E status : Return(c, status)
  BY <1>2, <1>3, AfterReturn
<1>4. CASE converge[c] /\ Advance(c)
  BY <1>1, <1>2, <1>4, AfterAdvance
<1>. QED BY <1>3, <1>4 DEF Commit, CommitReplyLost

-----------------------------------------------------------------------------
(* The invariant. *)

LEMMA InitHolds == Init => OInv
<1>1. SUFFICES ASSUME Init PROVE OInv
  OBVIOUS
<1>2. TypeOK
  BY <1>1 DEF Init, TypeOK, StreamHead, EmptyHead
<1>3. log = <<>> /\ DOMAIN log = {} /\ head = EmptyHead
  BY <1>1 DEF Init
<1>4. StreamIntact /\ HistoriesLinear /\ NoIdleVersions
  BY <1>3 DEF StreamIntact, HistoriesLinear, NoIdleVersions
<1>5. Dense
  <2>1. \A e : RowsOf(e) = {} /\ Count(e) = 0
    BY <1>3, FS_EmptySet DEF RowsOf, Count
  <2>. QED BY <2>1 DEF Dense
<1>6. ASSUME NEW c \in Call PROVE Local(c)
  <2>1. pc[c] = "start" /\ pending[c] = <<>> /\ at[c] = 1 /\ converge[c] = FALSE /\ req[c] \in Requests
    BY <1>1 DEF Init
  <2>2. at[c] \in DOMAIN req[c].drafts
    <3>1. req[c].drafts \in Seq(Draft) /\ req[c].drafts # <<>>
      BY <2>1, RequestsAssumption DEF RequestType
    <3>. QED BY <2>1, <3>1
  <2>3. Sighted(c) /\ Locked(c) /\ Single(c) /\ Batched(c)
    BY <2>1 DEF Sighted, Locked, Single, Batched, InTransaction
  <2>4. Chained(c) /\ Placed(c)
    BY <2>1, <2>2 DEF Chained, Placed
  <2>. QED BY <2>3, <2>4 DEF Local
<1>. QED BY <1>2, <1>4, <1>5, <1>6 DEF OInv

LEMMA OwnStep ==
  ASSUME OInv, NEW c \in Call, Step(c)
  PROVE  Local(c)'
<1>1. CASE BeginWrite(c) \/ BeginBatch(c)
  BY <1>1, OwnBegin
<1>2. CASE ReadProjection(c) \/ Reread(c)
  BY <1>2, OwnRead
<1>3. CASE SelectLatest(c) \/ RowWait(c) \/ RowWaited(c)
  BY <1>3, OwnSelect
<1>4. CASE LockHead(c)
  BY <1>4, OwnLock
<1>5. CASE ReadDraft(c)
  BY <1>5, OwnDraft
<1>6. CASE Flush(c)
  BY <1>6, OwnFlush
<1>7. CASE FlushRefused(c)
  BY <1>7, AfterConflict DEF FlushRefused
<1>8. CASE Commit(c) \/ CommitReplyLost(c)
  BY <1>8, OwnCommit
<1>9. CASE Raced(c)
  <2>1. pending'[c] = <<>>
    BY <1>9, Known DEF Raced, SameSession, Local, Chained, InTransaction
  <2>. QED BY <1>9, <2>1, AfterReturn DEF Raced
<1>10. CASE Abort(c)
  <2>1. pending'[c] = <<>>
    BY <1>10, Known DEF Abort, EndSession, TypeOK
  <2>. QED BY <1>10, <2>1, AfterReturn DEF Abort
<1>. QED BY <1>1, <1>2, <1>3, <1>4, <1>5, <1>6, <1>7, <1>8, <1>9, <1>10 DEF Step, Progress

LEMMA StepKeeps ==
  ASSUME OInv, NEW c \in Call, Step(c)
  PROVE  OInv'
<1>1. TypeOK' /\ Local(c)'
  BY TypeInvariant, OwnStep
<1>2. CASE log' = log /\ head' = head
  <2>1. req' = req
    BY Framed
  <2>2. \A d \in Call : d # c => Local(d)'
    BY <1>2, OthersQuiet
  <2>. QED BY <1>1, <1>2, <2>1, <2>2, Quiet DEF OInv
<1>3. CASE pc[c] = "commit" /\ Install(c)
  <2>1. req' = req
    BY Framed
  <2>2. \A d \in Call : d # c => Local(d)'
    BY <1>3, OthersCommit
  <2>. QED BY <1>1, <1>3, <2>1, <2>2, StreamAfter, DenseAfter, LinearAfter, NewsAfter DEF OInv
<1>. QED BY <1>2, <1>3, Framed

LEMMA StutterKeeps ==
  ASSUME OInv, UNCHANGED vars
  PROVE  OInv'
<1>1. TypeOK'
  BY DEF OInv, TypeOK, vars
<1>2. StreamIntact' /\ Dense' /\ HistoriesLinear' /\ NoIdleVersions' /\ \A e : RowsOf(e)' = RowsOf(e) /\ Count(e)' = Count(e)
  BY Quiet DEF vars
<1>3. ASSUME NEW d \in Call PROVE Local(d)'
  <2>1. Local(d)
    BY DEF OInv
  <2>2. Sighted(d)' /\ Locked(d)'
    BY <2>1 DEF Local, Sighted, Locked, HeadAt, vars
  <2>3. Chained(d)' /\ Placed(d)'
    BY <2>1 DEF Local, Chained, Placed, InBatch, vars
  <2>4. Single(d)'
    BY <1>2, <2>1 DEF Local, Single, InBatch, DraftOf, Tells, Differs, NewRow, vars
  <2>5. Batched(d)'
    BY <1>2, <2>1 DEF Local, Batched, InBatch, Follows, Tells, Differs, vars
  <2>. QED BY <2>2, <2>3, <2>4, <2>5 DEF Local
<1>. QED BY <1>1, <1>2, <1>3 DEF OInv

\* Whatever the requests and on either database, what every call knows of the
\* stream it writes to stays true through every step of every call.
THEOREM Invariance == Spec => []OInv
<1>1. Init => OInv
  BY InitHolds
<1>2. OInv /\ [Next]_vars => OInv'
  BY StepKeeps, StutterKeeps DEF Next, Terminated
<1>. QED BY <1>1, <1>2, PTL DEF Spec

\* The operational stream is an unbroken chain from its first row to the head's
\* row: what verify_chain looks for, after any interleaving of single writes,
\* batches, seedings, refusals, aborts and lost replies.
THEOREM StreamStaysIntact == Spec => []StreamIntact
<1>1. OInv => StreamIntact
  BY DEF OInv
<1>. QED BY <1>1, Invariance, PTL

\* Every entity has one history, versions 1, 2, 3, ... in the stream's order, and
\* no batch, seeding or projection adds a version that says nothing new, although
\* single writes read the version before they lock the stream.
THEOREM HistoriesStayOne == Spec => []HistoriesHold
<1>1. OInv => HistoriesHold
  BY DEF OInv, HistoriesHold
<1>. QED BY <1>1, Invariance, PTL

-----------------------------------------------------------------------------
(* The refinement.  A batch writes the drafts that are news and no other:   *)
(* that needs what it knows of the drafts it has looked at.                 *)

\* An update expects what its caller named.
Asked(c) == req[c].op = "upsert" /\ pc[c] # "start" => expect[c] = req[c].expected

\* A batch begins with its first draft.
Fresh(c) == pc[c] \in {"start", "head"} /\ InBatch(c) => at[c] = 1

Looked(c) == IF pc[c] = "draft" THEN 1 .. at[c] - 1 ELSE DOMAIN req[c].drafts

\* A row says what a draft does.
Says(r, d) == r.entity = d.entity /\ r.body = d.body /\ r.label = d.label

\* A batch's rows are of drafts, and every draft that it has looked at is among them or was the
\* latest version already.
Covers(c) ==
  pc[c] \in InTransaction /\ InBatch(c) =>
    /\ \A m \in DOMAIN pending[c] : \E k \in Looked(c) : Says(pending[c][m], req[c].drafts[k])
    /\ seen[c].seq = Len(log) =>
         \A k \in Looked(c) :
           \/ SameContent(req[c].drafts[k])
           \/ \E m \in DOMAIN pending[c] : Says(pending[c][m], req[c].drafts[k])

VInv == \A c \in Call : Asked(c) /\ Fresh(c) /\ Covers(c)

LEMMA OthersAsk ==
  ASSUME OInv, VInv, NEW c \in Call, Step(c), NEW d \in Call, d # c
  PROVE  Asked(d)' /\ Fresh(d)' /\ Covers(d)'
<1>1. TypeOK /\ Asked(d) /\ Fresh(d) /\ Covers(d) /\ Local(d)
  BY DEF OInv, VInv
<1>2. /\ pc'[d] = pc[d] /\ at'[d] = at[d] /\ converge'[d] = converge[d] /\ expect'[d] = expect[d]
      /\ seen'[d] = seen[d] /\ pending'[d] = pending[d] /\ req'[d] = req[d]
  BY <1>1, OthersSame
<1>3. Asked(d)' /\ Fresh(d)'
  BY <1>1, <1>2 DEF Asked, Fresh, InBatch
<1>4. InBatch(d)' = InBatch(d) /\ Looked(d)' = Looked(d)
  BY <1>2 DEF InBatch, Looked
<1>5. CASE log' = log
  <2>1. \A x : SameContent(x)' = SameContent(x)
    BY <1>5 DEF SameContent, LatestRows, LatestVersion, Versions
  <2>. QED BY <1>1, <1>2, <1>3, <1>4, <1>5, <2>1 DEF Covers, Says
<1>6. CASE pc[c] = "commit" /\ Install(c)
  <2>1. pc[d] \in InTransaction => seen[d].seq < Len(log')
    <3>1. Len(log) \in Nat /\ Len(log') > Len(log)
      BY <1>6, Grows
    <3>2. Len(log') \in Nat
      BY <1>6, Grows
    <3>3. pc[d] \in InTransaction => seen[d].seq \in Nat /\ seen[d].seq <= Len(log)
      BY <1>1 DEF Local, Sighted, StreamHead
    <3>. QED BY <3>1, <3>2, <3>3
  <2>2. pc[d] \in InTransaction => seen[d].seq # Len(log')
    <3>1. Len(log') \in Nat
      BY <1>6, Grows
    <3>2. pc[d] \in InTransaction => seen[d].seq \in Nat
      BY <1>1 DEF Local, Sighted, StreamHead
    <3>. QED BY <2>1, <3>1, <3>2
  <2>. QED BY <1>1, <1>2, <1>3, <1>4, <2>2 DEF Covers, Says
<1>. QED BY <1>5, <1>6, Framed

\* A batch's next draft joins its rows, or was the latest version.
LEMMA DraftCovers ==
  ASSUME OInv, VInv, NEW c \in Call, Step(c), ReadDraft(c)
  PROVE  Covers(c)'
<1>. DEFINE d == DraftOf(c)
            e == d.entity
            row == NewRow(c, d, Count(e) + 1, HeadAfter(c, pending[c]))
            rest == pending[c]
            added == Added(c, d)
<1>1. /\ at[c] \in DOMAIN req[c].drafts /\ req' = req /\ TypeOK
      /\ DOMAIN req[c].drafts = 1 .. Len(req[c].drafts) /\ Len(req[c].drafts) \in Nat
      /\ d \in Draft /\ e \in Entity /\ Count(e) \in Nat
      /\ pc[c] = "draft" /\ InBatch(c) /\ Covers(c)
      /\ rest \in Seq(Row) /\ seen[c] \in StreamHead
  BY Known DEF ReadDraft, Local, Placed, Sighted, InTransaction, TypeOK, VInv
<1>2. CASE Return(c, "ok")
  <2>1. pc'[c] = "done"
    BY <1>1, <1>2 DEF Return, GoTo, TypeOK
  <2>. QED BY <2>1 DEF Covers, InTransaction
<1>3. CASE /\ pending' = [pending EXCEPT ![c] = added]
           /\ UNCHANGED <<converge, seen>> /\ Stored
           /\ \/ at[c] < Len(req[c].drafts) /\ at' = [at EXCEPT ![c] = @ + 1] /\ pc' = pc
              \/ at[c] = Len(req[c].drafts) /\ at' = at /\ GoTo(c, "flush")
  <2>1. /\ pending'[c] = added /\ seen'[c] = seen[c] /\ log' = log
        /\ converge'[c] = converge[c]
        /\ \/ pc'[c] = "draft" /\ at'[c] = at[c] + 1
           \/ pc'[c] = "flush" /\ at'[c] = at[c] /\ at[c] = Len(req[c].drafts)
    BY <1>1, <1>3 DEF GoTo, Stored, TypeOK
  <2>2. /\ SameContent(d) => added = rest
        /\ ~SameContent(d) => added = Append(rest, row)
    BY <1>1, AddedRows
  <2>3. Says(row, d)
    BY DEF NewRow, Says
  <2>. HIDE DEF row, rest, added, d, e
  <2>4. Looked(c) = 1 .. at[c] - 1 /\ Looked(c)' = 1 .. at[c]
    BY <1>1, <2>1 DEF Looked
  <2>5. \A x : SameContent(x)' = SameContent(x)
    BY <2>1 DEF SameContent, LatestRows, LatestVersion, Versions
  <2>6. /\ \A m \in DOMAIN rest : m \in DOMAIN added /\ added[m] = rest[m]
        /\ \A m \in DOMAIN added : m \in DOMAIN rest \/ (~SameContent(d) /\ added[m] = row)
        /\ ~SameContent(d) => \E m \in DOMAIN added : added[m] = row
    <3>1. rest \in Seq(Row)
      BY <1>1
    <3>2. CASE SameContent(d)
      BY <2>2, <3>2
    <3>3. CASE ~SameContent(d)
      <4>1. added = Append(rest, row)
        BY <2>2, <3>3
      <4>2. DOMAIN rest = 1 .. Len(rest) /\ Len(rest) \in Nat /\ DOMAIN added = 1 .. Len(rest) + 1
        BY <3>1, <4>1
      <4>3. added[Len(rest) + 1] = row /\ \A m \in 1 .. Len(rest) : added[m] = rest[m]
        BY <3>1, <4>1
      <4>. QED BY <3>3, <4>2, <4>3
    <3>. QED BY <3>2, <3>3
  <2>7. /\ \A m \in DOMAIN rest : \E k \in 1 .. at[c] - 1 : Says(rest[m], req[c].drafts[k])
        /\ seen[c].seq = Len(log) =>
             \A k \in 1 .. at[c] - 1 :
               \/ SameContent(req[c].drafts[k])
               \/ \E m \in DOMAIN rest : Says(rest[m], req[c].drafts[k])
    BY <1>1, <2>4 DEF Covers, InTransaction, rest
  <2>8. d = req[c].drafts[at[c]] /\ at[c] \in Nat \ {0}
    BY <1>1 DEF d, DraftOf, TypeOK
  <2>9. \A k \in 1 .. at[c] : k \in 1 .. at[c] - 1 \/ k = at[c]
    BY <2>8
  <2>10. at[c] \in 1 .. at[c] /\ \A k \in 1 .. at[c] - 1 : k \in 1 .. at[c]
    BY <2>8
  <2>11. \A m \in DOMAIN added : \E k \in 1 .. at[c] : Says(added[m], req[c].drafts[k])
    BY <2>3, <2>6, <2>7, <2>8, <2>10
  <2>12. seen[c].seq = Len(log) =>
           \A k \in 1 .. at[c] :
             \/ SameContent(req[c].drafts[k])
             \/ \E m \in DOMAIN added : Says(added[m], req[c].drafts[k])
    BY <2>3, <2>6, <2>7, <2>8, <2>9
  <2>13. \A m \in DOMAIN pending'[c] : \E k \in Looked(c)' : Says(pending'[c][m], req'[c].drafts[k])
    BY <1>1, <2>1, <2>4, <2>11
  <2>14. seen'[c].seq = Len(log') =>
           \A k \in Looked(c)' :
             \/ SameContent(req[c].drafts[k])
             \/ \E m \in DOMAIN pending'[c] : Says(pending'[c][m], req'[c].drafts[k])
    BY <1>1, <2>1, <2>4, <2>12
  <2>15. \A k : SameContent(req[c].drafts[k])' = SameContent(req[c].drafts[k])
    BY <1>1, <2>5
  <2>. QED BY <1>1, <2>13, <2>14, <2>15 DEF Covers, Says
<1>. QED BY <1>2, <1>3 DEF ReadDraft, Plan

LEMMA OwnCovers ==
  ASSUME OInv, VInv, NEW c \in Call, Step(c)
  PROVE  Covers(c)'
<1>1. TypeOK /\ Local(c) /\ Covers(c) /\ Fresh(c) /\ req' = req
  BY Known DEF VInv
<1>2. CASE LockHead(c)
  <2>1. CASE InBatch(c)
    <3>1. pc'[c] = "draft" /\ pending'[c] = pending[c] /\ at'[c] = at[c] /\ at[c] = 1
      BY <1>1, <1>2, <2>1 DEF LockHead, GoTo, Plan, Fresh, TypeOK
    <3>2. pending[c] = <<>>
      BY <1>1, <1>2 DEF LockHead, Local, Chained, InTransaction
    <3>3. Looked(c)' = {}
      BY <3>1 DEF Looked
    <3>. QED BY <3>1, <3>2, <3>3 DEF Covers
  <2>2. CASE ~InBatch(c)
    <3>1. ~InBatch(c)'
      BY <1>1, <1>2, <2>2 DEF LockHead, Plan, InBatch
    <3>. QED BY <3>1 DEF Covers
  <2>. QED BY <2>1, <2>2
<1>3. CASE ReadDraft(c)
  BY <1>3, DraftCovers
<1>4. CASE Flush(c)
  <2>1. /\ pc[c] = "flush" /\ pc'[c] = "commit" /\ pending' = pending /\ seen' = seen /\ log' = log
        /\ converge' = converge
    BY <1>1, <1>4 DEF Flush, GoTo, Stored, Plan, TypeOK
  <2>2. \A x : SameContent(x)' = SameContent(x)
    BY <2>1 DEF SameContent, LatestRows, LatestVersion, Versions
  <2>3. Looked(c)' = Looked(c) /\ InBatch(c)' = InBatch(c)
    BY <1>1, <2>1 DEF Looked, InBatch
  <2>. QED BY <1>1, <2>1, <2>2, <2>3 DEF Covers, Says, InTransaction
<1>5. CASE ~LockHead(c) /\ ~ReadDraft(c) /\ ~Flush(c)
  <2>1. pc'[c] \notin InTransaction
    <3>1. CASE BeginWrite(c) \/ BeginBatch(c) \/ ReadProjection(c) \/ Raced(c) \/ Reread(c)
      BY <1>1, <3>1 DEF BeginWrite, BeginBatch, ReadProjection, Raced, Reread, Advance, Return, GoTo,
                        InTransaction, TypeOK
    <3>2. CASE SelectLatest(c) \/ RowWait(c) \/ RowWaited(c) \/ FlushRefused(c)
      BY <1>1, <3>2 DEF SelectLatest, RowWait, RowWaited, FlushRefused, RowGranted, Conflict, Return,
                        GoTo, InTransaction, TypeOK
    <3>3. CASE Commit(c) \/ CommitReplyLost(c) \/ Abort(c)
      BY <1>1, <3>3 DEF Commit, CommitReplyLost, Abort, Advance, Return, GoTo, InTransaction, TypeOK
    <3>. QED BY <1>5, <3>1, <3>2, <3>3 DEF Step, Progress
  <2>. QED BY <2>1 DEF Covers
<1>. QED BY <1>2, <1>3, <1>4, <1>5

LEMMA OwnAsks ==
  ASSUME OInv, VInv, NEW c \in Call, Step(c)
  PROVE  Asked(c)' /\ Fresh(c)'
<1>1. /\ TypeOK /\ Placed(c) /\ Asked(c) /\ Fresh(c) /\ req' = req
      /\ pc \in [Call -> {"start", "latest", "rowwait", "head", "draft", "flush", "commit",
                          "raced", "reread", "done"}]
  BY Known DEF VInv, Local
<1>2. CASE BeginWrite(c)
  <2>1. pc'[c] = "latest" /\ (req[c].op = "upsert" => expect'[c] = req[c].expected)
    BY <1>1, <1>2 DEF BeginWrite, GoTo, TypeOK
  <2>. QED BY <1>1, <2>1 DEF Asked, Fresh
<1>3. CASE BeginBatch(c)
  <2>1. pc[c] = "start" /\ at' = at /\ converge' = converge /\ req[c].op # "upsert" /\ InBatch(c)
    BY <1>3 DEF BeginBatch, Plan, InBatch
  <2>. QED BY <1>1, <2>1 DEF Asked, Fresh
<1>4. CASE ReadProjection(c) \/ Reread(c)
  <2>1. req[c].op # "upsert"
    BY <1>1, <1>4 DEF ReadProjection, Reread, Placed
  <2>2. pc'[c] \notin {"start", "head"}
    BY <1>1, <1>4 DEF ReadProjection, Reread, Advance, Return, GoTo, TypeOK
  <2>. QED BY <1>1, <2>1, <2>2 DEF Asked, Fresh
<1>5. CASE SelectLatest(c) \/ RowWait(c) \/ RowWaited(c)
  <2>1. pc[c] \in {"latest", "rowwait"} /\ ~InBatch(c) /\ expect' = expect
    BY <1>1, <1>5 DEF SelectLatest, RowWait, RowWaited, RowGranted, Conflict, Return, Plan, Placed
  <2>2. pc'[c] \in {"start", "head"} => converge' = converge
    BY <1>1, <1>5 DEF SelectLatest, RowWait, RowWaited, RowGranted, Conflict, Return, Plan, GoTo, TypeOK
  <2>. QED BY <1>1, <2>1, <2>2 DEF Asked, Fresh, InBatch
<1>6. CASE \/ LockHead(c) \/ ReadDraft(c) \/ Flush(c) \/ FlushRefused(c) \/ Commit(c)
           \/ CommitReplyLost(c) \/ Abort(c) \/ Raced(c)
  <2>1. pc[c] # "start" /\ expect' = expect
    BY <1>6 DEF LockHead, ReadDraft, Flush, FlushRefused, Commit, CommitReplyLost, Abort, Raced,
                Conflict, Advance, Return, Plan
  <2>2. pc'[c] \notin {"start", "head"}
    BY <1>1, <1>6 DEF LockHead, ReadDraft, Flush, FlushRefused, Commit, CommitReplyLost, Abort, Raced,
                Conflict, Advance, Return, GoTo, TypeOK
  <2>. QED BY <1>1, <2>1, <2>2 DEF Asked, Fresh
<1>. QED BY <1>2, <1>3, <1>4, <1>5, <1>6 DEF Step, Progress

LEMMA VersionsInvariant ==
  /\ Init => VInv
  /\ OInv /\ VInv /\ [Next]_vars => VInv'
<1>1. Init => VInv
  <2>1. SUFFICES ASSUME Init, NEW c \in Call PROVE Asked(c) /\ Fresh(c) /\ Covers(c)
    BY DEF VInv
  <2>. QED BY <2>1 DEF Init, Asked, Fresh, Covers, InTransaction
<1>2. ASSUME OInv, VInv, NEW c \in Call, Step(c) PROVE VInv'
  BY <1>2, OthersAsk, OwnCovers, OwnAsks DEF VInv
<1>3. ASSUME VInv, UNCHANGED vars PROVE VInv'
  <2>1. SUFFICES ASSUME NEW c \in Call PROVE Asked(c)' /\ Fresh(c)' /\ Covers(c)'
    BY DEF VInv
  <2>2. Asked(c) /\ Fresh(c) /\ Covers(c)
    BY <1>3 DEF VInv
  <2>3. Asked(c)' /\ Fresh(c)'
    BY <1>3, <2>2 DEF Asked, Fresh, InBatch, vars
  <2>4. (\A x : SameContent(x)' = SameContent(x)) /\ InBatch(c)' = InBatch(c) /\ Looked(c)' = Looked(c)
    BY <1>3 DEF SameContent, LatestRows, LatestVersion, Versions, InBatch, Looked, vars
  <2>5. pc' = pc /\ pending' = pending /\ seen' = seen /\ log' = log /\ req' = req
    BY <1>3 DEF vars
  <2>. QED BY <2>2, <2>3, <2>4, <2>5 DEF Covers, Says
<1>. QED BY <1>1, <1>2, <1>3 DEF Next, Terminated

-----------------------------------------------------------------------------
(* Histories as sequences. *)

\* A later row of an entity has a later version.
LEMMA VersionsGrow ==
  ASSUME OInv, NEW e, NEW i \in RowsOf(e), NEW j \in RowsOf(e), i < j
  PROVE  log[i].version < log[j].version
<1>. DEFINE before(k) == {l \in 1 .. k - 1 : log[l].entity = log[k].entity}
<1>1. /\ i \in Nat \ {0} /\ j \in Nat \ {0} /\ i \in DOMAIN log /\ j \in DOMAIN log
      /\ log[i].entity = e /\ log[j].entity = e
  BY Counting DEF OInv, RowsOf
<1>2. /\ log[i].version = 1 + Cardinality(before(i))
      /\ log[j].version = 1 + Cardinality(before(j))
  BY <1>1 DEF OInv, HistoriesLinear
<1>3. i - 1 \in Int /\ j - 1 \in Int
  BY <1>1
<1>4. before(i) \in SUBSET (1 .. i - 1) /\ before(j) \in SUBSET (1 .. j - 1)
  OBVIOUS
<1>5. IsFiniteSet(before(i)) /\ IsFiniteSet(before(j))
  <2>1. IsFiniteSet(1 .. i - 1) /\ IsFiniteSet(1 .. j - 1)
    BY <1>3, FS_Interval
  <2>. QED BY <1>4, <2>1, FS_Subset
<1>6. i \notin before(i) /\ before(i) \cup {i} \in SUBSET before(j)
  BY <1>1
<1>. HIDE DEF before
<1>7. Cardinality(before(i) \cup {i}) = Cardinality(before(i)) + 1
  BY <1>5, <1>6, FS_AddElement
<1>8. Cardinality(before(i) \cup {i}) <= Cardinality(before(j))
  BY <1>5, <1>6, FS_Subset
<1>9. Cardinality(before(i)) \in Nat /\ Cardinality(before(j)) \in Nat
  BY <1>5, FS_CardinalityType
<1>. QED BY <1>2, <1>7, <1>8, <1>9

\* A version of an entity is in one row.
LEMMA OwnVersions ==
  ASSUME OInv, NEW e, NEW i \in RowsOf(e), NEW j \in RowsOf(e), log[i].version = log[j].version
  PROVE  i = j
<1>1. i \in Nat /\ j \in Nat
  BY Counting DEF OInv
<1>2. log[i].version \in Nat /\ log[j].version \in Nat
  <2>1. log[i] \in Row /\ log[j] \in Row
    BY Counting DEF OInv
  <2>. QED BY <2>1 DEF Row
<1>3. ~(i < j) /\ ~(j < i)
  BY <1>2, VersionsGrow
<1>. QED BY <1>1, <1>3

Contents == [body : Body, label : Label]

\* The history of an entity is a sequence that says, by version, what its rows say.
LEMMA HistoryOf ==
  ASSUME OInv, NEW e \in Entity
  PROVE  /\ Count(e) \in Nat /\ History(e) \in Seq(Contents) /\ Len(History(e)) = Count(e)
         /\ History(e) = <<>> <=> Count(e) = 0
         /\ \A i \in RowsOf(e) : /\ log[i].version \in 1 .. Count(e)
                                 /\ History(e)[log[i].version] = Said(log[i])
         /\ \A v \in 1 .. Count(e) : \E i \in RowsOf(e) : log[i].version = v
<1>. DEFINE picked(v) == CHOOSE i \in AtVersion(e, v) : TRUE
            past == [v \in 1 .. Count(e) |-> Said(log[picked(v)])]
<1>1. Count(e) \in Nat /\ \A i \in RowsOf(e) : log[i] \in Row
  BY Counting DEF OInv
<1>2. /\ \A i \in RowsOf(e) : log[i].version \in 1 .. Count(e)
      /\ \A v \in 1 .. Count(e) : \E i \in RowsOf(e) : log[i].version = v
  BY DEF OInv, Dense
<1>3. \A v \in 1 .. Count(e) : picked(v) \in RowsOf(e) /\ log[picked(v)].version = v
  <2>1. SUFFICES ASSUME NEW v \in 1 .. Count(e)
                 PROVE  picked(v) \in RowsOf(e) /\ log[picked(v)].version = v
    OBVIOUS
  <2>2. AtVersion(e, v) # {}
    BY <1>2 DEF AtVersion
  <2>3. picked(v) \in AtVersion(e, v)
    BY <2>2
  <2>. QED BY <2>3 DEF AtVersion
<1>4. History(e) = past
  BY DEF History, Count
<1>. HIDE DEF picked
<1>5. \A r \in Row : Said(r) \in Contents
  BY DEF Said, Row, Contents
<1>6. past \in [1 .. Count(e) -> Contents]
  BY <1>1, <1>3, <1>5
<1>7. past \in Seq(Contents)
  BY <1>1, <1>6, SeqDef
<1>8. DOMAIN past = 1 .. Len(past) /\ Len(past) \in Nat /\ DOMAIN past = 1 .. Count(e)
  BY <1>7, LenProperties
<1>9. Len(past) = Count(e)
  BY <1>1, <1>8
<1>10. past = <<>> <=> Count(e) = 0
  BY <1>7, <1>9, EmptySeq
<1>11. \A i \in RowsOf(e) : past[log[i].version] = Said(log[i])
  <2>1. SUFFICES ASSUME NEW i \in RowsOf(e) PROVE past[log[i].version] = Said(log[i])
    OBVIOUS
  <2>2. log[i].version \in 1 .. Count(e)
    BY <1>2
  <2>3. picked(log[i].version) = i
    BY <1>3, <2>2, OwnVersions
  <2>. QED BY <2>2, <2>3
<1>. QED BY <1>1, <1>2, <1>4, <1>7, <1>9, <1>10, <1>11

Histories ==
  \A e \in Entity :
    /\ Count(e) \in Nat /\ History(e) \in Seq(Contents) /\ Len(History(e)) = Count(e)
    /\ \A i \in RowsOf(e) : History(e)[log[i].version] = Said(log[i])

LEMMA HistoriesAlways == OInv => Histories
BY HistoryOf DEF Histories

LEMMA HistoriesNext == OInv' => Histories'
BY HistoriesAlways, PTL

\* A commit leaves a history as it was, or with one version more: what its row of the entity says.
LEMMA HistoryAfter ==
  ASSUME OInv, OInv', NEW c \in Call, pc[c] = "commit", Install(c), NEW e \in Entity
  PROVE  /\ (\A m \in DOMAIN pending[c] : pending[c][m].entity # e) => History(e)' = History(e)
         /\ \A m \in DOMAIN pending[c] : pending[c][m].entity = e =>
              History(e)' = Append(History(e), Said(pending[c][m]))
<1>. DEFINE n == Len(log)
            p == pending[c]
            old == History(e)
            new == History(e)'
<1>1. /\ n \in Nat /\ DOMAIN log = 1 .. n /\ DOMAIN p = 1 .. Len(p)
      /\ \A i \in DOMAIN log : log'[i] = log[i]
      /\ \A m \in DOMAIN p : log'[n + m] = p[m]
  BY Grows
<1>2. /\ Count(e) \in Nat /\ old \in Seq(Contents) /\ Len(old) = Count(e)
      /\ \A i \in RowsOf(e) : old[log[i].version] = Said(log[i])
      /\ \A v \in 1 .. Count(e) : \E i \in RowsOf(e) : log[i].version = v
  BY HistoryOf
<1>3. /\ Count(e)' \in Nat /\ new \in Seq(Contents) /\ Len(new) = Count(e)'
      /\ \A i \in RowsOf(e)' : new[log'[i].version] = Said(log'[i])
  BY HistoriesNext DEF Histories
<1>4. \A i \in RowsOf(e) : i \in DOMAIN log /\ log'[i] = log[i]
  BY <1>1 DEF RowsOf
<1>. HIDE DEF old, new, n, p
<1>5. ASSUME RowsOf(e) \subseteq RowsOf(e)', NEW v \in 1 .. Count(e) PROVE new[v] = old[v]
  <2>1. PICK i \in RowsOf(e) : log[i].version = v
    BY <1>2
  <2>. QED BY <1>2, <1>3, <1>4, <1>5, <2>1
<1>6. ASSUME \A m \in DOMAIN p : p[m].entity # e PROVE new = old
  <2>1. RowsOf(e)' = RowsOf(e) /\ Count(e)' = Count(e)
    BY <1>6, CountAfter DEF p
  <2>2. \A v \in 1 .. Len(new) : new[v] = old[v]
    BY <1>2, <1>3, <1>5, <2>1
  <2>. QED BY <1>2, <1>3, <2>1, <2>2, SeqEqual
<1>7. ASSUME NEW m \in DOMAIN p, p[m].entity = e PROVE new = Append(old, Said(p[m]))
  <2>. DEFINE longer == Append(old, Said(p[m]))
  <2>1. RowsOf(e)' = RowsOf(e) \cup {n + m} /\ Count(e)' = Count(e) + 1
    BY <1>7, CountAfter DEF p, n
  <2>2. p[m] \in Row /\ p[m].version = Count(e) + 1
    BY <1>7, CommitFollows DEF Follows, p
  <2>3. Said(p[m]) \in Contents
    BY <2>2 DEF Said, Row, Contents
  <2>4. /\ longer \in Seq(Contents) /\ Len(longer) = Len(old) + 1
        /\ \A v \in 1 .. Len(old) : longer[v] = old[v]
        /\ longer[Len(old) + 1] = Said(p[m])
    BY <1>2, <2>3, AppendProperties
  <2>. HIDE DEF longer
  <2>5. new[Count(e) + 1] = Said(p[m])
    BY <1>1, <1>3, <2>1, <2>2
  <2>6. \A v \in 1 .. Count(e) : new[v] = old[v]
    BY <1>5, <2>1
  <2>7. \A v \in 1 .. Len(new) : new[v] = longer[v]
    BY <1>2, <1>3, <2>1, <2>4, <2>5, <2>6
  <2>8. Len(new) = Len(longer)
    BY <1>2, <1>3, <2>1, <2>4
  <2>9. new = longer
    BY <1>3, <2>4, <2>7, <2>8, SeqEqual
  <2>. QED BY <2>9 DEF longer
<1>. QED BY <1>6, <1>7 DEF old, new, p

-----------------------------------------------------------------------------
(* Steps as steps of AtomicVersions. *)

\* What the drafts are compared with is the end of the history.
LEMMA NewsInHistory ==
  ASSUME OInv, NEW d \in Draft
  PROVE  /\ Versioned!Differs(d) <=> ~SameContent(d)
         /\ Versioned!OtherBody(d) <=> ~SameBody(d)
<1>. DEFINE e == d.entity
            past == History(e)
<1>1. e \in Entity /\ TypeOK /\ Dense
  BY DEF Draft, OInv
<1>2. /\ Count(e) \in Nat /\ Len(past) = Count(e) /\ (past = <<>> <=> Count(e) = 0)
      /\ \A i \in RowsOf(e) : log[i].version \in 1 .. Count(e) /\ past[log[i].version] = Said(log[i])
      /\ \A v \in 1 .. Count(e) : \E i \in RowsOf(e) : log[i].version = v
  BY <1>1, HistoryOf
<1>3. /\ Versioned!Differs(d) <=> past = <<>> \/ past[Len(past)] # [body |-> d.body, label |-> d.label]
      /\ Versioned!OtherBody(d) <=> past = <<>> \/ past[Len(past)].body # d.body
  BY <1>1 DEF Versioned!Differs, Versioned!OtherBody, Versioned!Content
<1>4. /\ ~SameBody(d) <=> \A i \in RowsOf(e) : log[i].version = Count(e) => log[i].body # d.body
      /\ ~SameContent(d) <=> \A i \in RowsOf(e) :
           log[i].version = Count(e) => ~(log[i].body = d.body /\ log[i].label = d.label)
  BY <1>1, News
<1>. HIDE DEF e, past
<1>5. CASE Count(e) = 0
  <2>1. RowsOf(e) = {}
    BY <1>2, <1>5
  <2>. QED BY <1>2, <1>3, <1>4, <1>5, <2>1
<1>6. CASE Count(e) # 0
  <2>1. PICK i \in RowsOf(e) : log[i].version = Count(e)
    BY <1>2, <1>6
  <2>2. past[Len(past)] = Said(log[i]) /\ past # <<>>
    BY <1>2, <1>6, <2>1
  <2>3. \A j \in RowsOf(e) : log[j].version = Count(e) => j = i
    BY <2>1, OwnVersions
  <2>4. /\ Said(log[i]).body = log[i].body
        /\ Said(log[i]) = [body |-> d.body, label |-> d.label] <=>
             log[i].body = d.body /\ log[i].label = d.label
    BY DEF Said
  <2>. QED BY <1>3, <1>4, <2>1, <2>2, <2>3, <2>4
<1>. QED BY <1>5, <1>6

\* A commit extends the histories by the drafts its rows say.
LEMMA Extends ==
  ASSUME OInv, OInv', NEW c \in Call, pc[c] = "commit", Install(c), NEW D \in SUBSET Draft,
         \A d1, d2 \in D : d1.entity = d2.entity => d1 = d2,
         \A d \in D : \E m \in DOMAIN pending[c] : Says(pending[c][m], d),
         \A m \in DOMAIN pending[c] : \E d \in D : Says(pending[c][m], d)
  PROVE  Versioned!Extend(D)
<1>1. ASSUME NEW e \in Entity
      PROVE  History(e)' = IF \E d \in D : d.entity = e
                           THEN Append(History(e), Versioned!Content(CHOOSE d \in D : d.entity = e))
                           ELSE History(e)
  <2>1. CASE \E d \in D : d.entity = e
    <3>. DEFINE d == CHOOSE x \in D : x.entity = e
    <3>1. d \in D /\ d.entity = e
      BY <2>1
    <3>2. PICK m \in DOMAIN pending[c] : Says(pending[c][m], d)
      BY <3>1
    <3>3. pending[c][m].entity = e /\ Said(pending[c][m]) = Versioned!Content(d)
      BY <3>1, <3>2 DEF Says, Said, Versioned!Content
    <3>. QED BY <2>1, <3>3, HistoryAfter
  <2>2. CASE ~\E d \in D : d.entity = e
    <3>1. \A m \in DOMAIN pending[c] : pending[c][m].entity # e
      BY <2>2 DEF Says
    <3>. QED BY <2>2, <3>1, HistoryAfter
  <2>. QED BY <2>1, <2>2
<1>. QED BY <1>1 DEF Versioned!Extend

\* A batch's commit: its drafts that are news, and no other.
LEMMA BatchSimulates ==
  ASSUME OInv, OInv', VInv, NEW c \in Call, Step(c), pc[c] = "commit", Install(c), InBatch(c)
  PROVE  Versioned!Batch(c)
<1>. DEFINE D == {d \in Versioned!Drafts(c) : Versioned!Differs(d)}
            drafts == req[c].drafts
            p == pending[c]
<1>1. /\ drafts \in Seq(Draft) /\ \A i, j \in DOMAIN drafts : drafts[i].entity = drafts[j].entity => i = j
      /\ req[c].op \in {"batch", "seed"} /\ seen[c].seq = Len(log)
  BY Drafted, Commits DEF OInv, Local, InBatch
<1>2. \A k \in DOMAIN drafts : drafts[k] \in Draft /\ drafts[k] \in Versioned!Drafts(c)
  BY <1>1 DEF Versioned!Drafts
<1>3. /\ \A m \in DOMAIN p : \E k \in DOMAIN drafts : Says(p[m], drafts[k])
      /\ \A k \in DOMAIN drafts : SameContent(drafts[k]) \/ \E m \in DOMAIN p : Says(p[m], drafts[k])
  BY <1>1 DEF VInv, Covers, InTransaction, Looked
<1>4. \A m \in DOMAIN p : Follows(c, p[m])
  BY CommitFollows
<1>. HIDE DEF p, drafts
<1>5. \A d \in D : \E k \in DOMAIN drafts : d = drafts[k] /\ d \in Draft /\ ~SameContent(d)
  BY <1>2, NewsInHistory DEF Versioned!Drafts, drafts
<1>6. \A m \in DOMAIN p : \E d \in D : Says(p[m], d)
  <2>1. SUFFICES ASSUME NEW m \in DOMAIN p PROVE \E d \in D : Says(p[m], d)
    OBVIOUS
  <2>2. PICK k \in DOMAIN drafts : Says(p[m], drafts[k])
    BY <1>3
  <2>. DEFINE d == drafts[k]
  <2>3. /\ d \in Draft /\ d \in Versioned!Drafts(c)
        /\ p[m].entity = d.entity /\ p[m].body = d.body /\ p[m].label = d.label
    BY <1>2, <2>2 DEF Says
  <2>4. \A j \in RowsOf(d.entity) : log[j].version = Count(d.entity) =>
          ~(log[j].body = d.body /\ log[j].label = d.label)
    BY <1>1, <1>4, <2>3 DEF Follows, Tells, Differs
  <2>5. ~SameContent(d)
    BY <2>3, <2>4, News DEF OInv
  <2>. QED BY <2>2, <2>3, <2>5, NewsInHistory
<1>7. D \in SUBSET Draft /\ \A d1, d2 \in D : d1.entity = d2.entity => d1 = d2
  BY <1>1, <1>5
<1>8. \A d \in D : \E m \in DOMAIN p : Says(p[m], d)
  BY <1>3, <1>5
<1>. HIDE DEF D
<1>9. Versioned!Extend(D)
  BY <1>6, <1>7, <1>8, Extends DEF p
<1>. QED BY <1>1, <1>9 DEF Versioned!Batch, D

\* A single write's commit: its draft, on the condition its caller named.
LEMMA SingleSimulates ==
  ASSUME OInv, OInv', VInv, NEW c \in Call, Step(c), pc[c] = "commit", Install(c), ~InBatch(c)
  PROVE  Versioned!Insert(c) \/ Versioned!Upsert(c) \/ Versioned!Project(c) \/ Versioned!Converge(c)
<1>. DEFINE d == DraftOf(c)
            row == NewRow(c, d, latest[c] + 1, seen[c])
            past == History(d.entity)
<1>1. /\ d \in Draft /\ d.entity \in Entity /\ req[c].op \in Op /\ req[c].op # "batch"
      /\ d \in Versioned!Drafts(c)
  BY Known, Drafted DEF OInv, Local, InBatch, RequestType, Versioned!Drafts, DraftOf
<1>2. /\ pending[c] = <<row>> /\ latest[c] = Count(d.entity)
      /\ expect[c] # None => latest[c] = expect[c]
      /\ req[c].op = "insert" => latest[c] = 0
  BY DEF OInv, Local, Single
<1>3. Says(row, d) /\ Follows(c, row)
  <2>1. Follows(c, pending[c][1])
    BY <1>2, CommitFollows
  <2>. QED BY <1>2, <2>1 DEF Says, NewRow
<1>4. Versioned!Extend({d})
  <2>1. {d} \in SUBSET Draft
    BY <1>1
  <2>2. \A m \in DOMAIN pending[c] : Says(pending[c][m], d)
    BY <1>2, <1>3
  <2>3. 1 \in DOMAIN pending[c]
    BY <1>2
  <2>. HIDE DEF d
  <2>. QED BY <2>1, <2>2, <2>3, Extends
<1>5. /\ Len(past) = Count(d.entity) /\ (past = <<>> <=> Count(d.entity) = 0)
      /\ [e \in Entity |-> History(e)][d.entity] = past
  BY <1>1, HistoryOf
<1>6. Tells(c) => /\ ~SameContent(d)
                  /\ req[c].op = "project" => ~SameBody(d)
  <2>1. row.entity = d.entity /\ row.body = d.body /\ row.label = d.label
    BY DEF NewRow
  <2>. HIDE DEF row, d
  <2>2. Tells(c) => \A k \in RowsOf(d.entity) : log[k].version = Count(d.entity) =>
          /\ ~(log[k].body = d.body /\ log[k].label = d.label)
          /\ req[c].op = "project" => log[k].body # d.body
    BY <1>3, <2>1 DEF Follows, Differs
  <2>. QED BY <1>1, <2>2, News DEF OInv
<1>. HIDE DEF d, row, past
<1>7. CASE req[c].op = "insert"
  BY <1>1, <1>2, <1>4, <1>5, <1>7 DEF Versioned!Insert
<1>8. CASE req[c].op = "upsert"
  <2>1. expect[c] = req[c].expected
    BY <1>8 DEF VInv, Asked
  <2>2. req[c].expected \in {None, Count(d.entity)}
    BY <1>2, <2>1
  <2>. QED BY <1>1, <1>4, <1>5, <1>8, <2>2 DEF Versioned!Upsert
<1>9. CASE req[c].op = "project"
  <2>1. Versioned!OtherBody(d)
    BY <1>1, <1>6, <1>9, NewsInHistory DEF Tells
  <2>. QED BY <1>1, <1>4, <1>9, <2>1 DEF Versioned!Project
<1>10. CASE req[c].op = "seed"
  <2>1. Versioned!Differs(d)
    BY <1>1, <1>6, <1>10, NewsInHistory DEF Tells
  <2>. QED BY <1>1, <1>4, <1>10, <2>1 DEF Versioned!Converge
<1>. QED BY <1>1, <1>7, <1>8, <1>9, <1>10 DEF Op

\* Whatever statements a transaction runs and however they interleave, each
\* commit of insert_operational, upsert_operational, a projection, a batch or a
\* seeding adds to the histories what one conditional step would, judged
\* against the histories at the commit; no other statement changes them.
THEOREM WritesAreAtomic == Spec => ImplementsVersions
<1>1. Init => Versioned!Init
  <2>. SUFFICES ASSUME Init PROVE Versioned!Init
    OBVIOUS
  <2>1. \A e \in Entity : RowsOf(e) = {}
    BY DEF Init, RowsOf
  <2>2. \A e \in Entity : History(e) = <<>>
    BY <2>1, InitHolds, HistoryOf, FS_EmptySet DEF Count
  <2>. QED BY <2>2 DEF Init, Versioned!Init
<1>2. UNCHANGED <<log, req>> => UNCHANGED Versioned!vars
  BY DEF Versioned!vars, History, RowsOf, AtVersion, Said
<1>3. ASSUME OInv, OInv', VInv, NEW c \in Call, Step(c)
      PROVE  [Versioned!Next]_(Versioned!vars)
  <2>1. req' = req
    BY <1>3, Framed
  <2>2. CASE log' = log
    BY <1>2, <2>1, <2>2
  <2>3. CASE pc[c] = "commit" /\ Install(c)
    BY <1>3, <2>1, <2>3, BatchSimulates, SingleSimulates DEF Versioned!Next
  <2>. QED BY <1>3, <2>2, <2>3, Framed
<1>4. OInv /\ OInv' /\ VInv /\ [Next]_vars => [Versioned!Next]_(Versioned!vars)
  BY <1>2, <1>3 DEF Next, Terminated, vars
<1>. QED
  BY Invariance, VersionsInvariant, <1>1, <1>4, PTL DEF Spec, ImplementsVersions, Versioned!Spec
=============================================================================
