------------------------------ MODULE LyteStore ------------------------------
(***************************************************************************)
(* The append-only streams of lyte/persistence/store.py and the calls that *)
(* write them: append_receipt, append_analysis_bundle, append_memory,      *)
(* append_anatomy_trace, and verify_chain, which reads them.  Every call   *)
(* runs one database transaction, statement by statement, concurrently     *)
(* with the others; it may be aborted at any statement, and the reply to a *)
(* commit may be lost.  The operational stream is in OperationalStore.     *)
(*                                                                         *)
(* A row keeps its sequence number, the hash of its predecessor, the call  *)
(* that wrote it (whose request stands for the row's data) and the receipt *)
(* hash it stores, if any.  SHA-256 is taken to be injective on canonical  *)
(* bases; a basis names its stream, its sequence and its writer's data, so *)
(* a hash is the triple of them.                                           *)
(***************************************************************************)
EXTENDS Naturals, Sequences, FiniteSets

CONSTANTS Call,         \* API calls; each runs once, a retry is another call
          Scope,        \* (tenant, workspace) pairs a request may name
          Provisioned,  \* the scopes whose workspace and stream heads exist
          Key,          \* idempotency keys
          Digest,       \* request digests
          Requests,     \* the requests calls may carry
          Traces,       \* anatomy traces of one bundle (9 in the code)
          Dialect,      \* "postgresql" or "sqlite"
          None          \* absent value

Kind == {"receipts", "idempotency", "memory", "anatomy"}
Op == {"receipt", "bundle", "memory", "trace", "verify"}
Label == {"MEASURED", "REPORTED", "MODELED", "SAMPLE", "ROADMAP", "UNAVAILABLE"}

RequestType == [op : Op, scope : Scope, key : Key \cup {None},
                digest : Digest, label : Label]

\* Digests are over disjoint canonical forms: two keyed requests with one
\* digest are the same request but for their scope and key.
ASSUME RequestsAssumption ==
  /\ Requests \subseteq RequestType
  /\ \A r \in Requests :
       /\ r.op = "bundle" => r.key # None
       /\ r.op \notin {"receipt", "bundle"} => r.key = None
  /\ \A q, r \in Requests : q.digest = r.digest /\ q.key # None /\ r.key # None
                              => q.op = r.op /\ q.label = r.label

ASSUME ConstantsAssumption ==
  /\ Provisioned \subseteq Scope
  /\ Traces \in Nat \ {0}
  /\ Dialect \in {"postgresql", "sqlite"}
  /\ None \notin Call
  /\ None \notin Key

Stream == Scope \X Kind
HashOf(st, n, c) == <<st, n, c>>
Hash == Stream \X Nat \X Call

Row == [seq : Nat, prev : Hash \cup {None}, call : Call, ref : Hash \cup {None}]
StreamHead == [seq : Nat, hash : Hash \cup {None}]
EmptyHead == [seq |-> 0, hash |-> None]

Status == {"ok", "replay", "conflict", "rejected", "failed", "broken", "valid", "invalid"}
Answer == [status : Status, receipt : Hash \cup {None}]

ASSUME NoneAssumption == None \notin Hash /\ None \notin Answer

Reply(status, h) == [status |-> status, receipt |-> h]

VARIABLES log,     \* committed rows of each stream
          head,    \* committed row of stream_heads for each stream
          lock,    \* call holding SELECT ... FOR UPDATE on a stream's head
          writer,  \* call holding SQLite's database write lock
          req,     \* what each call asks for
          pc,      \* next statement of each call
          cites,   \* receipt hash a memory call was given
          seen,    \* stream heads a call has read in its transaction
          answer   \* what each call returned

vars == <<log, head, lock, writer, req, pc, cites, seen, answer>>

NothingSeen == [k \in Kind |-> None]

Init ==
  /\ log = [st \in Stream |-> <<>>]
  /\ head = [st \in Stream |-> EmptyHead]
  /\ lock = [st \in Stream |-> None]
  /\ writer = None
  /\ req \in [Call -> Requests]
  /\ pc = [c \in Call |-> "start"]
  /\ cites = [c \in Call |-> None]
  /\ seen = [c \in Call |-> NothingSeen]
  /\ answer = [c \in Call |-> None]

-----------------------------------------------------------------------------
(* What a call reads and writes. *)

StreamOf(c, k) == <<req[c].scope, k>>

\* The streams a call advances.
Needs(c) ==
  CASE req[c].op = "receipt" -> {"receipts"} \cup
                                (IF req[c].key = None THEN {} ELSE {"idempotency"})
    [] req[c].op = "bundle"  -> Kind
    [] req[c].op = "memory"  -> {"memory"}
    [] req[c].op = "trace"   -> {"anatomy"}
    [] OTHER                 -> {}

\* Every transaction locks heads in this one order.
Rank(k) ==
  CASE k = "receipts" -> 1 [] k = "idempotency" -> 2 [] k = "memory" -> 3 [] OTHER -> 4

\* Labels of evidence receipts a memory of a given label may rest on.
Compatible(label) ==
  CASE label = "MEASURED" -> {"MEASURED"}
    [] label = "REPORTED" -> {"MEASURED", "REPORTED"}
    [] label = "MODELED"  -> {"MEASURED", "REPORTED", "MODELED"}
    [] label = "SAMPLE"   -> {"SAMPLE"}
    [] OTHER              -> {}

RowsOf(st) == {log[st][i] : i \in DOMAIN log[st]}
RowHash(st, row) == HashOf(st, row.seq, row.call)
ReceiptHashes == UNION {{RowHash(<<s, "receipts">>, row) : row \in RowsOf(<<s, "receipts">>)}
                        : s \in Scope}

\* Committed idempotency records for the call's scope and key.
Claims(c) == {row \in RowsOf(StreamOf(c, "idempotency")) :
                /\ req[c].key # None
                /\ req[row.call].key = req[c].key}

\* The receipt a hash names, read through the call's scope.
ReceiptsNamed(c, h) == {row \in RowsOf(StreamOf(c, "receipts")) :
                          RowHash(StreamOf(c, "receipts"), row) = h}

Citing(c, h) == {row \in RowsOf(StreamOf(c, "memory")) : row.ref = h}

\* SELECT memory WHERE receipt_hash = h, with no ORDER BY.  PostgreSQL may
\* return any match; SQLite's plan walks (scope_digest, sequence).
MemoryLookup(c, h) ==
  {row \in Citing(c, h) : Dialect = "sqlite" => \A other \in Citing(c, h) : row.seq <= other.seq}

TracesOf(c, author) == {row \in RowsOf(StreamOf(c, "anatomy")) : row.call = author}

\* _resolve_analysis_bundle on the receipt `author` wrote: the memory found by
\* the lookup must be that bundle's own, and every trace must be there.
BundleReplies(c, author, h) ==
  LET complete(memory) == /\ memory.call = author
                          /\ Cardinality(TracesOf(c, author)) = Traces
  IN  {Reply("replay", h) : memory \in {m \in MemoryLookup(c, h) : complete(m)}}
        \cup {Reply("broken", None) : memory \in {m \in MemoryLookup(c, h) : ~complete(m)}}
        \cup (IF MemoryLookup(c, h) = {} THEN {Reply("broken", None)} ELSE {})

\* Defect: the stored digest is not compared.
Resolutions_IgnoreDigest(c, claim) ==
  IF req[c].op = "receipt" THEN {Reply("replay", claim.ref)}
  ELSE BundleReplies(c, claim.call, claim.ref)

\* What resolving an existing idempotency record may answer.
Resolutions(c, claim) ==
  IF req[claim.call].digest # req[c].digest THEN {Reply("conflict", None)}
  ELSE IF ReceiptsNamed(c, claim.ref) = {} THEN {Reply("broken", None)}
  ELSE IF req[c].op = "receipt" THEN {Reply("replay", claim.ref)}
  ELSE BundleReplies(c, claim.call, claim.ref)

-----------------------------------------------------------------------------
(* The rows a call writes, computed from the heads it read. *)

Copies(c, k) == IF req[c].op = "bundle" /\ k = "anatomy" THEN Traces ELSE 1

LastSeq(c, k) == seen[c][k].seq + Copies(c, k)

OwnReceipt(c) == HashOf(StreamOf(c, "receipts"), seen[c]["receipts"].seq + 1, c)

RefOf(c, k) ==
  CASE k = "idempotency"                      -> OwnReceipt(c)
    [] k = "memory" /\ req[c].op = "bundle"   -> OwnReceipt(c)
    [] k = "memory" /\ req[c].op = "memory"   -> cites[c]
    [] OTHER                                  -> None

NewRow(c, k, i) ==
  [seq  |-> seen[c][k].seq + i,
   prev |-> IF i = 1 THEN seen[c][k].hash
            ELSE HashOf(StreamOf(c, k), seen[c][k].seq + i - 1, c),
   call |-> c,
   ref  |-> RefOf(c, k)]

NewRows(c, k) == [i \in 1..Copies(c, k) |-> NewRow(c, k, i)]

NewHead(c, k) == [seq |-> LastSeq(c, k), hash |-> HashOf(StreamOf(c, k), LastSeq(c, k), c)]

\* Defects: one of the two constraints is missing.
Unique_NoKey(c) ==
  \A k \in Needs(c) : \A row \in RowsOf(StreamOf(c, k)) :
    row.seq \notin seen[c][k].seq + 1 .. LastSeq(c, k)

Unique_NoSequence(c) == "idempotency" \in Needs(c) => Claims(c) = {}

\* The unique constraints (scope, sequence) and (scope, key_digest).
Unique(c) ==
  /\ \A k \in Needs(c) : \A row \in RowsOf(StreamOf(c, k)) :
       row.seq \notin seen[c][k].seq + 1 .. LastSeq(c, k)
  /\ "idempotency" \in Needs(c) => Claims(c) = {}

-----------------------------------------------------------------------------
(* End of a session: locks go with the transaction. *)

\* Defect: the session is not closed, so its row locks stay.
Release_KeepsLocks(c) ==
  /\ writer' = IF writer = c THEN None ELSE writer
  /\ seen' = [seen EXCEPT ![c] = NothingSeen]
  /\ UNCHANGED lock

Release(c) ==
  /\ lock' = [st \in Stream |-> IF lock[st] = c THEN None ELSE lock[st]]
  /\ writer' = IF writer = c THEN None ELSE writer
  /\ seen' = [seen EXCEPT ![c] = NothingSeen]

Return(c, a) ==
  /\ answer' = [answer EXCEPT ![c] = a]
  /\ pc' = [pc EXCEPT ![c] = "done"]
  /\ Release(c)

GoTo(c, label) == pc' = [pc EXCEPT ![c] = label]

Unchanged == UNCHANGED <<log, head, req>>

-----------------------------------------------------------------------------
(* The statements of a transaction. *)

\* _assert_scope fails: ScopeNotFound.
UnknownScope(c) ==
  /\ pc[c] = "start"
  /\ req[c].scope \notin Provisioned
  /\ Return(c, Reply("rejected", None))
  /\ Unchanged /\ UNCHANGED cites

Started(c) == pc[c] = "start" /\ req[c].scope \in Provisioned

\* A keyed call whose key is already recorded answers from the record.
BeginReplay(c) ==
  /\ Started(c)
  /\ \E claim \in Claims(c) : \E a \in Resolutions(c, claim) : Return(c, a)
  /\ Unchanged /\ UNCHANGED cites

\* No record for the key, or no key: on to the stream locks.
BeginWrite(c) ==
  /\ Started(c)
  /\ req[c].op \in {"receipt", "bundle", "trace"}
  /\ Claims(c) = {}
  /\ GoTo(c, "lock")
  /\ Unchanged /\ UNCHANGED <<cites, lock, writer, seen, answer>>

\* append_memory reads its evidence receipt before it locks: the receipt must
\* exist in this scope and its truth label must be able to carry the memory's.
\* None stands for a hash that is malformed or missing from evidence_refs.
\* Defect: the evidence is looked up by its hash alone.
Admits_AnyScope(c, h) ==
  \E s \in Scope : \E row \in RowsOf(<<s, "receipts">>) :
    RowHash(<<s, "receipts">>, row) = h /\ req[row.call].label \in Compatible(req[c].label)

Admits(c, h) == \E row \in ReceiptsNamed(c, h) : req[row.call].label \in Compatible(req[c].label)

BeginMemory(c) ==
  /\ Started(c)
  /\ req[c].op = "memory"
  /\ \E h \in ReceiptHashes \cup {None} :
       \/ /\ Admits(c, h)
          /\ cites' = [cites EXCEPT ![c] = h]
          /\ GoTo(c, "lock")
          /\ UNCHANGED <<lock, writer, seen, answer>>
       \/ /\ ~Admits(c, h)
          /\ Return(c, Reply("rejected", None))
          /\ UNCHANGED cites
  /\ Unchanged

\* _locked_head: SELECT ... FOR UPDATE waits for the row lock on PostgreSQL;
\* SQLite ignores the clause and only reads.
LockHead(c, k) ==
  LET st == StreamOf(c, k)
      read == [seen EXCEPT ![c][k] = head[st]]
      last == \A j \in Needs(c) : read[c][j] # None
  IN  /\ pc[c] = "lock"
      /\ k \in Needs(c)
      /\ seen[c][k] = None
      /\ \A j \in Needs(c) : Rank(j) < Rank(k) => seen[c][j] # None
      /\ \/ /\ Dialect = "postgresql"
            /\ lock[st] = None
            /\ lock' = [lock EXCEPT ![st] = c]
         \/ Dialect = "sqlite" /\ UNCHANGED lock
      /\ seen' = read
      /\ GoTo(c, IF ~last THEN "lock" ELSE IF req[c].op = "bundle" THEN "recheck" ELSE "write")
      /\ Unchanged /\ UNCHANGED <<cites, writer, answer>>

\* append_analysis_bundle looks for its key once more under the locks.
Recheck(c) ==
  /\ pc[c] = "recheck"
  /\ \/ \E claim \in Claims(c) : \E a \in Resolutions(c, claim) : Return(c, a)
     \/ /\ Claims(c) = {}
        /\ GoTo(c, "write")
        /\ UNCHANGED <<lock, writer, seen, answer>>
  /\ Unchanged /\ UNCHANGED cites

\* Defect: nothing is refused at the flush.
Flush_Unchecked(c) ==
  /\ pc[c] = "write"
  /\ Dialect = "sqlite" => writer = None
  /\ writer' = IF Dialect = "sqlite" THEN c ELSE writer
  /\ GoTo(c, "commit")
  /\ Unchanged /\ UNCHANGED <<cites, lock, seen, answer>>

\* session.flush(): the INSERTs reach the database; SQLite takes its write lock.
Flush(c) ==
  /\ pc[c] = "write"
  /\ Dialect = "sqlite" => writer = None
  /\ Unique(c)
  /\ writer' = IF Dialect = "sqlite" THEN c ELSE writer
  /\ GoTo(c, "commit")
  /\ Unchanged /\ UNCHANGED <<cites, lock, seen, answer>>

\* ... or a unique constraint refuses them: IntegrityError and rollback.
FlushRefused(c) ==
  /\ pc[c] = "write"
  /\ Dialect = "sqlite" => writer = None
  /\ ~Unique(c)
  /\ \/ /\ req[c].key # None
        /\ GoTo(c, "recover")
        /\ Release(c)
        /\ UNCHANGED answer
     \/ req[c].key = None /\ Return(c, Reply("failed", None))
  /\ Unchanged /\ UNCHANGED cites

\* The except branch reads the key in a new session.
Recover(c) ==
  /\ pc[c] = "recover"
  /\ \/ \E claim \in Claims(c) : \E a \in Resolutions(c, claim) : Return(c, a)
     \/ Claims(c) = {} /\ Return(c, Reply("failed", None))
  /\ Unchanged /\ UNCHANGED cites

\* Defect: the receipt and its key are committed apart from the rest.
Install_ReceiptFirst(c) ==
  /\ log' = [st \in Stream |-> IF st[1] = req[c].scope /\ st[2] \in Needs(c) /\ Rank(st[2]) <= 2
                               THEN log[st] \o NewRows(c, st[2]) ELSE log[st]]
  /\ UNCHANGED head

\* Defect: an existing row of the stream is updated in place.
Install_Overwrites(c) ==
  /\ log' = [st \in Stream |-> IF st[1] = req[c].scope /\ st[2] \in Needs(c)
                               THEN SubSeq(log[st], 1, Len(log[st]) - 1) \o NewRows(c, st[2])
                               ELSE log[st]]
  /\ head' = [st \in Stream |-> IF st[1] = req[c].scope /\ st[2] \in Needs(c)
                                THEN NewHead(c, st[2]) ELSE head[st]]

\* COMMIT makes the rows and the heads of all the call's streams visible at once.
Install(c) ==
  /\ log' = [st \in Stream |-> IF st[1] = req[c].scope /\ st[2] \in Needs(c)
                               THEN log[st] \o NewRows(c, st[2]) ELSE log[st]]
  /\ head' = [st \in Stream |-> IF st[1] = req[c].scope /\ st[2] \in Needs(c)
                                THEN NewHead(c, st[2]) ELSE head[st]]

Commit(c) ==
  /\ pc[c] = "commit"
  /\ Install(c)
  /\ Return(c, Reply("ok", IF "receipts" \in Needs(c) THEN OwnReceipt(c) ELSE None))
  /\ UNCHANGED <<req, cites>>

\* The commit happened but its reply did not arrive.
CommitReplyLost(c) ==
  /\ pc[c] = "commit"
  /\ Install(c)
  /\ Return(c, Reply("failed", None))
  /\ UNCHANGED <<req, cites>>

\* A database error or a crash of the process rolls the transaction back.
Abort(c) ==
  /\ pc[c] \notin {"start", "done"}
  /\ Return(c, Reply("failed", None))
  /\ Unchanged /\ UNCHANGED cites

-----------------------------------------------------------------------------
(* verify_chain on the receipts: one SELECT of the rows, then the head. *)

\* Rows are numbered from 1 and each names its predecessor's hash.
PrevHash(st, i) == IF i = 1 THEN None ELSE HashOf(st, i - 1, log[st][i - 1].call)
Linked(st) == \A i \in DOMAIN log[st] : log[st][i].seq = i /\ log[st][i].prev = PrevHash(st, i)

\* The head that the rows of a stream call for.
TopOf(st) == IF log[st] = <<>> THEN EmptyHead
             ELSE [seq |-> Len(log[st]), hash |-> RowHash(st, log[st][Len(log[st])])]

VerifyScan(c) ==
  LET st == StreamOf(c, "receipts")
  IN  /\ Started(c)
      /\ req[c].op = "verify"
      /\ IF Linked(st)
         THEN /\ seen' = [seen EXCEPT ![c]["receipts"] = TopOf(st)]
              /\ GoTo(c, "head")
              /\ UNCHANGED <<lock, writer, answer>>
         ELSE Return(c, Reply("invalid", None))
      /\ Unchanged /\ UNCHANGED cites

VerifyHead(c) ==
  /\ pc[c] = "head"
  /\ Dialect = "postgresql" => lock[StreamOf(c, "receipts")] = None
  /\ Return(c, Reply(IF head[StreamOf(c, "receipts")] = seen[c]["receipts"]
                     THEN "valid" ELSE "invalid", None))
  /\ Unchanged /\ UNCHANGED cites

-----------------------------------------------------------------------------
Progress(c) ==
  \/ \E k \in Kind : LockHead(c, k)
  \/ Recheck(c) \/ Flush(c) \/ FlushRefused(c) \/ Recover(c) \/ Commit(c) \/ VerifyHead(c)

Step(c) ==
  \/ UnknownScope(c) \/ BeginReplay(c) \/ BeginWrite(c) \/ BeginMemory(c) \/ VerifyScan(c)
  \/ Progress(c)
  \/ CommitReplyLost(c) \/ Abort(c)

Terminated ==
  /\ \A c \in Call : pc[c] = "done"
  /\ UNCHANGED vars

Next == (\E c \in Call : Step(c)) \/ Terminated

Spec == Init /\ [][Next]_vars

\* A transaction the database and the process keep alive runs on; nothing is
\* assumed of when a client calls or of when something fails.
FairSpec == Spec /\ \A c \in Call : WF_vars(Progress(c))

-----------------------------------------------------------------------------
(* Correctness. *)

\* Every variable keeps its type: rows, heads and locks of every stream, and
\* each call's program counter, heads read and answer.
TypeOK ==
  /\ log \in [Stream -> Seq(Row)]
  /\ head \in [Stream -> StreamHead]
  /\ lock \in [Stream -> Call \cup {None}]
  /\ writer \in Call \cup {None}
  /\ req \in [Call -> Requests]
  /\ pc \in [Call -> {"start", "lock", "recheck", "write", "commit", "recover", "head", "done"}]
  /\ cites \in [Call -> Hash \cup {None}]
  /\ seen \in [Call -> [Kind -> StreamHead \cup {None}]]
  /\ answer \in [Call -> Answer \cup {None}]

\* What verify_chain looks for holds of every committed state: rows are
\* contiguous, each names the hash of its predecessor, and stream_heads agrees
\* with the last row, whatever calls raced, aborted or lost their reply.
ChainIntact == \A st \in Stream : Linked(st) /\ head[st] = TopOf(st)

\* An idempotency key of a scope stands for one receipt: keyed receipts and
\* idempotency records correspond one to one (append_receipt checks the key
\* before it locks and relies on the unique constraint after).
OneReceiptPerKey ==
  \A s \in Scope :
    LET receipts == {row \in RowsOf(<<s, "receipts">>) : req[row.call].key # None}
        records  == RowsOf(<<s, "idempotency">>)
    IN  /\ \A p, q \in receipts : req[p.call].key = req[q.call].key => p = q
        /\ {RowHash(<<s, "receipts">>, row) : row \in receipts} = {row.ref : row \in records}
        /\ Cardinality(records) = Cardinality(receipts)

\* The rows of a call in a stream of its own, by position.
Written(c, k) == {i \in DOMAIN log[StreamOf(c, k)] : log[StreamOf(c, k)][i].call = c}

\* A call's rows are in all the streams it advances, in full, or in none:
\* "all four scoped streams advanced in one database transaction".
WholeBundles ==
  \A c \in Call :
    \/ \A k \in Kind : Cardinality(Written(c, k)) = IF k \in Needs(c) THEN Copies(c, k) ELSE 0
    \/ \A k \in Kind : Cardinality(Written(c, k)) = 0

\* No memory outlives or outranks its evidence: the receipt a memory row names
\* is committed in the same scope with a label that can carry the memory's,
\* or is written by the same bundle with the same label.
MemoryRestsOnEvidence ==
  \A s \in Scope : \A memory \in RowsOf(<<s, "memory">>) :
    \E row \in RowsOf(<<s, "receipts">>) :
      /\ RowHash(<<s, "receipts">>, row) = memory.ref
      /\ \/ req[row.call].label \in Compatible(req[memory.call].label)
         \/ row.call = memory.call

\* What a caller was told stays true.  A receipt returned is committed in the
\* caller's scope and was written for the caller's digest and key; a conflict
\* is told only when another digest holds the key, and by a call that wrote nothing.
Wrote(c) == \E k \in Kind : \E row \in RowsOf(StreamOf(c, k)) : row.call = c

AnswersTruthful ==
  \A c \in Call : answer[c] # None =>
    /\ answer[c].receipt # None =>
         \E row \in ReceiptsNamed(c, answer[c].receipt) :
            /\ req[row.call].digest = req[c].digest
            /\ req[row.call].key = req[c].key
            /\ answer[c].status = "ok" <=> row.call = c
    /\ answer[c].status = "conflict" =>
         /\ \E claim \in Claims(c) : req[claim.call].digest # req[c].digest
         /\ ~Wrote(c)
    /\ answer[c].status = "ok" => Wrote(c)

\* Two calls with one key that both got a receipt got the same receipt, even
\* when the first reply was lost, the two raced, or one lost at the flush.
RetriesAgree ==
  \A c, d \in Call :
    /\ answer[c] # None /\ answer[d] # None
    /\ req[c].scope = req[d].scope /\ req[c].key = req[d].key /\ req[c].key # None
    /\ answer[c].receipt # None /\ answer[d].receipt # None
    => answer[c].receipt = answer[d].receipt

\* Committed rows are never changed, dropped or reordered, and an answer once
\* given is never taken back.
AppendOnly ==
  [][/\ \A st \in Stream : SubSeq(log'[st], 1, Len(log[st])) = log[st]
     /\ \A c \in Call : answer[c] # None => answer'[c] = answer[c]]_vars

\* A replay of a committed bundle is answered from the bundle: it never fails
\* as incomplete.
ReplayReadsBundle == \A c \in Call : answer[c] # None => answer[c].status # "broken"

\* verify_chain never reports a defect in streams that have none.  Not a property of the code:
\* an append committed between its two statements shows as a head mismatch (README).
VerifyTellsTruth ==
  \A c \in Call : answer[c] # None /\ answer[c].status = "invalid" =>
    \E st \in Stream : ~Linked(st) \/ head[st] # TopOf(st)

\* A call that has begun its transaction returns: no set of calls waits on
\* one another's head locks for ever.
EveryCallReturns == \A c \in Call : (pc[c] # "start") ~> (pc[c] = "done")

-----------------------------------------------------------------------------
(* What the transactions amount to: the atomic ledger of AtomicLedger. *)

\* The ledger shows a stream as the calls that wrote it ...
Authors(rows) == [i \in DOMAIN rows |-> rows[i].call]

\* ... and a receipt hash as the call it names.
Shown(a) == IF a = None THEN None
            ELSE [status  |-> a.status,
                  receipt |-> IF a.receipt = None THEN None ELSE a.receipt[3]]

Ledger == INSTANCE AtomicLedger
            WITH ledger <- [st \in Stream |-> Authors(log[st])],
                 answer <- [c \in Call |-> Shown(answer[c])]

\* Every behaviour of the transactions is one of the atomic ledger: each call
\* of store.py takes effect at one instant, in all its streams or in none, and
\* an idempotency key is spent once.
ImplementsLedger == Ledger!Spec

=============================================================================
