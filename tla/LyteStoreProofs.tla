---------------------------- MODULE LyteStoreProofs ----------------------------
(***************************************************************************)
(* The safety properties of LyteStore and its refinement of AtomicLedger,  *)
(* for any number of calls, scopes, keys and traces and for both dialects. *)
(*                                                                         *)
(* Chains.  A call computes its rows from heads it read earlier, so        *)
(* ChainIntact is not inductive alone.  The argument: every head a call    *)
(* has read is the head of a prefix of its stream (Snapshots); at the      *)
(* flush the unique constraint on (scope, sequence) shows that the prefix  *)
(* is the whole stream; and from there to the commit nobody else can       *)
(* append, on PostgreSQL because the call still holds the head's row lock  *)
(* (LocksHeld), on SQLite because it holds the write lock (FlushedCurrent).*)
(*                                                                         *)
(* History: only the commit changes a stream, and by InstallContinues what *)
(* it leaves begins with what was there.  A call that has answered is done *)
(* (AnsweredIsDone), and only a call that is not takes a step.             *)
(*                                                                         *)
(* A receipt and its idempotency record are written by one commit (Paired),*)
(* at most one of each by one call (OncePerCall, from NotYet: a call that  *)
(* is not done has written nothing).  The unique constraint on (scope,     *)
(* key_digest) is checked at the flush; the records stand until the commit *)
(* because no two calls stand before their commits on one stream           *)
(* (Unclaimed), so that no key is spent twice (SpentOnce).                 *)
(*                                                                         *)
(* An answer is true when it is given, because the record it rests on is   *)
(* paired with its receipt (Paired) and a call that has not returned has   *)
(* written nothing (NotYet); and it stays true, because rows stay and      *)
(* nobody else's row is the caller's own.                                  *)
(*                                                                         *)
(* One commit writes all of a call's rows (CommitWrites); a memory rests   *)
(* on a receipt that was committed when append_memory read it (Cited) or   *)
(* that its own bundle commits beside it.                                  *)
(*                                                                         *)
(* With these facts a step of a call is a step of the atomic ledger or is  *)
(* invisible in it (StepInLedger), so that LyteStore implements            *)
(* AtomicLedger.                                                           *)
(***************************************************************************)
EXTENDS LyteStore, FiniteSetTheorems, SequenceTheorems, TLAPS

\* The head of the first n rows of a stream.
HashAt(st, n) == IF n = 0 THEN None ELSE HashOf(st, n, log[st][n].call)
HeadAt(st, n) == [seq |-> n, hash |-> HashAt(st, n)]

\* Heads read earlier are heads of prefixes.
Snapshots ==
  \A c \in Call, k \in Kind : seen[c][k] # None =>
    /\ seen[c][k].seq <= Len(log[StreamOf(c, k)])
    /\ seen[c][k] = HeadAt(StreamOf(c, k), seen[c][k].seq)

\* Past the locking loop every needed head has been read.
AllRead ==
  \A c \in Call : pc[c] \in {"recheck", "write", "commit"} =>
    \A k \in Needs(c) : seen[c][k] # None

\* On PostgreSQL a writer that has read a head holds its lock.
LocksHeld ==
  Dialect = "postgresql" =>
    \A c \in Call, k \in Kind : k \in Needs(c) /\ seen[c][k] # None
                                  => lock[StreamOf(c, k)] = c

\* Flushed rows continue the stream as it stands.
FlushedCurrent ==
  \A c \in Call : pc[c] = "commit" =>
    /\ Dialect = "sqlite" => writer = c
    /\ \A k \in Needs(c) : seen[c][k].seq = Len(log[StreamOf(c, k)])

IInv == TypeOK /\ ChainIntact /\ Snapshots /\ AllRead /\ LocksHeld /\ FlushedCurrent

-----------------------------------------------------------------------------
(* The operators of the model. *)

\* A call advances streams of the four kinds, and only of its own scope.
LEMMA NeedsType ==
  ASSUME NEW c \in Call
  PROVE  /\ Needs(c) \subseteq Kind
         /\ "idempotency" \in Needs(c) => "receipts" \in Needs(c)
         /\ req[c].op = "bundle" => "receipts" \in Needs(c)
  BY DEF Needs, Kind

\* A bundle writes Traces anatomy rows; everything else writes one row.
LEMMA CopiesType ==
  ASSUME NEW c \in Call, NEW k \in Kind
  PROVE  Copies(c, k) \in Nat \ {0}
  BY ConstantsAssumption DEF Copies

\* Requests name scopes, so the streams of a call are streams of the store.
LEMMA StreamOfType ==
  ASSUME TypeOK, NEW c \in Call, NEW k \in Kind
  PROVE  StreamOf(c, k) \in Stream
  BY RequestsAssumption DEF TypeOK, StreamOf, Stream, RequestType

\* The rows a flushed call installs are well typed.
LEMMA NewRowsType ==
  ASSUME TypeOK, NEW c \in Call, NEW k \in Needs(c),
         \A j \in Needs(c) : seen[c][j] # None
  PROVE  /\ NewRows(c, k) \in Seq(Row)
         /\ Len(NewRows(c, k)) = Copies(c, k)
         /\ \A i \in 1..Copies(c, k) : NewRows(c, k)[i] = NewRow(c, k, i)
         /\ NewHead(c, k) \in StreamHead
<1>1. k \in Kind /\ Copies(c, k) \in Nat \ {0} /\ StreamOf(c, k) \in Stream
  BY NeedsType, CopiesType, StreamOfType
<1>2. seen[c][k] \in StreamHead
  BY <1>1 DEF TypeOK
<1>3. "receipts" \in Needs(c) => OwnReceipt(c) \in Hash
  <2>. SUFFICES ASSUME "receipts" \in Needs(c) PROVE OwnReceipt(c) \in Hash
    OBVIOUS
  <2>1. seen[c]["receipts"] \in StreamHead
    BY DEF TypeOK, Kind
  <2>2. StreamOf(c, "receipts") \in Stream
    BY StreamOfType DEF Kind
  <2>. QED BY <2>1, <2>2 DEF OwnReceipt, HashOf, Hash, StreamHead
<1>4. RefOf(c, k) \in Hash \cup {None}
  BY <1>3, NeedsType DEF RefOf, TypeOK
<1>5. ASSUME NEW i \in 1..Copies(c, k)
      PROVE  NewRow(c, k, i) \in Row
  <2>1. seen[c][k].seq \in Nat /\ seen[c][k].hash \in Hash \cup {None} /\ i \in Nat \ {0}
    BY <1>1, <1>2 DEF StreamHead
  <2>2. i # 1 => HashOf(StreamOf(c, k), seen[c][k].seq + i - 1, c) \in Hash
    BY <1>1, <2>1 DEF HashOf, Hash
  <2>3. (IF i = 1 THEN seen[c][k].hash
         ELSE HashOf(StreamOf(c, k), seen[c][k].seq + i - 1, c)) \in Hash \cup {None}
    BY <2>1, <2>2
  <2>. QED BY <1>4, <2>1, <2>3 DEF NewRow, Row
<1>6. NewRows(c, k) \in [1..Copies(c, k) -> Row]
  BY <1>5 DEF NewRows
<1>7. NewRows(c, k) \in Seq(Row) /\ Len(NewRows(c, k)) = Copies(c, k)
  BY <1>1, <1>6
<1>8. NewHead(c, k) \in StreamHead
  BY <1>1, <1>2 DEF NewHead, LastSeq, StreamHead, HashOf, Hash
<1>. QED BY <1>7, <1>8 DEF NewRows

\* Claims are rows, and what resolving one may answer is a well-typed answer.
LEMMA ResolutionsType ==
  ASSUME TypeOK, NEW c \in Call, NEW claim \in Claims(c), NEW a \in Resolutions(c, claim)
  PROVE  a \in Answer
<1>1. StreamOf(c, "idempotency") \in Stream
  BY StreamOfType DEF Kind
<1>2. claim \in RowsOf(StreamOf(c, "idempotency"))
  BY DEF Claims
<1>3. PICK i \in DOMAIN log[StreamOf(c, "idempotency")] :
        claim = log[StreamOf(c, "idempotency")][i]
  BY <1>2 DEF RowsOf
<1>4. claim \in Row
  BY <1>1, <1>3 DEF TypeOK
<1>5. claim.ref \in Hash \cup {None}
  BY <1>4 DEF Row
<1>6. \A h \in Hash \cup {None}, st \in Status : Reply(st, h) \in Answer
  BY DEF Reply, Answer
<1>7. {"conflict", "broken", "replay"} \subseteq Status
  BY DEF Status
<1>8. \E st \in {"conflict", "broken", "replay"}, h \in {claim.ref, None} : a = Reply(st, h)
  BY DEF Resolutions, BundleReplies
<1>. QED BY <1>5, <1>6, <1>7, <1>8

\* What a call needs, and the names of its streams, depend on its request only.
LEMMA RequestFixes ==
  ASSUME req' = req, NEW c \in Call
  PROVE  Needs(c)' = Needs(c) /\ \A k : StreamOf(c, k)' = StreamOf(c, k)
  BY DEF Needs, StreamOf

\* Two calls advance one stream only if they name one scope and one kind.
LEMMA SameStream ==
  ASSUME NEW c \in Call, NEW d \in Call, NEW k, NEW j,
         StreamOf(c, k) = StreamOf(d, j)
  PROVE  req[c].scope = req[d].scope /\ k = j
  BY DEF StreamOf

\* While a stream's rows stand, so do its heads and its chain.
LEMMA RowsFix ==
  ASSUME log' = log, NEW st
  PROVE  /\ Linked(st)' = Linked(st)
         /\ TopOf(st)' = TopOf(st)
         /\ \A n : HeadAt(st, n)' = HeadAt(st, n)
  BY DEF Linked, PrevHash, TopOf, RowHash, HeadAt, HashAt

\* A committed head is the head of all its stream's rows.
LEMMA HeadOfAll ==
  ASSUME TypeOK, ChainIntact, NEW st \in Stream
  PROVE  /\ head[st].seq = Len(log[st])
         /\ head[st].seq <= Len(log[st])
         /\ head[st] = HeadAt(st, head[st].seq)
<1>1. log[st] \in Seq(Row) /\ Linked(st) /\ head[st] = TopOf(st)
  BY DEF TypeOK, ChainIntact
<1>2. CASE log[st] = <<>>
  BY <1>1, <1>2 DEF TopOf, EmptyHead, HeadAt, HashAt
<1>3. CASE log[st] # <<>>
  <2>1. Len(log[st]) \in DOMAIN log[st] /\ Len(log[st]) # 0
    BY <1>1, <1>3
  <2>. QED BY <1>1, <1>3, <2>1 DEF Linked, TopOf, RowHash, HeadAt, HashAt
<1>. QED BY <1>2, <1>3

-----------------------------------------------------------------------------
(* The invariant. *)

\* Init establishes the invariant: empty streams, empty heads, nothing read.
LEMMA InitIInv == Init => IInv
<1>. SUFFICES ASSUME Init PROVE IInv
  OBVIOUS
<1>1. TypeOK
  <2>1. log \in [Stream -> Seq(Row)]
    BY DEF Init
  <2>2. head \in [Stream -> StreamHead]
    BY DEF Init, StreamHead, EmptyHead
  <2>3. seen \in [Call -> [Kind -> StreamHead \cup {None}]]
    BY DEF Init, NothingSeen
  <2>. QED BY <2>1, <2>2, <2>3 DEF Init, TypeOK
<1>2. ChainIntact
  BY DEF Init, ChainIntact, Linked, TopOf
<1>3. Snapshots /\ LocksHeld
  BY DEF Init, Snapshots, LocksHeld, NothingSeen
<1>4. AllRead /\ FlushedCurrent
  BY DEF Init, AllRead, FlushedCurrent
<1>. QED BY <1>1, <1>2, <1>3, <1>4 DEF IInv

\* A session that ends without writing gives up what it held and disturbs nothing.
LEMMA EndsQuietly ==
  ASSUME IInv, NEW c \in Call, Unchanged, Release(c),
         NEW l \in {"done", "recover"}, GoTo(c, l),
         cites' \in [Call -> Hash \cup {None}],
         answer' \in [Call -> Answer \cup {None}]
  PROVE  IInv'
<1>. USE DEF Unchanged
<1>1. \A d \in Call : Needs(d)' = Needs(d) /\ \A k : StreamOf(d, k)' = StreamOf(d, k)
  BY RequestFixes
<1>2. NothingSeen \in [Kind -> StreamHead \cup {None}]
  BY DEF NothingSeen
<1>3. TypeOK'
  BY <1>2 DEF IInv, TypeOK, Release, GoTo
<1>4. ChainIntact'
  BY RowsFix DEF IInv, ChainIntact
<1>5. /\ seen'[c] = NothingSeen
      /\ \A d \in Call : d # c => seen'[d] = seen[d] /\ pc'[d] = pc[d]
      /\ pc'[c] = l
  BY DEF IInv, TypeOK, Release, GoTo
<1>6. Snapshots'
  <2>. SUFFICES ASSUME NEW d \in Call, NEW k \in Kind, seen'[d][k] # None
                PROVE  /\ seen'[d][k].seq <= Len(log[StreamOf(d, k)])
                       /\ seen'[d][k] = HeadAt(StreamOf(d, k), seen'[d][k].seq)
    BY <1>1 DEF Snapshots, HeadAt, HashAt
  <2>. QED BY <1>5 DEF IInv, Snapshots, NothingSeen
<1>7. AllRead'
  BY <1>1, <1>5 DEF IInv, AllRead
<1>8. LocksHeld'
  <2>. SUFFICES ASSUME Dialect = "postgresql", NEW d \in Call, NEW k \in Kind,
                       k \in Needs(d), seen'[d][k] # None
                PROVE  lock'[StreamOf(d, k)] = d
    BY <1>1 DEF LocksHeld
  <2>1. d # c
    BY <1>5 DEF NothingSeen
  <2>2. lock[StreamOf(d, k)] = d
    BY <1>5, <2>1 DEF IInv, LocksHeld
  <2>3. StreamOf(d, k) \in Stream
    BY StreamOfType DEF IInv
  <2>. QED BY <2>1, <2>2, <2>3 DEF Release
<1>9. FlushedCurrent'
  BY <1>1, <1>5 DEF IInv, FlushedCurrent, Release
<1>. QED BY <1>3, <1>4, <1>6, <1>7, <1>8, <1>9 DEF IInv

\* A step that only moves a call on to locking, or from the second look at its
\* key to the flush, keeps what the call has read and holds.
LEMMA MovesOn ==
  ASSUME IInv, NEW c \in Call, Unchanged, UNCHANGED <<lock, writer, seen, answer>>,
         NEW l \in {"lock", "write"}, GoTo(c, l), l = "write" => pc[c] = "recheck",
         cites' \in [Call -> Hash \cup {None}]
  PROVE  IInv'
<1>. USE DEF Unchanged
<1>1. \A d \in Call : Needs(d)' = Needs(d) /\ \A k : StreamOf(d, k)' = StreamOf(d, k)
  BY RequestFixes
<1>2. TypeOK'
  BY DEF IInv, TypeOK, GoTo
<1>3. ChainIntact'
  BY RowsFix DEF IInv, ChainIntact
<1>4. \A d \in Call : pc'[d] = IF d = c THEN l ELSE pc[d]
  BY DEF IInv, TypeOK, GoTo
<1>5. Snapshots'
  BY <1>1 DEF IInv, Snapshots, HeadAt, HashAt
<1>6. AllRead'
  BY <1>1, <1>4 DEF IInv, AllRead
<1>7. LocksHeld' /\ FlushedCurrent'
  BY <1>1, <1>4 DEF IInv, LocksHeld, FlushedCurrent
<1>. QED BY <1>2, <1>3, <1>5, <1>6, <1>7 DEF IInv

\* A head read under its lock, or on SQLite without one, is the head of the
\* whole stream at that moment.
LEMMA LockHeadKeeps ==
  ASSUME IInv, NEW c \in Call, NEW k \in Kind, LockHead(c, k)
  PROVE  IInv'
<1>. DEFINE st == StreamOf(c, k)
<1>. USE DEF Unchanged
<1>1. \A d \in Call : Needs(d)' = Needs(d) /\ \A j : StreamOf(d, j)' = StreamOf(d, j)
  BY RequestFixes DEF LockHead
<1>2. st \in Stream /\ head[st] \in StreamHead
  BY StreamOfType DEF IInv, TypeOK
<1>3. seen' = [seen EXCEPT ![c][k] = head[st]]
  BY DEF LockHead
<1>4. \A d \in Call, j \in Kind :
        seen'[d][j] = IF d = c /\ j = k THEN head[st] ELSE seen[d][j]
  BY <1>3 DEF IInv, TypeOK
<1>5. /\ pc[c] = "lock" /\ k \in Needs(c)
      /\ pc'[c] \in {"lock", "recheck", "write"}
      /\ pc'[c] # "lock" => \A j \in Needs(c) : seen'[c][j] # None
      /\ \A d \in Call : d # c => pc'[d] = pc[d]
  BY DEF LockHead, GoTo, IInv, TypeOK
<1>6. TypeOK'
  <2>1. seen' \in [Call -> [Kind -> StreamHead \cup {None}]]
    BY <1>2, <1>3 DEF IInv, TypeOK
  <2>2. lock' \in [Stream -> Call \cup {None}]
    BY DEF IInv, TypeOK, LockHead
  <2>3. pc' \in [Call -> {"start", "lock", "recheck", "write", "commit", "recover", "head", "done"}]
    BY DEF IInv, TypeOK, LockHead, GoTo
  <2>. QED BY <2>1, <2>2, <2>3 DEF IInv, TypeOK, LockHead
<1>7. ChainIntact'
  BY RowsFix DEF IInv, ChainIntact, LockHead
<1>8. Snapshots'
  <2>1. /\ head[st].seq <= Len(log[st])
        /\ head[st] = HeadAt(st, head[st].seq)
    BY <1>2, HeadOfAll DEF IInv
  <2>2. SUFFICES ASSUME NEW d \in Call, NEW j \in Kind, seen'[d][j] # None
                 PROVE  (/\ seen[d][j].seq <= Len(log[StreamOf(d, j)])
                         /\ seen[d][j] = HeadAt(StreamOf(d, j), seen[d][j].seq))'
    BY DEF Snapshots
  <2>3. StreamOf(d, j)' = StreamOf(d, j) /\ log' = log
    BY <1>1 DEF LockHead
  <2>4. /\ seen'[d][j].seq <= Len(log[StreamOf(d, j)])
        /\ seen'[d][j] = HeadAt(StreamOf(d, j), seen'[d][j].seq)
    <3>1. CASE d = c /\ j = k
      BY <1>4, <2>1, <3>1
    <3>2. CASE ~(d = c /\ j = k)
      BY <1>4, <2>2, <3>2 DEF IInv, Snapshots
    <3>. QED BY <3>1, <3>2
  <2>. QED BY <2>3, <2>4 DEF HeadAt, HashAt
<1>9. AllRead'
  BY <1>1, <1>4, <1>5, NeedsType DEF IInv, AllRead
<1>10. LocksHeld'
  <2>. SUFFICES ASSUME Dialect = "postgresql", NEW d \in Call, NEW j \in Kind,
                       j \in Needs(d), seen'[d][j] # None
                PROVE  lock'[StreamOf(d, j)] = d
    BY <1>1 DEF LocksHeld
  <2>1. lock[st] = None /\ lock' = [lock EXCEPT ![st] = c]
    BY DEF LockHead
  <2>2. StreamOf(d, j) \in Stream
    BY StreamOfType DEF IInv
  <2>3. CASE d = c /\ j = k
    BY <1>2, <2>1, <2>3 DEF IInv, TypeOK
  <2>4. CASE ~(d = c /\ j = k)
    <3>1. lock[StreamOf(d, j)] = d
      BY <1>4, <2>4 DEF IInv, LocksHeld
    <3>2. StreamOf(d, j) # st
      BY <2>1, <3>1, ConstantsAssumption
    <3>. QED BY <2>1, <3>1, <3>2, <2>2 DEF IInv, TypeOK
  <2>. QED BY <2>3, <2>4
<1>11. FlushedCurrent'
  <2>. SUFFICES ASSUME NEW d \in Call, pc'[d] = "commit"
                PROVE  /\ Dialect = "sqlite" => writer' = d
                       /\ \A j \in Needs(d) : seen'[d][j].seq = Len(log[StreamOf(d, j)])
    BY <1>1 DEF FlushedCurrent, LockHead
  <2>1. d # c
    BY <1>5
  <2>. QED BY <1>4, <1>5, <2>1, NeedsType DEF IInv, FlushedCurrent, LockHead
<1>. QED BY <1>6, <1>7, <1>8, <1>9, <1>10, <1>11 DEF IInv

\* The unique constraint shows a flushing call that nobody has appended since it
\* read its heads; on SQLite it also takes the write lock.
LEMMA FlushKeeps ==
  ASSUME IInv, NEW c \in Call, Flush(c)
  PROVE  IInv'
<1>. USE DEF Unchanged
<1>1. \A d \in Call : Needs(d)' = Needs(d) /\ \A k : StreamOf(d, k)' = StreamOf(d, k)
  BY RequestFixes DEF Flush
<1>2. /\ pc[c] = "write" /\ Unique(c)
      /\ \A d \in Call : pc'[d] = IF d = c THEN "commit" ELSE pc[d]
  BY DEF Flush, GoTo, IInv, TypeOK
<1>3. TypeOK'
  BY DEF IInv, TypeOK, Flush, GoTo
<1>4. ChainIntact'
  BY RowsFix DEF IInv, ChainIntact, Flush
<1>5. Snapshots'
  BY <1>1 DEF IInv, Snapshots, HeadAt, HashAt, Flush
<1>6. AllRead'
  BY <1>1, <1>2 DEF IInv, AllRead, Flush
<1>7. LocksHeld'
  BY <1>1 DEF IInv, LocksHeld, Flush
<1>8. ASSUME NEW k \in Needs(c)
      PROVE  seen[c][k].seq = Len(log[StreamOf(c, k)])
  <2>. DEFINE rows == log[StreamOf(c, k)]
  <2>1. k \in Kind /\ Copies(c, k) \in Nat \ {0} /\ StreamOf(c, k) \in Stream
    BY NeedsType, CopiesType, StreamOfType DEF IInv
  <2>2. seen[c][k] \in StreamHead /\ seen[c][k].seq \in Nat /\ seen[c][k].seq <= Len(rows)
    BY <1>2, <2>1 DEF IInv, AllRead, TypeOK, Snapshots, StreamHead
  <2>3. rows \in Seq(Row) /\ Linked(StreamOf(c, k))
    BY <2>1 DEF IInv, TypeOK, ChainIntact
  <2>4. ASSUME seen[c][k].seq < Len(rows)
        PROVE  FALSE
    <3>1. seen[c][k].seq + 1 \in DOMAIN rows
      BY <2>2, <2>3, <2>4
    <3>2. rows[seen[c][k].seq + 1].seq = seen[c][k].seq + 1
      BY <2>3, <3>1 DEF Linked
    <3>3. rows[seen[c][k].seq + 1] \in RowsOf(StreamOf(c, k))
      BY <3>1 DEF RowsOf
    <3>4. seen[c][k].seq + 1 \in seen[c][k].seq + 1 .. LastSeq(c, k)
      BY <2>1, <2>2 DEF LastSeq
    <3>. QED BY <1>2, <3>2, <3>3, <3>4 DEF Unique
  <2>. QED BY <2>2, <2>3, <2>4
<1>9. FlushedCurrent'
  <2>. SUFFICES ASSUME NEW d \in Call, pc'[d] = "commit"
                PROVE  /\ Dialect = "sqlite" => writer' = d
                       /\ \A k \in Needs(d) : seen[d][k].seq = Len(log[StreamOf(d, k)])
    BY <1>1 DEF FlushedCurrent, Flush
  <2>1. CASE d = c
    BY <1>8, <2>1 DEF Flush
  <2>2. CASE d # c
    <3>1. pc[d] = "commit"
      BY <1>2, <2>2
    <3>2. Dialect # "sqlite"
      BY <3>1, ConstantsAssumption DEF IInv, FlushedCurrent, Flush
    <3>. QED BY <3>1, <3>2 DEF IInv, FlushedCurrent
  <2>. QED BY <2>1, <2>2
<1>. QED BY <1>3, <1>4, <1>5, <1>6, <1>7, <1>9 DEF IInv

\* verify_chain's scan remembers the head its rows call for: a prefix's head
\* from then on.
LEMMA VerifyScanKeeps ==
  ASSUME IInv, NEW c \in Call, VerifyScan(c)
  PROVE  IInv'
<1>. USE DEF Unchanged
<1>. DEFINE st == StreamOf(c, "receipts")
<1>1. \A d \in Call : Needs(d)' = Needs(d) /\ \A k : StreamOf(d, k)' = StreamOf(d, k)
  BY RequestFixes DEF VerifyScan
<1>2. st \in Stream /\ Linked(st) /\ TopOf(st) = head[st] /\ head[st] \in StreamHead
  BY StreamOfType DEF IInv, TypeOK, ChainIntact, Kind
<1>3. /\ seen' = [seen EXCEPT ![c]["receipts"] = head[st]]
      /\ GoTo(c, "head") /\ pc[c] = "start" /\ Needs(c) = {}
      /\ UNCHANGED <<log, head, lock, writer, req, cites, answer>>
  BY <1>2 DEF VerifyScan, Started, Needs
<1>4. \A d \in Call, j \in Kind :
        seen'[d][j] = IF d = c /\ j = "receipts" THEN head[st] ELSE seen[d][j]
  BY <1>3 DEF IInv, TypeOK
<1>5. \A d \in Call : pc'[d] = IF d = c THEN "head" ELSE pc[d]
  BY <1>3 DEF GoTo, IInv, TypeOK
<1>6. TypeOK'
  <2>1. seen' \in [Call -> [Kind -> StreamHead \cup {None}]]
    BY <1>2, <1>3 DEF IInv, TypeOK
  <2>. QED BY <1>3, <2>1 DEF IInv, TypeOK, GoTo
<1>7. ChainIntact'
  BY <1>3, RowsFix DEF IInv, ChainIntact
<1>8. Snapshots'
  <2>1. /\ head[st].seq <= Len(log[st])
        /\ head[st] = HeadAt(st, head[st].seq)
    BY <1>2, HeadOfAll DEF IInv
  <2>2. SUFFICES ASSUME NEW d \in Call, NEW j \in Kind, seen'[d][j] # None
                 PROVE  (/\ seen[d][j].seq <= Len(log[StreamOf(d, j)])
                         /\ seen[d][j] = HeadAt(StreamOf(d, j), seen[d][j].seq))'
    BY DEF Snapshots
  <2>3. StreamOf(d, j)' = StreamOf(d, j) /\ log' = log
    BY <1>1, <1>3
  <2>4. /\ seen'[d][j].seq <= Len(log[StreamOf(d, j)])
        /\ seen'[d][j] = HeadAt(StreamOf(d, j), seen'[d][j].seq)
    <3>1. CASE d = c /\ j = "receipts"
      BY <1>4, <2>1, <3>1
    <3>2. CASE ~(d = c /\ j = "receipts")
      BY <1>4, <2>2, <3>2 DEF IInv, Snapshots
    <3>. QED BY <3>1, <3>2
  <2>. QED BY <2>3, <2>4 DEF HeadAt, HashAt
<1>9. AllRead' /\ FlushedCurrent'
  <2>1. \A d \in Call : pc'[d] \in {"recheck", "write", "commit"} =>
          d # c /\ pc'[d] = pc[d] /\ \A j \in Needs(d) : seen'[d][j] = seen[d][j]
    BY <1>4, <1>5, NeedsType
  <2>. QED BY <1>1, <1>3, <2>1 DEF IInv, AllRead, FlushedCurrent
<1>10. LocksHeld'
  BY <1>1, <1>3, <1>4 DEF IInv, LocksHeld
<1>. QED BY <1>6, <1>7, <1>8, <1>9, <1>10 DEF IInv

\* A stream as it stands, continued by the rows of a call.
Continued(c, k) == log[StreamOf(c, k)] \o NewRows(c, k)

\* The commit appends rows that continue each stream where its rows end, so the
\* chains stay linked and the heads agree with them.
LEMMA InstallContinues ==
  ASSUME IInv, NEW c \in Call, pc[c] = "commit", NEW k \in Needs(c)
  PROVE  /\ Continued(c, k) \in Seq(Row) /\ NewHead(c, k) \in StreamHead
         /\ Continued(c, k) # <<>>
         /\ Len(Continued(c, k)) = LastSeq(c, k)
         /\ Len(log[StreamOf(c, k)]) <= Len(Continued(c, k))
         /\ \A i \in 1..Len(log[StreamOf(c, k)]) : Continued(c, k)[i] = log[StreamOf(c, k)][i]
         /\ \A i \in DOMAIN Continued(c, k) :
              /\ Continued(c, k)[i].seq = i
              /\ Continued(c, k)[i].prev = IF i = 1 THEN None
                                ELSE HashOf(StreamOf(c, k), i - 1, Continued(c, k)[i - 1].call)
         /\ NewHead(c, k) = [seq  |-> Len(Continued(c, k)),
                             hash |-> RowHash(StreamOf(c, k), Continued(c, k)[Len(Continued(c, k))])]
<1>. DEFINE st == StreamOf(c, k)
            old == log[st]
            n == Len(old)
            rows == Continued(c, k)
<1>1. k \in Kind /\ Copies(c, k) \in Nat \ {0} /\ st \in Stream
  BY NeedsType, CopiesType, StreamOfType DEF IInv
<1>2. old \in Seq(Row) /\ n \in Nat /\ Linked(st)
  BY <1>1 DEF IInv, TypeOK, ChainIntact
<1>3. seen[c][k] # None /\ seen[c][k] \in StreamHead /\ seen[c][k].seq = n
      /\ seen[c][k] = HeadAt(st, n)
  BY <1>1 DEF IInv, TypeOK, AllRead, FlushedCurrent, Snapshots
<1>4. /\ NewRows(c, k) \in Seq(Row)
      /\ Len(NewRows(c, k)) = Copies(c, k)
      /\ \A i \in 1..Copies(c, k) : NewRows(c, k)[i] = NewRow(c, k, i)
      /\ NewHead(c, k) \in StreamHead
  BY NewRowsType DEF IInv, AllRead
<1>. HIDE DEF rows
<1>5. /\ rows \in Seq(Row)
      /\ Len(rows) = n + Copies(c, k)
      /\ \A i \in 1..Len(rows) : rows[i] = IF i <= n THEN old[i] ELSE NewRows(c, k)[i - n]
  <2>1. rows = old \o NewRows(c, k)
    BY DEF rows, Continued
  <2>2. /\ old \o NewRows(c, k) \in Seq(Row)
        /\ Len(old \o NewRows(c, k)) = n + Len(NewRows(c, k))
        /\ \A i \in 1 .. n + Len(NewRows(c, k)) :
             (old \o NewRows(c, k))[i] = IF i <= n THEN old[i] ELSE NewRows(c, k)[i - n]
    BY <1>2, <1>4, ConcatProperties
  <2>. QED BY <1>4, <2>1, <2>2
<1>6. ASSUME NEW i \in n + 1 .. Len(rows)
      PROVE  rows[i] = NewRow(c, k, i - n)
  <2>. DEFINE j == i - n
  <2>1. i \in 1..Len(rows) /\ ~(i <= n) /\ j \in 1..Copies(c, k)
    BY <1>1, <1>2, <1>5
  <2>2. rows[i] = NewRows(c, k)[j]
    BY <1>5, <2>1
  <2>. HIDE DEF j
  <2>3. rows[i] = NewRow(c, k, j)
    BY <1>4, <2>1, <2>2
  <2>. QED BY <2>3 DEF j
<1>7. \A i \in 1..n : rows[i] = old[i]
  BY <1>2, <1>5, <1>1
<1>8. ASSUME NEW i \in DOMAIN rows
      PROVE  /\ rows[i].seq = i
             /\ rows[i].prev = IF i = 1 THEN None ELSE HashOf(st, i - 1, rows[i - 1].call)
  <2>1. i \in 1..Len(rows)
    BY <1>5
  <2>2. CASE i <= n
    <3>1. rows[i] = old[i] /\ i \in DOMAIN old
      BY <1>2, <1>7, <2>1, <2>2
    <3>2. i # 1 => rows[i - 1] = old[i - 1]
      BY <1>2, <1>7, <2>1, <2>2
    <3>. QED BY <1>2, <3>1, <3>2 DEF Linked, PrevHash
  <2>3. CASE i > n
    <3>1. rows[i] = NewRow(c, k, i - n) /\ i - n \in 1..Copies(c, k)
      BY <1>1, <1>2, <1>5, <1>6, <2>1, <2>3
    <3>2. rows[i].seq = i
      BY <1>2, <1>3, <2>1, <3>1 DEF NewRow
    <3>3. CASE i = n + 1
      <4>1. rows[i].prev = HashAt(st, n)
        BY <1>2, <1>3, <3>1, <3>3 DEF NewRow, HeadAt
      <4>2. n # 0 => rows[n] = old[n]
        BY <1>2, <1>7
      <4>. QED BY <1>2, <3>2, <3>3, <4>1, <4>2 DEF HashAt
    <3>4. CASE i # n + 1
      <4>1. rows[i].prev = HashOf(st, i - 1, c)
        BY <1>2, <1>3, <2>1, <2>3, <3>1, <3>4 DEF NewRow
      <4>2. rows[i - 1] = NewRow(c, k, i - 1 - n)
        BY <1>2, <1>6, <2>1, <2>3, <3>4
      <4>3. rows[i - 1].call = c
        BY <4>2 DEF NewRow
      <4>. QED BY <1>2, <2>1, <2>3, <3>2, <3>4, <4>1, <4>3
    <3>. QED BY <3>3, <3>4
  <2>. QED BY <1>2, <2>1, <2>2, <2>3
<1>9. Len(rows) = LastSeq(c, k) /\ n <= Len(rows) /\ rows # <<>>
  BY <1>1, <1>2, <1>3, <1>5 DEF LastSeq
<1>10. NewHead(c, k) = [seq |-> Len(rows), hash |-> RowHash(st, rows[Len(rows)])]
  <2>1. Len(rows) \in DOMAIN rows /\ Len(rows) \in n + 1 .. Len(rows)
    BY <1>1, <1>2, <1>5
  <2>2. rows[Len(rows)].seq = Len(rows)
    BY <1>8, <2>1
  <2>3. rows[Len(rows)] = NewRow(c, k, Len(rows) - n)
    BY <1>6, <2>1
  <2>4. rows[Len(rows)].call = c
    BY <2>3 DEF NewRow
  <2>. QED BY <1>9, <2>2, <2>4 DEF NewHead, RowHash
<1>. QED BY <1>4, <1>5, <1>7, <1>8, <1>9, <1>10 DEF rows

\* Two calls never stand before their commits on one stream: they would share
\* its head's row lock, or SQLite's write lock.
LEMMA CommitsApart ==
  ASSUME IInv, NEW c \in Call, NEW d \in Call, c # d, pc[c] = "commit", pc[d] = "commit",
         NEW k \in Needs(d), NEW j \in Needs(c)
  PROVE  StreamOf(d, k) # StreamOf(c, j)
<1>1. k \in Kind /\ j \in Kind /\ seen[d][k] # None /\ seen[c][j] # None
  BY NeedsType DEF IInv, AllRead
<1>2. Dialect = "postgresql"
  BY ConstantsAssumption DEF IInv, FlushedCurrent
<1>3. lock[StreamOf(d, k)] = d /\ lock[StreamOf(c, j)] = c
  BY <1>1, <1>2 DEF IInv, LocksHeld
<1>. QED BY <1>3

\* A commit, whether or not its reply arrives.
LEMMA InstallKeeps ==
  ASSUME IInv, NEW c \in Call, pc[c] = "commit", Install(c), NEW a \in Answer, Return(c, a),
         UNCHANGED <<req, cites>>
  PROVE  IInv'
<1>1. \A d \in Call : Needs(d)' = Needs(d) /\ \A k : StreamOf(d, k)' = StreamOf(d, k)
  BY RequestFixes
<1>2. /\ \A d \in Call : pc'[d] = IF d = c THEN "done" ELSE pc[d]
      /\ \A d \in Call : seen'[d] = IF d = c THEN NothingSeen ELSE seen[d]
  BY DEF Return, Release, IInv, TypeOK
<1>3. ASSUME NEW st \in Stream
      PROVE  \/ \E k \in Needs(c) : /\ st = StreamOf(c, k)
                                     /\ log'[st] = log[st] \o NewRows(c, k)
                                     /\ head'[st] = NewHead(c, k)
             \/ /\ \A k \in Needs(c) : st # StreamOf(c, k)
                /\ log'[st] = log[st] /\ head'[st] = head[st]
  BY NeedsType DEF Install, StreamOf, Stream
<1>4. ASSUME NEW st \in Stream
      PROVE  /\ log'[st] \in Seq(Row) /\ head'[st] \in StreamHead
             /\ Linked(st)' /\ head'[st] = TopOf(st)'
             /\ Len(log[st]) <= Len(log'[st])
             /\ \A i \in 1..Len(log[st]) : log'[st][i] = log[st][i]
  <2>1. CASE \E k \in Needs(c) : /\ st = StreamOf(c, k)
                                  /\ log'[st] = log[st] \o NewRows(c, k)
                                  /\ head'[st] = NewHead(c, k)
    <3>1. PICK k \in Needs(c) : /\ st = StreamOf(c, k)
                                /\ log'[st] = log[st] \o NewRows(c, k)
                                /\ head'[st] = NewHead(c, k)
      BY <2>1
    <3>. DEFINE rows == log'[st]
    <3>2. rows = Continued(c, k)
      BY <3>1 DEF Continued
    <3>. HIDE DEF rows
    <3>0. /\ rows \in Seq(Row) /\ NewHead(c, k) \in StreamHead
          /\ rows # <<>>
          /\ Len(log[StreamOf(c, k)]) <= Len(rows)
          /\ \A i \in 1..Len(log[StreamOf(c, k)]) : rows[i] = log[StreamOf(c, k)][i]
          /\ \A i \in DOMAIN rows :
               /\ rows[i].seq = i
               /\ rows[i].prev = IF i = 1 THEN None
                                 ELSE HashOf(StreamOf(c, k), i - 1, rows[i - 1].call)
          /\ NewHead(c, k) = [seq |-> Len(rows),
                              hash |-> RowHash(StreamOf(c, k), rows[Len(rows)])]
      BY <3>2, InstallContinues
    <3>3. /\ rows \in Seq(Row) /\ NewHead(c, k) \in StreamHead
          /\ rows # <<>>
          /\ Len(log[st]) <= Len(rows)
          /\ \A i \in 1..Len(log[st]) : rows[i] = log[st][i]
          /\ \A i \in DOMAIN rows :
               /\ rows[i].seq = i
               /\ rows[i].prev = IF i = 1 THEN None ELSE HashOf(st, i - 1, rows[i - 1].call)
          /\ NewHead(c, k) = [seq |-> Len(rows), hash |-> RowHash(st, rows[Len(rows)])]
      BY <3>0, <3>1
    <3>. USE DEF rows
    <3>4. Linked(st)'
      BY <3>3 DEF Linked, PrevHash
    <3>5. head'[st] = TopOf(st)'
      BY <3>1, <3>3 DEF TopOf, RowHash
    <3>. QED BY <3>1, <3>3, <3>4, <3>5
  <2>2. CASE log'[st] = log[st] /\ head'[st] = head[st]
    <3>1. log[st] \in Seq(Row) /\ head[st] \in StreamHead /\ Linked(st) /\ head[st] = TopOf(st)
      BY DEF IInv, TypeOK, ChainIntact
    <3>2. Linked(st)'
      BY <2>2, <3>1 DEF Linked, PrevHash
    <3>3. head'[st] = TopOf(st)'
      BY <2>2, <3>1 DEF TopOf, RowHash
    <3>4. Len(log[st]) \in Nat
      BY <3>1
    <3>. QED BY <2>2, <3>1, <3>2, <3>3, <3>4
  <2>. QED BY <1>3, <2>1, <2>2
<1>5. TypeOK'
  <2>1. log' \in [Stream -> Seq(Row)] /\ head' \in [Stream -> StreamHead]
    BY <1>4 DEF Install
  <2>2. NothingSeen \in [Kind -> StreamHead \cup {None}]
    BY DEF NothingSeen
  <2>. QED BY <2>1, <2>2 DEF IInv, TypeOK, Return, Release
<1>6. ChainIntact'
  BY <1>4 DEF ChainIntact
<1>7. Snapshots'
  <2>. SUFFICES ASSUME NEW d \in Call, NEW k \in Kind, seen'[d][k] # None
                PROVE  /\ seen'[d][k].seq <= Len(log'[StreamOf(d, k)])
                       /\ seen'[d][k] = HeadAt(StreamOf(d, k), seen[d][k].seq)'
    BY <1>1 DEF Snapshots, HeadAt, HashAt
  <2>. DEFINE st == StreamOf(d, k)
              n  == seen[d][k].seq
  <2>1. d # c /\ seen'[d] = seen[d]
    BY <1>2 DEF NothingSeen
  <2>2. st \in Stream /\ seen[d][k] \in StreamHead /\ n \in Nat
    BY <2>1, StreamOfType DEF IInv, TypeOK, StreamHead
  <2>3. n <= Len(log[st]) /\ seen[d][k] = HeadAt(st, n)
    BY <2>1 DEF IInv, Snapshots
  <2>4. log[st] \in Seq(Row) /\ log'[st] \in Seq(Row) /\ Len(log[st]) <= Len(log'[st])
    BY <1>4, <2>2 DEF IInv, TypeOK
  <2>5. n # 0 => log'[st][n] = log[st][n]
    BY <1>4, <2>2, <2>3, <2>4
  <2>. QED BY <1>1, <2>1, <2>2, <2>3, <2>4, <2>5 DEF HeadAt, HashAt
<1>8. AllRead'
  BY <1>1, <1>2 DEF IInv, AllRead
<1>9. LocksHeld'
  <2>. SUFFICES ASSUME Dialect = "postgresql", NEW d \in Call, NEW k \in Kind,
                       k \in Needs(d), seen'[d][k] # None
                PROVE  lock'[StreamOf(d, k)] = d
    BY <1>1 DEF LocksHeld
  <2>1. d # c
    BY <1>2 DEF NothingSeen
  <2>2. lock[StreamOf(d, k)] = d
    BY <1>2, <2>1 DEF IInv, LocksHeld
  <2>3. StreamOf(d, k) \in Stream
    BY StreamOfType DEF IInv
  <2>. QED BY <2>1, <2>2, <2>3 DEF Return, Release
<1>10. FlushedCurrent'
  <2>. SUFFICES ASSUME NEW d \in Call, pc'[d] = "commit"
                PROVE  /\ Dialect = "sqlite" => writer' = d
                       /\ \A k \in Needs(d) : seen'[d][k].seq = Len(log'[StreamOf(d, k)])
    BY <1>1 DEF FlushedCurrent
  <2>1. d # c /\ pc[d] = "commit" /\ seen'[d] = seen[d]
    BY <1>2
  <2>2. Dialect # "sqlite"
    BY <2>1 DEF IInv, FlushedCurrent
  <2>3. ASSUME NEW k \in Needs(d), NEW j \in Needs(c), StreamOf(d, k) = StreamOf(c, j)
        PROVE  FALSE
    BY <2>1, <2>3, CommitsApart
  <2>4. ASSUME NEW k \in Needs(d)
        PROVE  log'[StreamOf(d, k)] = log[StreamOf(d, k)]
    BY <1>3, <2>3, StreamOfType, NeedsType DEF IInv
  <2>. QED BY <2>1, <2>2, <2>4 DEF IInv, FlushedCurrent
<1>. QED BY <1>5, <1>6, <1>7, <1>8, <1>9, <1>10 DEF IInv

\* A transaction that ends without a commit, whatever it answers.
LEMMA ReturnKeeps ==
  ASSUME IInv, NEW c \in Call, Unchanged, UNCHANGED cites, NEW a \in Answer, Return(c, a)
  PROVE  IInv'
<1>1. Release(c) /\ GoTo(c, "done")
  BY DEF Return, GoTo
<1>2. cites' \in [Call -> Hash \cup {None}] /\ answer' \in [Call -> Answer \cup {None}]
  BY DEF Return, IInv, TypeOK
<1>. QED BY <1>1, <1>2, EndsQuietly

\* Every step of every call keeps the invariant.
LEMMA StepKeeps ==
  ASSUME IInv, NEW c \in Call, Step(c)
  PROVE  IInv'
<1>1. \A s \in Status : Reply(s, None) \in Answer
  BY DEF Reply, Answer
<1>2. TypeOK
  BY DEF IInv
<1>3. CASE UnknownScope(c)
  <2>1. Reply("rejected", None) \in Answer
    BY <1>1 DEF Status
  <2>. QED BY <1>3, <2>1, ReturnKeeps DEF UnknownScope
<1>4. CASE BeginReplay(c)
  BY <1>2, <1>4, ReturnKeeps, ResolutionsType DEF BeginReplay
<1>5. CASE BeginWrite(c)
  <2>1. cites' \in [Call -> Hash \cup {None}]
    BY <1>2, <1>5 DEF BeginWrite, TypeOK
  <2>. QED BY <1>5, <2>1, MovesOn DEF BeginWrite
<1>6. CASE BeginMemory(c)
  <2>1. Unchanged
    BY <1>6 DEF BeginMemory
  <2>2. PICK h \in ReceiptHashes \cup {None} :
          \/ /\ Admits(c, h)
             /\ cites' = [cites EXCEPT ![c] = h]
             /\ GoTo(c, "lock")
             /\ UNCHANGED <<lock, writer, seen, answer>>
          \/ /\ ~Admits(c, h)
             /\ Return(c, Reply("rejected", None))
             /\ UNCHANGED cites
    BY <1>6 DEF BeginMemory
  <2>3. CASE Admits(c, h)
    <3>1. h \in Hash \cup {None}
      <4>1. PICK row \in ReceiptsNamed(c, h) : TRUE
        BY <2>3 DEF Admits
      <4>2. StreamOf(c, "receipts") \in Stream
        BY <1>2, StreamOfType DEF Kind
      <4>3. row \in RowsOf(StreamOf(c, "receipts")) /\ h = RowHash(StreamOf(c, "receipts"), row)
        BY <4>1 DEF ReceiptsNamed
      <4>4. row \in Row
        BY <1>2, <4>2, <4>3 DEF RowsOf, TypeOK
      <4>. QED BY <4>2, <4>3, <4>4 DEF RowHash, HashOf, Hash, Row
    <3>2. cites' \in [Call -> Hash \cup {None}]
      BY <1>2, <2>2, <2>3, <3>1 DEF TypeOK
    <3>. QED BY <2>1, <2>2, <2>3, <3>2, MovesOn
  <2>4. CASE ~Admits(c, h)
    <3>1. Reply("rejected", None) \in Answer
      BY <1>1 DEF Status
    <3>. QED BY <2>1, <2>2, <2>4, <3>1, ReturnKeeps
  <2>. QED BY <2>3, <2>4
<1>7. CASE VerifyScan(c)
  <2>1. Linked(StreamOf(c, "receipts"))
    BY <1>2, StreamOfType DEF IInv, ChainIntact, Kind
  <2>. QED BY <1>7, <2>1, VerifyScanKeeps
<1>8. ASSUME NEW k \in Kind, LockHead(c, k)
      PROVE  IInv'
  BY <1>8, LockHeadKeeps
<1>9. CASE Recheck(c)
  <2>1. CASE \E claim \in Claims(c) : \E a \in Resolutions(c, claim) : Return(c, a)
    BY <1>2, <1>9, <2>1, ReturnKeeps, ResolutionsType DEF Recheck
  <2>2. CASE GoTo(c, "write") /\ UNCHANGED <<lock, writer, seen, answer>>
    <3>1. cites' \in [Call -> Hash \cup {None}]
      BY <1>2, <1>9 DEF Recheck, TypeOK
    <3>. QED BY <1>9, <2>2, <3>1, MovesOn DEF Recheck
  <2>. QED BY <1>9, <2>1, <2>2 DEF Recheck
<1>10. CASE Flush(c)
  BY <1>10, FlushKeeps
<1>11. CASE FlushRefused(c)
  <2>1. CASE GoTo(c, "recover") /\ Release(c) /\ UNCHANGED answer
    <3>1. cites' \in [Call -> Hash \cup {None}] /\ answer' \in [Call -> Answer \cup {None}]
      BY <1>2, <1>11, <2>1 DEF FlushRefused, TypeOK
    <3>. QED BY <1>11, <2>1, <3>1, EndsQuietly DEF FlushRefused
  <2>2. CASE Return(c, Reply("failed", None))
    <3>1. Reply("failed", None) \in Answer
      BY <1>1 DEF Status
    <3>. QED BY <1>11, <2>2, <3>1, ReturnKeeps DEF FlushRefused
  <2>. QED BY <1>11, <2>1, <2>2 DEF FlushRefused
<1>12. CASE Recover(c)
  <2>1. Reply("failed", None) \in Answer
    BY <1>1 DEF Status
  <2>. QED BY <1>2, <1>12, <2>1, ReturnKeeps, ResolutionsType DEF Recover
<1>13. ASSUME pc[c] = "commit"
       PROVE  \A st \in Status :
                Reply(st, IF "receipts" \in Needs(c) THEN OwnReceipt(c) ELSE None) \in Answer
  <2>1. ASSUME "receipts" \in Needs(c)
        PROVE  OwnReceipt(c) \in Hash
    <3>1. seen[c]["receipts"] \in StreamHead
      BY <1>13, <2>1 DEF IInv, TypeOK, AllRead, Kind
    <3>2. StreamOf(c, "receipts") \in Stream
      BY <1>2, StreamOfType DEF Kind
    <3>. QED BY <3>1, <3>2 DEF OwnReceipt, HashOf, Hash, StreamHead
  <2>. QED BY <2>1 DEF Reply, Answer
<1>14. CASE Commit(c)
  BY <1>13, <1>14, InstallKeeps DEF Commit, Status
<1>15. CASE CommitReplyLost(c)
  <2>1. Reply("failed", None) \in Answer
    BY <1>1 DEF Status
  <2>. QED BY <1>15, <2>1, InstallKeeps DEF CommitReplyLost
<1>16. CASE Abort(c)
  <2>1. Reply("failed", None) \in Answer
    BY <1>1 DEF Status
  <2>. QED BY <1>16, <2>1, ReturnKeeps DEF Abort
<1>17. CASE VerifyHead(c)
  <2>1. Reply("valid", None) \in Answer /\ Reply("invalid", None) \in Answer
    BY <1>1 DEF Status
  <2>2. PICK s \in {"valid", "invalid"} : Return(c, Reply(s, None))
    BY <1>17 DEF VerifyHead
  <2>. QED BY <1>17, <2>1, <2>2, ReturnKeeps DEF VerifyHead
<1>. QED
  BY <1>3, <1>4, <1>5, <1>6, <1>7, <1>8, <1>9, <1>10, <1>11, <1>12, <1>14, <1>15, <1>16, <1>17
  DEF Step, Progress

\* Nothing but a call's step changes the store.
LEMMA StutterKeeps == IInv /\ UNCHANGED vars => IInv'
<1>. SUFFICES ASSUME IInv, UNCHANGED vars PROVE IInv'
  OBVIOUS
<1>. USE DEF vars
<1>1. \A d \in Call : Needs(d)' = Needs(d) /\ \A k : StreamOf(d, k)' = StreamOf(d, k)
  BY RequestFixes
<1>2. TypeOK'
  BY DEF IInv, TypeOK
<1>3. ChainIntact'
  BY RowsFix DEF IInv, ChainIntact
<1>4. Snapshots'
  BY <1>1 DEF IInv, Snapshots, HeadAt, HashAt
<1>5. AllRead' /\ LocksHeld' /\ FlushedCurrent'
  BY <1>1 DEF IInv, AllRead, LocksHeld, FlushedCurrent
<1>. QED BY <1>2, <1>3, <1>4, <1>5 DEF IInv

-----------------------------------------------------------------------------
(* The results. *)

\* The inductive invariant holds of every behaviour of the store, with or
\* without fairness.
THEOREM Invariance == Spec => []IInv
<1>1. IInv /\ [Next]_vars => IInv'
  BY StepKeeps, StutterKeeps DEF Next, Terminated
<1>. QED BY InitIInv, <1>1, PTL DEF Spec

\* Type correctness of the transactions of store.py.
THEOREM TypeCorrect == Spec => []TypeOK
<1>1. IInv => TypeOK
  BY DEF IInv
<1>. QED BY Invariance, <1>1, PTL

\* The streams verify_chain reads are intact in every committed state of any
\* number of concurrent writers, aborts and lost replies, on both dialects.
THEOREM ChainsStayIntact == Spec => []ChainIntact
<1>1. IInv => ChainIntact
  BY DEF IInv
<1>. QED BY Invariance, <1>1, PTL

-----------------------------------------------------------------------------
(* History: rows stay, and answers are given once. *)

\* A call that has returned takes no further step.
AnsweredIsDone == \A c \in Call : answer[c] # None => pc[c] = "done"

\* The step of one call changes its own answer and program counter only, and
\* none of its own once it is done.
LEMMA StepIsOwn ==
  ASSUME TypeOK, NEW c \in Call, Step(c)
  PROVE  /\ pc[c] # "done"
         /\ \A d \in Call : d # c => answer'[d] = answer[d] /\ pc'[d] = pc[d]
         /\ pc'[c] # "done" => answer'[c] = answer[c]
<1>1. \A a, l : answer' = [answer EXCEPT ![c] = a] \/ UNCHANGED answer =>
        \A d \in Call : d # c => answer'[d] = answer[d]
  BY DEF TypeOK
<1>2. \A l : pc' = [pc EXCEPT ![c] = l] =>
        pc'[c] = l /\ \A d \in Call : d # c => pc'[d] = pc[d]
  BY DEF TypeOK
<1>3. \A a : Return(c, a) =>
        pc'[c] = "done" /\ \A d \in Call : d # c => answer'[d] = answer[d] /\ pc'[d] = pc[d]
  BY <1>1, <1>2 DEF Return
<1>4. \A l : GoTo(c, l) /\ UNCHANGED answer =>
        answer'[c] = answer[c] /\ \A d \in Call : d # c => answer'[d] = answer[d] /\ pc'[d] = pc[d]
  BY <1>2 DEF GoTo
<1>5. CASE UnknownScope(c) \/ BeginReplay(c) \/ Commit(c) \/ CommitReplyLost(c) \/ Abort(c) \/ VerifyHead(c)
  BY <1>3, <1>5 DEF UnknownScope, BeginReplay, Started, Commit, CommitReplyLost, Abort, VerifyHead
<1>6. CASE BeginWrite(c) \/ BeginMemory(c) \/ VerifyScan(c)
  BY <1>3, <1>4, <1>6 DEF BeginWrite, BeginMemory, VerifyScan, Started
<1>7. CASE Recheck(c) \/ Flush(c) \/ FlushRefused(c) \/ Recover(c)
  BY <1>3, <1>4, <1>7 DEF Recheck, Flush, FlushRefused, Recover
<1>8. CASE \E k \in Kind : LockHead(c, k)
  BY <1>4, <1>8 DEF LockHead
<1>. QED BY <1>5, <1>6, <1>7, <1>8 DEF Step, Progress

\* A stream whose rows stand, or are continued, begins with what it was.
LEMMA PrefixStays ==
  ASSUME NEW T, NEW s \in Seq(T), NEW t \in Seq(T), Len(s) <= Len(t),
         \A i \in 1..Len(s) : t[i] = s[i]
  PROVE  SubSeq(t, 1, Len(s)) = s
<1>1. Len(s) \in Nat /\ Len(t) \in Nat /\ \A i \in 1..Len(s) : i \in 1..Len(t)
  OBVIOUS
<1>2. SubSeq(t, 1, Len(s)) \in Seq(T) /\ Len(SubSeq(t, 1, Len(s))) = Len(s)
      /\ \A i \in 1..Len(s) : SubSeq(t, 1, Len(s))[i] = t[i]
  BY <1>1, SubSeqProperties
<1>. QED BY <1>2, SeqEqual

\* Only a commit changes the streams, and only at their ends.
LEMMA StepAppends ==
  ASSUME IInv, NEW c \in Call, Step(c), NEW st \in Stream
  PROVE  SubSeq(log'[st], 1, Len(log[st])) = log[st]
<1>1. log[st] \in Seq(Row)
  BY DEF IInv, TypeOK
<1>2. CASE log' = log
  BY <1>1, <1>2, PrefixStays
<1>3. CASE pc[c] = "commit" /\ Install(c)
  <2>1. CASE \E k \in Needs(c) : st = StreamOf(c, k) /\ log'[st] = log[st] \o NewRows(c, k)
    <3>1. PICK k \in Needs(c) : st = StreamOf(c, k) /\ log'[st] = Continued(c, k)
      BY <2>1 DEF Continued
    <3>2. /\ Continued(c, k) \in Seq(Row)
          /\ Len(log[st]) <= Len(Continued(c, k))
          /\ \A i \in 1..Len(log[st]) : Continued(c, k)[i] = log[st][i]
      BY <1>3, <3>1, InstallContinues
    <3>. QED BY <1>1, <3>1, <3>2, PrefixStays
  <2>2. CASE log'[st] = log[st]
    BY <1>1, <2>2, PrefixStays
  <2>. QED BY <1>3, <2>1, <2>2, NeedsType DEF Install, StreamOf, Stream
<1>4. log' = log \/ (pc[c] = "commit" /\ Install(c))
  BY DEF Step, Progress, UnknownScope, BeginReplay, BeginWrite, BeginMemory, VerifyScan,
         LockHead, Recheck, Flush, FlushRefused, Recover, Commit, CommitReplyLost, Abort,
         VerifyHead, Unchanged
<1>. QED BY <1>2, <1>3, <1>4

\* A call that has answered stays done.
LEMMA AnsweredInvariance == Spec => []AnsweredIsDone
<1>1. Init => AnsweredIsDone
  BY DEF Init, AnsweredIsDone
<1>2. IInv /\ AnsweredIsDone /\ [Next]_vars => AnsweredIsDone'
  <2>1. ASSUME IInv, AnsweredIsDone, NEW c \in Call, Step(c)
        PROVE  AnsweredIsDone'
    BY <2>1, StepIsOwn DEF IInv, AnsweredIsDone
  <2>2. ASSUME AnsweredIsDone, UNCHANGED vars
        PROVE  AnsweredIsDone'
    BY <2>2 DEF AnsweredIsDone, vars
  <2>. QED BY <2>1, <2>2 DEF Next, Terminated
<1>. QED BY Invariance, <1>1, <1>2, PTL DEF Spec

\* Committed rows are never changed, dropped or reordered, and an answer once
\* given is never taken back, whatever races, aborts or loses its reply.
THEOREM HistoryStays == Spec => AppendOnly
<1>1. IInv /\ AnsweredIsDone /\ [Next]_vars =>
        [/\ \A st \in Stream : SubSeq(log'[st], 1, Len(log[st])) = log[st]
         /\ \A c \in Call : answer[c] # None => answer'[c] = answer[c]]_vars
  <2>. SUFFICES ASSUME IInv, AnsweredIsDone, NEW c \in Call, Step(c)
                PROVE  /\ \A st \in Stream : SubSeq(log'[st], 1, Len(log[st])) = log[st]
                       /\ \A d \in Call : answer[d] # None => answer'[d] = answer[d]
    BY DEF Next, Terminated
  <2>1. \A d \in Call : answer[d] # None => answer'[d] = answer[d]
    BY StepIsOwn DEF IInv, AnsweredIsDone
  <2>. QED BY <2>1, StepAppends
<1>. QED BY Invariance, AnsweredInvariance, <1>1, PTL DEF Spec, AppendOnly

-----------------------------------------------------------------------------
(* What each call leaves in the streams and is told. *)

Receipts(s) == RowsOf(<<s, "receipts">>)
Records(s) == RowsOf(<<s, "idempotency">>)
Keyed(s) == {row \in Receipts(s) : req[row.call].key # None}

\* A call that is not done has written no row.
NotYet ==
  \A c \in Call : pc[c] # "done" => \A st \in Stream : \A row \in RowsOf(st) : row.call # c

\* A call writes one receipt and one record at most.
OncePerCall ==
  \A s \in Scope :
    /\ \A p, q \in Receipts(s) : p.call = q.call => p = q
    /\ \A p, q \in Records(s) : p.call = q.call => p = q

\* A record names the receipt that its call wrote, and a keyed receipt has one.
Paired ==
  \A s \in Scope :
    /\ \A record \in Records(s) : \E row \in Keyed(s) :
         row.call = record.call /\ record.ref = RowHash(<<s, "receipts">>, row)
    /\ \A row \in Keyed(s) : \E record \in Records(s) : record.call = row.call

\* No two records spend one key.
SpentOnce ==
  \A s \in Scope : \A p, q \in Records(s) : req[p.call].key = req[q.call].key => p = q

\* Between the flush and the commit the key stays free.
Unclaimed ==
  \A c \in Call : pc[c] = "commit" /\ "idempotency" \in Needs(c) => Claims(c) = {}

KInv == NotYet /\ OncePerCall /\ Paired /\ SpentOnce /\ Unclaimed

-----------------------------------------------------------------------------
\* What a commit adds to a stream.
LEMMA InstallRows ==
  ASSUME IInv, NEW c \in Call, pc[c] = "commit", Install(c), NEW st \in Stream
  PROVE  /\ \A k \in Needs(c) : st = StreamOf(c, k) =>
              RowsOf(st)' = RowsOf(st) \cup {NewRow(c, k, i) : i \in 1..Copies(c, k)}
         /\ (\A k \in Needs(c) : st # StreamOf(c, k)) => RowsOf(st)' = RowsOf(st)
<1>1. ASSUME NEW k \in Needs(c), st = StreamOf(c, k)
      PROVE  RowsOf(st)' = RowsOf(st) \cup {NewRow(c, k, i) : i \in 1..Copies(c, k)}
  <2>. DEFINE new == NewRows(c, k)
  <2>1. k \in Kind /\ Copies(c, k) \in Nat \ {0}
    BY NeedsType, CopiesType
  <2>2. log'[st] = log[st] \o new
    BY <1>1, <2>1 DEF Install, StreamOf
  <2>3. /\ new \in Seq(Row) /\ Len(new) = Copies(c, k)
        /\ \A i \in 1..Copies(c, k) : new[i] = NewRow(c, k, i)
    BY NewRowsType DEF IInv, AllRead
  <2>4. log[st] \in Seq(Row)
    BY DEF IInv, TypeOK
  <2>. HIDE DEF new
  <2>5. Range(log[st] \o new) = Range(log[st]) \cup Range(new)
    BY <2>3, <2>4, RangeConcatenation
  <2>6. Range(new) = {NewRow(c, k, i) : i \in 1..Copies(c, k)}
    BY <2>3, <2>4 DEF Range
  <2>. QED BY <2>2, <2>5, <2>6 DEF RowsOf, Range
<1>2. ASSUME \A k \in Needs(c) : st # StreamOf(c, k)
      PROVE  RowsOf(st)' = RowsOf(st)
  <2>1. log'[st] = log[st]
    BY <1>2, NeedsType DEF Install, StreamOf, Stream
  <2>. QED BY <2>1 DEF RowsOf
<1>. QED BY <1>1, <1>2

\* A call that spends a key is a receipt or a bundle with a key.
LEMMA KeyedNeeds ==
  ASSUME TypeOK, NEW c \in Call
  PROVE  /\ req[c].scope \in Scope
         /\ "idempotency" \in Needs(c) => "receipts" \in Needs(c) /\ req[c].key # None
         /\ "receipts" \in Needs(c) /\ req[c].key # None => "idempotency" \in Needs(c)
         /\ Copies(c, "receipts") = 1 /\ Copies(c, "idempotency") = 1
<1>1. req[c] \in Requests /\ req[c] \in RequestType
  BY RequestsAssumption DEF TypeOK
<1>2. Copies(c, "receipts") = 1 /\ Copies(c, "idempotency") = 1
  BY DEF Copies
<1>. QED BY <1>1, <1>2, RequestsAssumption DEF Needs, Kind, RequestType, Op

\* The receipt and the record that a commit adds, each only in its own scope.
LEMMA InstallScope ==
  ASSUME IInv, NEW c \in Call, pc[c] = "commit", Install(c), NEW s \in Scope
  PROVE  /\ Receipts(s)' = IF s = req[c].scope /\ "receipts" \in Needs(c)
                           THEN Receipts(s) \cup {NewRow(c, "receipts", 1)} ELSE Receipts(s)
         /\ Records(s)' = IF s = req[c].scope /\ "idempotency" \in Needs(c)
                          THEN Records(s) \cup {NewRow(c, "idempotency", 1)} ELSE Records(s)
<1>1. ASSUME NEW k \in {"receipts", "idempotency"}
      PROVE  RowsOf(<<s, k>>)' = IF s = req[c].scope /\ k \in Needs(c)
                                 THEN RowsOf(<<s, k>>) \cup {NewRow(c, k, 1)}
                                 ELSE RowsOf(<<s, k>>)
  <2>1. <<s, k>> \in Stream
    BY DEF Stream, Kind
  <2>2. \A j \in Needs(c) : <<s, k>> = StreamOf(c, j) <=> s = req[c].scope /\ k = j
    BY DEF StreamOf
  <2>3. {NewRow(c, k, i) : i \in 1..Copies(c, k)} = {NewRow(c, k, 1)}
    BY KeyedNeeds DEF IInv
  <2>. QED BY <2>1, <2>2, <2>3, InstallRows
<1>. QED BY <1>1 DEF Receipts, Records

\* While the streams stand and no call begins its commit, so does everything here.
LEMMA QuietKeeps ==
  ASSUME TypeOK, KInv, log' = log, req' = req,
         \A c \in Call : pc[c] = "done" => pc'[c] = "done",
         \A c \in Call : pc'[c] = "commit" /\ "idempotency" \in Needs(c) =>
                           pc[c] = "commit" \/ Claims(c) = {}
  PROVE  KInv'
<1>1. \A s : /\ Receipts(s)' = Receipts(s) /\ Records(s)' = Records(s)
             /\ Keyed(s)' = Keyed(s)
  BY DEF Receipts, Records, Keyed, RowsOf
<1>2. \A c \in Call : Needs(c)' = Needs(c) /\ Claims(c)' = Claims(c)
  BY DEF Needs, Claims, RowsOf, StreamOf
<1>3. NotYet' /\ OncePerCall' /\ SpentOnce'
  BY <1>1 DEF KInv, NotYet, OncePerCall, SpentOnce, RowsOf
<1>4. Paired'
  BY <1>1 DEF KInv, Paired, RowHash
<1>5. Unclaimed'
  BY <1>2 DEF KInv, Unclaimed
<1>. QED BY <1>3, <1>4, <1>5 DEF KInv

\* The commit of a call.
LEMMA CommitKeeps ==
  ASSUME IInv, KInv, NEW c \in Call, pc[c] = "commit", Install(c), req' = req,
         pc' = [pc EXCEPT ![c] = "done"]
  PROVE  KInv'
<1>. DEFINE receipt == NewRow(c, "receipts", 1)
            record  == NewRow(c, "idempotency", 1)
            here    == req[c].scope
<1>1. /\ receipt.call = c /\ record.call = c
      /\ here \in Scope
      /\ "idempotency" \in Needs(c) => "receipts" \in Needs(c) /\ req[c].key # None
      /\ "receipts" \in Needs(c) /\ req[c].key # None => "idempotency" \in Needs(c)
  BY KeyedNeeds DEF NewRow, IInv
<1>2. record.ref = RowHash(<<here, "receipts">>, receipt)
  BY DEF NewRow, RefOf, OwnReceipt, RowHash, StreamOf
<1>3. \A s \in Scope :
        /\ Receipts(s)' = IF s = here /\ "receipts" \in Needs(c)
                          THEN Receipts(s) \cup {receipt} ELSE Receipts(s)
        /\ Records(s)' = IF s = here /\ "idempotency" \in Needs(c)
                         THEN Records(s) \cup {record} ELSE Records(s)
  BY InstallScope
<1>4. pc'[c] = "done" /\ \A d \in Call : d # c => pc'[d] = pc[d]
  BY DEF IInv, TypeOK
<1>5. \A s \in Scope : \A row \in Receipts(s) \cup Records(s) : row.call # c
  BY DEF KInv, NotYet, Receipts, Records, Stream, Kind
<1>. HIDE DEF receipt, record, here
<1>6. NotYet'
  <2>1. \A k, i : NewRow(c, k, i).call = c
    BY DEF NewRow
  <2>2. \A st \in Stream : \A row \in RowsOf(st)' : row \in RowsOf(st) \/ row.call = c
    BY <2>1, InstallRows
  <2>. QED BY <1>4, <2>2 DEF KInv, NotYet
<1>7. OncePerCall'
  BY <1>1, <1>3, <1>5 DEF KInv, OncePerCall
<1>8. \A s \in Scope : Keyed(s)' = IF s = here /\ "idempotency" \in Needs(c)
                                   THEN Keyed(s) \cup {receipt} ELSE Keyed(s)
  BY <1>1, <1>3 DEF Keyed
<1>9. Paired'
  <2>. SUFFICES ASSUME NEW s \in Scope
                PROVE  /\ \A rec \in Records(s)' : \E row \in Keyed(s)' :
                            row.call = rec.call /\ rec.ref = RowHash(<<s, "receipts">>, row)
                       /\ \A row \in Keyed(s)' : \E rec \in Records(s)' : rec.call = row.call
    BY DEF Paired, RowHash
  <2>1. /\ \A rec \in Records(s) : \E row \in Keyed(s) :
              row.call = rec.call /\ rec.ref = RowHash(<<s, "receipts">>, row)
        /\ \A row \in Keyed(s) : \E rec \in Records(s) : rec.call = row.call
    BY DEF KInv, Paired
  <2>2. CASE s = here /\ "idempotency" \in Needs(c)
    <3>1. Keyed(s)' = Keyed(s) \cup {receipt} /\ Records(s)' = Records(s) \cup {record}
      BY <1>3, <1>8, <2>2
    <3>. QED BY <1>1, <1>2, <2>1, <2>2, <3>1
  <2>3. CASE ~(s = here /\ "idempotency" \in Needs(c))
    <3>1. Keyed(s)' = Keyed(s) /\ Records(s)' = Records(s)
      BY <1>3, <1>8, <2>3
    <3>. QED BY <2>1, <3>1
  <2>. QED BY <2>2, <2>3
<1>10. "idempotency" \in Needs(c) =>
         \A row \in Records(here) : req[row.call].key # req[c].key
  BY <1>1 DEF KInv, Unclaimed, Claims, Records, StreamOf, here
<1>11. SpentOnce'
  BY <1>1, <1>3, <1>10 DEF KInv, SpentOnce
<1>12. Unclaimed'
  <2>. SUFFICES ASSUME NEW d \in Call, pc'[d] = "commit", "idempotency" \in Needs(d)
                PROVE  Claims(d)' = {}
    BY RequestFixes DEF Unclaimed
  <2>1. d # c /\ pc[d] = "commit" /\ Claims(d) = {}
    BY <1>4 DEF KInv, Unclaimed
  <2>2. StreamOf(d, "idempotency") \in Stream
    BY StreamOfType DEF IInv, Kind
  <2>3. \A k \in Needs(c) : StreamOf(d, "idempotency") # StreamOf(c, k)
    BY <2>1, CommitsApart
  <2>4. RowsOf(StreamOf(d, "idempotency"))' = RowsOf(StreamOf(d, "idempotency"))
    BY <2>2, <2>3, InstallRows DEF RowsOf, StreamOf
  <2>. QED BY <2>1, <2>4 DEF Claims, RowsOf, StreamOf
<1>. QED BY <1>6, <1>7, <1>9, <1>11, <1>12 DEF KInv

\* Every step of every call keeps the correspondence.
LEMMA StepKeepsKeys ==
  ASSUME IInv, KInv, NEW c \in Call, Step(c)
  PROVE  KInv'
<1>1. TypeOK
  BY DEF IInv
<1>2. pc[c] # "done" /\ \A d \in Call : d # c => pc'[d] = pc[d]
  BY <1>1, StepIsOwn
<1>3. CASE pc[c] = "commit" /\ Install(c)
  <2>1. req' = req /\ pc' = [pc EXCEPT ![c] = "done"]
    BY <1>3 DEF Step, Progress, UnknownScope, BeginReplay, BeginWrite, BeginMemory, VerifyScan,
                Started, LockHead, Recheck, Flush, FlushRefused, Recover, Commit,
                CommitReplyLost, Abort, VerifyHead, Unchanged, Return
  <2>. QED BY <1>3, <2>1, CommitKeeps
<1>4. CASE log' = log /\ req' = req
  <2>1. pc'[c] = "commit" => Flush(c)
    BY <1>1, <1>4 DEF TypeOK, Step, Progress, UnknownScope, BeginReplay, BeginWrite, BeginMemory,
                VerifyScan, LockHead, Recheck, Flush, FlushRefused, Recover, Commit,
                CommitReplyLost, Abort, VerifyHead, Return, GoTo
  <2>2. pc'[c] = "commit" /\ "idempotency" \in Needs(c) => Claims(c) = {}
    BY <2>1 DEF Flush, Unique
  <2>. QED BY <1>1, <1>2, <1>4, <2>2, QuietKeeps
<1>5. (log' = log /\ req' = req) \/ (pc[c] = "commit" /\ Install(c))
  BY DEF Step, Progress, UnknownScope, BeginReplay, BeginWrite, BeginMemory, VerifyScan,
         LockHead, Recheck, Flush, FlushRefused, Recover, Commit, CommitReplyLost, Abort,
         VerifyHead, Unchanged
<1>. QED BY <1>3, <1>4, <1>5

\* The correspondence holds of every behaviour.
LEMMA KeysInvariance == Spec => []KInv
<1>1. Init => KInv
  BY DEF Init, KInv, NotYet, OncePerCall, Paired, SpentOnce, Unclaimed, Receipts, Records,
         Keyed, RowsOf, Stream, Kind
<1>2. IInv /\ KInv /\ [Next]_vars => KInv'
  <2>1. ASSUME IInv, KInv, UNCHANGED vars
        PROVE  KInv'
    BY <2>1, QuietKeeps DEF vars, IInv
  <2>. QED BY <2>1, StepKeepsKeys DEF Next, Terminated
<1>. QED BY Invariance, <1>1, <1>2, PTL DEF Spec

\* Records and keyed receipts, which the calls that wrote them match one to
\* one, are equally many.
LEMMA AsManyRecords ==
  ASSUME TypeOK, KInv, NEW s \in Scope
  PROVE  Cardinality(Records(s)) = Cardinality(Keyed(s))
<1>. DEFINE f == [row \in Keyed(s) |-> CHOOSE record \in Records(s) : record.call = row.call]
<1>1. \A row \in Keyed(s) : f[row] \in Records(s) /\ f[row].call = row.call
  BY DEF KInv, Paired
<1>2. f \in Injection(Keyed(s), Records(s))
  <2>1. f \in [Keyed(s) -> Records(s)]
    BY <1>1
  <2>2. \A p, q \in Keyed(s) : f[p] = f[q] => p = q
    <3>. HIDE DEF f
    <3>1. \A p, q \in Receipts(s) : p.call = q.call => p = q
      BY DEF KInv, OncePerCall
    <3>2. Keyed(s) \subseteq Receipts(s)
      BY DEF Keyed
    <3>. QED BY <1>1, <3>1, <3>2
  <2>. QED BY <2>1, <2>2 DEF Injection, IsInjective
<1>3. \A record \in Records(s) : \E row \in Keyed(s) : f[row] = record
  <2>1. \A record \in Records(s) : \E row \in Keyed(s) : row.call = record.call
    BY DEF KInv, Paired
  <2>. QED BY <1>1, <2>1 DEF KInv, OncePerCall
<1>4. f \in Bijection(Keyed(s), Records(s))
  BY <1>1, <1>2, <1>3 DEF Bijection, Surjection
<1>5. IsFiniteSet(Keyed(s))
  <2>1. <<s, "receipts">> \in Stream
    BY DEF Stream, Kind
  <2>2. log[<<s, "receipts">>] \in Seq(Row)
    BY <2>1 DEF TypeOK
  <2>3. IsFiniteSet(DOMAIN log[<<s, "receipts">>])
    BY <2>2, FS_Interval
  <2>4. log[<<s, "receipts">>] \in Surjection(DOMAIN log[<<s, "receipts">>], Receipts(s))
    BY <2>2 DEF Surjection, Receipts, RowsOf
  <2>5. IsFiniteSet(Receipts(s))
    BY <2>3, <2>4, FS_Surjection
  <2>. QED BY <2>5, FS_Subset DEF Keyed
<1>. QED BY <1>4, <1>5, FS_Bijection DEF ExistsBijection

\* An idempotency key of a scope stands for one receipt, however calls race:
\* append_receipt checks the key before it locks, append_analysis_bundle twice,
\* and the unique constraint on the key has the last word.
THEOREM OneReceipt == Spec => []OneReceiptPerKey
<1>1. IInv /\ KInv => OneReceiptPerKey
  <2>. SUFFICES ASSUME IInv, KInv, NEW s \in Scope
                PROVE  /\ \A p, q \in Keyed(s) : req[p.call].key = req[q.call].key => p = q
                       /\ {RowHash(<<s, "receipts">>, row) : row \in Keyed(s)}
                            = {record.ref : record \in Records(s)}
                       /\ Cardinality(Records(s)) = Cardinality(Keyed(s))
    BY DEF OneReceiptPerKey, Keyed, Receipts, Records
  <2>1. /\ \A record \in Records(s) : \E row \in Keyed(s) :
              row.call = record.call /\ record.ref = RowHash(<<s, "receipts">>, row)
        /\ \A row \in Keyed(s) : \E record \in Records(s) : record.call = row.call
    BY DEF KInv, Paired
  <2>2. \A p, q \in Keyed(s) : p.call = q.call => p = q
    BY DEF KInv, OncePerCall, Keyed
  <2>3. \A p, q \in Keyed(s) : req[p.call].key = req[q.call].key => p = q
    BY <2>1, <2>2 DEF KInv, SpentOnce
  <2>4. {RowHash(<<s, "receipts">>, row) : row \in Keyed(s)}
          = {record.ref : record \in Records(s)}
    BY <2>1, <2>2
  <2>. QED BY <2>3, <2>4, AsManyRecords DEF IInv
<1>. QED BY Invariance, KeysInvariance, <1>1, PTL

-----------------------------------------------------------------------------
(* What a caller is told. *)

\* What AnswersTruthful says of one answer.
Truthful(c, a) ==
  /\ a.receipt # None =>
       \E row \in ReceiptsNamed(c, a.receipt) :
          /\ req[row.call].digest = req[c].digest
          /\ req[row.call].key = req[c].key
          /\ a.status = "ok" <=> row.call = c
  /\ a.status = "conflict" =>
       /\ \E claim \in Claims(c) : req[claim.call].digest # req[c].digest
       /\ ~Wrote(c)
  /\ a.status = "ok" => Wrote(c)

AllTruthful == \A c \in Call : answer[c] # None => Truthful(c, answer[c])

\* A call that locks streams has streams to advance.
Writers ==
  \A c \in Call : pc[c] \in {"lock", "recheck", "write", "commit"} => Needs(c) # {}

-----------------------------------------------------------------------------
\* A true answer stays true while rows are only added, none of them the caller's.
LEMMA TruthStays ==
  ASSUME TypeOK, req' = req, NEW c \in Call, NEW a, Truthful(c, a),
         \A st \in Stream : /\ RowsOf(st) \subseteq RowsOf(st)'
                            /\ \A row \in RowsOf(st)' : row \in RowsOf(st) \/ row.call # c
  PROVE  Truthful(c, a)'
<1>1. \A k \in Kind : StreamOf(c, k)' = StreamOf(c, k) /\ StreamOf(c, k) \in Stream
  BY StreamOfType DEF StreamOf
<1>2. \A k \in Kind : /\ RowsOf(StreamOf(c, k)) \subseteq RowsOf(StreamOf(c, k))'
                      /\ \A row \in RowsOf(StreamOf(c, k))' :
                           row \in RowsOf(StreamOf(c, k)) \/ row.call # c
  BY <1>1 DEF RowsOf
<1>3. \A h : ReceiptsNamed(c, h) \subseteq ReceiptsNamed(c, h)'
  BY <1>1, <1>2 DEF ReceiptsNamed, RowHash, Kind
<1>4. Claims(c) \subseteq Claims(c)'
  BY <1>1, <1>2 DEF Claims, Kind
<1>5. Wrote(c)' <=> Wrote(c)
  BY <1>1, <1>2 DEF Wrote
<1>. QED BY <1>3, <1>4, <1>5 DEF Truthful

\* What a record of the call's key answers is true.
LEMMA ResolvesTruthfully ==
  ASSUME IInv, KInv, NEW c \in Call, pc[c] # "done",
         NEW claim \in Claims(c), NEW a \in Resolutions(c, claim)
  PROVE  Truthful(c, a)
<1>1. /\ req[c].scope \in Scope /\ claim \in Records(req[c].scope)
      /\ req[claim.call].key = req[c].key
  BY KeyedNeeds DEF IInv, Claims, Records, StreamOf
<1>2. PICK row \in Keyed(req[c].scope) :
        row.call = claim.call /\ claim.ref = RowHash(<<req[c].scope, "receipts">>, row)
  BY <1>1 DEF KInv, Paired
<1>3. row \in ReceiptsNamed(c, claim.ref)
  BY <1>2 DEF Keyed, Receipts, ReceiptsNamed, StreamOf
<1>4. ~Wrote(c)
  BY StreamOfType DEF KInv, NotYet, Wrote, IInv
<1>5. row.call # c
  BY <1>1, <1>2 DEF KInv, NotYet, Keyed, Receipts, Stream, Kind
<1>6. \/ a = Reply("conflict", None) /\ req[claim.call].digest # req[c].digest
      \/ a = Reply("broken", None)
      \/ a = Reply("replay", claim.ref) /\ req[claim.call].digest = req[c].digest
  BY DEF Resolutions, BundleReplies
<1>. QED BY <1>1, <1>2, <1>3, <1>4, <1>5, <1>6 DEF Truthful, Reply

\* An answer that names no receipt and claims neither success nor conflict.
LEMMA NothingClaimed ==
  ASSUME NEW c \in Call, NEW status, status \notin {"ok", "conflict"}
  PROVE  Truthful(c, Reply(status, None))
  BY DEF Truthful, Reply

\* A step of a call that leaves the streams alone gives no answer, a true one
\* from a record, or one that claims nothing.
LEMMA QuietAnswers ==
  ASSUME IInv, KInv, NEW c \in Call, Step(c), ~(pc[c] = "commit" /\ Install(c))
  PROVE  answer'[c] = answer[c] \/ Truthful(c, answer'[c])
<1>1. pc[c] # "done"
  BY StepIsOwn DEF IInv
<1>2. \A a : Return(c, a) => answer'[c] = a
  BY DEF Return, IInv, TypeOK
<1>3. \A claim \in Claims(c) : \A a \in Resolutions(c, claim) : Truthful(c, a)
  BY <1>1, ResolvesTruthfully
<1>4. \A status \in {"rejected", "failed", "valid", "invalid"} : Truthful(c, Reply(status, None))
  BY NothingClaimed
<1>5. CASE UnknownScope(c) \/ Abort(c)
  BY <1>2, <1>4, <1>5 DEF UnknownScope, Abort
<1>6. CASE BeginReplay(c) \/ Recheck(c) \/ Recover(c)
  BY <1>2, <1>3, <1>4, <1>6 DEF BeginReplay, Recheck, Recover
<1>7. CASE BeginWrite(c) \/ Flush(c) \/ \E k \in Kind : LockHead(c, k)
  BY <1>7 DEF BeginWrite, Flush, LockHead
<1>8. CASE BeginMemory(c) \/ FlushRefused(c)
  BY <1>2, <1>4, <1>8 DEF BeginMemory, FlushRefused
<1>9. CASE VerifyScan(c)
  BY <1>2, <1>4, <1>9 DEF VerifyScan
<1>10. CASE VerifyHead(c)
  BY <1>2, <1>4, <1>10 DEF VerifyHead
<1>11. ~Commit(c) /\ ~CommitReplyLost(c)
  BY DEF Commit, CommitReplyLost
<1>. QED BY <1>5, <1>6, <1>7, <1>8, <1>9, <1>10, <1>11 DEF Step, Progress

\* The answer to a commit that arrives is true of what was committed.
LEMMA CommitTruthful ==
  ASSUME IInv, Writers, NEW c \in Call, Commit(c)
  PROVE  Truthful(c, answer[c])'
<1>. DEFINE row == NewRow(c, "receipts", 1)
<1>1. /\ answer'[c] = Reply("ok", IF "receipts" \in Needs(c) THEN OwnReceipt(c) ELSE None)
      /\ pc[c] = "commit" /\ Install(c) /\ req' = req
  BY DEF Commit, Return, IInv, TypeOK
<1>2. ASSUME NEW k \in Needs(c)
      PROVE  NewRow(c, k, 1) \in RowsOf(StreamOf(c, k))'
  <2>1. k \in Kind /\ 1 \in 1..Copies(c, k)
    BY NeedsType, CopiesType
  <2>2. PICK st \in Stream : st = StreamOf(c, k)
    BY <2>1, StreamOfType DEF IInv
  <2>3. RowsOf(st)' = RowsOf(st) \cup {NewRow(c, k, i) : i \in 1..Copies(c, k)}
    BY <1>1, <2>2, InstallRows
  <2>4. NewRow(c, k, 1) \in RowsOf(st)'
    BY <2>1, <2>3
  <2>. QED BY <1>1, <2>2, <2>4 DEF RowsOf, StreamOf
<1>3. Wrote(c)'
  <2>1. PICK k \in Needs(c) : TRUE
    BY <1>1 DEF Writers
  <2>2. k \in Kind /\ NewRow(c, k, 1).call = c
    BY NeedsType DEF NewRow
  <2>. QED BY <1>2, <2>1, <2>2 DEF Wrote
<1>4. ASSUME "receipts" \in Needs(c), NEW h, h = OwnReceipt(c)
      PROVE  row \in ReceiptsNamed(c, h)'
  <2>1. row \in RowsOf(StreamOf(c, "receipts"))'
    BY <1>2, <1>4
  <2>2. RowHash(StreamOf(c, "receipts"), row) = h
    BY <1>4 DEF RowHash, NewRow, OwnReceipt
  <2>3. StreamOf(c, "receipts")' = StreamOf(c, "receipts")
    BY <1>1 DEF StreamOf
  <2>. HIDE DEF row
  <2>. QED BY <2>1, <2>2, <2>3 DEF ReceiptsNamed, RowHash, HashOf
<1>5. row.call = c
  BY DEF NewRow
<1>6. PICK h : h = IF "receipts" \in Needs(c) THEN OwnReceipt(c) ELSE None
  OBVIOUS
<1>7. answer'[c].status = "ok" /\ answer'[c].receipt = h
  BY <1>1, <1>6 DEF Reply
<1>8. h # None => row \in ReceiptsNamed(c, h)'
  BY <1>4, <1>6
<1>. HIDE DEF row
<1>9. ReceiptsNamed(c, answer[c].receipt)' = ReceiptsNamed(c, h)'
  BY <1>7 DEF ReceiptsNamed
<1>. QED BY <1>1, <1>3, <1>5, <1>7, <1>8, <1>9 DEF Truthful

\* Rows of the other calls, and none of one's own, are what a step of another adds.
LEMMA OthersAdd ==
  ASSUME IInv, NEW c \in Call, Step(c), NEW st \in Stream
  PROVE  /\ RowsOf(st) \subseteq RowsOf(st)'
         /\ \A row \in RowsOf(st)' : row \in RowsOf(st) \/ row.call = c
<1>1. CASE log' = log
  BY <1>1 DEF RowsOf
<1>2. CASE pc[c] = "commit" /\ Install(c)
  <2>1. \A k, i : NewRow(c, k, i).call = c
    BY DEF NewRow
  <2>. QED BY <1>2, <2>1, InstallRows
<1>3. log' = log \/ (pc[c] = "commit" /\ Install(c))
  BY DEF Step, Progress, UnknownScope, BeginReplay, BeginWrite, BeginMemory, VerifyScan,
         LockHead, Recheck, Flush, FlushRefused, Recover, Commit, CommitReplyLost, Abort,
         VerifyHead, Unchanged
<1>. QED BY <1>1, <1>2, <1>3

\* Every step of every call keeps all answers true.
LEMMA StepKeepsTruth ==
  ASSUME IInv, KInv, Writers, AllTruthful, NEW c \in Call, Step(c)
  PROVE  AllTruthful'
<1>. SUFFICES ASSUME NEW d \in Call, answer'[d] # None
              PROVE  Truthful(d, answer[d])'
  BY DEF AllTruthful
<1>1. req' = req
  BY DEF Step, Progress, UnknownScope, BeginReplay, BeginWrite, BeginMemory, VerifyScan,
         LockHead, Recheck, Flush, FlushRefused, Recover, Commit, CommitReplyLost, Abort,
         VerifyHead, Unchanged
<1>2. CASE d # c
  <2>1. answer'[d] = answer[d]
    BY <1>2, StepIsOwn DEF IInv
  <2>2. PICK a : a = answer[d]
    OBVIOUS
  <2>3. Truthful(d, a)
    BY <2>1, <2>2 DEF AllTruthful
  <2>4. \A st \in Stream : /\ RowsOf(st) \subseteq RowsOf(st)'
                           /\ \A row \in RowsOf(st)' : row \in RowsOf(st) \/ row.call # d
    BY <1>2, OthersAdd
  <2>5. Truthful(d, a)'
    BY <1>1, <2>3, <2>4, TruthStays DEF IInv
  <2>. QED BY <2>1, <2>2, <2>5 DEF Truthful, ReceiptsNamed
<1>3. CASE d = c /\ pc[c] = "commit" /\ Install(c)
  <2>1. CASE Commit(c)
    BY <1>3, <2>1, CommitTruthful
  <2>2. CASE ~Commit(c)
    <3>1. answer'[c] = Reply("failed", None)
      BY <1>3, <2>2 DEF IInv, TypeOK, Step, Progress, UnknownScope, BeginReplay, BeginWrite,
            BeginMemory, VerifyScan, Started, LockHead, Recheck, Flush, FlushRefused, Recover,
            CommitReplyLost, Abort, VerifyHead, Return
    <3>. QED BY <1>3, <3>1 DEF Truthful, Reply
  <2>. QED BY <2>1, <2>2
<1>4. CASE d = c /\ ~(pc[c] = "commit" /\ Install(c))
  <2>1. log' = log
    BY <1>4 DEF Step, Progress, UnknownScope, BeginReplay, BeginWrite, BeginMemory, VerifyScan,
           LockHead, Recheck, Flush, FlushRefused, Recover, Commit, CommitReplyLost, Abort,
           VerifyHead, Unchanged
  <2>2. PICK a : a = answer'[c]
    OBVIOUS
  <2>3. Truthful(c, a)
    BY <1>4, <2>2, QuietAnswers DEF AllTruthful
  <2>4. Truthful(c, a)'
    BY <1>1, <2>1, <2>3, TruthStays DEF IInv, RowsOf
  <2>. QED BY <1>4, <2>2, <2>4 DEF Truthful, ReceiptsNamed
<1>. QED BY <1>2, <1>3, <1>4

\* Whoever comes to a lock has something to write.
LEMMA StepKeepsWriters ==
  ASSUME TypeOK, Writers, NEW c \in Call, Step(c)
  PROVE  Writers'
<1>1. req' = req /\ \A d \in Call : d # c => pc'[d] = pc[d]
  BY StepIsOwn DEF Step, Progress, UnknownScope, BeginReplay, BeginWrite, BeginMemory, VerifyScan,
         LockHead, Recheck, Flush, FlushRefused, Recover, Commit, CommitReplyLost, Abort,
         VerifyHead, Unchanged
<1>2. pc'[c] \in {"lock", "recheck", "write", "commit"} =>
        \/ BeginWrite(c) \/ BeginMemory(c)
        \/ pc[c] \in {"lock", "recheck", "write", "commit"}
  BY DEF TypeOK, Step, Progress, UnknownScope, BeginReplay, VerifyScan, LockHead, Recheck, Flush,
         FlushRefused, Recover, Commit, CommitReplyLost, Abort, VerifyHead, Return, GoTo
<1>3. BeginWrite(c) \/ BeginMemory(c) => Needs(c) # {}
  BY DEF BeginWrite, BeginMemory, Needs, Kind
<1>. QED BY <1>1, <1>2, <1>3, RequestFixes DEF Writers

-----------------------------------------------------------------------------
(* The results. *)

LEMMA TruthInvariance == Spec => []AllTruthful
<1>1. Init => Writers /\ AllTruthful
  BY DEF Init, Writers, AllTruthful
<1>2. IInv /\ KInv /\ Writers /\ AllTruthful /\ [Next]_vars => Writers' /\ AllTruthful'
  <2>1. ASSUME IInv, KInv, Writers, AllTruthful, UNCHANGED vars
        PROVE  Writers' /\ AllTruthful'
    <3>. USE DEF vars
    <3>1. Writers'
      BY <2>1, RequestFixes DEF Writers
    <3>2. ASSUME NEW c \in Call, answer'[c] # None
          PROVE  Truthful(c, answer[c])'
      <4>1. PICK a : a = answer[c]
        OBVIOUS
      <4>2. Truthful(c, a)
        BY <2>1, <3>2, <4>1 DEF AllTruthful
      <4>3. Truthful(c, a)'
        BY <2>1, <4>2, TruthStays DEF IInv, RowsOf
      <4>. QED BY <2>1, <4>1, <4>3 DEF Truthful, ReceiptsNamed
    <3>. QED BY <3>1, <3>2 DEF AllTruthful
  <2>. QED BY <2>1, StepKeepsTruth, StepKeepsWriters DEF Next, Terminated, IInv
<1>. QED BY Invariance, KeysInvariance, <1>1, <1>2, PTL DEF Spec

\* Whatever races, aborts or loses its reply, what append_receipt,
\* append_analysis_bundle and the others told a caller is so and stays so.
THEOREM AnswersStayTruthful == Spec => []AnswersTruthful
<1>1. AllTruthful => AnswersTruthful
  BY DEF AllTruthful, Truthful, AnswersTruthful
<1>. QED BY TruthInvariance, <1>1, PTL

\* A retry under one idempotency key names the receipt that the first call was
\* given, or would have been.
THEOREM RetriesGetOneReceipt == Spec => []RetriesAgree
<1>1. TypeOK /\ AllTruthful /\ OneReceiptPerKey => RetriesAgree
  <2>. SUFFICES ASSUME TypeOK, AllTruthful, OneReceiptPerKey, NEW c \in Call, NEW d \in Call,
                       answer[c] # None, answer[d] # None, req[c].scope = req[d].scope,
                       req[c].key = req[d].key, req[c].key # None,
                       answer[c].receipt # None, answer[d].receipt # None
                PROVE  answer[c].receipt = answer[d].receipt
    BY DEF RetriesAgree
  <2>. DEFINE s == req[c].scope
  <2>1. PICK p \in RowsOf(<<s, "receipts">>) :
          RowHash(<<s, "receipts">>, p) = answer[c].receipt /\ req[p.call].key = req[c].key
    BY DEF AllTruthful, Truthful, ReceiptsNamed, StreamOf
  <2>2. PICK q \in RowsOf(<<s, "receipts">>) :
          RowHash(<<s, "receipts">>, q) = answer[d].receipt /\ req[q.call].key = req[d].key
    BY DEF AllTruthful, Truthful, ReceiptsNamed, StreamOf
  <2>3. s \in Scope
    BY KeyedNeeds
  <2>. HIDE DEF s
  <2>4. /\ p \in {row \in RowsOf(<<s, "receipts">>) : req[row.call].key # None}
        /\ q \in {row \in RowsOf(<<s, "receipts">>) : req[row.call].key # None}
        /\ req[p.call].key = req[q.call].key
    BY <2>1, <2>2
  <2>5. p = q
    BY <2>3, <2>4 DEF OneReceiptPerKey
  <2>. QED BY <2>1, <2>2, <2>5
<1>. QED BY TypeCorrect, TruthInvariance, OneReceipt, <1>1, PTL

-----------------------------------------------------------------------------
(* What a call leaves behind. *)

\* The receipt a memory call was admitted on is still there when it commits.
Cited ==
  \A c \in Call : pc[c] \in {"lock", "recheck", "write", "commit"} /\ req[c].op = "memory"
                  => Admits(c, cites[c])

EInv == WholeBundles /\ Cited /\ MemoryRestsOnEvidence

\* The steps that are not commits leave the streams alone.
LEMMA OnlyCommits ==
  ASSUME NEW c \in Call, Step(c)
  PROVE  req' = req /\ (log' = log \/ (pc[c] = "commit" /\ Install(c)))
  BY DEF Step, Progress, UnknownScope, BeginReplay, BeginWrite, BeginMemory, VerifyScan,
         LockHead, Recheck, Flush, FlushRefused, Recover, Commit, CommitReplyLost, Abort,
         VerifyHead, Unchanged

\* A commit writes the rows that its call asks for, all of them, and no other.
LEMMA CommitWrites ==
  ASSUME IInv, NotYet, NEW c \in Call, pc[c] = "commit", Install(c), req' = req, NEW k \in Kind
  PROVE  Cardinality(Written(c, k)') = IF k \in Needs(c) THEN Copies(c, k) ELSE 0
<1>. DEFINE st == StreamOf(c, k)
            n  == Len(log[st])
<1>1. st \in Stream /\ log[st] \in Seq(Row) /\ n \in Nat /\ DOMAIN log[st] = 1..n
  BY StreamOfType DEF IInv, TypeOK
<1>2. \A i \in 1..n : log[st][i].call # c
  BY <1>1 DEF NotYet, RowsOf
<1>3. Written(c, k)' = {i \in DOMAIN log'[st] : log'[st][i].call = c}
  BY DEF Written, StreamOf
<1>4. CASE k \in Needs(c)
  <2>. DEFINE new == NewRows(c, k)
              m   == Copies(c, k)
  <2>1. log'[st] = log[st] \o new
    BY <1>1, <1>4 DEF Install, StreamOf
  <2>2. m \in Nat \ {0}
    BY CopiesType
  <2>3. /\ new \in Seq(Row) /\ Len(new) = m
        /\ \A i \in 1..m : new[i] = NewRow(c, k, i)
    BY <1>4, NewRowsType DEF IInv, AllRead
  <2>4. \A i \in 1..m : new[i].call = c
    BY <2>3 DEF NewRow
  <2>. HIDE DEF new, st, n, m
  <2>5. /\ DOMAIN log'[st] = 1..(n + m)
        /\ \A i \in 1..n : log'[st][i] = log[st][i]
        /\ \A i \in (n + 1)..(n + m) : log'[st][i] = new[i - n]
    BY <1>1, <2>1, <2>2, <2>3 DEF n
  <2>6. \A i \in (n + 1)..(n + m) : i - n \in 1..m
    BY <1>1, <2>2
  <2>7. {i \in DOMAIN log'[st] : log'[st][i].call = c} = (n + 1)..(n + m)
    <3>1. ASSUME NEW i \in (n + 1)..(n + m)
          PROVE  i \in 1..(n + m) /\ log'[st][i].call = c
      <4>1. i \in 1..(n + m) /\ log'[st][i] = new[i - n] /\ i - n \in 1..m
        BY <1>1, <2>2, <2>5, <2>6
      <4>. QED BY <2>4, <4>1
    <3>2. \A i \in 1..(n + m) : i \in (n + 1)..(n + m) \/ i \in 1..n
      BY <1>1, <2>2
    <3>3. \A i \in 1..n : log'[st][i].call # c
      BY <1>2, <2>5
    <3>. QED BY <2>5, <3>1, <3>2, <3>3
  <2>8. Cardinality((n + 1)..(n + m)) = m
    BY <1>1, <2>2, FS_Interval
  <2>. QED BY <1>3, <1>4, <2>7, <2>8 DEF m
<1>5. CASE k \notin Needs(c)
  <2>1. log'[st] = log[st]
    BY <1>1, <1>5 DEF Install, StreamOf
  <2>2. Written(c, k)' = {}
    BY <1>1, <1>2, <1>3, <2>1
  <2>. QED BY <1>5, <2>2, FS_EmptySet
<1>. QED BY <1>4, <1>5

\* A commit adds nothing in the name of another call.
LEMMA CommitSpares ==
  ASSUME IInv, NEW c \in Call, pc[c] = "commit", Install(c), req' = req,
         NEW d \in Call, d # c, NEW k \in Kind
  PROVE  Written(d, k)' = Written(d, k)
<1>. DEFINE st == StreamOf(d, k)
<1>1. st \in Stream /\ log[st] \in Seq(Row) /\ StreamOf(d, k)' = st
  BY StreamOfType DEF IInv, TypeOK, StreamOf
<1>2. CASE \E j \in Needs(c) : st = StreamOf(c, j)
  <2>1. PICK j \in Needs(c) : st = StreamOf(c, j)
    BY <1>2
  <2>. DEFINE new == NewRows(c, j)
              m   == Copies(c, j)
  <2>2. j \in Kind /\ m \in Nat \ {0}
    BY NeedsType, CopiesType
  <2>3. log'[st] = log[st] \o new
    BY <1>1, <2>1, <2>2 DEF Install, StreamOf
  <2>4. /\ new \in Seq(Row) /\ Len(new) = m
        /\ \A i \in 1..m : new[i] = NewRow(c, j, i)
    BY NewRowsType DEF IInv, AllRead
  <2>5. \A i \in 1..m : new[i].call = c
    BY <2>4 DEF NewRow
  <2>. HIDE DEF new, m, st
  <2>6. /\ DOMAIN log'[st] = 1..(Len(log[st]) + m) /\ DOMAIN log[st] = 1..Len(log[st])
        /\ \A i \in 1..Len(log[st]) : log'[st][i] = log[st][i]
        /\ \A i \in 1..(Len(log[st]) + m) : i \notin 1..Len(log[st]) =>
              i - Len(log[st]) \in 1..m /\ log'[st][i] = new[i - Len(log[st])]
    BY <1>1, <2>2, <2>3, <2>4
  <2>7. \A i \in DOMAIN log'[st] : log'[st][i].call = d <=>
                                    i \in DOMAIN log[st] /\ log[st][i].call = d
    BY <2>5, <2>6
  <2>8. DOMAIN log[st] \subseteq DOMAIN log'[st]
    BY <1>1, <2>2, <2>6
  <2>9. {i \in DOMAIN log'[st] : log'[st][i].call = d} = {i \in DOMAIN log[st] : log[st][i].call = d}
    BY <2>7, <2>8
  <2>10. Written(d, k) = {i \in DOMAIN log[st] : log[st][i].call = d}
    BY DEF Written, st
  <2>11. Written(d, k)' = {i \in DOMAIN log'[st] : log'[st][i].call = d}
    BY <1>1 DEF Written
  <2>. QED BY <2>9, <2>10, <2>11
<1>3. CASE \A j \in Needs(c) : st # StreamOf(c, j)
  <2>1. log'[st] = log[st]
    BY <1>1, <1>3, NeedsType DEF Install, StreamOf, Stream
  <2>. QED BY <1>1, <2>1 DEF Written
<1>. QED BY <1>2, <1>3

\* A call has all its rows or none after every step.
LEMMA StepKeepsWhole ==
  ASSUME IInv, NotYet, WholeBundles, NEW c \in Call, Step(c)
  PROVE  WholeBundles'
<1>1. ASSUME NEW d \in Call
      PROVE  \/ \A k \in Kind : Cardinality(Written(d, k)) =
                                  IF k \in Needs(d) THEN Copies(d, k) ELSE 0
             \/ \A k \in Kind : Cardinality(Written(d, k)) = 0
  BY DEF WholeBundles
<1>2. req' = req /\ (log' = log \/ (pc[c] = "commit" /\ Install(c)))
  BY OnlyCommits
<1>3. \A d \in Call, k \in Kind : Needs(d)' = Needs(d) /\ Copies(d, k)' = Copies(d, k)
  BY <1>2 DEF Needs, Copies
<1>4. ASSUME NEW d \in Call
      PROVE  \/ \A k \in Kind : Cardinality(Written(d, k)') =
                                    IF k \in Needs(d) THEN Copies(d, k) ELSE 0
             \/ \A k \in Kind : Cardinality(Written(d, k)') = 0
  <2>1. CASE log' = log
    <3>1. \A k \in Kind : Written(d, k)' = Written(d, k)
      BY <1>2, <2>1 DEF Written, StreamOf
    <3>. QED BY <1>1, <3>1
  <2>2. CASE pc[c] = "commit" /\ Install(c) /\ d = c
    BY <1>2, <2>2, CommitWrites
  <2>3. CASE pc[c] = "commit" /\ Install(c) /\ d # c
    <3>1. \A k \in Kind : Written(d, k)' = Written(d, k)
      BY <1>2, <2>3, CommitSpares
    <3>. QED BY <1>1, <3>1
  <2>. QED BY <1>2, <2>1, <2>2, <2>3
<1>. QED BY <1>3, <1>4 DEF WholeBundles

\* Evidence that admits a memory goes on admitting it: receipts are only added.
LEMMA AdmitsStays ==
  ASSUME TypeOK, req' = req, NEW c \in Call, NEW h, Admits(c, h),
         RowsOf(StreamOf(c, "receipts")) \subseteq RowsOf(StreamOf(c, "receipts"))'
  PROVE  Admits(c, h)'
<1>1. PICK row \in ReceiptsNamed(c, h) : req[row.call].label \in Compatible(req[c].label)
  BY DEF Admits
<1>2. row \in ReceiptsNamed(c, h)'
  BY <1>1 DEF ReceiptsNamed, RowHash, HashOf, StreamOf
<1>. QED BY <1>1, <1>2 DEF Admits, Compatible

\* Every step keeps the evidence of the memories that are and will be written.
LEMMA StepKeepsEvidence ==
  ASSUME IInv, Cited, MemoryRestsOnEvidence, NEW c \in Call, Step(c)
  PROVE  Cited' /\ MemoryRestsOnEvidence'
<1>1. req' = req /\ (log' = log \/ (pc[c] = "commit" /\ Install(c)))
  BY OnlyCommits
<1>2. pc[c] # "done" /\ \A d \in Call : d # c => pc'[d] = pc[d]
  BY StepIsOwn DEF IInv
<1>3. \A st \in Stream : RowsOf(st) \subseteq RowsOf(st)'
  BY OthersAdd
<1>4. ASSUME NEW d \in Call
      PROVE  /\ RowsOf(StreamOf(d, "receipts")) \subseteq RowsOf(StreamOf(d, "receipts"))'
  <2>1. PICK st \in Stream : st = StreamOf(d, "receipts")
    BY StreamOfType DEF IInv, Kind
  <2>2. StreamOf(d, "receipts")' = st
    BY <1>1, <2>1 DEF StreamOf
  <2>. QED BY <1>3, <2>1, <2>2 DEF RowsOf
<1>5. ASSUME NEW d \in Call, pc'[d] \in {"lock", "recheck", "write", "commit"},
             req[d].op = "memory"
      PROVE  Admits(d, cites'[d])
  <2>1. CASE d # c
    <3>1. cites'[d] = cites[d]
      BY <2>1 DEF IInv, TypeOK, Step, Progress, UnknownScope, BeginReplay, BeginWrite, BeginMemory,
             VerifyScan, LockHead, Recheck, Flush, FlushRefused, Recover, Commit, CommitReplyLost,
             Abort, VerifyHead
    <3>. QED BY <1>2, <1>5, <2>1, <3>1 DEF Cited
  <2>2. CASE d = c /\ BeginMemory(c)
    BY <1>5, <2>2 DEF BeginMemory, Return, IInv, TypeOK
  <2>3. CASE d = c /\ ~BeginMemory(c)
    <3>1. /\ cites' = cites
          /\ \/ pc[c] \in {"lock", "recheck", "write"}
             \/ BeginWrite(c) /\ pc'[c] = "lock"
      BY <1>5, <2>3 DEF IInv, TypeOK, Step, Progress, UnknownScope, BeginReplay, BeginWrite,
             VerifyScan, LockHead, Recheck, Flush, FlushRefused, Recover, Commit, CommitReplyLost,
             Abort, VerifyHead, Return, GoTo
    <3>2. pc[c] \in {"lock", "recheck", "write"}
      BY <1>5, <2>3, <3>1 DEF BeginWrite
    <3>. QED BY <1>5, <2>3, <3>1, <3>2 DEF Cited
  <2>. QED BY <2>1, <2>2, <2>3
<1>6. Cited'
  <2>. SUFFICES ASSUME NEW d \in Call, pc'[d] \in {"lock", "recheck", "write", "commit"},
                       req[d].op = "memory"
                PROVE  Admits(d, cites[d])'
    BY <1>1 DEF Cited
  <2>1. PICK h : h = cites'[d]
    OBVIOUS
  <2>2. Admits(d, h)'
    BY <1>1, <1>4, <1>5, <2>1, AdmitsStays DEF IInv
  <2>. QED BY <2>1, <2>2 DEF Admits, ReceiptsNamed
<1>7. ASSUME NEW s \in Scope, NEW memory \in RowsOf(<<s, "memory">>)'
      PROVE  \E row \in RowsOf(<<s, "receipts">>)' :
               /\ RowHash(<<s, "receipts">>, row) = memory.ref
               /\ \/ req[row.call].label \in Compatible(req[memory.call].label)
                  \/ row.call = memory.call
  <2>0. <<s, "memory">> \in Stream /\ <<s, "receipts">> \in Stream
    BY DEF Stream, Kind
  <2>1. CASE memory \in RowsOf(<<s, "memory">>)
    <3>1. RowsOf(<<s, "receipts">>) \subseteq RowsOf(<<s, "receipts">>)'
      BY <1>3, <2>0
    <3>. QED BY <2>1, <3>1 DEF MemoryRestsOnEvidence
  <2>2. CASE memory \notin RowsOf(<<s, "memory">>)
    <3>1. pc[c] = "commit" /\ Install(c)
      BY <1>1, <1>7, <2>2 DEF RowsOf
    <3>2. "memory" \in Needs(c) /\ <<s, "memory">> = StreamOf(c, "memory")
      BY <1>7, <2>0, <2>2, <3>1, InstallRows DEF StreamOf
    <3>3. memory \in {NewRow(c, "memory", i) : i \in 1..Copies(c, "memory")}
      BY <1>7, <2>0, <2>2, <3>1, <3>2, InstallRows
    <3>4. memory.call = c /\ memory.ref = RefOf(c, "memory") /\ s = req[c].scope
      BY <3>2, <3>3 DEF NewRow, StreamOf
    <3>5. CASE req[c].op = "bundle"
      <4>. DEFINE row == NewRow(c, "receipts", 1)
      <4>1. "receipts" \in Needs(c) /\ <<s, "receipts">> = StreamOf(c, "receipts")
        BY <3>4, <3>5, NeedsType DEF StreamOf
      <4>2. 1 \in 1..Copies(c, "receipts")
        BY CopiesType DEF Kind
      <4>3. row \in RowsOf(<<s, "receipts">>)'
        BY <2>0, <3>1, <4>1, <4>2, InstallRows
      <4>4. row.call = c /\ RowHash(<<s, "receipts">>, row) = memory.ref
        BY <3>4, <3>5, <4>1 DEF NewRow, RowHash, RefOf, OwnReceipt
      <4>. QED BY <3>4, <4>3, <4>4
    <3>6. CASE req[c].op # "bundle"
      <4>1. req[c].op = "memory"
        BY <3>2, <3>6 DEF Needs
      <4>2. Admits(c, cites[c]) /\ memory.ref = cites[c]
        BY <3>1, <3>4, <3>6, <4>1 DEF Cited, RefOf
      <4>3. PICK row \in RowsOf(<<s, "receipts">>) :
              /\ RowHash(<<s, "receipts">>, row) = memory.ref
              /\ req[row.call].label \in Compatible(req[c].label)
        BY <3>4, <4>2 DEF Admits, ReceiptsNamed, StreamOf
      <4>4. row \in RowsOf(<<s, "receipts">>)'
        BY <1>3, <2>0
      <4>. QED BY <3>4, <4>3, <4>4
    <3>. QED BY <3>5, <3>6
  <2>. QED BY <2>1, <2>2
<1>8. MemoryRestsOnEvidence'
  BY <1>1, <1>7 DEF MemoryRestsOnEvidence, RowHash, HashOf, Compatible
<1>. QED BY <1>6, <1>8

\* All or nothing of every call, and evidence under every memory, always.
LEMMA EvidenceInvariance == Spec => []EInv
<1>1. Init => EInv
  <2>. SUFFICES ASSUME Init PROVE EInv
    OBVIOUS
  <2>1. \A c \in Call, k \in Kind : log[StreamOf(c, k)] = <<>>
    BY RequestsAssumption DEF Init, StreamOf, Stream, RequestType
  <2>2. \A c \in Call, k \in Kind : Written(c, k) = {}
    BY <2>1 DEF Written
  <2>3. WholeBundles
    BY <2>2, FS_EmptySet DEF WholeBundles
  <2>. QED BY <2>3 DEF Init, EInv, Cited, MemoryRestsOnEvidence, RowsOf, Stream, Kind
<1>2. IInv /\ KInv /\ EInv /\ [Next]_vars => EInv'
  <2>1. ASSUME IInv, EInv, UNCHANGED vars
        PROVE  EInv'
    <3>. USE DEF vars
    <3>1. \A c \in Call, k \in Kind :
            Written(c, k)' = Written(c, k) /\ Needs(c)' = Needs(c) /\ Copies(c, k)' = Copies(c, k)
      BY <2>1 DEF Written, StreamOf, Needs, Copies
    <3>2. WholeBundles'
      BY <2>1, <3>1 DEF EInv, WholeBundles
    <3>3. Cited'
      BY <2>1 DEF EInv, Cited, Admits, ReceiptsNamed, RowsOf, StreamOf, RowHash
    <3>4. MemoryRestsOnEvidence'
      BY <2>1 DEF EInv, MemoryRestsOnEvidence, RowsOf, RowHash
    <3>. QED BY <3>2, <3>3, <3>4 DEF EInv
  <2>2. ASSUME IInv, KInv, EInv, NEW c \in Call, Step(c)
        PROVE  EInv'
    BY <2>2, StepKeepsWhole, StepKeepsEvidence DEF EInv, KInv
  <2>. QED BY <2>1, <2>2 DEF Next, Terminated
<1>. QED BY Invariance, KeysInvariance, <1>1, <1>2, PTL DEF Spec

\* "All four scoped streams advanced in one database transaction": whatever
\* aborts or loses its reply, append_analysis_bundle left all its rows or none.
THEOREM BundlesStayWhole == Spec => []WholeBundles
<1>1. EInv => WholeBundles
  BY DEF EInv
<1>. QED BY EvidenceInvariance, <1>1, PTL

\* The receipt append_memory checked before it locked, or the one its bundle
\* wrote, is committed in the scope of every memory row.
THEOREM MemoriesRest == Spec => []MemoryRestsOnEvidence
<1>1. EInv => MemoryRestsOnEvidence
  BY DEF EInv
<1>. QED BY EvidenceInvariance, <1>1, PTL

-----------------------------------------------------------------------------
(* One instant. *)

\* The ledger counts a call's rows as the transactions do.
LEMMA ShareCopies ==
  ASSUME TypeOK, NEW c \in Call, NEW k \in Kind
  PROVE  Ledger!Share(c, k) = IF k \in Needs(c) THEN Copies(c, k) ELSE 0
<1>1. req[c].op \in Op
  BY RequestsAssumption DEF TypeOK, RequestType
<1>. QED BY <1>1 DEF Ledger!Share, Needs, Copies, Kind, Op

\* The holders of a key are the authors of its records.
LEMMA HoldersClaim ==
  ASSUME TypeOK, NEW c \in Call
  PROVE  Ledger!Holders(c) = {row.call : row \in Claims(c)}
<1>. DEFINE st == StreamOf(c, "idempotency")
<1>1. st \in Stream
  BY StreamOfType DEF Kind
<1>2. DOMAIN Authors(log[st]) = DOMAIN log[st]
      /\ \A i \in DOMAIN log[st] : Authors(log[st])[i] = log[st][i].call
  BY DEF Authors
<1>3. Ledger!Holders(c) = {d \in {Authors(log[st])[i] : i \in DOMAIN Authors(log[st])} :
                             req[c].key # None /\ req[d].key = req[c].key}
  BY <1>1 DEF Ledger!Holders, StreamOf
<1>. QED BY <1>2, <1>3 DEF Claims, RowsOf

LEMMA Concatenation ==
  ASSUME NEW T, NEW a \in Seq(T), NEW b \in Seq(T)
  PROVE  /\ a \o b \in Seq(T)
         /\ Len(a \o b) = Len(a) + Len(b)
         /\ \A i \in 1..(Len(a) + Len(b)) : (a \o b)[i] = IF i <= Len(a) THEN a[i] ELSE b[i - Len(a)]
OBVIOUS

\* Rows of one author at the end of a stream are so many entries of the ledger.
LEMMA AuthorsExtend ==
  ASSUME NEW s \in Seq(Row), NEW t \in Seq(Row), NEW c, \A i \in 1..Len(t) : t[i].call = c
  PROVE  Authors(s \o t) = Authors(s) \o [i \in 1..Len(t) |-> c]
<1>. DEFINE n == Len(s)
            m == Len(t)
            u == [i \in 1..m |-> c]
<1>1. n \in Nat /\ m \in Nat /\ DOMAIN s = 1..n
  OBVIOUS
<1>2. s \o t \in Seq(Row) /\ Len(s \o t) = n + m
      /\ \A i \in 1..(n + m) : (s \o t)[i] = IF i <= n THEN s[i] ELSE t[i - n]
  OBVIOUS
<1>3. Authors(s \o t) = [i \in 1..(n + m) |-> (s \o t)[i].call]
  BY <1>1, <1>2 DEF Authors
<1>4. Authors(s) = [i \in 1..n |-> s[i].call]
  BY <1>1 DEF Authors
<1>. DEFINE T == {s[i].call : i \in 1..n} \cup {c}
<1>5. Authors(s) \in Seq(T) /\ Len(Authors(s)) = n
  BY <1>1, <1>4
<1>6. u \in Seq(T) /\ Len(u) = m
  BY <1>1
<1>. HIDE DEF T, u
<1>7. /\ Authors(s) \o u \in Seq(T) /\ Len(Authors(s) \o u) = n + m
      /\ \A i \in 1..(n + m) : (Authors(s) \o u)[i] = IF i <= n THEN Authors(s)[i] ELSE u[i - n]
  <2>1. PICK a \in Seq(T), b \in Seq(T) : a = Authors(s) /\ b = u
    BY <1>5, <1>6
  <2>2. Len(a) = n /\ Len(b) = m
    BY <1>5, <1>6, <2>1
  <2>3. /\ a \o b \in Seq(T)
        /\ Len(a \o b) = Len(a) + Len(b)
        /\ \A i \in 1..(Len(a) + Len(b)) : (a \o b)[i] = IF i <= Len(a) THEN a[i] ELSE b[i - Len(a)]
    BY Concatenation
  <2>. QED BY <2>1, <2>2, <2>3
<1>8. \A i \in 1..(n + m) : IF i <= n THEN i \in 1..n ELSE i - n \in 1..m
  BY <1>1
<1>9. ASSUME NEW i \in 1..(n + m)
      PROVE  (s \o t)[i].call = IF i <= n THEN Authors(s)[i] ELSE u[i - n]
  BY <1>2, <1>4, <1>8 DEF u
<1>10. /\ Authors(s \o t) \in Seq(T) /\ Len(Authors(s \o t)) = n + m
       /\ \A i \in 1..(n + m) : Authors(s \o t)[i] = (Authors(s) \o u)[i]
  <2>1. \A i \in 1..(n + m) : Authors(s \o t)[i] = (Authors(s) \o u)[i]
    BY <1>3, <1>7, <1>9
  <2>2. \A i \in 1..(n + m) : (Authors(s) \o u)[i] \in T
    BY <1>1, <1>7
  <2>3. \A i \in 1..(n + m) : (s \o t)[i].call \in T
    BY <1>7, <1>9, <2>2
  <2>4. PICK l \in Nat : l = n + m
    BY <1>1
  <2>5. PICK f : f = Authors(s \o t)
    OBVIOUS
  <2>6. f \in [1..l -> T]
    BY <1>3, <2>3, <2>4, <2>5
  <2>7. f \in Seq(T) /\ Len(f) = l
    BY <2>6
  <2>. QED BY <2>1, <2>4, <2>5, <2>7
<1>11. Authors(s \o t) = Authors(s) \o u
  BY <1>7, <1>10, SeqEqual
<1>. QED BY <1>11 DEF u

\* A commit is the ledger's write.
LEMMA CommitWritesLedger ==
  ASSUME IInv, KInv, NEW c \in Call, pc[c] = "commit", Install(c), answer[c] = None,
         \/ answer' = [answer EXCEPT ![c] =
                         Reply("ok", IF "receipts" \in Needs(c) THEN OwnReceipt(c) ELSE None)]
         \/ answer' = [answer EXCEPT ![c] = Reply("failed", None)]
  PROVE  Ledger!Write(c)
<1>1. TypeOK /\ \A k \in Needs(c) : seen[c][k] # None
  BY DEF IInv, AllRead
<1>2. Ledger!Holders(c) = {}
  <2>1. Claims(c) = {}
    <3>1. CASE "idempotency" \in Needs(c)
      BY <3>1 DEF KInv, Unclaimed
    <3>2. CASE req[c].key = None
      BY <3>2 DEF Claims
    <3>3. "idempotency" \in Needs(c) \/ req[c].key = None
      <4>1. req[c] \in Requests /\ req[c] \in RequestType
        BY <1>1, RequestsAssumption DEF TypeOK
      <4>2. req[c].op \in {"receipt", "bundle"} \/ req[c].key = None
        BY <4>1, RequestsAssumption
      <4>. QED BY <4>2 DEF Needs, Kind
    <3>. QED BY <3>1, <3>2, <3>3
  <2>. QED BY <1>1, <2>1, HoldersClaim
<1>3. ASSUME NEW st \in Stream
      PROVE  Authors(log'[st]) = IF st[1] = req[c].scope
                                 THEN Authors(log[st]) \o [i \in 1..Ledger!Share(c, st[2]) |-> c]
                                 ELSE Authors(log[st])
  <2>1. st[2] \in Kind /\ log[st] \in Seq(Row)
    BY <1>1 DEF Stream, TypeOK
  <2>2. CASE st[1] = req[c].scope /\ st[2] \in Needs(c)
    <3>. DEFINE new == NewRows(c, st[2])
    <3>1. /\ new \in Seq(Row) /\ Len(new) = Copies(c, st[2])
          /\ \A i \in 1..Len(new) : new[i] = NewRow(c, st[2], i)
      BY <1>1, <2>2, NewRowsType
    <3>3. log'[st] = log[st] \o new
      BY <2>2 DEF Install
    <3>. HIDE DEF new
    <3>2. \A i \in 1..Len(new) : new[i].call = c
      BY <3>1 DEF NewRow
    <3>4. Ledger!Share(c, st[2]) = Len(new)
      BY <1>1, <2>1, <2>2, <3>1, ShareCopies
    <3>5. Authors(log[st] \o new) = Authors(log[st]) \o [i \in 1..Len(new) |-> c]
      BY <2>1, <3>1, <3>2, AuthorsExtend
    <3>. QED BY <2>2, <3>3, <3>4, <3>5
  <2>3. CASE st[1] = req[c].scope /\ st[2] \notin Needs(c)
    <3>1. log'[st] = log[st] /\ Ledger!Share(c, st[2]) = 0
      BY <1>1, <2>1, <2>3, ShareCopies DEF Install
    <3>2. Authors(log[st]) \in Seq({log[st][i].call : i \in DOMAIN log[st]})
      BY <2>1 DEF Authors
    <3>3. Authors(log[st]) \o [i \in 1..0 |-> c] = Authors(log[st])
      <4>1. [i \in 1..0 |-> c] = <<>>
        OBVIOUS
      <4>. QED BY <3>2, <4>1, ConcatEmptySeq
    <3>. QED BY <2>3, <3>1, <3>3
  <2>4. CASE st[1] # req[c].scope
    BY <2>4 DEF Install
  <2>. QED BY <2>2, <2>3, <2>4
<1>4. [st \in Stream |-> Authors(log'[st])] =
        [st \in Stream |-> IF st[1] = req[c].scope
                           THEN Authors(log[st]) \o [i \in 1..Ledger!Share(c, st[2]) |-> c]
                           ELSE Authors(log[st])]
  BY <1>3
<1>5. /\ Ledger!Stream = Stream
      /\ \A st \in Stream : [s \in Stream |-> Authors(log[s])][st] = Authors(log[st])
  BY DEF Ledger!Stream, Ledger!Kind, Stream, Kind
<1>6. \/ Ledger!Tell(c, "ok", IF Ledger!Share(c, "receipts") = 1 THEN c ELSE None)
      \/ Ledger!Tell(c, "failed", None)
  <2>1. Ledger!Share(c, "receipts") = 1 <=> "receipts" \in Needs(c)
    BY <1>1, ShareCopies, KeyedNeeds DEF Kind
  <2>2. "receipts" \in Needs(c) => OwnReceipt(c) \in Hash /\ OwnReceipt(c)[3] = c
    <3>. SUFFICES ASSUME "receipts" \in Needs(c) PROVE OwnReceipt(c) \in Hash /\ OwnReceipt(c)[3] = c
      OBVIOUS
    <3>1. seen[c]["receipts"] \in StreamHead /\ StreamOf(c, "receipts") \in Stream
      BY <1>1, StreamOfType DEF TypeOK, Kind
    <3>2. OwnReceipt(c) \in Hash
      BY <3>1 DEF OwnReceipt, HashOf, Hash, StreamHead
    <3>. QED BY <3>2 DEF OwnReceipt, HashOf
  <2>3. Shown(Reply("failed", None)) = [status |-> "failed", receipt |-> None]
    <3>1. Reply("failed", None) # None
      BY NoneAssumption DEF Reply, Answer, Status
    <3>. QED BY <3>1 DEF Shown, Reply
  <2>4. PICK h : h = IF "receipts" \in Needs(c) THEN OwnReceipt(c) ELSE None
    OBVIOUS
  <2>5. Shown(Reply("ok", h)) =
          [status |-> "ok", receipt |-> IF "receipts" \in Needs(c) THEN c ELSE None]
    <3>1. h \in Hash \cup {None}
      BY <2>2, <2>4
    <3>2. Reply("ok", h) # None
      BY <3>1, NoneAssumption DEF Reply, Answer, Status
    <3>. QED BY <2>2, <2>4, <3>2, NoneAssumption DEF Shown, Reply
  <2>6. \A a : answer' = [answer EXCEPT ![c] = a] =>
          [d \in Call |-> Shown(answer'[d])] = [[d \in Call |-> Shown(answer[d])] EXCEPT ![c] = Shown(a)]
    BY <1>1 DEF TypeOK
  <2>. QED BY <2>1, <2>3, <2>4, <2>5, <2>6 DEF Ledger!Tell
<1>. QED BY <1>2, <1>4, <1>5, <1>6 DEF Ledger!Write

\* What the ledger shows after a call has answered.
LEMMA TellsLedger ==
  ASSUME TypeOK, NEW c \in Call, NEW status, NEW h, answer' = [answer EXCEPT ![c] = Reply(status, h)],
         Reply(status, h) # None
  PROVE  Ledger!Tell(c, status, IF h = None THEN None ELSE h[3])
<1>1. Shown(Reply(status, h)) = [status |-> status, receipt |-> IF h = None THEN None ELSE h[3]]
  BY DEF Shown, Reply
<1>2. [d \in Call |-> Shown(answer'[d])] =
        [[d \in Call |-> Shown(answer[d])] EXCEPT ![c] = Shown(Reply(status, h))]
  BY DEF TypeOK
<1>. QED BY <1>1, <1>2 DEF Ledger!Tell

\* An answer from a record of the key is the ledger's replay, its conflict, or
\* a failure with no effect.
LEMMA ResolvesInLedger ==
  ASSUME IInv, KInv, NEW c \in Call, NEW claim \in Claims(c), NEW a \in Resolutions(c, claim),
         log' = log, answer' = [answer EXCEPT ![c] = a]
  PROVE  Ledger!Replay(c) \/ Ledger!Conflict(c) \/ Ledger!NoEffect(c)
<1>1. /\ TypeOK
      /\ req[c].scope \in Scope /\ claim \in Records(req[c].scope)
      /\ claim.call \in Ledger!Holders(c)
  BY KeyedNeeds, HoldersClaim DEF IInv, Claims, Records, StreamOf
<1>2. PICK row \in Keyed(req[c].scope) :
        row.call = claim.call /\ claim.ref = RowHash(<<req[c].scope, "receipts">>, row)
  BY <1>1 DEF KInv, Paired
<1>3. claim.ref \in Hash /\ claim.ref[3] = claim.call
  <2>1. <<req[c].scope, "receipts">> \in Stream
    BY <1>1 DEF Stream, Kind
  <2>2. row \in Row
    BY <1>1, <2>1 DEF Keyed, Receipts, RowsOf, TypeOK
  <2>. QED BY <1>2, <2>1, <2>2 DEF RowHash, HashOf, Hash, Row
<1>4. \A status \in Status, h \in Hash \cup {None} : Reply(status, h) # None
  BY NoneAssumption DEF Reply, Answer
<1>5. UNCHANGED [st \in Stream |-> Authors(log[st])]
  BY DEF Authors
<1>6. CASE a = Reply("conflict", None) /\ req[claim.call].digest # req[c].digest
  <2>1. Ledger!Tell(c, "conflict", None)
    BY <1>1, <1>4, <1>6, TellsLedger DEF Status
  <2>. QED BY <1>1, <1>5, <1>6, <2>1 DEF Ledger!Conflict
<1>7. CASE a = Reply("broken", None)
  <2>1. Ledger!Tell(c, "broken", None)
    BY <1>1, <1>4, <1>7, TellsLedger DEF Status
  <2>. QED BY <1>5, <2>1 DEF Ledger!NoEffect
<1>8. CASE a = Reply("replay", claim.ref) /\ req[claim.call].digest = req[c].digest
  <2>1. claim.ref # None
    BY <1>3, NoneAssumption
  <2>2. Ledger!Tell(c, "replay", claim.call)
    BY <1>1, <1>3, <1>4, <1>8, <2>1, TellsLedger DEF Status
  <2>. QED BY <1>1, <1>5, <1>8, <2>2 DEF Ledger!Replay
<1>9. \/ a = Reply("conflict", None) /\ req[claim.call].digest # req[c].digest
      \/ a = Reply("broken", None)
      \/ a = Reply("replay", claim.ref) /\ req[claim.call].digest = req[c].digest
  BY DEF Resolutions, BundleReplies
<1>. QED BY <1>6, <1>7, <1>8, <1>9

\* An answer that names nothing and a log that stands are no effect.
LEMMA NothingInLedger ==
  ASSUME TypeOK, NEW c \in Call, log' = log,
         NEW status \in {"rejected", "failed", "broken", "valid", "invalid"},
         answer' = [answer EXCEPT ![c] = Reply(status, None)]
  PROVE  Ledger!NoEffect(c)
<1>1. Reply(status, None) # None
  BY NoneAssumption DEF Reply, Answer, Status
<1>2. Ledger!Tell(c, status, None)
  BY <1>1, TellsLedger
<1>. QED BY <1>2 DEF Ledger!NoEffect, Authors

\* A step of a call is one of the ledger's, or invisible in it.
LEMMA StepInLedger ==
  ASSUME IInv, KInv, AnsweredIsDone, NEW c \in Call, Step(c)
  PROVE  Ledger!Next \/ UNCHANGED <<log, req, answer>>
<1>1. TypeOK
  BY DEF IInv
<1>2. pc[c] # "done" /\ answer[c] = None
  BY <1>1, StepIsOwn DEF AnsweredIsDone
<1>3. req' = req /\ (log' = log \/ (pc[c] = "commit" /\ Install(c)))
  BY OnlyCommits
<1>4. Shown(answer[c]) = None
  BY <1>2 DEF Shown
<1>5. CASE pc[c] = "commit" /\ Install(c) /\ (Commit(c) \/ CommitReplyLost(c))
  <2>1. \/ answer' = [answer EXCEPT ![c] =
                        Reply("ok", IF "receipts" \in Needs(c) THEN OwnReceipt(c) ELSE None)]
        \/ answer' = [answer EXCEPT ![c] = Reply("failed", None)]
    BY <1>5 DEF Commit, CommitReplyLost, Return
  <2>2. Ledger!Write(c)
    BY <1>2, <1>5, <2>1, CommitWritesLedger
  <2>. QED BY <1>3, <1>4, <2>2 DEF Ledger!Next
<1>6. CASE log' = log /\ UNCHANGED answer
  BY <1>3, <1>6
<1>7. CASE log' = log /\ \E status \in {"rejected", "failed", "broken", "valid", "invalid"} :
                            answer' = [answer EXCEPT ![c] = Reply(status, None)]
  <2>1. Ledger!NoEffect(c)
    BY <1>1, <1>7, NothingInLedger
  <2>. QED BY <1>3, <1>4, <2>1 DEF Ledger!Next
<1>8. CASE log' = log /\ \E claim \in Claims(c) : \E a \in Resolutions(c, claim) :
                            answer' = [answer EXCEPT ![c] = a]
  <2>1. Ledger!Replay(c) \/ Ledger!Conflict(c) \/ Ledger!NoEffect(c)
    BY <1>8, ResolvesInLedger
  <2>. QED BY <1>3, <1>4, <2>1 DEF Ledger!Next
<1>9. CASE ~Commit(c) /\ ~CommitReplyLost(c)
  <2>. USE DEF Unchanged, Return
  <2>1. CASE UnknownScope(c) \/ Abort(c) \/ VerifyHead(c)
    BY <1>7, <2>1 DEF UnknownScope, Abort, VerifyHead
  <2>2. CASE BeginReplay(c) \/ Recheck(c) \/ Recover(c)
    BY <1>6, <1>7, <1>8, <2>2 DEF BeginReplay, Recheck, Recover
  <2>3. CASE BeginWrite(c) \/ Flush(c) \/ \E k \in Kind : LockHead(c, k)
    BY <1>6, <2>3 DEF BeginWrite, Flush, LockHead
  <2>4. CASE BeginMemory(c) \/ FlushRefused(c)
    BY <1>6, <1>7, <2>4 DEF BeginMemory, FlushRefused
  <2>5. CASE VerifyScan(c)
    BY <1>6, <1>7, <2>5 DEF VerifyScan
  <2>. QED BY <1>9, <2>1, <2>2, <2>3, <2>4, <2>5 DEF Step, Progress
<1>10. CASE Commit(c) \/ CommitReplyLost(c)
  BY <1>5, <1>10 DEF Commit, CommitReplyLost
<1>. QED BY <1>9, <1>10

\* However the statements of the transactions interleave, abort or lose their
\* replies, what callers and streams show is what a ledger would that ran each
\* call of store.py at one instant.
THEOREM TransactionsAreAtomic == Spec => ImplementsLedger
<1>1. Init => Ledger!Init
  <2>. SUFFICES ASSUME Init PROVE Ledger!Init
    OBVIOUS
  <2>1. \A st \in Stream : Authors(log[st]) = <<>>
    BY DEF Init, Authors
  <2>2. Ledger!Stream = Stream
    BY DEF Ledger!Stream, Ledger!Kind, Stream, Kind
  <2>3. \A c \in Call : Shown(answer[c]) = None
    BY DEF Init, Shown
  <2>. QED BY <2>1, <2>2, <2>3 DEF Init, Ledger!Init
<1>2. IInv /\ KInv /\ AnsweredIsDone /\ [Next]_vars => [Ledger!Next]_(Ledger!vars)
  <2>1. UNCHANGED <<log, req, answer>> => UNCHANGED Ledger!vars
    BY DEF Ledger!vars
  <2>2. UNCHANGED vars => UNCHANGED <<log, req, answer>>
    BY DEF vars
  <2>. QED BY <2>1, <2>2, StepInLedger DEF Next, Terminated
<1>. QED
  BY Invariance, KeysInvariance, AnsweredInvariance, <1>1, <1>2, PTL
  DEF Spec, ImplementsLedger, Ledger!Spec
=============================================================================
