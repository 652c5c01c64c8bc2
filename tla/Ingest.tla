-------------------------------- MODULE Ingest --------------------------------
(***************************************************************************)
(* Authenticated ingest: the handlers ingest_event and ingest_otlp of      *)
(* lyte/api/routes_ingest.py, run by the processes of a deployment over    *)
(* one database, with each process's ReplayProtector in memory             *)
(* (lyte/connectors/generic_webhook.py).                                   *)
(*                                                                         *)
(* A message is one signed delivery.  A client that retries signs anew,    *)
(* with another nonce and time; the network may deliver a message again.   *)
(* Both handlers are coroutines that call the store without awaiting, so a *)
(* process runs one of them at a time; processes interleave at every call  *)
(* of the store.  The calls are atomic here: LyteStore and OperationalStore*)
(* show that the transactions behind them are.                             *)
(***************************************************************************)
EXTENDS Naturals, Sequences, FiniteSets

CONSTANTS Process, Scope, Key, Nonce,
          Payload,        \* request bodies
          Entity,         \* entity ids
          EntityOf,       \* the entity a body is about
          Message,        \* the messages clients sign
          Skew,           \* max_timestamp_skew_seconds, 300
          Retention,      \* retention_seconds, 900
          MaxEntries,     \* max_entries, 20000
          MaxTime,        \* bound on the clock
          MaxDeliveries,  \* bound on deliveries
          MaxCrashes,     \* bound on crashes
          None

MessageType ==
  [route : {"event", "otlp"}, scope : Scope, key : Key, payload : Payload,
   nonce : Nonce \cup {None}, signedAt : Nat]

\* What the model relies on: a body names one entity; the registry holds a
\* message for longer than its signature is timely.
ASSUME ConstantsAssumption ==
  /\ Message \subseteq MessageType
  /\ \A m \in Message : m.route = "event" <=> m.nonce # None
  /\ EntityOf \in [Payload -> Entity]
  /\ {Skew, Retention, MaxEntries, MaxTime, MaxDeliveries, MaxCrashes} \subseteq Nat
  /\ Retention > 2 * Skew
  /\ None \notin Nonce

\* A receipt's digest covers the flag "replayed" of an event.
Receipt == [route : {"event", "otlp"}, scope : Scope, key : Key, payload : Payload,
            replayed : BOOLEAN]
\* The body of a projection: the event or batch, its flag and its key's digest.
View == [payload : Payload, key : Key, replayed : BOOLEAN]

Status == {"ok", "skewed", "nonce", "full", "clash", "conflict", "failed"}

VARIABLES clock,
          nonces,    \* each process's nonces with their expiry
          claims,    \* each process's keys with their payload and expiry
          work,      \* the request each process is handling
          receipts,  \* durable ingest receipts
          history,   \* versions of each entity of a scope
          answers,   \* what clients were answered
          accepted,  \* events each process has accepted since it started
          deliveries, crashes

vars == <<clock, nonces, claims, work, receipts, history, answers, accepted,
          deliveries, crashes>>

Init ==
  /\ clock = 0
  /\ nonces = [p \in Process |-> {}]
  /\ claims = [p \in Process |-> {}]
  /\ work = [p \in Process |-> None]
  /\ receipts = {}
  /\ history = [place \in Scope \X Entity |-> <<>>]
  /\ answers = {}
  /\ accepted = [p \in Process |-> <<>>]
  /\ deliveries = 0
  /\ crashes = 0

-----------------------------------------------------------------------------
(* The registry of one process. *)

\* Entries whose retention is over are dropped first.
Kept(entries) == {x \in entries : x.expiry > clock}

\* Defect: entries are retained for the permitted skew only.
Expiry_Skew == clock + Skew

Expiry == clock + Retention

Timely(m) == clock <= m.signedAt + Skew /\ m.signedAt <= clock + Skew

NonceSeen(p, m) == \E x \in Kept(nonces[p]) : x.nonce = m.nonce
Clashes(p, m) == \E x \in Kept(claims[p]) : x.key = m.key /\ x.payload # m.payload
Replayed(p, m) == \E x \in Kept(claims[p]) : x.key = m.key

\* As many nonces as are allowed, or a new key and as many keys as are allowed.
Full(p, m) ==
  \/ Cardinality(Kept(nonces[p])) >= MaxEntries
  \/ ~Replayed(p, m) /\ Cardinality(Kept(claims[p])) >= MaxEntries

Task(m, replayed) == [msg |-> m, replayed |-> replayed, at |-> "receipt", base |-> 0]

-----------------------------------------------------------------------------
(* A delivery reaches a process. *)

Arrives(p, m) ==
  /\ work[p] = None
  /\ deliveries < MaxDeliveries
  /\ deliveries' = deliveries + 1

Durable == UNCHANGED <<receipts, history>>

Told(m, status) == answers' = answers \cup {[msg |-> m, status |-> status]}

\* verify refuses a timestamp outside the permitted skew.
TooSkewed(p, m) ==
  /\ m.route = "event"
  /\ Arrives(p, m)
  /\ ~Timely(m)
  /\ Told(m, "skewed")
  /\ Durable /\ UNCHANGED <<clock, nonces, claims, work, accepted, crashes>>

\* claim refuses a nonce it has seen, a full registry, a key bound to another
\* payload, in this order; it has pruned the registry by then.
ClaimRefused(p, m) ==
  /\ m.route = "event"
  /\ Arrives(p, m)
  /\ Timely(m)
  /\ \/ NonceSeen(p, m) /\ Told(m, "nonce")
     \/ ~NonceSeen(p, m) /\ Full(p, m) /\ Told(m, "full")
     \/ ~NonceSeen(p, m) /\ ~Full(p, m) /\ Clashes(p, m) /\ Told(m, "clash")
  /\ nonces' = [nonces EXCEPT ![p] = Kept(@)]
  /\ claims' = [claims EXCEPT ![p] = Kept(@)]
  /\ Durable /\ UNCHANGED <<clock, work, accepted, crashes>>

\* claim records the nonce, and the key anew; a key it already held makes the
\* event a replay.
Claim(p, m) ==
  /\ m.route = "event"
  /\ Arrives(p, m)
  /\ Timely(m)
  /\ ~NonceSeen(p, m) /\ ~Full(p, m) /\ ~Clashes(p, m)
  /\ nonces' = [nonces EXCEPT ![p] = Kept(@) \cup {[nonce |-> m.nonce, expiry |-> Expiry]}]
  /\ claims' = [claims EXCEPT ![p] =
                  {x \in Kept(@) : x.key # m.key}
                    \cup {[key |-> m.key, payload |-> m.payload, expiry |-> Expiry]}]
  /\ work' = [work EXCEPT ![p] = Task(m, Replayed(p, m))]
  /\ accepted' = [accepted EXCEPT ![p] = Append(@, m)]
  /\ Durable /\ UNCHANGED <<clock, answers, crashes>>

\* OTLP is not signed and asks no registry.
TakeOtlp(p, m) ==
  /\ m.route = "otlp"
  /\ Arrives(p, m)
  /\ work' = [work EXCEPT ![p] = Task(m, FALSE)]
  /\ Durable /\ UNCHANGED <<clock, nonces, claims, answers, accepted, crashes>>

-----------------------------------------------------------------------------
(* The handler, one store call at a time. *)

Volatile == UNCHANGED <<clock, nonces, claims, accepted, deliveries, crashes>>

Handling(p, at) == work[p] # None /\ work[p].at = at

Reply(p, status) ==
  /\ Told(work[p].msg, status)
  /\ work' = [work EXCEPT ![p] = None]

GoTo(p, at) == work' = [work EXCEPT ![p].at = at] /\ UNCHANGED answers

ReceiptOf(p) ==
  LET m == work[p].msg
  IN  [route |-> m.route, scope |-> m.scope, key |-> m.key, payload |-> m.payload,
       replayed |-> work[p].replayed]

ViewOf(p) ==
  [payload |-> work[p].msg.payload, key |-> work[p].msg.key, replayed |-> work[p].replayed]

\* Defect: the digest leaves out the flag.
SameRequest_NoFlag(r, s) ==
  <<r.route, r.scope, r.key, r.payload>> = <<s.route, s.scope, s.key, s.payload>>

\* One digest: _receipt_request_digest.
SameRequest(r, s) == r = s

\* Defect: the record is looked up by key alone.
OfKey_AnyScope(p) == {r \in receipts : r.key = work[p].msg.key}

OfKey(p) == {r \in receipts : r.scope = work[p].msg.scope /\ r.key = work[p].msg.key}

\* append_receipt: a new receipt, a replay of it, or another request's.
AppendReceipt(p) ==
  /\ Handling(p, "receipt")
  /\ \/ /\ OfKey(p) = {}
        /\ receipts' = receipts \cup {ReceiptOf(p)}
        /\ GoTo(p, "read")
     \/ /\ \E r \in OfKey(p) : SameRequest(r, ReceiptOf(p))
        /\ GoTo(p, "read")
        /\ UNCHANGED receipts
     \/ /\ \E r \in OfKey(p) : ~SameRequest(r, ReceiptOf(p))
        /\ Reply(p, "conflict")
        /\ UNCHANGED receipts
  /\ Volatile /\ UNCHANGED history

Place(p) == <<work[p].msg.scope, EntityOf[work[p].msg.payload]>>

\* Defect: any version will do.
Current_Any(p) == history[Place(p)] # <<>>

\* The entity's latest version says what this request says.
Current(p) ==
  LET past == history[Place(p)]
  IN  past # <<>> /\ past[Len(past)] = ViewOf(p)

\* _persist_projection: nothing to do, or a write over the version read.
ReadProjection(p) ==
  /\ Handling(p, "read")
  /\ \/ Current(p) /\ Reply(p, "ok")
     \/ /\ ~Current(p)
        /\ work' = [work EXCEPT ![p].at = "write", ![p].base = Len(history[Place(p)])]
        /\ UNCHANGED answers
  /\ Volatile /\ Durable

\* Defect: the expected version is not compared.
Expected_Any(p) == TRUE

Expected(p) == work[p].base = Len(history[Place(p)])

Project(p) == history' = [history EXCEPT ![Place(p)] = Append(@, ViewOf(p))]

WriteProjection(p) ==
  /\ Handling(p, "write")
  /\ Expected(p)
  /\ Project(p)
  /\ Reply(p, "ok")
  /\ Volatile /\ UNCHANGED receipts

\* OperationalConflict: the version has changed, or another writer of the
\* stream, of any entity, was first.
WriteRefused(p) ==
  /\ Handling(p, "write")
  /\ GoTo(p, "raced")
  /\ Volatile /\ Durable

Raced(p) ==
  /\ Handling(p, "raced")
  /\ Reply(p, IF Current(p) THEN "ok" ELSE "failed")
  /\ Volatile /\ Durable

\* A call of the store fails.  What it wrote may have been committed.
StoreFails(p) ==
  /\ work[p] # None
  /\ \/ Durable
     \/ /\ work[p].at = "receipt" /\ OfKey(p) = {}
        /\ receipts' = receipts \cup {ReceiptOf(p)}
        /\ UNCHANGED history
     \/ /\ work[p].at = "write" /\ Expected(p)
        /\ Project(p)
        /\ UNCHANGED receipts
  /\ Reply(p, "failed")
  /\ Volatile

\* The process dies between two calls, and starts again with empty registries.
Crash(p) ==
  /\ crashes < MaxCrashes
  /\ crashes' = crashes + 1
  /\ nonces' = [nonces EXCEPT ![p] = {}]
  /\ claims' = [claims EXCEPT ![p] = {}]
  /\ accepted' = [accepted EXCEPT ![p] = <<>>]
  /\ work' = [work EXCEPT ![p] = None]
  /\ Durable /\ UNCHANGED <<clock, answers, deliveries>>

Tick ==
  /\ clock < MaxTime
  /\ clock' = clock + 1
  /\ UNCHANGED <<nonces, claims, work, receipts, history, answers, accepted,
                 deliveries, crashes>>

-----------------------------------------------------------------------------
Receive(p, m) == TooSkewed(p, m) \/ ClaimRefused(p, m) \/ Claim(p, m) \/ TakeOtlp(p, m)

Handle(p) ==
  AppendReceipt(p) \/ ReadProjection(p) \/ WriteProjection(p) \/ WriteRefused(p) \/ Raced(p)

Next ==
  \/ Tick
  \/ \E p \in Process :
       \/ \E m \in Message : Receive(p, m)
       \/ Handle(p) \/ StoreFails(p) \/ Crash(p)

Spec == Init /\ [][Next]_vars

-----------------------------------------------------------------------------
(* Correctness. *)

\* Registries, requests in hand and durable rows keep their types.
TypeOK ==
  /\ clock \in 0..MaxTime
  /\ nonces \in [Process -> SUBSET [nonce : Nonce, expiry : 0..MaxTime + Retention]]
  /\ claims \in [Process -> SUBSET [key : Key, payload : Payload, expiry : 0..MaxTime + Retention]]
  /\ work \in [Process -> {None} \cup
                 [msg : Message, replayed : BOOLEAN,
                  at : {"receipt", "read", "write", "raced"}, base : Nat]]
  /\ receipts \subseteq Receipt
  /\ history \in [Scope \X Entity -> Seq(View)]
  /\ answers \subseteq [msg : Message, status : Status]
  /\ accepted \in [Process -> Seq(Message)]
  /\ deliveries \in 0..MaxDeliveries
  /\ crashes \in 0..MaxCrashes

\* Nonce replay defense: a process that keeps running accepts a signed message
\* once, however often and however late the network delivers it.  The registry
\* forgets a nonce only when its signature is no longer timely.
AcceptedOnce ==
  \A p \in Process : \A i, j \in DOMAIN accepted[p] :
    accepted[p][i] = accepted[p][j] => i = j

\* A registry never holds more keys than nonces, and one claim for a key: so
\* the second capacity check of claim is never the one that refuses.
KeysNeverOutnumberNonces ==
  \A p \in Process :
    /\ Cardinality(claims[p]) <= Cardinality(nonces[p])
    /\ Cardinality(nonces[p]) <= MaxEntries
    /\ \A x, y \in claims[p] : x.key = y.key => x = y

\* ReplayProtector's registries: types, no second acceptance, and both capacities agree.
RegistriesHold == TypeOK /\ AcceptedOnce /\ KeysNeverOutnumberNonces

\* Receipts come first: whatever a crash or a failure interrupts, a projected
\* version is backed by a receipt that says exactly the same, flag included.
ProjectionsReceipted ==
  \A s \in Scope, e \in Entity : \A i \in DOMAIN history[<<s, e>>] :
    LET view == history[<<s, e>>][i]
    IN  \E r \in receipts :
          /\ r.scope = s /\ r.key = view.key
          /\ r.payload = view.payload /\ r.replayed = view.replayed

\* A client that was told "durable" has its receipt and its projection.
OkIsDurable ==
  \A a \in answers : a.status = "ok" =>
    /\ \E r \in receipts : r.scope = a.msg.scope /\ r.key = a.msg.key
                           /\ r.payload = a.msg.payload
    /\ \E i \in DOMAIN history[<<a.msg.scope, EntityOf[a.msg.payload]>>] :
         LET view == history[<<a.msg.scope, EntityOf[a.msg.payload]>>][i]
         IN  view.key = a.msg.key /\ view.payload = a.msg.payload

\* Retries, duplicates and replicas project a delivery once: the latest version
\* never repeats the one before it.
ProjectedOnce ==
  \A s \in Scope, e \in Entity : \A i \in DOMAIN history[<<s, e>>] :
    i + 1 \in DOMAIN history[<<s, e>>] => history[<<s, e>>][i] # history[<<s, e>>][i + 1]

\* What is projected is receipted, and said once.
ProjectionsHold == ProjectionsReceipted /\ ProjectedOnce

\* Another request of the workspace used the key.
UsedOtherwise(m) ==
  \E r \in receipts : r.scope = m.scope /\ r.key = m.key
                      /\ <<r.route, r.payload>> # <<m.route, m.payload>>

\* OTLP retries agree: the 409 says that the key was used for a different
\* request, and it was.
OtlpConflictsEarned ==
  \A a \in answers : a.status = "conflict" /\ a.msg.route = "otlp" => UsedOtherwise(a.msg)

\* The same for every request: "Idempotency-Key was already used for a
\* different request" is said only when it was.
ConflictsEarned ==
  \A a \in answers : a.status = "conflict" => UsedOtherwise(a.msg)

Atomic == INSTANCE AtomicIngest

\* A handler's calls of the store, interleaved with those of other processes and cut off by
\* crashes, look like one instant each: receipts bind keys for good, and what a client is told
\* is true of the receipts and of the latest version when it is told.
ImplementsIngest == Atomic!Spec
=============================================================================
