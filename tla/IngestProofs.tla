----------------------------- MODULE IngestProofs -----------------------------
(***************************************************************************)
(* The registries, the durable rows and the answers of Ingest, for any     *)
(* number of processes, messages, entities, deliveries and crashes and     *)
(* any length of time.                                                     *)
(*                                                                         *)
(* Registries: a nonce outlives the time its message is timely             *)
(* (Remembered, where Retention > 2 * Skew is needed), and of the entries  *)
(* that outlive any given moment there are never more keys than nonces     *)
(* (Paired): pruning keeps the comparison, which the sizes alone would     *)
(* not.  Rows: a request past its receipt has one that says what the       *)
(* request says (Backed), and a write knows the version it read differs    *)
(* (Differing).  Each step is then one of AtomicIngest or leaves rows and  *)
(* answers as they are.                                                    *)
(***************************************************************************)
EXTENDS Ingest, FiniteSetTheorems, TLAPS

-----------------------------------------------------------------------------
(* Types. *)

\* What a request in hand holds, and where it writes.
LEMMA Handled ==
  ASSUME TypeOK, NEW p \in Process, work[p] # None
  PROVE  /\ work[p] \in [msg : Message, replayed : BOOLEAN,
                         at : {"receipt", "read", "write", "raced"}, base : Nat]
         /\ work[p].msg \in Message /\ work[p].msg \in MessageType
         /\ Place(p) \in Scope \X Entity
         /\ ReceiptOf(p) \in Receipt
         /\ ViewOf(p) \in View
<1>1. work[p] \in [msg : Message, replayed : BOOLEAN,
                   at : {"receipt", "read", "write", "raced"}, base : Nat]
  BY DEF TypeOK
<1>2. work[p].msg \in Message /\ work[p].msg \in MessageType /\ work[p].replayed \in BOOLEAN
  BY <1>1, ConstantsAssumption
<1>3. Place(p) \in Scope \X Entity
  BY <1>2, ConstantsAssumption DEF Place, MessageType
<1>4. ReceiptOf(p) \in Receipt /\ ViewOf(p) \in View
  BY <1>2 DEF ReceiptOf, Receipt, ViewOf, View, MessageType
<1>. QED BY <1>1, <1>2, <1>3, <1>4

LEMMA TypeInit == Init => TypeOK
<1>. SUFFICES ASSUME Init PROVE TypeOK
  OBVIOUS
<1>1. history \in [Scope \X Entity -> Seq(View)]
  BY DEF Init
<1>2. /\ accepted \in [Process -> Seq(Message)] /\ work \in [Process -> {None}]
      /\ nonces \in [Process -> {{}}] /\ claims \in [Process -> {{}}]
  BY DEF Init
<1>3. clock \in 0..MaxTime /\ deliveries \in 0..MaxDeliveries /\ crashes \in 0..MaxCrashes
  BY ConstantsAssumption DEF Init
<1>. QED BY <1>1, <1>2, <1>3 DEF Init, TypeOK

\* A delivery: the registries are pruned or extended, a request may be taken up.
LEMMA TypeReceive ==
  ASSUME TypeOK, NEW p \in Process, NEW m \in Message, Receive(p, m)
  PROVE  TypeOK'
<1>1. clock \in Nat /\ clock <= MaxTime /\ MaxTime \in Nat /\ Retention \in Nat /\ m \in MessageType
      /\ deliveries \in Nat /\ MaxDeliveries \in Nat
  BY ConstantsAssumption DEF TypeOK
<1>2. /\ clock' = clock /\ deliveries' \in 0..MaxDeliveries /\ crashes' = crashes
      /\ receipts' = receipts /\ history' = history
  <2>1. /\ clock' = clock /\ crashes' = crashes /\ Durable
        /\ deliveries < MaxDeliveries /\ deliveries' = deliveries + 1
    BY DEF Receive, TooSkewed, ClaimRefused, Claim, TakeOtlp, Arrives
  <2>. QED BY <1>1, <2>1 DEF Durable
<1>3. answers' \subseteq [msg : Message, status : Status]
  <2>1. \/ answers' = answers
        \/ \E s \in {"skewed", "nonce", "full", "clash"} : Told(m, s)
    BY DEF Receive, TooSkewed, ClaimRefused, Claim, TakeOtlp
  <2>2. \A s \in {"skewed", "nonce", "full", "clash"} :
          [msg |-> m, status |-> s] \in [msg : Message, status : Status]
    BY DEF Status
  <2>. QED BY <2>1, <2>2 DEF Told, TypeOK
<1>4. work' \in [Process -> {None} \cup [msg : Message, replayed : BOOLEAN,
                              at : {"receipt", "read", "write", "raced"}, base : Nat]]
  <2>1. \A r \in BOOLEAN : Task(m, r) \in [msg : Message, replayed : BOOLEAN,
                              at : {"receipt", "read", "write", "raced"}, base : Nat]
    BY DEF Task
  <2>2. Replayed(p, m) \in BOOLEAN
    BY DEF Replayed
  <2>. QED BY <2>1, <2>2 DEF Receive, TooSkewed, ClaimRefused, Claim, TakeOtlp, TypeOK
<1>5. Expiry \in 0..MaxTime + Retention
  BY <1>1 DEF Expiry
<1>6. nonces' \in [Process -> SUBSET [nonce : Nonce, expiry : 0..MaxTime + Retention]]
  <2>1. Kept(nonces[p]) \subseteq nonces[p]
    BY DEF Kept
  <2>2. m.route = "event" => m.nonce \in Nonce
    BY <1>1, ConstantsAssumption DEF MessageType
  <2>3. \/ nonces' = nonces
        \/ nonces' = [nonces EXCEPT ![p] = Kept(@)]
        \/ /\ m.route = "event"
           /\ nonces' = [nonces EXCEPT ![p] = Kept(@) \cup {[nonce |-> m.nonce, expiry |-> Expiry]}]
    BY DEF Receive, TooSkewed, ClaimRefused, Claim, TakeOtlp
  <2>4. nonces[p] \in SUBSET [nonce : Nonce, expiry : 0..MaxTime + Retention]
    BY DEF TypeOK
  <2>5. Kept(nonces[p]) \in SUBSET [nonce : Nonce, expiry : 0..MaxTime + Retention]
    BY <2>1, <2>4
  <2>6. CASE m.route = "event"
    <3>1. [nonce |-> m.nonce, expiry |-> Expiry] \in [nonce : Nonce, expiry : 0..MaxTime + Retention]
      BY <1>5, <2>2, <2>6
    <3>2. Kept(nonces[p]) \cup {[nonce |-> m.nonce, expiry |-> Expiry]}
            \in SUBSET [nonce : Nonce, expiry : 0..MaxTime + Retention]
      BY <2>5, <3>1
    <3>. QED BY <2>3, <2>5, <3>2 DEF TypeOK
  <2>. QED BY <2>3, <2>5, <2>6 DEF TypeOK
<1>7. claims' \in [Process -> SUBSET [key : Key, payload : Payload, expiry : 0..MaxTime + Retention]]
  <2>1. Kept(claims[p]) \subseteq claims[p]
    BY DEF Kept
  <2>2. [key |-> m.key, payload |-> m.payload, expiry |-> Expiry]
          \in [key : Key, payload : Payload, expiry : 0..MaxTime + Retention]
    BY <1>1, <1>5 DEF MessageType
  <2>3. \/ claims' = claims
        \/ claims' = [claims EXCEPT ![p] = Kept(@)]
        \/ claims' = [claims EXCEPT ![p] =
                        {x \in Kept(@) : x.key # m.key}
                          \cup {[key |-> m.key, payload |-> m.payload, expiry |-> Expiry]}]
    BY DEF Receive, TooSkewed, ClaimRefused, Claim, TakeOtlp
  <2>4. claims[p] \in SUBSET [key : Key, payload : Payload, expiry : 0..MaxTime + Retention]
    BY DEF TypeOK
  <2>5. {x \in Kept(claims[p]) : x.key # m.key}
          \cup {[key |-> m.key, payload |-> m.payload, expiry |-> Expiry]}
            \in SUBSET [key : Key, payload : Payload, expiry : 0..MaxTime + Retention]
    BY <2>1, <2>2, <2>4
  <2>. QED BY <2>1, <2>3, <2>4, <2>5 DEF TypeOK
<1>8. accepted' \in [Process -> Seq(Message)]
  <2>1. accepted' = accepted \/ accepted' = [accepted EXCEPT ![p] = Append(@, m)]
    BY DEF Receive, TooSkewed, ClaimRefused, Claim, TakeOtlp
  <2>2. accepted \in [Process -> Seq(Message)] /\ Append(accepted[p], m) \in Seq(Message)
    BY DEF TypeOK
  <2>. QED BY <2>1, <2>2
<1>. QED BY <1>2, <1>3, <1>4, <1>6, <1>7, <1>8 DEF TypeOK

\* A request in hand: at most a receipt, a version and an answer are new.
LEMMA TypeHandle ==
  ASSUME TypeOK, NEW p \in Process, Handle(p) \/ StoreFails(p)
  PROVE  TypeOK'
<1>1. work[p] # None
  BY DEF Handle, StoreFails, Handling, AppendReceipt, ReadProjection, WriteProjection,
         WriteRefused, Raced
<1>2. Volatile
  BY DEF Handle, StoreFails, AppendReceipt, ReadProjection, WriteProjection, WriteRefused, Raced
<1>3. receipts' \subseteq Receipt
  BY <1>1, Handled DEF Handle, StoreFails, AppendReceipt, ReadProjection, WriteProjection,
     WriteRefused, Raced, Durable, TypeOK
<1>4. history' \in [Scope \X Entity -> Seq(View)]
  <2>1. Project(p) => history' \in [Scope \X Entity -> Seq(View)]
    BY <1>1, Handled DEF Project, TypeOK
  <2>. QED BY <2>1 DEF Handle, StoreFails, AppendReceipt, ReadProjection, WriteProjection,
              WriteRefused, Raced, Durable, TypeOK
<1>5. answers' \subseteq [msg : Message, status : Status]
  <2>1. \A s \in Status : [msg |-> work[p].msg, status |-> s] \in [msg : Message, status : Status]
    BY <1>1, Handled
  <2>2. ASSUME NEW s \in Status, Told(work[p].msg, s)
        PROVE  answers' \subseteq [msg : Message, status : Status]
    BY <2>1, <2>2 DEF Told, TypeOK
  <2>3. {"ok", "conflict", "failed"} \subseteq Status
    BY DEF Status
  <2>. QED BY <2>2, <2>3 DEF Handle, StoreFails, AppendReceipt, ReadProjection, WriteProjection,
              WriteRefused, Raced, GoTo, Reply, TypeOK
<1>6. work' \in [Process -> {None} \cup [msg : Message, replayed : BOOLEAN,
                              at : {"receipt", "read", "write", "raced"}, base : Nat]]
  <2>1. Len(history[Place(p)]) \in Nat
    BY <1>1, Handled DEF TypeOK
  <2>2. \A at \in {"receipt", "read", "write", "raced"} :
          [work[p] EXCEPT !.at = at] \in [msg : Message, replayed : BOOLEAN,
                              at : {"receipt", "read", "write", "raced"}, base : Nat]
    BY <1>1, Handled
  <2>3. [work[p] EXCEPT !.at = "write", !.base = Len(history[Place(p)])]
          \in [msg : Message, replayed : BOOLEAN,
               at : {"receipt", "read", "write", "raced"}, base : Nat]
    BY <1>1, <2>1, Handled
  <2>4. \/ work' = [work EXCEPT ![p] = None]
        \/ \E at \in {"read", "raced"} : work' = [work EXCEPT ![p].at = at]
        \/ work' = [work EXCEPT ![p].at = "write", ![p].base = Len(history[Place(p)])]
    BY DEF Handle, StoreFails, AppendReceipt, ReadProjection, WriteProjection, WriteRefused,
           Raced, GoTo, Reply
  <2>. QED BY <2>2, <2>3, <2>4 DEF TypeOK
<1>. QED BY <1>2, <1>3, <1>4, <1>5, <1>6 DEF TypeOK, Volatile

LEMMA TypeStep == TypeOK /\ [Next]_vars => TypeOK'
<1>. SUFFICES ASSUME TypeOK, [Next]_vars PROVE TypeOK'
  OBVIOUS
<1>1. CASE Tick
  BY <1>1, ConstantsAssumption DEF Tick, TypeOK
<1>2. ASSUME NEW p \in Process, Crash(p)
      PROVE  TypeOK'
  BY <1>2, ConstantsAssumption DEF Crash, Durable, TypeOK
<1>3. CASE UNCHANGED vars
  BY <1>3 DEF vars, TypeOK
<1>. QED BY <1>1, <1>2, <1>3, TypeReceive, TypeHandle DEF Next

THEOREM TypeCorrect == Spec => []TypeOK
BY TypeInit, TypeStep, PTL DEF Spec

-----------------------------------------------------------------------------
(* The registries. *)

\* The entries that outlive a moment.
Outliving(entries, t) == {x \in entries : x.expiry > t}

\* An accepted message that is still timely has its nonce registered, for as
\* long as it stays timely.
Remembered ==
  \A p \in Process : \A i \in DOMAIN accepted[p] :
    clock <= accepted[p][i].signedAt + Skew =>
      \E x \in nonces[p] : /\ x.nonce = accepted[p][i].nonce
                           /\ x.expiry > accepted[p][i].signedAt + Skew

\* Two registries of one process: whatever time passes, the nonces last as the keys do.
PairedRegistries(ns, cs) ==
  /\ IsFiniteSet(ns) /\ IsFiniteSet(cs)
  /\ \A t \in Int : Cardinality(Outliving(cs, t)) <= Cardinality(Outliving(ns, t))
  /\ Cardinality(ns) <= MaxEntries
  /\ \A x, y \in cs : x.key = y.key => x = y

Paired == \A p \in Process : PairedRegistries(nonces[p], claims[p])

RInv == Remembered /\ Paired /\ AcceptedOnce

Nonces == [nonce : Nonce, expiry : 0..MaxTime + Retention]
Claims == [key : Key, payload : Payload, expiry : 0..MaxTime + Retention]

\* Pruning leaves what outlives the clock.
LEMMA KeptOutlives ==
  ASSUME clock \in Int, NEW entries, \A x \in entries : x.expiry \in Int, NEW t \in Int
  PROVE  Outliving(Kept(entries), t) = Outliving(entries, IF t >= clock THEN t ELSE clock)
BY DEF Outliving, Kept

LEMMA PruneKeepsPairs ==
  ASSUME clock \in Int, NEW ns \in SUBSET Nonces, NEW cs \in SUBSET Claims,
         PairedRegistries(ns, cs)
  PROVE  PairedRegistries(Kept(ns), Kept(cs))
<1>1. /\ IsFiniteSet(Kept(ns)) /\ IsFiniteSet(Kept(cs))
      /\ Cardinality(Kept(ns)) <= Cardinality(ns)
  <2>1. Kept(ns) \in SUBSET ns /\ Kept(cs) \in SUBSET cs
    BY DEF Kept
  <2>. QED BY <2>1, FS_Subset DEF PairedRegistries
<1>2. Cardinality(Kept(ns)) \in Int /\ Cardinality(ns) \in Int /\ MaxEntries \in Int
  BY <1>1, FS_CardinalityType, ConstantsAssumption DEF PairedRegistries
<1>3. (\A x \in ns : x.expiry \in Int) /\ (\A x \in cs : x.expiry \in Int)
  BY DEF Nonces, Claims
<1>4. ASSUME NEW t \in Int
      PROVE  Cardinality(Outliving(Kept(cs), t)) <= Cardinality(Outliving(Kept(ns), t))
  <2>. DEFINE later == IF t >= clock THEN t ELSE clock
  <2>1. later \in Int
    OBVIOUS
  <2>2. Outliving(Kept(cs), t) = Outliving(cs, later) /\ Outliving(Kept(ns), t) = Outliving(ns, later)
    BY <1>3, KeptOutlives
  <2>. HIDE DEF later
  <2>. QED BY <2>1, <2>2 DEF PairedRegistries
<1>5. \A x, y \in Kept(cs) : x.key = y.key => x = y
  BY DEF Kept, PairedRegistries
<1>. QED BY <1>1, <1>2, <1>4, <1>5 DEF PairedRegistries

\* A new nonce, and a key in place of its earlier claim, which last equally long.
LEMMA ClaimKeepsPairs ==
  ASSUME NEW ns, NEW cs, PairedRegistries(ns, cs), NEW n, n \notin ns, NEW k,
         n.expiry \in Int, k.expiry = n.expiry, Cardinality(ns) < MaxEntries
  PROVE  PairedRegistries(ns \cup {n}, {x \in cs : x.key # k.key} \cup {k})
<1>. DEFINE rest == {x \in cs : x.key # k.key}
<1>0. rest \in SUBSET cs
  OBVIOUS
<1>1. /\ IsFiniteSet(ns) /\ IsFiniteSet(cs) /\ IsFiniteSet(rest)
      /\ IsFiniteSet(ns \cup {n}) /\ IsFiniteSet(rest \cup {k})
      /\ Cardinality(ns \cup {n}) = Cardinality(ns) + 1
  BY <1>0, FS_Subset, FS_AddElement DEF PairedRegistries
<1>2. Cardinality(ns) \in Int /\ MaxEntries \in Int
  BY <1>1, FS_CardinalityType, ConstantsAssumption
<1>3. ASSUME NEW t \in Int
      PROVE  Cardinality(Outliving(rest \cup {k}, t)) <= Cardinality(Outliving(ns \cup {n}, t))
  <2>. DEFINE N == Outliving(ns, t)
              C == Outliving(cs, t)
              R == Outliving(rest, t)
  <2>1. N \in SUBSET ns /\ C \in SUBSET cs /\ R \in SUBSET C /\ n \notin N
    BY DEF Outliving
  <2>2. IsFiniteSet(N) /\ IsFiniteSet(C)
    BY <1>1, <2>1, FS_Subset
  <2>3. IsFiniteSet(R) /\ Cardinality(R) <= Cardinality(C)
    BY <2>1, <2>2, FS_Subset
  <2>4. Cardinality(N) \in Int /\ Cardinality(C) \in Int /\ Cardinality(R) \in Int
    BY <2>2, <2>3, FS_CardinalityType
  <2>5. Cardinality(C) <= Cardinality(N)
    BY DEF PairedRegistries
  <2>6. CASE n.expiry > t
    <3>1. Outliving(rest \cup {k}, t) = R \cup {k} /\ Outliving(ns \cup {n}, t) = N \cup {n}
      BY <2>6 DEF Outliving
    <3>. HIDE DEF N, C, R
    <3>2. Cardinality(N \cup {n}) = Cardinality(N) + 1
      BY <2>1, <2>2, FS_AddElement
    <3>3. Cardinality(R \cup {k}) = IF k \in R THEN Cardinality(R) ELSE Cardinality(R) + 1
      BY <2>3, FS_AddElement
    <3>4. Cardinality(R \cup {k}) <= Cardinality(R) + 1
      BY <2>4, <3>3
    <3>5. Cardinality(R) + 1 <= Cardinality(N) + 1
      BY <2>3, <2>4, <2>5
    <3>6. Cardinality(R \cup {k}) \in Int
      BY <2>3, FS_AddElement, FS_CardinalityType
    <3>7. Cardinality(R \cup {k}) <= Cardinality(N \cup {n})
      BY <2>4, <3>2, <3>4, <3>5, <3>6
    <3>. QED BY <3>1, <3>7
  <2>7. CASE ~(n.expiry > t)
    <3>1. Outliving(rest \cup {k}, t) = R /\ Outliving(ns \cup {n}, t) = N
      BY <2>7 DEF Outliving
    <3>. HIDE DEF N, C, R
    <3>. QED BY <2>3, <2>4, <2>5, <3>1
  <2>. QED BY <2>6, <2>7
<1>4. \A x, y \in rest \cup {k} : x.key = y.key => x = y
  BY DEF PairedRegistries
<1>. HIDE DEF rest
<1>5. Cardinality(ns \cup {n}) <= MaxEntries
  BY <1>1, <1>2
<1>6. PairedRegistries(ns \cup {n}, rest \cup {k})
  BY <1>1, <1>3, <1>4, <1>5 DEF PairedRegistries
<1>. QED BY <1>6 DEF rest

\* Only a delivery, a crash and the clock touch what the registries promise.
Registry == <<clock, nonces, claims, accepted>>

LEMMA RegistryInit == Init => RInv
<1>. SUFFICES ASSUME Init PROVE RInv
  OBVIOUS
<1>1. Remembered /\ AcceptedOnce
  BY DEF Init, Remembered, AcceptedOnce
<1>2. PairedRegistries({}, {})
  <2>1. \A t : Outliving({}, t) = {}
    BY DEF Outliving
  <2>. QED BY <2>1, FS_EmptySet, ConstantsAssumption DEF PairedRegistries
<1>3. Paired
  BY <1>2 DEF Init, Paired
<1>. QED BY <1>1, <1>3 DEF RInv

\* A message is taken up only if its nonce is not registered: had it been
\* accepted before, its nonce would be, for it is timely.
LEMMA ClaimKeepsRegistry ==
  ASSUME TypeOK, RInv, NEW p \in Process, NEW m \in Message, Claim(p, m)
  PROVE  RInv'
<1>1. /\ clock \in Int /\ Skew \in Int /\ Retention \in Int /\ Retention > 2 * Skew
      /\ m.signedAt \in Int /\ \A n \in Message : n.signedAt \in Int
      /\ MaxEntries \in Int
  BY ConstantsAssumption DEF TypeOK, MessageType
<1>2. /\ nonces[p] \in SUBSET Nonces /\ claims[p] \in SUBSET Claims
      /\ accepted[p] \in Seq(Message)
  BY DEF TypeOK, Nonces, Claims
<1>. DEFINE n == [nonce |-> m.nonce, expiry |-> Expiry]
            k == [key |-> m.key, payload |-> m.payload, expiry |-> Expiry]
<1>3. /\ nonces' = [nonces EXCEPT ![p] = Kept(nonces[p]) \cup {n}]
      /\ claims' = [claims EXCEPT ![p] = {x \in Kept(claims[p]) : x.key # k.key} \cup {k}]
      /\ accepted' = [accepted EXCEPT ![p] = Append(accepted[p], m)]
      /\ clock' = clock
  BY DEF Claim
<1>4. ~NonceSeen(p, m) /\ ~Full(p, m) /\ Timely(m)
  BY DEF Claim
<1>5. n.expiry \in Int /\ k.expiry = n.expiry /\ n.nonce = m.nonce /\ n.expiry = clock + Retention
  BY <1>1 DEF Expiry
<1>6. Paired'
  <2>1. PairedRegistries(Kept(nonces[p]), Kept(claims[p]))
    BY <1>1, <1>2, PruneKeepsPairs DEF RInv, Paired
  <2>2. n \notin Kept(nonces[p])
    BY <1>4 DEF NonceSeen
  <2>3. Cardinality(Kept(nonces[p])) < MaxEntries
    <3>1. Cardinality(Kept(nonces[p])) \in Int
      BY <2>1, FS_CardinalityType DEF PairedRegistries
    <3>. QED BY <1>1, <1>4, <3>1 DEF Full
  <2>. HIDE DEF n, k
  <2>4. PairedRegistries(nonces'[p], claims'[p])
    <3>1. /\ nonces'[p] = Kept(nonces[p]) \cup {n}
          /\ claims'[p] = {x \in Kept(claims[p]) : x.key # k.key} \cup {k}
      BY <1>3 DEF TypeOK
    <3>2. PairedRegistries(Kept(nonces[p]) \cup {n},
                           {x \in Kept(claims[p]) : x.key # k.key} \cup {k})
      BY <1>5, <2>1, <2>2, <2>3, ClaimKeepsPairs
    <3>. QED BY <3>1, <3>2
  <2>5. \A q \in Process \ {p} : nonces'[q] = nonces[q] /\ claims'[q] = claims[q]
    BY <1>3 DEF TypeOK
  <2>6. \A q \in Process \ {p} : PairedRegistries(nonces'[q], claims'[q])
    BY <2>5 DEF RInv, Paired
  <2>. QED BY <2>4, <2>6 DEF Paired
<1>7. \A i \in DOMAIN accepted[p] : accepted[p][i] # m
  <2>1. SUFFICES ASSUME NEW i \in DOMAIN accepted[p], accepted[p][i] = m PROVE FALSE
    OBVIOUS
  <2>2. PICK x \in nonces[p] : x.nonce = m.nonce /\ x.expiry > m.signedAt + Skew
    BY <1>1, <1>4, <2>1 DEF RInv, Remembered, Timely
  <2>3. x.expiry > clock
    <3>1. x.expiry \in Int
      BY <1>2 DEF Nonces
    <3>. QED BY <1>1, <1>4, <2>2, <3>1 DEF Timely
  <2>. QED BY <1>4, <2>2, <2>3 DEF NonceSeen, Kept
<1>8. /\ DOMAIN accepted'[p] = DOMAIN accepted[p] \cup {Len(accepted[p]) + 1}
      /\ accepted'[p][Len(accepted[p]) + 1] = m
      /\ \A i \in DOMAIN accepted[p] : accepted'[p][i] = accepted[p][i]
  <2>1. accepted'[p] = Append(accepted[p], m)
    BY <1>3 DEF TypeOK
  <2>. QED BY <1>2, <2>1
<1>9. \A q \in Process \ {p} : accepted'[q] = accepted[q] /\ nonces'[q] = nonces[q]
  BY <1>3 DEF TypeOK
<1>10. AcceptedOnce'
  BY <1>7, <1>8, <1>9 DEF AcceptedOnce, RInv
<1>11. Remembered'
  <2>1. nonces'[p] = Kept(nonces[p]) \cup {n}
    BY <1>3 DEF TypeOK
  <2>2. n \in nonces'[p] /\ n.expiry > m.signedAt + Skew
    BY <1>1, <1>4, <1>5, <2>1 DEF Timely
  <2>3. ASSUME NEW i \in DOMAIN accepted[p], clock <= accepted[p][i].signedAt + Skew
        PROVE  \E x \in nonces'[p] : /\ x.nonce = accepted[p][i].nonce
                                     /\ x.expiry > accepted[p][i].signedAt + Skew
    <3>1. PICK x \in nonces[p] : /\ x.nonce = accepted[p][i].nonce
                                 /\ x.expiry > accepted[p][i].signedAt + Skew
      BY <2>3 DEF RInv, Remembered
    <3>2. x.expiry \in Int /\ accepted[p][i].signedAt \in Int
      BY <1>1, <1>2 DEF Nonces
    <3>3. x \in Kept(nonces[p])
      BY <1>1, <2>3, <3>1, <3>2 DEF Kept
    <3>. QED BY <2>1, <3>1, <3>3
  <2>4. ASSUME NEW i \in DOMAIN accepted'[p], clock' <= accepted'[p][i].signedAt + Skew
        PROVE  \E x \in nonces'[p] : /\ x.nonce = accepted'[p][i].nonce
                                     /\ x.expiry > accepted'[p][i].signedAt + Skew
    <3>1. CASE i \in DOMAIN accepted[p]
      BY <1>3, <1>8, <2>3, <2>4, <3>1
    <3>2. CASE i = Len(accepted[p]) + 1
      BY <1>5, <1>8, <2>2, <3>2
    <3>. QED BY <1>8, <3>1, <3>2
  <2>5. \A q \in Process \ {p} : \A i \in DOMAIN accepted'[q] :
          clock' <= accepted'[q][i].signedAt + Skew =>
            \E x \in nonces'[q] : /\ x.nonce = accepted'[q][i].nonce
                                  /\ x.expiry > accepted'[q][i].signedAt + Skew
    BY <1>3, <1>9 DEF RInv, Remembered
  <2>. QED BY <2>4, <2>5 DEF Remembered
<1>. QED BY <1>6, <1>10, <1>11 DEF RInv

\* A refused delivery prunes: what is dropped was no longer timely.
LEMMA RefusalKeepsRegistry ==
  ASSUME TypeOK, RInv, NEW p \in Process, NEW m \in Message, ClaimRefused(p, m)
  PROVE  RInv'
<1>1. /\ nonces' = [nonces EXCEPT ![p] = Kept(nonces[p])]
      /\ claims' = [claims EXCEPT ![p] = Kept(claims[p])]
      /\ accepted' = accepted /\ clock' = clock
  BY DEF ClaimRefused
<1>2. /\ clock \in Int /\ nonces[p] \in SUBSET Nonces /\ claims[p] \in SUBSET Claims
      /\ Skew \in Int /\ \A n \in Message : n.signedAt \in Int
  BY ConstantsAssumption DEF TypeOK, Nonces, Claims, MessageType
<1>3. Paired'
  <2>1. \A q \in Process : PairedRegistries(nonces[q], claims[q])
    BY DEF RInv, Paired
  <2>2. PairedRegistries(Kept(nonces[p]), Kept(claims[p]))
    BY <1>2, <2>1, PruneKeepsPairs
  <2>3. \A q \in Process : \/ nonces'[q] = nonces[q] /\ claims'[q] = claims[q]
                           \/ q = p /\ nonces'[q] = Kept(nonces[p]) /\ claims'[q] = Kept(claims[p])
    BY <1>1 DEF TypeOK
  <2>. QED BY <2>1, <2>2, <2>3 DEF Paired
<1>4. Remembered'
  <2>1. SUFFICES ASSUME NEW q \in Process, NEW i \in DOMAIN accepted[q],
                        clock <= accepted[q][i].signedAt + Skew
                 PROVE  \E x \in nonces'[q] : /\ x.nonce = accepted[q][i].nonce
                                              /\ x.expiry > accepted[q][i].signedAt + Skew
    BY <1>1 DEF Remembered
  <2>2. PICK x \in nonces[q] : /\ x.nonce = accepted[q][i].nonce
                               /\ x.expiry > accepted[q][i].signedAt + Skew
    BY <2>1 DEF RInv, Remembered
  <2>3. x.expiry \in Int /\ accepted[q][i].signedAt \in Int
    BY <1>2 DEF TypeOK
  <2>4. x \in Kept(nonces[q])
    BY <1>2, <2>1, <2>2, <2>3 DEF Kept
  <2>5. Kept(nonces[q]) \subseteq nonces'[q]
    BY <1>1 DEF TypeOK, Kept
  <2>. QED BY <2>2, <2>4, <2>5
<1>5. AcceptedOnce'
  BY <1>1 DEF RInv, AcceptedOnce
<1>. QED BY <1>3, <1>4, <1>5 DEF RInv

LEMMA RegistryStep == TypeOK /\ RInv /\ [Next]_vars => RInv'
<1>. SUFFICES ASSUME TypeOK, RInv, [Next]_vars PROVE RInv'
  OBVIOUS
<1>1. ASSUME UNCHANGED Registry
      PROVE  RInv'
  BY <1>1 DEF Registry, RInv, Remembered, Paired, AcceptedOnce
<1>2. CASE Tick
  <2>1. clock \in Int /\ clock' = clock + 1 /\ UNCHANGED <<nonces, claims, accepted>>
    BY <1>2 DEF Tick, TypeOK
  <2>2. \A q \in Process : \A i \in DOMAIN accepted[q] : accepted[q][i].signedAt \in Int
    BY ConstantsAssumption DEF TypeOK, MessageType
  <2>3. Skew \in Int
    BY ConstantsAssumption
  <2>. QED BY <2>1, <2>2, <2>3 DEF RInv, Remembered, Paired, AcceptedOnce
<1>3. ASSUME NEW p \in Process, Crash(p)
      PROVE  RInv'
  <2>1. /\ nonces' = [nonces EXCEPT ![p] = {}] /\ claims' = [claims EXCEPT ![p] = {}]
        /\ accepted' = [accepted EXCEPT ![p] = <<>>] /\ clock' = clock
    BY <1>3 DEF Crash
  <2>2. PairedRegistries({}, {})
    <3>1. \A t : Outliving({}, t) = {}
      BY DEF Outliving
    <3>. QED BY <3>1, FS_EmptySet, ConstantsAssumption DEF PairedRegistries
  <2>3. \A q \in Process : \/ /\ nonces'[q] = nonces[q] /\ claims'[q] = claims[q]
                              /\ accepted'[q] = accepted[q]
                           \/ nonces'[q] = {} /\ claims'[q] = {} /\ accepted'[q] = <<>>
    BY <2>1 DEF TypeOK
  <2>4. Paired'
    BY <2>2, <2>3 DEF RInv, Paired
  <2>5. Remembered' /\ AcceptedOnce'
    BY <2>1, <2>3 DEF RInv, Remembered, AcceptedOnce
  <2>. QED BY <2>4, <2>5 DEF RInv
<1>4. ASSUME NEW p \in Process, Handle(p) \/ StoreFails(p)
      PROVE  UNCHANGED Registry
  BY <1>4 DEF Handle, StoreFails, AppendReceipt, ReadProjection, WriteProjection, WriteRefused,
              Raced, Volatile, Registry
<1>5. ASSUME NEW p \in Process, NEW m \in Message, TooSkewed(p, m) \/ TakeOtlp(p, m)
      PROVE  UNCHANGED Registry
  BY <1>5 DEF TooSkewed, TakeOtlp, Registry
<1>6. CASE UNCHANGED vars
  BY <1>1, <1>6 DEF vars, Registry
<1>. QED BY <1>1, <1>2, <1>3, <1>4, <1>5, <1>6, ClaimKeepsRegistry, RefusalKeepsRegistry
     DEF Next, Receive

\* What ReplayProtector promises while its process runs: no message is accepted
\* twice, one claim for a key, and both of its capacity checks agree.
THEOREM RegistriesStayHonest == Spec => []RegistriesHold
<1>1. TypeOK /\ RInv => RegistriesHold
  <2>. SUFFICES ASSUME TypeOK, RInv PROVE KeysNeverOutnumberNonces
    BY DEF RegistriesHold, RInv
  <2>1. ASSUME NEW p \in Process
        PROVE  /\ Outliving(claims[p], -1) = claims[p] /\ Outliving(nonces[p], -1) = nonces[p]
               /\ PairedRegistries(nonces[p], claims[p])
    BY DEF TypeOK, Outliving, RInv, Paired
  <2>. QED BY <2>1 DEF KeysNeverOutnumberNonces, PairedRegistries
<1>. QED BY <1>1, TypeCorrect, RegistryInit, RegistryStep, PTL DEF Spec

-----------------------------------------------------------------------------
(* The durable rows and the answers. *)

\* A request past its receipt has one that says what it says.
Backed ==
  \A p \in Process : work[p] # None /\ work[p].at # "receipt" => ReceiptOf(p) \in receipts

\* A request about to write knows a version that says something else, if any.
Differing ==
  \A p \in Process : work[p] # None /\ work[p].at = "write" =>
    /\ work[p].base <= Len(history[Place(p)])
    /\ work[p].base > 0 => history[Place(p)][work[p].base] # ViewOf(p)

\* No OTLP request is a replay: only the registry makes one.
OtlpPlain ==
  /\ \A p \in Process : work[p] # None /\ work[p].msg.route = "otlp" => ~work[p].replayed
  /\ \A r \in receipts : r.route = "otlp" => ~r.replayed

DInv == /\ Backed /\ Differing /\ OtlpPlain
        /\ ProjectionsReceipted /\ OkIsDurable /\ ProjectedOnce /\ OtlpConflictsEarned

\* How the request a process has in hand changes.
Taken(p) ==
  \E m \in Message, replayed \in BOOLEAN :
    work'[p] = Task(m, replayed) /\ (m.route = "otlp" => ~replayed)
Receipted(p) ==
  /\ work[p] # None /\ work'[p] = [work[p] EXCEPT !.at = "read"]
  /\ ReceiptOf(p) \in receipts' /\ history' = history
ReadOnce(p) ==
  /\ Handling(p, "read") /\ ~Current(p)
  /\ work'[p] = [work[p] EXCEPT !.at = "write", !.base = Len(history[Place(p)])]
  /\ history' = history /\ receipts' = receipts
Overtaken(p) == Handling(p, "write") /\ work'[p] = [work[p] EXCEPT !.at = "raced"]

LEMMA WorkChanges ==
  ASSUME TypeOK, [Next]_vars, NEW p \in Process, work'[p] # None
  PROVE  work'[p] = work[p] \/ Taken(p) \/ Receipted(p) \/ ReadOnce(p) \/ Overtaken(p)
<1>1. work \in [Process -> {None} \cup [msg : Message, replayed : BOOLEAN,
                              at : {"receipt", "read", "write", "raced"}, base : Nat]]
  BY DEF TypeOK
<1>2. CASE Tick \/ UNCHANGED vars
  BY <1>2 DEF Tick, vars
<1>3. ASSUME NEW q \in Process, NEW m \in Message, Receive(q, m)
      PROVE  work'[p] = work[p] \/ Taken(p)
  <2>1. \/ work' = work
        \/ \E replayed \in BOOLEAN : /\ work' = [work EXCEPT ![q] = Task(m, replayed)]
                                     /\ m.route = "otlp" => ~replayed
    <3>1. Replayed(q, m) \in BOOLEAN
      BY DEF Replayed
    <3>. QED BY <1>3, <3>1 DEF Receive, TooSkewed, ClaimRefused, Claim, TakeOtlp
  <2>. QED BY <1>1, <2>1 DEF Taken
<1>4. ASSUME NEW q \in Process, Crash(q) \/ StoreFails(q)
      PROVE  work'[p] = work[p]
  BY <1>1, <1>4 DEF Crash, StoreFails, Reply
<1>5. ASSUME NEW q \in Process, Handle(q)
      PROVE  work'[p] = work[p] \/ Receipted(p) \/ ReadOnce(p) \/ Overtaken(p)
  <2>1. CASE AppendReceipt(q)
    <3>1. \/ work' = [work EXCEPT ![q] = None]
          \/ work' = [work EXCEPT ![q].at = "read"] /\ ReceiptOf(q) \in receipts'
      BY <2>1 DEF AppendReceipt, GoTo, Reply, SameRequest, OfKey
    <3>2. work[q] # None /\ history' = history
      BY <2>1 DEF AppendReceipt, Handling
    <3>. QED BY <1>1, <3>1, <3>2 DEF Receipted
  <2>2. CASE ReadProjection(q)
    <3>1. \/ work' = [work EXCEPT ![q] = None]
          \/ /\ work' = [work EXCEPT ![q].at = "write", ![q].base = Len(history[Place(q)])]
             /\ ~Current(q)
      BY <2>2 DEF ReadProjection, Reply
    <3>2. Handling(q, "read") /\ history' = history /\ receipts' = receipts
      BY <2>2 DEF ReadProjection, Durable
    <3>. QED BY <1>1, <3>1, <3>2 DEF ReadOnce
  <2>3. CASE WriteProjection(q) \/ Raced(q)
    BY <1>1, <2>3 DEF WriteProjection, Raced, Reply
  <2>4. CASE WriteRefused(q)
    BY <1>1, <2>4 DEF WriteRefused, GoTo, Overtaken
  <2>. QED BY <1>5, <2>1, <2>2, <2>3, <2>4 DEF Handle
<1>. QED BY <1>2, <1>3, <1>4, <1>5 DEF Next

\* A version is written by a request that read the one before it.
Writes(p) ==
  /\ Handling(p, "write") /\ Expected(p)
  /\ history' = [history EXCEPT ![Place(p)] = Append(@, ViewOf(p))]
  /\ work'[p] = None

LEMMA HistoryChanges ==
  ASSUME TypeOK, [Next]_vars
  PROVE  history' = history \/ \E p \in Process : Writes(p)
<1>1. CASE Tick \/ UNCHANGED vars
  BY <1>1 DEF Tick, vars
<1>2. ASSUME NEW p \in Process, NEW m \in Message, Receive(p, m)
      PROVE  history' = history
  BY <1>2 DEF Receive, TooSkewed, ClaimRefused, Claim, TakeOtlp, Durable
<1>3. ASSUME NEW p \in Process, Handle(p) \/ StoreFails(p) \/ Crash(p)
      PROVE  history' = history \/ Writes(p)
  <2>1. CASE WriteProjection(p)
    BY <2>1 DEF WriteProjection, Writes, Project, Reply, TypeOK
  <2>2. CASE StoreFails(p)
    BY <2>2 DEF StoreFails, Writes, Project, Reply, Handling, Durable, TypeOK
  <2>3. CASE AppendReceipt(p) \/ ReadProjection(p) \/ WriteRefused(p) \/ Raced(p) \/ Crash(p)
    BY <2>3 DEF AppendReceipt, ReadProjection, WriteRefused, Raced, Crash, Durable
  <2>. QED BY <1>3, <2>1, <2>2, <2>3 DEF Handle
<1>. QED BY <1>1, <1>2, <1>3 DEF Next

LEMMA ReceiptChanges ==
  ASSUME [Next]_vars
  PROVE  /\ receipts \subseteq receipts'
         /\ \A r \in receipts' \ receipts : \E p \in Process : work[p] # None /\ r = ReceiptOf(p)
<1>1. CASE Tick \/ UNCHANGED vars
  BY <1>1 DEF Tick, vars
<1>2. ASSUME NEW p \in Process, NEW m \in Message, Receive(p, m)
      PROVE  receipts' = receipts
  BY <1>2 DEF Receive, TooSkewed, ClaimRefused, Claim, TakeOtlp, Durable
<1>3. ASSUME NEW p \in Process, Handle(p) \/ StoreFails(p) \/ Crash(p)
      PROVE  \/ receipts' = receipts
             \/ work[p] # None /\ receipts' = receipts \cup {ReceiptOf(p)}
  BY <1>3 DEF Handle, StoreFails, Crash, AppendReceipt, ReadProjection, WriteProjection,
              WriteRefused, Raced, Handling, Durable
<1>. QED BY <1>1, <1>2, <1>3 DEF Next

\* An answer that matters: "ok" where the entity says what the request says,
\* "conflict" where the key has another receipt.
Answers(p, a) ==
  /\ work[p] # None /\ a.msg = work[p].msg
  /\ a.status = "ok" => /\ work[p].at # "receipt"
                        /\ (Current(p) /\ history' = history) \/ Writes(p)
  /\ a.status = "conflict" => \E r \in OfKey(p) : r # ReceiptOf(p)

LEMMA AnswerChanges ==
  ASSUME TypeOK, [Next]_vars, NEW a \in answers', a \notin answers, a.status \in {"ok", "conflict"}
  PROVE  \E p \in Process : Answers(p, a)
<1>1. CASE Tick \/ UNCHANGED vars
  BY <1>1 DEF Tick, vars
<1>2. ASSUME NEW p \in Process, NEW m \in Message, Receive(p, m)
      PROVE  FALSE
  <2>1. answers' = answers \/ \E s \in {"skewed", "nonce", "full", "clash"} : Told(m, s)
    BY <1>2 DEF Receive, TooSkewed, ClaimRefused, Claim, TakeOtlp
  <2>. QED BY <2>1 DEF Told
<1>3. ASSUME NEW p \in Process, Crash(p) \/ StoreFails(p)
      PROVE  FALSE
  <2>1. answers' = answers \/ answers' = answers \cup {[msg |-> work[p].msg, status |-> "failed"]}
    BY <1>3 DEF Crash, StoreFails, Reply, Told
  <2>. QED BY <2>1
<1>4. ASSUME NEW p \in Process, Handle(p)
      PROVE  Answers(p, a)
  <2>1. CASE AppendReceipt(p)
    <3>1. work[p] # None /\ a = [msg |-> work[p].msg, status |-> "conflict"]
          /\ \E r \in OfKey(p) : r # ReceiptOf(p)
      BY <2>1 DEF AppendReceipt, Handling, GoTo, Reply, Told, SameRequest
    <3>. QED BY <3>1 DEF Answers
  <2>2. CASE ReadProjection(p)
    <3>1. /\ work[p] # None /\ work[p].at = "read" /\ Current(p) /\ history' = history
          /\ a = [msg |-> work[p].msg, status |-> "ok"]
      BY <2>2 DEF ReadProjection, Handling, Reply, Told, Durable
    <3>. QED BY <3>1 DEF Answers
  <2>3. CASE WriteProjection(p)
    <3>1. /\ work[p] # None /\ work[p].at = "write" /\ a = [msg |-> work[p].msg, status |-> "ok"]
      BY <2>3 DEF WriteProjection, Handling, Reply, Told
    <3>2. Writes(p)
      BY <2>3 DEF WriteProjection, Writes, Project, Reply, TypeOK
    <3>. QED BY <3>1, <3>2 DEF Answers
  <2>4. CASE WriteRefused(p)
    BY <2>4 DEF WriteRefused, GoTo
  <2>5. CASE Raced(p)
    <3>1. /\ work[p] # None /\ work[p].at = "raced" /\ Current(p) /\ history' = history
          /\ a = [msg |-> work[p].msg, status |-> "ok"]
      BY <2>5 DEF Raced, Handling, Reply, Told, Durable
    <3>. QED BY <3>1 DEF Answers
  <2>. QED BY <1>4, <2>1, <2>2, <2>3, <2>4, <2>5 DEF Handle
<1>. QED BY <1>1, <1>2, <1>3, <1>4 DEF Next

\* Histories only grow, by what the request that writes says.
LEMMA Growth ==
  ASSUME TypeOK, [Next]_vars, NEW place \in Scope \X Entity
  PROVE  /\ history[place] \in Seq(View)
         /\ \A i \in DOMAIN history[place] :
              i \in DOMAIN history'[place] /\ history'[place][i] = history[place][i]
         /\ \A i \in DOMAIN history'[place] :
              \/ i \in DOMAIN history[place] /\ history'[place][i] = history[place][i]
              \/ /\ i = Len(history[place]) + 1
                 /\ \E p \in Process : /\ Writes(p) /\ Place(p) = place
                                       /\ history'[place][i] = ViewOf(p)
<1>1. history \in [Scope \X Entity -> Seq(View)] /\ history[place] \in Seq(View)
  BY DEF TypeOK
<1>2. CASE history' = history
  BY <1>1, <1>2
<1>3. ASSUME NEW p \in Process, Writes(p), Place(p) # place
      PROVE  history'[place] = history[place]
  BY <1>1, <1>3 DEF Writes
<1>4. ASSUME NEW p \in Process, Writes(p), Place(p) = place
      PROVE  history'[place] = Append(history[place], ViewOf(p)) /\ ViewOf(p) \in View
  <2>1. work[p] # None
    BY <1>4 DEF Writes, Handling
  <2>. QED BY <1>1, <1>4, <2>1, Handled DEF Writes
<1>5. ASSUME NEW p \in Process, Writes(p), Place(p) = place
      PROVE  /\ \A i \in DOMAIN history[place] :
                  i \in DOMAIN history'[place] /\ history'[place][i] = history[place][i]
             /\ \A i \in DOMAIN history'[place] :
                  \/ i \in DOMAIN history[place] /\ history'[place][i] = history[place][i]
                  \/ i = Len(history[place]) + 1 /\ history'[place][i] = ViewOf(p)
  <2>1. history'[place] = Append(history[place], ViewOf(p)) /\ ViewOf(p) \in View
    BY <1>4, <1>5
  <2>2. /\ DOMAIN history[place] = 1 .. Len(history[place]) /\ Len(history[place]) \in Nat
        /\ DOMAIN history'[place] = 1 .. Len(history[place]) + 1
    BY <1>1, <2>1
  <2>3. /\ \A i \in 1 .. Len(history[place]) : history'[place][i] = history[place][i]
        /\ history'[place][Len(history[place]) + 1] = ViewOf(p)
    BY <1>1, <2>1
  <2>4. \A i \in 1 .. Len(history[place]) + 1 :
          i \in 1 .. Len(history[place]) \/ i = Len(history[place]) + 1
    BY <2>2
  <2>. QED BY <2>2, <2>3, <2>4
<1>. QED BY <1>1, <1>2, <1>3, <1>5, HistoryChanges

\* What a request says does not change while it is handled.
LEMMA SameSaying ==
  ASSUME TypeOK, NEW p \in Process, work[p] # None,
         Receipted(p) \/ ReadOnce(p) \/ Overtaken(p) \/ work'[p] = work[p]
  PROVE  /\ ReceiptOf(p)' = ReceiptOf(p) /\ Place(p)' = Place(p) /\ ViewOf(p)' = ViewOf(p)
         /\ work'[p].msg = work[p].msg /\ work'[p].replayed = work[p].replayed
<1>1. work'[p].msg = work[p].msg /\ work'[p].replayed = work[p].replayed
  BY Handled DEF Receipted, ReadOnce, Overtaken
<1>. QED BY <1>1 DEF ReceiptOf, Place, ViewOf

LEMMA WorkStep ==
  ASSUME TypeOK, DInv, [Next]_vars
  PROVE  Backed' /\ Differing' /\ OtlpPlain'
<1>. USE DEF DInv
<1>0. \A p \in Process : work[p] # None =>
        work[p] \in [msg : Message, replayed : BOOLEAN,
                     at : {"receipt", "read", "write", "raced"}, base : Nat]
  BY Handled
<1>1. Backed'
  <2>1. SUFFICES ASSUME NEW p \in Process, work'[p] # None, work'[p].at # "receipt"
                 PROVE  ReceiptOf(p)' \in receipts'
    BY DEF Backed
  <2>2. CASE Taken(p)
    BY <2>1, <2>2 DEF Taken, Task
  <2>3. CASE Receipted(p)
    BY <2>3, SameSaying DEF Receipted
  <2>4. CASE ReadOnce(p) \/ Overtaken(p)
    <3>1. work[p] # None /\ work[p].at # "receipt"
      BY <2>4 DEF ReadOnce, Overtaken, Handling
    <3>. QED BY <2>4, <3>1, SameSaying, ReceiptChanges DEF Backed
  <2>5. CASE work'[p] = work[p]
    BY <2>1, <2>5, SameSaying, ReceiptChanges DEF Backed
  <2>. QED BY <2>1, <2>2, <2>3, <2>4, <2>5, WorkChanges
<1>2. Differing'
  <2>1. SUFFICES ASSUME NEW p \in Process, work'[p] # None, work'[p].at = "write"
                 PROVE  /\ work'[p].base <= Len(history'[Place(p)'])
                        /\ work'[p].base > 0 => history'[Place(p)'][work'[p].base] # ViewOf(p)'
    BY DEF Differing
  <2>2. ~Taken(p) /\ ~Receipted(p) /\ ~Overtaken(p)
    <3>1. ASSUME Taken(p) PROVE FALSE
      BY <2>1, <3>1 DEF Taken, Task
    <3>2. work[p] # None => /\ [work[p] EXCEPT !.at = "read"].at = "read"
                            /\ [work[p] EXCEPT !.at = "raced"].at = "raced"
      BY <1>0
    <3>. QED BY <2>1, <3>1, <3>2 DEF Receipted, Overtaken, Handling
  <2>3. CASE ReadOnce(p)
    <3>1. /\ work[p] # None /\ work'[p].base = Len(history[Place(p)]) /\ history' = history
          /\ ~Current(p)
      BY <1>0, <2>3 DEF ReadOnce, Handling
    <3>2. Place(p)' = Place(p) /\ ViewOf(p)' = ViewOf(p)
      BY <2>3, <3>1, SameSaying
    <3>3. history[Place(p)] \in Seq(View)
      BY <3>1, Handled DEF TypeOK
    <3>4. /\ Len(history[Place(p)]) <= Len(history[Place(p)])
          /\ Len(history[Place(p)]) > 0 =>
               history[Place(p)][Len(history[Place(p)])] # ViewOf(p)
      BY <3>1, <3>3 DEF Current
    <3>. QED BY <3>1, <3>2, <3>4
  <2>4. CASE work'[p] = work[p]
    <3>1. /\ work[p].base <= Len(history[Place(p)]) /\ work[p].base \in Nat
          /\ work[p].base > 0 => history[Place(p)][work[p].base] # ViewOf(p)
          /\ Place(p) \in Scope \X Entity
      BY <2>1, <2>4, Handled DEF Differing
    <3>2. Place(p)' = Place(p) /\ ViewOf(p)' = ViewOf(p)
      BY <2>1, <2>4, SameSaying
    <3>3. history[Place(p)] \in Seq(View) /\ history'[Place(p)] \in Seq(View)
      BY <3>1, TypeStep DEF TypeOK
    <3>4. CASE work[p].base = 0
      BY <2>4, <3>2, <3>3, <3>4
    <3>5. CASE work[p].base # 0
      <4>1. work[p].base \in DOMAIN history[Place(p)]
        BY <3>1, <3>3, <3>5
      <4>2. /\ work[p].base \in DOMAIN history'[Place(p)]
            /\ history'[Place(p)][work[p].base] = history[Place(p)][work[p].base]
        BY <3>1, <4>1, Growth
      <4>3. work[p].base <= Len(history'[Place(p)])
        BY <3>3, <4>2
      <4>. QED BY <2>4, <3>1, <3>2, <3>5, <4>2, <4>3
    <3>. QED BY <3>4, <3>5
  <2>. QED BY <2>1, <2>2, <2>3, <2>4, WorkChanges
<1>3. OtlpPlain'
  <2>1. ASSUME NEW p \in Process, work'[p] # None, work'[p].msg.route = "otlp"
        PROVE  ~work'[p].replayed
    <3>1. CASE Taken(p)
      BY <2>1, <3>1 DEF Taken, Task
    <3>2. CASE Receipted(p) \/ ReadOnce(p) \/ Overtaken(p) \/ work'[p] = work[p]
      <4>1. work[p] # None
        BY <2>1, <3>2 DEF Receipted, ReadOnce, Overtaken, Handling
      <4>. QED BY <2>1, <3>2, <4>1, SameSaying DEF OtlpPlain
    <3>. QED BY <2>1, <3>1, <3>2, WorkChanges
  <2>2. ASSUME NEW r \in receipts', r.route = "otlp"
        PROVE  ~r.replayed
    <3>1. CASE r \in receipts
      BY <2>2, <3>1 DEF OtlpPlain
    <3>2. CASE r \notin receipts
      <4>1. PICK p \in Process : work[p] # None /\ r = ReceiptOf(p)
        BY <3>2, ReceiptChanges
      <4>. QED BY <2>2, <4>1 DEF OtlpPlain, ReceiptOf
    <3>. QED BY <3>1, <3>2
  <2>. QED BY <2>1, <2>2 DEF OtlpPlain
<1>. QED BY <1>1, <1>2, <1>3

\* A version that is written is backed, and differs from the one before it.
LEMMA HistoryStep ==
  ASSUME TypeOK, DInv, [Next]_vars
  PROVE  ProjectionsReceipted' /\ ProjectedOnce'
<1>. USE DEF DInv
<1>1. receipts \subseteq receipts'
  BY ReceiptChanges
<1>2. ASSUME NEW p \in Process, Writes(p)
      PROVE  /\ Place(p) = <<work[p].msg.scope, EntityOf[work[p].msg.payload]>>
             /\ ReceiptOf(p) \in receipts
             /\ history[Place(p)] \in Seq(View)
             /\ work[p].base = Len(history[Place(p)])
             /\ Len(history[Place(p)]) > 0 =>
                  history[Place(p)][Len(history[Place(p)])] # ViewOf(p)
  <2>1. work[p] # None /\ work[p].at = "write" /\ work[p].base = Len(history[Place(p)])
    BY <1>2 DEF Writes, Handling, Expected
  <2>2. Place(p) \in Scope \X Entity
    BY <2>1, Handled
  <2>. QED BY <2>1, <2>2 DEF Backed, Differing, Place, TypeOK
<1>3. ProjectionsReceipted'
  <2>1. SUFFICES ASSUME NEW s \in Scope, NEW e \in Entity, NEW i \in DOMAIN history'[<<s, e>>]
                 PROVE  \E r \in receipts' :
                          /\ r.scope = s /\ r.key = history'[<<s, e>>][i].key
                          /\ r.payload = history'[<<s, e>>][i].payload
                          /\ r.replayed = history'[<<s, e>>][i].replayed
    BY DEF ProjectionsReceipted
  <2>2. <<s, e>> \in Scope \X Entity
    OBVIOUS
  <2>3. CASE i \in DOMAIN history[<<s, e>>] /\ history'[<<s, e>>][i] = history[<<s, e>>][i]
    BY <1>1, <2>3 DEF ProjectionsReceipted
  <2>4. ASSUME NEW p \in Process, Writes(p), Place(p) = <<s, e>>, history'[<<s, e>>][i] = ViewOf(p)
        PROVE  \E r \in receipts' :
                          /\ r.scope = s /\ r.key = history'[<<s, e>>][i].key
                          /\ r.payload = history'[<<s, e>>][i].payload
                          /\ r.replayed = history'[<<s, e>>][i].replayed
    <3>1. ReceiptOf(p) \in receipts' /\ work[p].msg.scope = s
      BY <1>1, <1>2, <2>4
    <3>2. /\ ReceiptOf(p).scope = s /\ ReceiptOf(p).key = ViewOf(p).key
          /\ ReceiptOf(p).payload = ViewOf(p).payload /\ ReceiptOf(p).replayed = ViewOf(p).replayed
      BY <3>1 DEF ReceiptOf, ViewOf
    <3>. QED BY <2>4, <3>1, <3>2
  <2>. QED BY <2>2, <2>3, <2>4, Growth
<1>4. ProjectedOnce'
  <2>1. SUFFICES ASSUME NEW s \in Scope, NEW e \in Entity,
                        NEW i \in DOMAIN history'[<<s, e>>], i + 1 \in DOMAIN history'[<<s, e>>]
                 PROVE  history'[<<s, e>>][i] # history'[<<s, e>>][i + 1]
    BY DEF ProjectedOnce
  <2>2. <<s, e>> \in Scope \X Entity
    OBVIOUS
  <2>3. history[<<s, e>>] \in Seq(View) /\ history'[<<s, e>>] \in Seq(View)
    BY <2>2, TypeStep DEF TypeOK
  <2>4. CASE i + 1 \in DOMAIN history[<<s, e>>]
    <3>1. i \in DOMAIN history[<<s, e>>]
      BY <2>3, <2>4
    <3>2. history'[<<s, e>>][i] = history[<<s, e>>][i] /\ history'[<<s, e>>][i + 1] = history[<<s, e>>][i + 1]
      BY <2>2, <2>4, <3>1, Growth
    <3>. QED BY <2>4, <3>1, <3>2 DEF ProjectedOnce
  <2>5. ASSUME NEW p \in Process, Writes(p), Place(p) = <<s, e>>, i + 1 = Len(history[<<s, e>>]) + 1,
               history'[<<s, e>>][i + 1] = ViewOf(p)
        PROVE  history'[<<s, e>>][i] # history'[<<s, e>>][i + 1]
    <3>1. i = Len(history[<<s, e>>]) /\ i \in DOMAIN history[<<s, e>>] /\ i > 0
      BY <2>3, <2>5
    <3>2. history'[<<s, e>>][i] = history[<<s, e>>][i]
      BY <2>2, <3>1, Growth
    <3>. QED BY <1>2, <2>5, <3>1, <3>2
  <2>. QED BY <2>1, <2>2, <2>4, <2>5, Growth
<1>. QED BY <1>3, <1>4

LEMMA AnswerStep ==
  ASSUME TypeOK, DInv, [Next]_vars
  PROVE  OkIsDurable' /\ OtlpConflictsEarned'
<1>. USE DEF DInv
<1>1. receipts \subseteq receipts'
  BY ReceiptChanges
<1>2. answers \subseteq [msg : Message, status : Status] /\ Message \subseteq MessageType
      /\ answers' \subseteq [msg : Message, status : Status]
  BY TypeStep, ConstantsAssumption DEF TypeOK
<1>3. OkIsDurable'
  <2>1. SUFFICES ASSUME NEW a \in answers', a.status = "ok"
                 PROVE  /\ \E r \in receipts' : r.scope = a.msg.scope /\ r.key = a.msg.key
                                                /\ r.payload = a.msg.payload
                        /\ \E i \in DOMAIN history'[<<a.msg.scope, EntityOf[a.msg.payload]>>] :
                             LET view == history'[<<a.msg.scope, EntityOf[a.msg.payload]>>][i]
                             IN  view.key = a.msg.key /\ view.payload = a.msg.payload
    BY DEF OkIsDurable
  <2>. DEFINE place == <<a.msg.scope, EntityOf[a.msg.payload]>>
  <2>2. place \in Scope \X Entity
    BY <1>2, ConstantsAssumption DEF MessageType
  <2>3. history[place] \in Seq(View) /\ history'[place] \in Seq(View)
    BY <2>2, TypeStep DEF TypeOK
  <2>4. CASE a \in answers
    <3>1. PICK i \in DOMAIN history[place] :
            history[place][i].key = a.msg.key /\ history[place][i].payload = a.msg.payload
      BY <2>1, <2>4 DEF OkIsDurable
    <3>2. i \in DOMAIN history'[place] /\ history'[place][i] = history[place][i]
      BY <2>2, Growth
    <3>3. \E r \in receipts' : r.scope = a.msg.scope /\ r.key = a.msg.key
                               /\ r.payload = a.msg.payload
      BY <1>1, <2>1, <2>4 DEF OkIsDurable
    <3>. QED BY <3>1, <3>2, <3>3
  <2>5. CASE a \notin answers
    <3>1. PICK p \in Process : Answers(p, a)
      BY <2>1, <2>5, AnswerChanges
    <3>2. /\ work[p] # None /\ a.msg = work[p].msg /\ work[p].at # "receipt"
          /\ (Current(p) /\ history' = history) \/ Writes(p)
      BY <2>1, <3>1 DEF Answers
    <3>3. Place(p) = place
      BY <3>2 DEF Place
    <3>4. /\ ViewOf(p).key = a.msg.key /\ ViewOf(p).payload = a.msg.payload /\ ViewOf(p) \in View
          /\ ReceiptOf(p).scope = a.msg.scope /\ ReceiptOf(p).key = a.msg.key
          /\ ReceiptOf(p).payload = a.msg.payload
      BY <3>2, Handled DEF ViewOf, ReceiptOf
    <3>5. ReceiptOf(p) \in receipts'
      BY <1>1, <3>2 DEF Backed
    <3>6. \E i \in DOMAIN history'[place] : history'[place][i] = ViewOf(p)
      <4>1. CASE Current(p) /\ history' = history
        BY <2>3, <3>3, <4>1 DEF Current
      <4>2. CASE Writes(p)
        <5>1. history'[place] = Append(history[place], ViewOf(p))
          BY <2>2, <3>3, <4>2 DEF Writes, TypeOK
        <5>. QED BY <2>3, <3>4, <5>1
      <4>. QED BY <3>2, <4>1, <4>2
    <3>. QED BY <3>4, <3>5, <3>6
  <2>. QED BY <2>4, <2>5
<1>4. OtlpConflictsEarned'
  <2>1. SUFFICES ASSUME NEW a \in answers', a.status = "conflict", a.msg.route = "otlp"
                 PROVE  UsedOtherwise(a.msg)'
    BY DEF OtlpConflictsEarned
  <2>2. CASE a \in answers
    BY <1>1, <2>1, <2>2 DEF OtlpConflictsEarned, UsedOtherwise
  <2>3. CASE a \notin answers
    <3>1. PICK p \in Process : Answers(p, a)
      BY <2>1, <2>3, AnswerChanges
    <3>2. work[p] # None /\ a.msg = work[p].msg
      BY <3>1 DEF Answers
    <3>3. PICK r \in receipts : r.scope = a.msg.scope /\ r.key = a.msg.key /\ r # ReceiptOf(p)
      BY <2>1, <3>1, <3>2 DEF Answers, OfKey
    <3>4. r \in Receipt /\ work[p].replayed \in BOOLEAN /\ ~work[p].replayed
      BY <2>1, <3>2, Handled DEF TypeOK, OtlpPlain
    <3>5. CASE r.route = "otlp" /\ r.payload = a.msg.payload
      <4>1. ~r.replayed /\ r.replayed \in BOOLEAN
        BY <3>4, <3>5 DEF OtlpPlain, Receipt
      <4>2. r.replayed = work[p].replayed
        BY <3>4, <4>1
      <4>3. r = ReceiptOf(p)
        BY <2>1, <3>2, <3>3, <3>4, <3>5, <4>2 DEF Receipt, ReceiptOf
      <4>. QED BY <3>3, <4>3
    <3>6. CASE ~(r.route = "otlp" /\ r.payload = a.msg.payload)
      BY <1>1, <2>1, <3>3, <3>6 DEF UsedOtherwise
    <3>. QED BY <3>5, <3>6
  <2>. QED BY <2>2, <2>3
<1>. QED BY <1>3, <1>4

LEMMA DurableInvariance == Spec => []DInv
<1>1. Init => DInv
  <2>. SUFFICES ASSUME Init PROVE DInv
    OBVIOUS
  <2>1. \A p \in Process : work[p] = None
    BY DEF Init
  <2>2. \A s \in Scope, e \in Entity : history[<<s, e>>] = <<>>
    BY DEF Init
  <2>3. receipts = {} /\ answers = {}
    BY DEF Init
  <2>. QED BY <2>1, <2>2, <2>3 DEF DInv, Backed, Differing, OtlpPlain, ProjectionsReceipted,
              OkIsDurable, ProjectedOnce, OtlpConflictsEarned
<1>2. TypeOK /\ DInv /\ [Next]_vars => DInv'
  BY WorkStep, HistoryStep, AnswerStep DEF DInv
<1>. QED BY <1>1, <1>2, TypeCorrect, PTL DEF Spec

\* Receipts come first: whatever fails or crashes, a projected version has a
\* receipt that says the same, flag included.
THEOREM ProjectionsStayReceipted == Spec => []ProjectionsReceipted
<1>1. DInv => ProjectionsReceipted
  BY DEF DInv
<1>. QED BY DurableInvariance, <1>1, PTL

\* Both: what is projected is receipted, and said once.
THEOREM ProjectionsStaySound == Spec => []ProjectionsHold
<1>1. DInv => ProjectionsHold
  BY DEF DInv, ProjectionsHold
<1>. QED BY DurableInvariance, <1>1, PTL

\* Whoever was told "durable" has a receipt and a version of the projection.
THEOREM OkStaysDurable == Spec => []OkIsDurable
<1>1. DInv => OkIsDurable
  BY DEF DInv
<1>. QED BY DurableInvariance, <1>1, PTL

\* Deliveries that race, repeat or retry never project the same version twice
\* in a row.
THEOREM ProjectionsNeverRepeat == Spec => []ProjectedOnce
<1>1. DInv => ProjectedOnce
  BY DEF DInv
<1>. QED BY DurableInvariance, <1>1, PTL

\* The OTLP route's 409 is said only when the key served another request.
THEOREM OtlpConflictsStayEarned == Spec => []OtlpConflictsEarned
<1>1. DInv => OtlpConflictsEarned
  BY DEF DInv
<1>. QED BY DurableInvariance, <1>1, PTL
-----------------------------------------------------------------------------
(* The refinement: what each step is in AtomicIngest, over the same durable *)
(* rows and answers.                                                        *)

\* The request in hand, in the words of AtomicIngest.
LEMMA InHand ==
  ASSUME TypeOK, OtlpPlain, NEW p \in Process, work[p] # None
  PROVE  /\ work[p].msg \in Message /\ work[p].replayed \in Atomic!Flags(work[p].msg)
         /\ ReceiptOf(p) = Atomic!ReceiptFor(work[p].msg, work[p].replayed)
         /\ ViewOf(p) = Atomic!ViewFor(work[p].msg, work[p].replayed)
         /\ Place(p) = Atomic!PlaceFor(work[p].msg)
         /\ OfKey(p) = Atomic!Bound(work[p].msg)
         /\ Current(p) <=> Atomic!Says(work[p].msg, Atomic!ViewFor(work[p].msg, work[p].replayed))
<1>1. /\ work[p].msg \in Message /\ work[p].replayed \in BOOLEAN
      /\ work[p].msg.route \in {"event", "otlp"}
  BY Handled DEF MessageType
<1>2. work[p].replayed \in Atomic!Flags(work[p].msg)
  <2>1. CASE work[p].msg.route = "event"
    BY <1>1, <2>1 DEF Atomic!Flags
  <2>2. CASE work[p].msg.route = "otlp"
    <3>1. work[p].replayed = FALSE
      BY <1>1, <2>2 DEF OtlpPlain
    <3>. QED BY <2>2, <3>1 DEF Atomic!Flags
  <2>. QED BY <1>1, <2>1, <2>2
<1>3. /\ ReceiptOf(p) = Atomic!ReceiptFor(work[p].msg, work[p].replayed)
      /\ ViewOf(p) = Atomic!ViewFor(work[p].msg, work[p].replayed)
      /\ Place(p) = Atomic!PlaceFor(work[p].msg)
      /\ OfKey(p) = Atomic!Bound(work[p].msg)
  BY DEF ReceiptOf, ViewOf, Place, OfKey, Atomic!ReceiptFor, Atomic!ViewFor, Atomic!PlaceFor,
         Atomic!Bound
<1>4. Current(p) <=> Atomic!Says(work[p].msg, Atomic!ViewFor(work[p].msg, work[p].replayed))
  BY <1>3 DEF Current, Atomic!Says
<1>. QED BY <1>1, <1>2, <1>3, <1>4

\* A write over the version that was read is of news that a receipt says.
LEMMA WriteSimulates ==
  ASSUME TypeOK, DInv, NEW p \in Process, Handling(p, "write"), Expected(p), Project(p),
         Reply(p, "ok") \/ Reply(p, "failed"), UNCHANGED receipts
  PROVE  Atomic!Next
<1>. DEFINE m == work[p].msg
            flag == work[p].replayed
<1>1. /\ m \in Message /\ flag \in Atomic!Flags(m)
      /\ ReceiptOf(p) = Atomic!ReceiptFor(m, flag) /\ ViewOf(p) = Atomic!ViewFor(m, flag)
      /\ Place(p) = Atomic!PlaceFor(m)
      /\ Current(p) <=> Atomic!Says(m, Atomic!ViewFor(m, flag))
  BY InHand DEF Handling, DInv
<1>2. ReceiptOf(p) \in receipts
  BY DEF Handling, DInv, Backed
<1>3. ~Current(p)
  <2>1. history[Place(p)] \in Seq(View)
    BY Handled DEF Handling, TypeOK
  <2>2. history[Place(p)] # <<>> => Len(history[Place(p)]) > 0
    BY <2>1
  <2>. QED BY <2>2 DEF Handling, Expected, DInv, Differing, Current
<1>4. Atomic!Told(m, "ok") \/ Atomic!Told(m, "failed")
  BY DEF Reply, Told, Atomic!Told
<1>. HIDE DEF m, flag
<1>5. Atomic!Project(m, flag)
  BY <1>1, <1>2, <1>3, <1>4 DEF Project, Atomic!Project
<1>. QED BY <1>1, <1>5 DEF Atomic!Next

\* An "ok" without a write.
LEMMA OkSimulates ==
  ASSUME TypeOK, DInv, NEW p \in Process, work[p] # None, work[p].at # "receipt", Current(p),
         Reply(p, "ok"), Durable
  PROVE  Atomic!Next
<1>. DEFINE m == work[p].msg
            flag == work[p].replayed
<1>1. /\ m \in Message /\ flag \in Atomic!Flags(m)
      /\ ReceiptOf(p) = Atomic!ReceiptFor(m, flag)
      /\ Atomic!Says(m, Atomic!ViewFor(m, flag))
  BY InHand DEF DInv
<1>2. ReceiptOf(p) \in receipts
  BY DEF DInv, Backed
<1>3. Atomic!Told(m, "ok") /\ UNCHANGED <<receipts, history>>
  BY DEF Reply, Told, Durable, Atomic!Told
<1>. HIDE DEF m, flag
<1>4. Atomic!Confirm(m, flag)
  BY <1>1, <1>2, <1>3 DEF Atomic!Confirm
<1>. QED BY <1>1, <1>4 DEF Atomic!Next

\* A new receipt is the first of its key.
LEMMA BindSimulates ==
  ASSUME TypeOK, DInv, NEW p \in Process, work[p] # None, OfKey(p) = {},
         receipts' = receipts \cup {ReceiptOf(p)}, UNCHANGED history,
         UNCHANGED answers \/ Reply(p, "failed")
  PROVE  Atomic!Next
<1>. DEFINE m == work[p].msg
            flag == work[p].replayed
<1>1. /\ m \in Message /\ flag \in Atomic!Flags(m)
      /\ ReceiptOf(p) = Atomic!ReceiptFor(m, flag) /\ Atomic!Bound(m) = {}
  BY InHand DEF DInv
<1>2. UNCHANGED answers \/ Atomic!Told(m, "failed")
  BY DEF Reply, Told, Atomic!Told
<1>. HIDE DEF m, flag
<1>3. Atomic!Bind(m, flag)
  BY <1>1, <1>2 DEF Atomic!Bind
<1>. QED BY <1>1, <1>3 DEF Atomic!Next

LEMMA FailureSimulates ==
  ASSUME NEW m \in Message, Told(m, "failed"), Durable
  PROVE  Atomic!Next
<1>1. Atomic!TurnAway(m)
  BY DEF Told, Durable, Atomic!TurnAway, Atomic!Told
<1>. QED BY <1>1 DEF Atomic!Next

LEMMA ReceiveSimulates ==
  ASSUME NEW p \in Process, NEW m \in Message, Receive(p, m)
  PROVE  Atomic!Next \/ UNCHANGED Atomic!vars
<1>1. CASE TooSkewed(p, m) \/ ClaimRefused(p, m)
  <2>1. /\ \E status \in {"skewed", "nonce", "full", "clash"} : Told(m, status)
        /\ m.route = "event" /\ Durable
    BY <1>1 DEF TooSkewed, ClaimRefused
  <2>2. Atomic!TurnAway(m)
    BY <2>1 DEF Told, Durable, Atomic!TurnAway, Atomic!Told
  <2>. QED BY <2>2 DEF Atomic!Next
<1>2. CASE Claim(p, m) \/ TakeOtlp(p, m)
  BY <1>2 DEF Claim, TakeOtlp, Durable, Atomic!vars
<1>. QED BY <1>1, <1>2 DEF Receive

LEMMA HandleSimulates ==
  ASSUME TypeOK, DInv, NEW p \in Process, Handle(p) \/ StoreFails(p)
  PROVE  Atomic!Next \/ UNCHANGED Atomic!vars
<1>1. work[p] # None /\ work[p].msg \in Message
  <2>1. work[p] # None
    BY DEF Handle, StoreFails, Handling, AppendReceipt, ReadProjection, WriteProjection,
           WriteRefused, Raced
  <2>. QED BY <2>1, Handled
<1>2. CASE AppendReceipt(p)
  <2>1. CASE OfKey(p) = {} /\ receipts' = receipts \cup {ReceiptOf(p)} /\ GoTo(p, "read")
    BY <1>1, <1>2, <2>1, BindSimulates DEF AppendReceipt, GoTo
  <2>2. CASE GoTo(p, "read") /\ UNCHANGED receipts
    BY <1>2, <2>2 DEF AppendReceipt, GoTo, Atomic!vars
  <2>3. CASE (\E r \in OfKey(p) : ~SameRequest(r, ReceiptOf(p))) /\ Reply(p, "conflict") /\ UNCHANGED receipts
    <3>. DEFINE m == work[p].msg
                flag == work[p].replayed
    <3>1. /\ m \in Message /\ flag \in Atomic!Flags(m)
          /\ ReceiptOf(p) = Atomic!ReceiptFor(m, flag) /\ OfKey(p) = Atomic!Bound(m)
      BY <1>1, InHand DEF DInv
    <3>2. \E r \in OfKey(p) : r # ReceiptOf(p)
      BY <2>3 DEF SameRequest
    <3>3. Atomic!Told(m, "conflict") /\ UNCHANGED <<receipts, history>>
      BY <1>2, <2>3 DEF AppendReceipt, Reply, Told, Atomic!Told
    <3>. HIDE DEF m, flag
    <3>4. Atomic!Conflict(m, flag)
      BY <3>1, <3>2, <3>3 DEF Atomic!Conflict
    <3>. QED BY <3>1, <3>4 DEF Atomic!Next
  <2>. QED BY <1>2, <2>1, <2>2, <2>3 DEF AppendReceipt
<1>3. CASE ReadProjection(p)
  <2>1. CASE Current(p) /\ Reply(p, "ok")
    BY <1>1, <1>3, <2>1, OkSimulates DEF ReadProjection, Handling
  <2>. QED BY <1>3, <2>1 DEF ReadProjection, Durable, Atomic!vars
<1>4. CASE WriteProjection(p)
  BY <1>4, WriteSimulates DEF WriteProjection
<1>5. CASE WriteRefused(p)
  BY <1>5 DEF WriteRefused, GoTo, Durable, Atomic!vars
<1>6. CASE Raced(p)
  <2>1. CASE Current(p)
    BY <1>1, <1>6, <2>1, OkSimulates DEF Raced, Handling
  <2>2. CASE ~Current(p)
    BY <1>1, <1>6, <2>2, FailureSimulates DEF Raced, Reply
  <2>. QED BY <2>1, <2>2
<1>7. CASE StoreFails(p)
  <2>1. CASE Durable
    BY <1>1, <1>7, <2>1, FailureSimulates DEF StoreFails, Reply
  <2>2. CASE OfKey(p) = {} /\ receipts' = receipts \cup {ReceiptOf(p)} /\ UNCHANGED history
    BY <1>1, <1>7, <2>2, BindSimulates DEF StoreFails
  <2>3. CASE work[p].at = "write" /\ Expected(p) /\ Project(p) /\ UNCHANGED receipts
    BY <1>1, <1>7, <2>3, WriteSimulates DEF StoreFails, Handling
  <2>. QED BY <1>7, <2>1, <2>2, <2>3 DEF StoreFails
<1>. QED BY <1>2, <1>3, <1>4, <1>5, <1>6, <1>7 DEF Handle

\* Ingest looks like one instant at a time: a key is bound to one request for good, what is
\* projected is news that a receipt says, and "ok" and "conflict" are true when they are said.
THEOREM IngestIsAtomic == Spec => ImplementsIngest
<1>1. Init => Atomic!Init
  BY DEF Init, Atomic!Init
<1>2. TypeOK /\ DInv /\ [Next]_vars => [Atomic!Next]_(Atomic!vars)
  <2>. SUFFICES ASSUME TypeOK, DInv, [Next]_vars
                PROVE  Atomic!Next \/ UNCHANGED Atomic!vars
    OBVIOUS
  <2>1. CASE UNCHANGED vars \/ Tick
    BY <2>1 DEF vars, Tick, Atomic!vars
  <2>2. ASSUME NEW p \in Process, Crash(p)
        PROVE  UNCHANGED Atomic!vars
    BY <2>2 DEF Crash, Durable, Atomic!vars
  <2>. QED BY <2>1, <2>2, ReceiveSimulates, HandleSimulates DEF Next
<1>. QED
  BY TypeCorrect, DurableInvariance, <1>1, <1>2, PTL DEF Spec, ImplementsIngest, Atomic!Spec
=============================================================================
