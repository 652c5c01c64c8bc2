-------------------------- MODULE ProvisioningProofs --------------------------
(***************************************************************************)
(* The safety properties of Provisioning, for any number of calls, tenants *)
(* and workspaces, on either database.                                     *)
(*                                                                         *)
(* Uniqueness: a row that is inserted and not committed clashes with no    *)
(* committed row (Free) and with no other such row (Apart): PostgreSQL     *)
(* makes the second insert wait, SQLite admits one writer (Exclusive).     *)
(* Conflicts: a call comes to read the winner only past a clash, a second  *)
(* attempt only with its tenant there (Late), and every receipt is of the  *)
(* request of the call that wrote it (ByRequest), so what is found in      *)
(* place of a call's own rows is a contradiction or an identical request.  *)
(* Refinement: that contradiction or request is among the committed scopes *)
(* when the call gives up, so it is decided as in AtomicScopes.            *)
(***************************************************************************)
EXTENDS Provisioning, TLAPS

Acts(c) == Progress(c) \/ CommitReplyLost(c) \/ Abort(c)

-----------------------------------------------------------------------------
(* Types. *)

LEMMA Asked ==
  ASSUME TypeOK, NEW c \in Call
  PROVE  /\ Mine(c) \in Tenant /\ MineToo(c) \in Workspace /\ MineToo(c).tenant = Mine(c).id
         /\ req[c] = [tenant |-> Mine(c), workspace |-> MineToo(c)]
         /\ Mine(c).id \in TenantId /\ MineToo(c).id \in WorkspaceId
         /\ NewReceipt(c) \in SUBSET Receipt
<1>1. /\ req[c] \in [tenant : Tenant, workspace : Workspace]
      /\ req[c].workspace.tenant = req[c].tenant.id
  BY RequestsAssumption DEF TypeOK
<1>2. Mine(c) \in Tenant /\ MineToo(c) \in Workspace /\ MineToo(c).tenant = Mine(c).id
      /\ req[c] = [tenant |-> Mine(c), workspace |-> MineToo(c)]
  BY <1>1 DEF Mine, MineToo
<1>. QED BY <1>2 DEF Tenant, Workspace, NewReceipt, Receipt

LEMMA NothingTyped == Nothing \in Pending
BY DEF Nothing, Pending

LEMMA TypeInit == Init => TypeOK
BY NothingTyped DEF Init, TypeOK

\* What a call commits is of its types.
LEMMA TypeCommitted ==
  ASSUME TypeOK, NEW c \in Call, Acts(c)
  PROVE  /\ dialect' = dialect /\ req' = req
         /\ tenants' \subseteq Tenant /\ workspaces' \subseteq Workspace
         /\ heads' \subseteq WorkspaceId /\ receipts' \subseteq Receipt
<1>1. pending[c] \in Pending
  BY DEF TypeOK
<1>2. CASE Install(c)
  BY <1>1, <1>2 DEF Install, Pending, TypeOK
<1>3. CASE Committed
  BY <1>3 DEF Committed, TypeOK
<1>4. Install(c) \/ Committed
  BY DEF Acts, Progress, SelectTenant, InsertTenant, SelectWorkspace, InsertWorkspace, InsertStreams,
         Commit, ReadScope, Recheck, RecheckSlug, CommitReplyLost, Abort
<1>. QED BY <1>2, <1>3, <1>4 DEF Install, Committed

\* The receipt a replay is told of is of a call.
LEMMA HashTyped ==
  ASSUME TypeOK, NEW c \in Call
  PROVE  HashFor(c) \in Call \cup {None}
<1>1. ReceiptsFor(c) \subseteq Receipt
  BY DEF ReceiptsFor, TypeOK
<1>2. ReceiptsFor(c) # {} => (CHOOSE r \in ReceiptsFor(c) : TRUE) \in ReceiptsFor(c)
  OBVIOUS
<1>. QED BY <1>1, <1>2 DEF HashFor, Receipt

Labels == {"tenant", "newtenant", "workspace", "newworkspace", "streams",
           "commit", "read", "recheck", "slug", "done"}

LEMMA TypeSession ==
  ASSUME TypeOK, NEW c \in Call, Acts(c)
  PROVE  /\ pending' \in [Call -> Pending]
         /\ rows' \in [Call -> SUBSET (TenantId \cup WorkspaceId)]
         /\ writer' \in Call \cup {None}
<1>1. pending[c] \in Pending
  BY DEF TypeOK
<1>2. \/ pending' = pending
      \/ pending' = [pending EXCEPT ![c] = Nothing]
      \/ pending' = [pending EXCEPT ![c].tenant = {Mine(c)}]
      \/ pending' = [pending EXCEPT ![c].workspace = {MineToo(c)}]
      \/ pending' = [pending EXCEPT ![c].heads = {MineToo(c).id}, ![c].receipt = NewReceipt(c)]
  BY DEF Acts, Progress, SelectTenant, InsertTenant, SelectWorkspace, InsertWorkspace, InsertStreams,
         Commit, ReadScope, Recheck, RecheckSlug, CommitReplyLost, Abort, EndSession, Session
<1>3. pending' \in [Call -> Pending]
  <2>1. /\ [pending[c] EXCEPT !.tenant = {Mine(c)}] \in Pending
        /\ [pending[c] EXCEPT !.workspace = {MineToo(c)}] \in Pending
        /\ [pending[c] EXCEPT !.heads = {MineToo(c).id}, !.receipt = NewReceipt(c)] \in Pending
    BY <1>1, Asked DEF Pending
  <2>. QED BY <1>2, <2>1, NothingTyped DEF TypeOK
<1>4. \/ rows' = rows \/ rows' = [rows EXCEPT ![c] = {}]
      \/ rows' = [rows EXCEPT ![c] = @ \cup {Mine(c).id}]
  BY DEF Acts, Progress, SelectTenant, InsertTenant, SelectWorkspace, InsertWorkspace, InsertStreams,
         Commit, ReadScope, Recheck, RecheckSlug, CommitReplyLost, Abort, EndSession, Session, Lock
<1>5. rows' \in [Call -> SUBSET (TenantId \cup WorkspaceId)]
  BY <1>4, Asked DEF TypeOK
<1>6. writer' \in {writer, None, c}
  BY DEF Acts, Progress, SelectTenant, InsertTenant, SelectWorkspace, InsertWorkspace, InsertStreams,
         Commit, ReadScope, Recheck, RecheckSlug, CommitReplyLost, Abort, EndSession, Session, TakeWriter
<1>. QED BY <1>3, <1>5, <1>6 DEF TypeOK

LEMMA TypeCall ==
  ASSUME TypeOK, NEW c \in Call, Acts(c)
  PROVE  /\ pc' \in [Call -> Labels]
         /\ attempt' \in [Call -> {1, 2}]
         /\ answer' \in [Call -> ReplyType \cup {None}]
<1>1. /\ \E label \in Labels : pc' = [pc EXCEPT ![c] = label]
      /\ attempt' = attempt \/ attempt' = [attempt EXCEPT ![c] = 2]
  BY DEF Acts, Progress, SelectTenant, InsertTenant, SelectWorkspace, InsertWorkspace, InsertStreams,
         Commit, ReadScope, Recheck, RecheckSlug, CommitReplyLost, Abort, GoTo, Return, Refuse, Fail, Labels
<1>2. \/ answer' = answer
      \/ \E status \in {"CREATED", "EXISTING", "conflict", "failed"}, hash \in {HashFor(c), c, None},
            tc \in BOOLEAN, wc \in BOOLEAN :
              answer' = [answer EXCEPT ![c] = Reply(status, hash, tc, wc)]
  <2>1. ASSUME NEW status \in {"CREATED", "EXISTING", "conflict", "failed"},
               NEW hash \in {HashFor(c), c, None}, NEW tc \in BOOLEAN, NEW wc \in BOOLEAN,
               Return(c, Reply(status, hash, tc, wc))
        PROVE  \E s \in {"CREATED", "EXISTING", "conflict", "failed"}, h \in {HashFor(c), c, None},
                  t \in BOOLEAN, w \in BOOLEAN : answer' = [answer EXCEPT ![c] = Reply(s, h, t, w)]
    BY <2>1 DEF Return
  <2>2. CASE Commit(c)
    <3>1. (pending[c].tenant # {}) \in BOOLEAN
      OBVIOUS
    <3>2. Return(c, Reply("CREATED", c, pending[c].tenant # {}, TRUE))
      BY <2>2 DEF Commit
    <3>. QED BY <2>1, <3>1, <3>2
  <2>3. CASE Refuse(c) \/ Fail(c) \/ Return(c, Reply("EXISTING", HashFor(c), FALSE, FALSE))
    BY <2>1, <2>3 DEF Refuse, Fail
  <2>4. Commit(c) \/ Refuse(c) \/ Fail(c) \/ Return(c, Reply("EXISTING", HashFor(c), FALSE, FALSE))
        \/ answer' = answer
    BY DEF Acts, Progress, SelectTenant, InsertTenant, SelectWorkspace, InsertWorkspace,
           InsertStreams, ReadScope, Recheck, RecheckSlug, CommitReplyLost, Abort, GoTo
  <2>. QED BY <2>2, <2>3, <2>4
<1>3. \A status \in {"CREATED", "EXISTING", "conflict", "failed"}, hash \in {HashFor(c), c, None},
         tc \in BOOLEAN, wc \in BOOLEAN : Reply(status, hash, tc, wc) \in ReplyType
  BY HashTyped DEF Reply, ReplyType
<1>. QED BY <1>1, <1>2, <1>3 DEF TypeOK, Labels

LEMMA TypeStep == TypeOK /\ [Next]_vars => TypeOK'
<1>. SUFFICES ASSUME TypeOK, [Next]_vars PROVE TypeOK'
  OBVIOUS
<1>1. ASSUME NEW c \in Call, Acts(c)
      PROVE  TypeOK'
  <2>1. req' \in [Call -> Requests] /\ dialect' \in Dialects
    BY <1>1, TypeCommitted DEF TypeOK
  <2>. QED BY <1>1, <2>1, TypeCommitted, TypeSession, TypeCall DEF TypeOK, Labels
<1>2. CASE UNCHANGED vars
  BY <1>2 DEF vars, TypeOK
<1>. QED BY <1>1, <1>2 DEF Next, Terminated, Acts

THEOREM TypeCorrect == Spec => []TypeOK
BY TypeInit, TypeStep, PTL DEF Spec

-----------------------------------------------------------------------------
(* The invariant. *)

\* What a call has inserted and not committed, by the statement it is at.
Holding(c) ==
  /\ pending[c].tenant \subseteq {Mine(c)}
  /\ pc[c] \in {"tenant", "newtenant", "read", "recheck", "slug", "done"} => pending[c] = Nothing
  /\ pc[c] \in {"workspace", "newworkspace"} => pending[c].workspace = {}
  /\ pc[c] \in {"workspace", "newworkspace", "streams"} =>
       pending[c].heads = {} /\ pending[c].receipt = {}
  /\ pc[c] \in {"streams", "commit"} => pending[c].workspace = {MineToo(c)}
  /\ pc[c] = "commit" => /\ pending[c].heads = {MineToo(c).id}
                         /\ pending[c].receipt = NewReceipt(c)
  /\ pc[c] \in {"workspace", "newworkspace", "streams", "commit"} =>
       Mine(c) \in tenants \cup pending[c].tenant

\* Its rows clash with no committed row.
Free(c) ==
  /\ \A t \in pending[c].tenant : \A u \in tenants : ~ClashTenants(u, t)
  /\ \A w \in pending[c].workspace : \A v \in workspaces : ~ClashWorkspaces(v, w)

\* On SQLite a call with rows is the writer.
Exclusive(c) ==
  dialect = "sqlite" /\ (pending[c].tenant # {} \/ pending[c].workspace # {}) => writer = c

\* Two calls' rows do not clash.
Apart(c, d) ==
  /\ \A t \in pending[c].tenant : \A u \in pending[d].tenant : ~ClashTenants(u, t)
  /\ \A w \in pending[c].workspace : \A v \in pending[d].workspace : ~ClashWorkspaces(v, w)

TenantClash(c) == \E t \in tenants : ClashTenants(t, Mine(c))
WorkspaceClash(c) == \E w \in workspaces : ClashWorkspaces(w, MineToo(c))

\* What a call that lost an insert can rely on.
Late(c) ==
  /\ attempt[c] = 2 => Mine(c) \in tenants /\ pc[c] # "newtenant"
  /\ pc[c] \in {"read", "recheck"} => TenantClash(c) \/ WorkspaceClash(c)
  /\ pc[c] = "read" /\ attempt[c] = 2 => WorkspaceClash(c)
  /\ pc[c] = "slug" => Mine(c) \in tenants

Twin(c) == \E d \in Call \ {c} : req[d] = req[c]

\* What a reply rests on.
Answered(c) ==
  answer[c] # None =>
    /\ pc[c] = "done"
    /\ Accepted(c) => \E r \in receipts : r.by = answer[c].hash /\ r.workspace = MineToo(c)
    /\ answer[c].tenantCreated => Mine(c) \in tenants
    /\ answer[c].workspaceCreated => answer[c].hash = c
    /\ Refused(c) => Contradicted(c) \/ Twin(c)

Local(c) == Holding(c) /\ Free(c) /\ Exclusive(c) /\ Late(c) /\ Answered(c)

\* A receipt is of the request of the call that wrote it, which is done.
ByRequest ==
  \A r \in receipts : r.by \in Call /\ pc[r.by] = "done"
                      /\ r.tenant = Mine(r.by) /\ r.workspace = MineToo(r.by)

\* A tenant is created for one call.
TenantOnce ==
  \A c, d \in Call :
    c # d /\ answer[c] # None /\ answer[d] # None /\ Mine(c).id = Mine(d).id
      => ~(answer[c].tenantCreated /\ answer[d].tenantCreated)

PInv ==
  /\ \A c \in Call : Local(c)
  /\ \A c, d \in Call : c # d => Apart(c, d)
  /\ ScopesWhole /\ IdentitiesUnique /\ ByRequest /\ TenantOnce

-----------------------------------------------------------------------------
(* What is found in place of a call's own rows. *)

LEMMA IdenticalThere ==
  ASSUME TypeOK, PInv, NEW c \in Call, MineToo(c) \in workspaces, Mine(c) \in tenants
  PROVE  Identical(c)
<1>1. MineToo(c).id \in heads
  BY DEF PInv, ScopesWhole
<1>2. ASSUME NEW r \in ReceiptsFor(c)
      PROVE  r.tenant = Mine(c) /\ r.workspace = MineToo(c)
  <2>1. /\ r \in receipts /\ r.workspace.id = MineToo(c).id
        /\ r.workspace \in workspaces /\ r.tenant \in tenants /\ r.by \in Call
        /\ r.tenant = Mine(r.by) /\ r.workspace = MineToo(r.by)
    BY DEF ReceiptsFor, PInv, ScopesWhole, ByRequest
  <2>2. r.workspace = MineToo(c)
    BY <2>1 DEF PInv, IdentitiesUnique
  <2>3. r.tenant.id = Mine(c).id
    BY <2>1, <2>2, Asked
  <2>. QED BY <2>1, <2>2, <2>3 DEF PInv, IdentitiesUnique
<1>. QED BY <1>1, <1>2 DEF Identical, TenantRows, WorkspaceRows

\* Only a call of the same request can have committed a call's own workspace.
LEMMA OwnWorkspaceThere ==
  ASSUME TypeOK, PInv, NEW c \in Call, MineToo(c) \in workspaces, pc[c] # "done"
  PROVE  Contradicted(c) \/ (Mine(c) \in tenants /\ Twin(c))
<1>1. PICK r \in receipts : r.workspace = MineToo(c)
  BY DEF PInv, ScopesWhole
<1>2. /\ r.by \in Call /\ r.by # c /\ r.tenant = Mine(r.by) /\ MineToo(r.by) = MineToo(c)
      /\ r.tenant \in tenants
  BY <1>1 DEF PInv, ByRequest, ScopesWhole
<1>3. Mine(r.by).id = Mine(c).id
  BY <1>2, Asked
<1>4. CASE Mine(r.by) = Mine(c)
  <2>1. req[r.by] = req[c]
    BY <1>2, <1>4, Asked
  <2>. QED BY <1>2, <1>4, <2>1 DEF Twin
<1>5. CASE Mine(r.by) # Mine(c)
  BY <1>2, <1>3, <1>5 DEF Contradicted, ClashTenants
<1>. QED BY <1>4, <1>5

\* A clash is a contradiction unless it is with a call's own rows.
LEMMA ClashOrOwn ==
  ASSUME TypeOK, NEW c \in Call, ~Contradicted(c)
  PROVE  /\ TenantClash(c) => Mine(c) \in tenants
         /\ WorkspaceClash(c) => MineToo(c) \in workspaces
BY Asked DEF Contradicted, TenantClash, WorkspaceClash, ClashWorkspaces

\* The receipt of a replay is of the scope's creation.
LEMMA ExistingReceipt ==
  ASSUME TypeOK, PInv, NEW c \in Call, Identical(c)
  PROVE  \E r \in receipts : r.by = HashFor(c) /\ r.workspace = MineToo(c)
<1>1. MineToo(c) \in workspaces
  BY DEF Identical, WorkspaceRows
<1>2. PICK r \in receipts : r.workspace = MineToo(c)
  BY <1>1 DEF PInv, ScopesWhole
<1>3. r \in ReceiptsFor(c)
  BY <1>2, Asked DEF ReceiptsFor
<1>4. (CHOOSE x \in ReceiptsFor(c) : TRUE) \in ReceiptsFor(c)
  BY <1>3
<1>. QED BY <1>3, <1>4 DEF HashFor, Identical, ReceiptsFor

-----------------------------------------------------------------------------
(* What one call's step does to the rest. *)

Unstored == UNCHANGED <<tenants, workspaces, heads, receipts>>

\* The transaction commits: everything at once.
Stores(c) ==
  /\ pc[c] = "commit" /\ Install(c)
  /\ pending' = [pending EXCEPT ![c] = Nothing] /\ pc' = [pc EXCEPT ![c] = "done"]

LEMMA Stored ==
  ASSUME NEW c \in Call, Acts(c)
  PROVE  Unstored \/ Stores(c)
BY DEF Acts, Progress, SelectTenant, InsertTenant, SelectWorkspace, InsertWorkspace, InsertStreams,
       Commit, ReadScope, Recheck, RecheckSlug, CommitReplyLost, Abort, EndSession, Committed,
       Unstored, Stores, Return, Fail

LEMMA OthersSame ==
  ASSUME TypeOK, NEW c \in Call, Acts(c), NEW d \in Call, d # c
  PROVE  /\ pending'[d] = pending[d] /\ pc'[d] = pc[d] /\ attempt'[d] = attempt[d]
         /\ answer'[d] = answer[d]
<1>1. \/ pending' = pending
      \/ pending' = [pending EXCEPT ![c] = Nothing]
      \/ pending' = [pending EXCEPT ![c].tenant = {Mine(c)}]
      \/ pending' = [pending EXCEPT ![c].workspace = {MineToo(c)}]
      \/ pending' = [pending EXCEPT ![c].heads = {MineToo(c).id}, ![c].receipt = NewReceipt(c)]
  BY DEF Acts, Progress, SelectTenant, InsertTenant, SelectWorkspace, InsertWorkspace, InsertStreams,
         Commit, ReadScope, Recheck, RecheckSlug, CommitReplyLost, Abort, EndSession, Session
<1>2. /\ \E label \in Labels : pc' = [pc EXCEPT ![c] = label]
      /\ attempt' = attempt \/ attempt' = [attempt EXCEPT ![c] = 2]
      /\ answer' = answer \/ \E reply : answer' = [answer EXCEPT ![c] = reply]
  BY DEF Acts, Progress, SelectTenant, InsertTenant, SelectWorkspace, InsertWorkspace, InsertStreams,
         Commit, ReadScope, Recheck, RecheckSlug, CommitReplyLost, Abort, GoTo, Return, Refuse, Fail, Labels
<1>. QED BY <1>1, <1>2 DEF TypeOK

LEMMA WriterSame ==
  ASSUME TypeOK, NEW c \in Call, Acts(c), NEW d \in Call, d # c, dialect = "sqlite", writer = d
  PROVE  writer' = d
<1>1. d # None
  BY ConstantsAssumption
<1>2. ~MayInsertTenant(c) /\ ~MayInsertWorkspace(c)
  BY <1>1 DEF MayInsertTenant, MayInsertWorkspace
<1>. QED BY <1>2 DEF Acts, Progress, SelectTenant, InsertTenant, SelectWorkspace, InsertWorkspace,
     InsertStreams, Commit, ReadScope, Recheck, RecheckSlug, CommitReplyLost, Abort, EndSession, Session

\* Rows are only added: those of a call that commits.
LEMMA Grown ==
  ASSUME TypeOK, PInv, NEW c \in Call, Acts(c)
  PROVE  /\ tenants \subseteq tenants' /\ workspaces \subseteq workspaces'
         /\ heads \subseteq heads' /\ receipts \subseteq receipts'
         /\ tenants' \subseteq tenants \cup pending[c].tenant
         /\ workspaces' \subseteq workspaces \cup pending[c].workspace
         /\ \A d \in Call : /\ Mine(d)' = Mine(d) /\ MineToo(d)' = MineToo(d)
                            /\ NewReceipt(d)' = NewReceipt(d)
                            /\ Twin(d)' = Twin(d)
                            /\ Contradicted(d) => Contradicted(d)'
                            /\ TenantClash(d) => TenantClash(d)'
                            /\ WorkspaceClash(d) => WorkspaceClash(d)'
<1>1. req' = req
  BY TypeCommitted
<1>2. \A d \in Call : /\ Mine(d)' = Mine(d) /\ MineToo(d)' = MineToo(d)
                      /\ NewReceipt(d)' = NewReceipt(d) /\ Twin(d)' = Twin(d)
  BY <1>1 DEF Mine, MineToo, NewReceipt, Twin
<1>3. /\ tenants \subseteq tenants' /\ workspaces \subseteq workspaces'
      /\ heads \subseteq heads' /\ receipts \subseteq receipts'
      /\ tenants' \subseteq tenants \cup pending[c].tenant
      /\ workspaces' \subseteq workspaces \cup pending[c].workspace
  BY Stored DEF Unstored, Stores, Install
<1>. QED BY <1>2, <1>3 DEF Contradicted, TenantClash, WorkspaceClash

LEMMA OthersKeep ==
  ASSUME TypeOK, PInv, NEW c \in Call, Acts(c), NEW d \in Call, d # c
  PROVE  Local(d)'
<1>1. Local(d) /\ Apart(c, d) /\ Apart(d, c)
  BY DEF PInv
<1>2. dialect' = dialect
  BY TypeCommitted
<1>3. Holding(d)'
  BY <1>1, Grown, OthersSame DEF Local, Holding
<1>4. Free(d)'
  BY <1>1, Grown, OthersSame DEF Local, Free, Apart
<1>5. Exclusive(d)'
  BY <1>1, <1>2, OthersSame, WriterSame DEF Local, Exclusive
<1>6. Late(d)'
  BY <1>1, Grown, OthersSame DEF Local, Late
<1>7. Answered(d)'
  BY <1>1, Grown, OthersSame DEF Local, Answered, Accepted, Refused
<1>. QED BY <1>3, <1>4, <1>5, <1>6, <1>7 DEF Local

-----------------------------------------------------------------------------
(* What a step does to its own call. *)

\* A call whose session ends without a commit, wherever it goes from there.
LEMMA EndedHolds ==
  ASSUME TypeOK, NEW c \in Call, pending'[c] = Nothing,
         pc'[c] \in {"tenant", "newtenant", "read", "recheck", "slug", "done"}
  PROVE  Holding(c)' /\ Free(c)' /\ Exclusive(c)'
BY DEF Holding, Free, Exclusive, Nothing

\* A call that returns has earned what it says.
LEMMA ReturnHolds ==
  ASSUME TypeOK, PInv, NEW c \in Call, Acts(c), NEW reply, Return(c, reply),
         reply.status \in {"CREATED", "EXISTING"} =>
           \E r \in receipts' : r.by = reply.hash /\ r.workspace = MineToo(c),
         reply.tenantCreated => Mine(c) \in tenants',
         reply.workspaceCreated => reply.hash = c,
         reply.status = "conflict" => Contradicted(c) \/ Twin(c)
  PROVE  Answered(c)' /\ Late(c)'
<1>1. answer'[c] = reply /\ pc'[c] = "done" /\ attempt'[c] = attempt[c]
  BY DEF Return, TypeOK
<1>2. Answered(c)'
  BY <1>1, Grown DEF Answered, Accepted, Refused
<1>3. Late(c)'
  BY <1>1, Grown DEF Late, PInv, Local
<1>. QED BY <1>2, <1>3

\* A call that goes on has still no reply.
LEMMA GoingOn ==
  ASSUME TypeOK, PInv, NEW c \in Call, pc[c] # "done", UNCHANGED answer
  PROVE  Answered(c)'
BY DEF Answered, PInv, Local

LEMMA SelectTenantKeeps ==
  ASSUME TypeOK, PInv, NEW c \in Call, SelectTenant(c)
  PROVE  Local(c)'
<1>0. Acts(c) /\ pc[c] = "tenant" /\ pending[c] = Nothing /\ Unstored /\ dialect' = dialect
  BY DEF SelectTenant, Acts, Progress, PInv, Local, Holding, Committed, Unstored
<1>1. CASE TenantRows(c) = {} /\ GoTo(c, "newtenant") /\ Session
  <2>1. pending'[c] = Nothing /\ pc'[c] = "newtenant" /\ UNCHANGED <<attempt, answer>>
    BY <1>0, <1>1 DEF GoTo, Session, TypeOK
  <2>2. attempt[c] # 2
    BY <1>1 DEF TenantRows, PInv, Local, Late
  <2>3. Late(c)'
    BY <2>1, <2>2 DEF Late
  <2>. QED BY <1>0, <2>1, <2>3, EndedHolds, GoingOn DEF Local
<1>2. CASE Mine(c) \in TenantRows(c) /\ GoTo(c, "workspace") /\ UNCHANGED <<pending, writer>>
  <2>1. pending'[c] = Nothing /\ pc'[c] = "workspace" /\ UNCHANGED <<attempt, answer>>
    BY <1>0, <1>2 DEF GoTo, TypeOK
  <2>2. Mine(c)' = Mine(c) /\ Mine(c) \in tenants'
    BY <1>0, <1>2, Grown DEF TenantRows
  <2>3. Holding(c)' /\ Free(c)' /\ Exclusive(c)'
    BY <2>1, <2>2 DEF Holding, Free, Exclusive, Nothing
  <2>4. Late(c)'
    BY <2>1, <2>2 DEF Late
  <2>. QED BY <1>0, <2>1, <2>3, <2>4, GoingOn DEF Local
<1>3. CASE TenantRows(c) \ {Mine(c)} # {} /\ EndSession(c) /\ Refuse(c)
  <2>1. Contradicted(c)
    BY <1>3 DEF TenantRows, Contradicted, ClashTenants
  <2>2. pending'[c] = Nothing /\ pc'[c] = "done"
    BY <1>3 DEF EndSession, Refuse, Return, TypeOK
  <2>3. Answered(c)' /\ Late(c)'
    BY <1>0, <1>3, <2>1, ReturnHolds DEF Refuse, Reply
  <2>. QED BY <2>2, <2>3, EndedHolds DEF Local
<1>. QED BY <1>1, <1>2, <1>3 DEF SelectTenant

LEMMA InsertTenantKeeps ==
  ASSUME TypeOK, PInv, NEW c \in Call, InsertTenant(c)
  PROVE  Local(c)'
<1>0. Acts(c) /\ pc[c] = "newtenant" /\ pending[c] = Nothing /\ Unstored /\ dialect' = dialect
  BY DEF InsertTenant, Acts, Progress, PInv, Local, Holding, Committed, Unstored
<1>1. attempt[c] # 2
  BY <1>0 DEF PInv, Local, Late
<1>2. CASE (\E t \in tenants : ClashTenants(t, Mine(c))) /\ EndSession(c) /\ GoTo(c, "read")
  <2>1. pending'[c] = Nothing /\ pc'[c] = "read" /\ UNCHANGED <<attempt, answer>>
    BY <1>2 DEF EndSession, GoTo, TypeOK
  <2>2. TenantClash(c)'
    BY <1>0, <1>2, Grown DEF TenantClash
  <2>3. Late(c)'
    BY <1>1, <2>1, <2>2 DEF Late
  <2>. QED BY <1>0, <2>1, <2>3, EndedHolds, GoingOn DEF Local
<1>3. CASE /\ \A t \in tenants : ~ClashTenants(t, Mine(c))
           /\ pending' = [pending EXCEPT ![c].tenant = {Mine(c)}]
           /\ TakeWriter(c) /\ GoTo(c, "workspace")
  <2>1. pending'[c] = [Nothing EXCEPT !.tenant = {Mine(c)}]
    BY <1>0, <1>3 DEF TypeOK
  <2>2. /\ pending'[c].tenant = {Mine(c)} /\ pending'[c].workspace = {}
        /\ pending'[c].heads = {} /\ pending'[c].receipt = {}
    BY <2>1 DEF Nothing
  <2>3. pc'[c] = "workspace" /\ UNCHANGED <<attempt, answer>>
        /\ (dialect' = "sqlite" => writer' = c)
    BY <1>0, <1>3 DEF GoTo, TakeWriter, TypeOK
  <2>4. Mine(c)' = Mine(c) /\ tenants' = tenants
    BY <1>0, Grown DEF Unstored
  <2>5. Holding(c)' /\ Exclusive(c)' /\ Late(c)'
    BY <1>1, <2>2, <2>3, <2>4 DEF Holding, Exclusive, Late
  <2>6. Free(c)'
    BY <1>3, <2>2, <2>4 DEF Free
  <2>. QED BY <1>0, <2>3, <2>5, <2>6, GoingOn DEF Local
<1>. QED BY <1>2, <1>3 DEF InsertTenant

LEMMA SelectWorkspaceKeeps ==
  ASSUME TypeOK, PInv, NEW c \in Call, SelectWorkspace(c)
  PROVE  Local(c)'
<1>0. Acts(c) /\ pc[c] = "workspace" /\ Unstored /\ dialect' = dialect
  BY DEF SelectWorkspace, Acts, Progress, Committed, Unstored
<1>1. CASE WorkspaceRows(c) = {} /\ GoTo(c, "newworkspace") /\ Session
  <2>1. pending' = pending /\ writer' = writer /\ pc'[c] = "newworkspace" /\ UNCHANGED <<attempt, answer>>
    BY <1>1 DEF GoTo, Session, TypeOK
  <2>2. Local(c) /\ Mine(c)' = Mine(c) /\ tenants' = tenants /\ workspaces' = workspaces
    BY <1>0, Grown DEF PInv, Unstored
  <2>3. Holding(c)'
    BY <1>0, <2>1, <2>2 DEF Holding, Local
  <2>4. Free(c)' /\ Exclusive(c)' /\ Late(c)'
    BY <1>0, <2>1, <2>2 DEF Free, Exclusive, Late, Local
  <2>. QED BY <1>0, <2>1, <2>3, <2>4, GoingOn DEF Local
<1>2. CASE /\ WorkspaceRows(c) # {} /\ Identical(c) /\ EndSession(c)
           /\ Return(c, Reply("EXISTING", HashFor(c), FALSE, FALSE))
  <2>1. pending'[c] = Nothing /\ pc'[c] = "done"
    BY <1>2 DEF EndSession, Return, TypeOK
  <2>2. \E r \in receipts' : r.by = HashFor(c) /\ r.workspace = MineToo(c)
    BY <1>0, <1>2, ExistingReceipt DEF Unstored
  <2>3. Answered(c)' /\ Late(c)'
    BY <1>0, <1>2, <2>2, ReturnHolds DEF Reply
  <2>. QED BY <2>1, <2>3, EndedHolds DEF Local
<1>3. CASE WorkspaceRows(c) # {} /\ ~Identical(c) /\ EndSession(c) /\ Refuse(c)
  <2>1. PICK w \in workspaces : w.id = MineToo(c).id
    BY <1>3 DEF WorkspaceRows
  <2>2. ASSUME w = MineToo(c)
        PROVE  Identical(c)
    <3>1. \E t \in tenants : t.id = Mine(c).id
      BY <2>2, Asked DEF PInv, ScopesWhole
    <3>2. Mine(c) \notin pending[c].tenant
      BY <3>1 DEF PInv, Local, Free, ClashTenants
    <3>3. Mine(c) \in tenants
      BY <1>0, <3>2 DEF PInv, Local, Holding
    <3>. QED BY <2>2, <3>3, IdenticalThere
  <2>3. Contradicted(c)
    BY <1>3, <2>1, <2>2 DEF Contradicted
  <2>4. pending'[c] = Nothing /\ pc'[c] = "done"
    BY <1>3 DEF EndSession, Refuse, Return, TypeOK
  <2>5. Answered(c)' /\ Late(c)'
    BY <1>0, <1>3, <2>3, ReturnHolds DEF Refuse, Reply
  <2>. QED BY <2>4, <2>5, EndedHolds DEF Local
<1>. QED BY <1>1, <1>2, <1>3 DEF SelectWorkspace

LEMMA InsertWorkspaceKeeps ==
  ASSUME TypeOK, PInv, NEW c \in Call, InsertWorkspace(c)
  PROVE  Local(c)'
<1>0. Acts(c) /\ pc[c] = "newworkspace" /\ Unstored /\ dialect' = dialect
  BY DEF InsertWorkspace, Acts, Progress, Committed, Unstored
<1>1. CASE (\E w \in workspaces : ClashWorkspaces(w, MineToo(c))) /\ EndSession(c) /\ GoTo(c, "read")
  <2>1. pending'[c] = Nothing /\ pc'[c] = "read" /\ UNCHANGED <<attempt, answer>>
    BY <1>1 DEF EndSession, GoTo, TypeOK
  <2>2. WorkspaceClash(c)'
    BY <1>0, <1>1, Grown DEF WorkspaceClash
  <2>3. Late(c)'
    BY <1>0, <2>1, <2>2, Grown DEF Late, PInv, Local
  <2>. QED BY <1>0, <2>1, <2>3, EndedHolds, GoingOn DEF Local
<1>2. CASE /\ \A w \in workspaces : ~ClashWorkspaces(w, MineToo(c))
           /\ pending' = [pending EXCEPT ![c].workspace = {MineToo(c)}]
           /\ TakeWriter(c) /\ GoTo(c, "streams")
  <2>1. pending'[c] = [pending[c] EXCEPT !.workspace = {MineToo(c)}] /\ pending[c] \in Pending
    BY <1>2 DEF TypeOK
  <2>2. /\ pending'[c].tenant = pending[c].tenant /\ pending'[c].workspace = {MineToo(c)}
        /\ pending'[c].heads = pending[c].heads /\ pending'[c].receipt = pending[c].receipt
    BY <2>1 DEF Pending
  <2>3. pc'[c] = "streams" /\ UNCHANGED <<attempt, answer>>
        /\ (dialect' = "sqlite" => writer' = c)
    BY <1>0, <1>2 DEF GoTo, TakeWriter, TypeOK
  <2>4. /\ Mine(c)' = Mine(c) /\ MineToo(c)' = MineToo(c)
        /\ tenants' = tenants /\ workspaces' = workspaces
    BY <1>0, Grown DEF Unstored
  <2>5. Local(c)
    BY DEF PInv
  <2>6. Holding(c)'
    BY <1>0, <2>2, <2>3, <2>4, <2>5 DEF Holding, Local
  <2>7. Exclusive(c)' /\ Late(c)'
    BY <1>0, <2>3, <2>4, <2>5 DEF Exclusive, Late, Local
  <2>8. Free(c)'
    BY <1>2, <2>2, <2>4, <2>5 DEF Free, Local
  <2>. QED BY <1>0, <2>3, <2>6, <2>7, <2>8, GoingOn DEF Local
<1>. QED BY <1>1, <1>2 DEF InsertWorkspace

LEMMA InsertStreamsKeeps ==
  ASSUME TypeOK, PInv, NEW c \in Call, InsertStreams(c)
  PROVE  Local(c)'
<1>0. Acts(c) /\ pc[c] = "streams" /\ Unstored /\ dialect' = dialect
  BY DEF InsertStreams, Acts, Progress, Committed, Unstored
<1>1. /\ pending' = [pending EXCEPT ![c].heads = {MineToo(c).id}, ![c].receipt = NewReceipt(c)]
      /\ writer' = writer /\ GoTo(c, "commit")
  BY DEF InsertStreams
<1>2. pending'[c] = [pending[c] EXCEPT !.heads = {MineToo(c).id}, !.receipt = NewReceipt(c)]
      /\ pending[c] \in Pending
  BY <1>1 DEF TypeOK
<1>3. /\ pending'[c].tenant = pending[c].tenant /\ pending'[c].workspace = pending[c].workspace
      /\ pending'[c].heads = {MineToo(c).id} /\ pending'[c].receipt = NewReceipt(c)
  BY <1>2 DEF Pending
<1>4. pc'[c] = "commit" /\ UNCHANGED <<attempt, answer>>
  BY <1>1 DEF GoTo, TypeOK
<1>5. /\ Mine(c)' = Mine(c) /\ MineToo(c)' = MineToo(c) /\ NewReceipt(c)' = NewReceipt(c)
      /\ tenants' = tenants /\ workspaces' = workspaces
  BY <1>0, Grown DEF Unstored
<1>6. Local(c)
  BY DEF PInv
<1>7. Holding(c)'
  BY <1>0, <1>3, <1>4, <1>5, <1>6 DEF Holding, Local
<1>8. Free(c)' /\ Exclusive(c)' /\ Late(c)'
  BY <1>0, <1>1, <1>3, <1>4, <1>5, <1>6 DEF Free, Exclusive, Late, Local
<1>. QED BY <1>0, <1>4, <1>7, <1>8, GoingOn DEF Local

\* A commit, known to its caller or not.
LEMMA CommitKeeps ==
  ASSUME TypeOK, PInv, NEW c \in Call, Commit(c) \/ CommitReplyLost(c)
  PROVE  Local(c)'
<1>1. Acts(c) /\ pc[c] = "commit" /\ Install(c) /\ pending'[c] = Nothing /\ pc'[c] = "done"
  BY DEF Commit, CommitReplyLost, Acts, Progress, EndSession, Return, Fail, TypeOK
<1>2. /\ pending[c].receipt = NewReceipt(c) /\ Mine(c) \in tenants \cup pending[c].tenant
  BY <1>1 DEF PInv, Local, Holding
<1>3. \E r \in receipts' : r.by = c /\ r.workspace = MineToo(c)
  <2>1. [by |-> c, tenant |-> Mine(c), workspace |-> MineToo(c)] \in receipts'
    BY <1>1, <1>2 DEF Install, NewReceipt
  <2>. QED BY <2>1
<1>4. Mine(c) \in tenants'
  BY <1>1, <1>2 DEF Install
<1>5. CASE Commit(c)
  <2>1. Return(c, Reply("CREATED", c, pending[c].tenant # {}, TRUE))
    BY <1>5 DEF Commit
  <2>2. Answered(c)' /\ Late(c)'
    BY <1>1, <1>3, <1>4, <2>1, ReturnHolds DEF Reply
  <2>. QED BY <1>1, <2>2, EndedHolds DEF Local
<1>6. CASE CommitReplyLost(c)
  <2>1. Return(c, Reply("failed", None, FALSE, FALSE))
    BY <1>6 DEF CommitReplyLost, Fail
  <2>2. Answered(c)' /\ Late(c)'
    BY <1>1, <2>1, ReturnHolds DEF Reply
  <2>. QED BY <1>1, <2>2, EndedHolds DEF Local
<1>. QED BY <1>5, <1>6

LEMMA AbortKeeps ==
  ASSUME TypeOK, PInv, NEW c \in Call, Abort(c)
  PROVE  Local(c)'
<1>1. Acts(c) /\ pending'[c] = Nothing /\ pc'[c] = "done"
  BY DEF Abort, Acts, EndSession, Return, Fail, TypeOK
<1>2. Return(c, Reply("failed", None, FALSE, FALSE))
  BY DEF Abort, Fail
<1>3. Answered(c)' /\ Late(c)'
  BY <1>1, <1>2, ReturnHolds DEF Reply
<1>. QED BY <1>1, <1>3, EndedHolds DEF Local

\* After a lost insert: what is there is the call's own, or contradicts it.
LEMMA ReadScopeKeeps ==
  ASSUME TypeOK, PInv, NEW c \in Call, ReadScope(c)
  PROVE  Local(c)'
<1>0. /\ Acts(c) /\ pc[c] = "read" /\ pending[c] = Nothing /\ pending'[c] = Nothing
      /\ Unstored
  BY DEF ReadScope, Acts, Progress, PInv, Local, Holding, Committed, Session, Unstored
<1>1. CASE Identical(c) /\ Return(c, Reply("EXISTING", HashFor(c), FALSE, FALSE))
  <2>1. \E r \in receipts' : r.by = HashFor(c) /\ r.workspace = MineToo(c)
    BY <1>0, <1>1, ExistingReceipt DEF Unstored
  <2>2. Answered(c)' /\ Late(c)' /\ pc'[c] = "done"
    BY <1>0, <1>1, <2>1, ReturnHolds DEF Reply, Return, TypeOK
  <2>. QED BY <1>0, <2>2, EndedHolds DEF Local
<1>2. CASE ~Identical(c) /\ attempt[c] = 1 /\ GoTo(c, "recheck")
  <2>1. pc'[c] = "recheck" /\ attempt'[c] = 1 /\ UNCHANGED answer
    BY <1>2 DEF GoTo, TypeOK
  <2>2. TenantClash(c)' \/ WorkspaceClash(c)'
    BY <1>0, Grown DEF PInv, Local, Late
  <2>3. Late(c)'
    BY <2>1, <2>2 DEF Late
  <2>. QED BY <1>0, <2>1, <2>3, EndedHolds, GoingOn DEF Local
<1>3. CASE ~Identical(c) /\ attempt[c] = 2 /\ Refuse(c)
  <2>1. Mine(c) \in tenants /\ WorkspaceClash(c)
    BY <1>0, <1>3 DEF PInv, Local, Late
  <2>2. Contradicted(c)
    BY <1>3, <2>1, ClashOrOwn, IdenticalThere
  <2>3. Answered(c)' /\ Late(c)' /\ pc'[c] = "done"
    BY <1>0, <1>3, <2>2, ReturnHolds DEF Refuse, Reply, Return, TypeOK
  <2>. QED BY <1>0, <2>3, EndedHolds DEF Local
<1>. QED BY <1>1, <1>2, <1>3 DEF ReadScope

LEMMA RecheckKeeps ==
  ASSUME TypeOK, PInv, NEW c \in Call, Recheck(c)
  PROVE  Local(c)'
<1>0. /\ Acts(c) /\ pc[c] = "recheck" /\ pending[c] = Nothing /\ pending'[c] = Nothing
  BY DEF Recheck, Acts, Progress, PInv, Local, Holding, Session
<1>1. CASE Retryable(c) /\ GoTo(c, "slug")
  <2>1. pc'[c] = "slug" /\ UNCHANGED <<attempt, answer>>
    BY <1>1 DEF GoTo, TypeOK
  <2>2. Mine(c) \in tenants
    BY <1>1 DEF Retryable, TenantRows
  <2>3. Late(c)'
    BY <1>0, <2>1, <2>2, Grown DEF Late
  <2>. QED BY <1>0, <2>1, <2>3, EndedHolds, GoingOn DEF Local
<1>2. CASE ~Retryable(c) /\ Refuse(c)
  <2>1. TenantClash(c) \/ WorkspaceClash(c)
    BY <1>0 DEF PInv, Local, Late
  <2>2. MineToo(c) \in workspaces => Contradicted(c) \/ (Mine(c) \in tenants /\ Twin(c))
    BY <1>0, OwnWorkspaceThere
  <2>3. WorkspaceRows(c) # {} => Contradicted(c) \/ MineToo(c) \in workspaces
    BY DEF WorkspaceRows, Contradicted
  <2>4. Mine(c) \in tenants => Mine(c) \in TenantRows(c)
    BY DEF TenantRows
  <2>5. Contradicted(c) \/ Twin(c)
    BY <1>2, <2>1, <2>2, <2>3, <2>4, ClashOrOwn DEF Retryable
  <2>6. Answered(c)' /\ Late(c)' /\ pc'[c] = "done"
    BY <1>0, <1>2, <2>5, ReturnHolds DEF Refuse, Reply, Return, TypeOK
  <2>. QED BY <1>0, <2>6, EndedHolds DEF Local
<1>. QED BY <1>1, <1>2 DEF Recheck

LEMMA RecheckSlugKeeps ==
  ASSUME TypeOK, PInv, NEW c \in Call, RecheckSlug(c)
  PROVE  Local(c)'
<1>0. /\ Acts(c) /\ pc[c] = "slug" /\ pending[c] = Nothing /\ pending'[c] = Nothing
  BY DEF RecheckSlug, Acts, Progress, PInv, Local, Holding, Session
<1>1. CASE SlugTaken(c) /\ Refuse(c)
  <2>1. Contradicted(c) \/ MineToo(c) \in workspaces
    BY <1>1 DEF SlugTaken, Contradicted
  <2>2. Contradicted(c) \/ Twin(c)
    BY <1>0, <2>1, OwnWorkspaceThere
  <2>3. Answered(c)' /\ Late(c)' /\ pc'[c] = "done"
    BY <1>0, <1>1, <2>2, ReturnHolds DEF Refuse, Reply, Return, TypeOK
  <2>. QED BY <1>0, <2>3, EndedHolds DEF Local
<1>2. CASE /\ ~SlugTaken(c) /\ attempt' = [attempt EXCEPT ![c] = 2]
           /\ pc' = [pc EXCEPT ![c] = "tenant"] /\ UNCHANGED answer
  <2>1. pc'[c] = "tenant" /\ attempt'[c] = 2
    BY <1>2 DEF TypeOK
  <2>2. Mine(c) \in tenants
    BY <1>0 DEF PInv, Local, Late
  <2>3. Late(c)'
    BY <1>0, <2>1, <2>2, Grown DEF Late
  <2>. QED BY <1>0, <1>2, <2>1, <2>3, EndedHolds, GoingOn DEF Local
<1>. QED BY <1>1, <1>2 DEF RecheckSlug

-----------------------------------------------------------------------------
(* What a step does to the rows of all. *)

LEMMA LocalKeeps ==
  ASSUME TypeOK, PInv, NEW c \in Call, Acts(c)
  PROVE  \A d \in Call : Local(d)'
BY OthersKeep, SelectTenantKeeps, InsertTenantKeeps, SelectWorkspaceKeeps, InsertWorkspaceKeeps,
   InsertStreamsKeeps, CommitKeeps, AbortKeeps, ReadScopeKeeps, RecheckKeeps, RecheckSlugKeeps
   DEF Acts, Progress

\* How a call's own rows may change.
LEMMA RowsChange ==
  ASSUME TypeOK, NEW c \in Call, Acts(c)
  PROVE  /\ \/ pending'[c].tenant \subseteq pending[c].tenant
            \/ pending'[c].tenant = {Mine(c)} /\ MayInsertTenant(c)
         /\ \/ pending'[c].workspace \subseteq pending[c].workspace
            \/ pending'[c].workspace = {MineToo(c)} /\ MayInsertWorkspace(c)
<1>1. \/ pending' = pending
      \/ pending' = [pending EXCEPT ![c] = Nothing]
      \/ pending' = [pending EXCEPT ![c].tenant = {Mine(c)}] /\ MayInsertTenant(c)
      \/ pending' = [pending EXCEPT ![c].workspace = {MineToo(c)}] /\ MayInsertWorkspace(c)
      \/ pending' = [pending EXCEPT ![c].heads = {MineToo(c).id}, ![c].receipt = NewReceipt(c)]
  BY DEF Acts, Progress, SelectTenant, InsertTenant, SelectWorkspace, InsertWorkspace, InsertStreams,
         Commit, ReadScope, Recheck, RecheckSlug, CommitReplyLost, Abort, EndSession, Session
<1>2. pending[c] \in Pending
  BY DEF TypeOK
<1>. QED BY <1>1, <1>2 DEF TypeOK, Pending, Nothing

\* What the database lets a call insert is apart from the rows of every other.
LEMMA InsertsApart ==
  ASSUME TypeOK, PInv, NEW c \in Call, NEW d \in Call, d # c
  PROVE  /\ MayInsertTenant(c) => \A u \in pending[d].tenant : ~ClashTenants(u, Mine(c))
         /\ MayInsertWorkspace(c) => \A v \in pending[d].workspace : ~ClashWorkspaces(v, MineToo(c))
<1>1. dialect \in {"postgresql", "sqlite"} /\ None \notin Call
  BY ConstantsAssumption DEF TypeOK
<1>2. CASE dialect = "postgresql"
  BY <1>2 DEF MayInsertTenant, MayInsertWorkspace
<1>3. CASE dialect = "sqlite"
  BY <1>1, <1>3 DEF MayInsertTenant, MayInsertWorkspace, PInv, Local, Exclusive
<1>. QED BY <1>1, <1>2, <1>3

LEMMA ApartKeeps ==
  ASSUME TypeOK, PInv, NEW c \in Call, Acts(c)
  PROVE  \A d, e \in Call : d # e => Apart(d, e)'
<1>1. ASSUME NEW d \in Call, d # c
      PROVE  Apart(c, d)' /\ Apart(d, c)'
  <2>1. Apart(c, d) /\ Apart(d, c)
    BY <1>1 DEF PInv
  <2>2. pending'[d] = pending[d]
    BY <1>1, OthersSame
  <2>3. \A t \in pending'[c].tenant : \A u \in pending[d].tenant :
          ~ClashTenants(u, t) /\ ~ClashTenants(t, u)
    BY <1>1, <2>1, RowsChange, InsertsApart DEF Apart, ClashTenants
  <2>4. \A w \in pending'[c].workspace : \A v \in pending[d].workspace :
          ~ClashWorkspaces(v, w) /\ ~ClashWorkspaces(w, v)
    BY <1>1, <2>1, RowsChange, InsertsApart DEF Apart, ClashWorkspaces
  <2>. QED BY <2>2, <2>3, <2>4 DEF Apart
<1>2. ASSUME NEW d \in Call, NEW e \in Call, d # c, e # c, d # e
      PROVE  Apart(d, e)'
  BY <1>2, OthersSame DEF PInv, Apart
<1>. QED BY <1>1, <1>2

\* A scope is committed whole, beside rows it does not clash with.
LEMMA ScopesKeep ==
  ASSUME TypeOK, PInv, NEW c \in Call, Acts(c)
  PROVE  ScopesWhole' /\ IdentitiesUnique' /\ ByRequest'
<1>1. \A d \in Call : Mine(d)' = Mine(d) /\ MineToo(d)' = MineToo(d)
  BY Grown
<1>2. CASE Unstored
  <2>1. \A d \in Call : pc[d] = "done" => pc'[d] = "done"
    BY OthersSame DEF Acts, Progress, SelectTenant, InsertTenant, SelectWorkspace, InsertWorkspace,
       InsertStreams, Commit, ReadScope, Recheck, RecheckSlug, CommitReplyLost, Abort
  <2>2. ByRequest'
    BY <1>1, <1>2, <2>1 DEF Unstored, PInv, ByRequest
  <2>. QED BY <1>2, <2>2 DEF Unstored, PInv, ScopesWhole, IdentitiesUnique
<1>3. CASE Stores(c)
  <2>. DEFINE receipt == [by |-> c, tenant |-> Mine(c), workspace |-> MineToo(c)]
  <2>1. /\ workspaces' = workspaces \cup {MineToo(c)} /\ heads' = heads \cup {MineToo(c).id}
        /\ tenants' = tenants \cup pending[c].tenant
        /\ receipts' = receipts \cup {receipt}
        /\ pending[c].tenant \subseteq {Mine(c)} /\ Mine(c) \in tenants'
    BY <1>3 DEF Stores, Install, PInv, Local, Holding, NewReceipt
  <2>2. /\ \A t \in pending[c].tenant : \A u \in tenants : ~ClashTenants(u, t)
        /\ \A v \in workspaces : ~ClashWorkspaces(v, MineToo(c))
    BY <1>3 DEF Stores, PInv, Local, Holding, Free
  <2>3. IdentitiesUnique'
    <3>1. \A t, u \in tenants' : t # u => t.id # u.id /\ t.slug # u.slug
      BY <2>1, <2>2 DEF PInv, IdentitiesUnique, ClashTenants
    <3>2. \A w, v \in workspaces' :
            w # v => w.id # v.id /\ (w.tenant = v.tenant => w.slug # v.slug)
      BY <2>1, <2>2 DEF PInv, IdentitiesUnique, ClashWorkspaces
    <3>. QED BY <3>1, <3>2 DEF IdentitiesUnique
  <2>4. ScopesWhole'
    <3>1. receipt.tenant = Mine(c) /\ receipt.workspace = MineToo(c)
      OBVIOUS
    <3>2. \A r \in receipts : r.workspace.id # receipt.workspace.id
      BY <2>2, <3>1 DEF PInv, ScopesWhole, ClashWorkspaces
    <3>3. MineToo(c).tenant = Mine(c).id
      BY Asked
    <3>. HIDE DEF receipt
    <3>4. ASSUME NEW w \in workspaces'
          PROVE  /\ w.id \in heads' /\ \E t \in tenants' : t.id = w.tenant
                 /\ {r \in receipts' : r.workspace = w} # {}
      <4>1. CASE w \in workspaces
        <5>1. w.id \in heads' /\ \E t \in tenants' : t.id = w.tenant
          BY <2>1, <4>1 DEF PInv, ScopesWhole
        <5>2. \E r \in receipts' : r.workspace = w
          BY <2>1, <4>1 DEF PInv, ScopesWhole
        <5>. QED BY <5>1, <5>2
      <4>2. CASE w = MineToo(c)
        <5>1. w.id \in heads' /\ \E t \in tenants' : t.id = w.tenant
          BY <2>1, <3>3, <4>2
        <5>2. receipt \in receipts' /\ receipt.workspace = w
          BY <2>1, <3>1, <4>2
        <5>. QED BY <5>1, <5>2
      <4>. QED BY <2>1, <4>1, <4>2
    <3>5. \A r, s \in receipts' : r.workspace.id = s.workspace.id => r = s
      BY <2>1, <3>2 DEF PInv, ScopesWhole
    <3>6. \A r \in receipts' : r.tenant \in tenants' /\ r.workspace \in workspaces'
      BY <2>1, <3>1 DEF PInv, ScopesWhole
    <3>. QED BY <3>4, <3>5, <3>6 DEF ScopesWhole
  <2>5. ByRequest'
    <3>1. \A d \in Call : pc[d] = "done" \/ d = c => pc'[d] = "done"
      BY <1>3 DEF Stores, TypeOK
    <3>2. \A r \in receipts' \ receipts : r.by = c /\ r.tenant = Mine(c) /\ r.workspace = MineToo(c)
      BY <2>1
    <3>. QED BY <1>1, <2>1, <3>1, <3>2 DEF PInv, ByRequest
  <2>. QED BY <2>3, <2>4, <2>5
<1>. QED BY <1>2, <1>3, Stored

\* Only the commit of a tenant tells a call that it created one.
LEMMA CreditsKeep ==
  ASSUME TypeOK, PInv, NEW c \in Call, Acts(c)
  PROVE  TenantOnce'
<1>1. \A d \in Call : Mine(d)' = Mine(d)
  BY Grown
<1>2. ASSUME NEW d \in Call, d # c
      PROVE  answer'[d] = answer[d]
  BY <1>2, OthersSame
<1>3. ASSUME answer'[c] # None, answer'[c].tenantCreated, answer'[c] # answer[c]
      PROVE  \A u \in tenants : u.id # Mine(c).id
  <2>1. \/ answer' = answer
        \/ Commit(c)
        \/ \E status, hash, wc : answer' = [answer EXCEPT ![c] = Reply(status, hash, FALSE, wc)]
    BY DEF Acts, Progress, SelectTenant, InsertTenant, SelectWorkspace, InsertWorkspace,
           InsertStreams, ReadScope, Recheck, RecheckSlug, CommitReplyLost, Abort, GoTo, Return,
           Refuse, Fail
  <2>2. Commit(c)
    BY <1>3, <2>1 DEF Reply, TypeOK
  <2>3. pending[c].tenant # {}
    BY <1>3, <2>2 DEF Commit, Return, Reply, TypeOK
  <2>4. Mine(c) \in pending[c].tenant
    BY <2>3 DEF PInv, Local, Holding
  <2>. QED BY <2>4 DEF PInv, Local, Free, ClashTenants
<1>4. \A d \in Call : answer[d] # None /\ answer[d].tenantCreated => Mine(d) \in tenants
  BY DEF PInv, Local, Answered
<1>5. ASSUME NEW d \in Call, NEW e \in Call, d # e, answer'[d] # None, answer'[e] # None,
             answer'[d].tenantCreated, answer'[e].tenantCreated
      PROVE  Mine(d).id # Mine(e).id
  <2>1. CASE answer'[d] = answer[d] /\ answer'[e] = answer[e]
    BY <1>5, <2>1 DEF PInv, TenantOnce
  <2>2. CASE answer'[d] # answer[d]
    BY <1>2, <1>3, <1>4, <1>5, <2>2
  <2>3. CASE answer'[e] # answer[e]
    BY <1>2, <1>3, <1>4, <1>5, <2>3
  <2>. QED BY <2>1, <2>2, <2>3
<1>. QED BY <1>1, <1>5 DEF TenantOnce

-----------------------------------------------------------------------------
(* The results. *)

LEMMA Invariance == Spec => []PInv
<1>1. Init => PInv
  <2>. SUFFICES ASSUME Init PROVE PInv
    OBVIOUS
  <2>1. \A c \in Call : Local(c)
    BY DEF Init, Local, Holding, Free, Exclusive, Late, Answered, Nothing
  <2>2. \A c, d \in Call : Apart(c, d)
    BY DEF Init, Apart, Nothing
  <2>3. ScopesWhole /\ IdentitiesUnique /\ ByRequest /\ TenantOnce
    BY DEF Init, ScopesWhole, IdentitiesUnique, ByRequest, TenantOnce
  <2>. QED BY <2>1, <2>2, <2>3 DEF PInv
<1>2. TypeOK /\ PInv /\ [Next]_vars => PInv'
  <2>. SUFFICES ASSUME TypeOK, PInv, [Next]_vars PROVE PInv'
    OBVIOUS
  <2>1. ASSUME NEW c \in Call, Acts(c)
        PROVE  PInv'
    BY <2>1, LocalKeeps, ApartKeeps, ScopesKeep, CreditsKeep DEF PInv
  <2>2. CASE UNCHANGED vars
    <3>1. \A c \in Call : Local(c)'
      BY <2>2 DEF vars, PInv, Local, Holding, Free, Exclusive, Late, Answered, Accepted, Refused,
                  Contradicted, Twin, TenantClash, WorkspaceClash, Mine, MineToo, NewReceipt
    <3>2. \A c, d \in Call : c # d => Apart(c, d)'
      BY <2>2 DEF vars, PInv, Apart
    <3>3. ScopesWhole' /\ IdentitiesUnique' /\ ByRequest' /\ TenantOnce'
      BY <2>2 DEF vars, PInv, ScopesWhole, IdentitiesUnique, ByRequest, TenantOnce, Mine, MineToo
    <3>. QED BY <3>1, <3>2, <3>3 DEF PInv
  <2>. QED BY <2>1, <2>2 DEF Next, Terminated, Acts
<1>. QED BY <1>1, <1>2, TypeCorrect, PTL DEF Spec

\* No scope is ever half provisioned, in whichever attempt it was created and
\* whatever fails: tenant, workspace, streams and one receipt are there together.
THEOREM ScopesStayWhole == Spec => []ScopesHold
<1>1. TypeOK /\ PInv => ScopesHold
  BY DEF PInv, ScopesHold
<1>. QED BY <1>1, Invariance, TypeCorrect, PTL

\* Two calls that saw an id or a slug free never both take it.
THEOREM IdentitiesStayUnique == Spec => []IdentitiesUnique
<1>1. PInv => IdentitiesUnique
  BY DEF PInv
<1>. QED BY <1>1, Invariance, PTL

\* Every call told that its scope is there is told of one receipt, and one of
\* them at most that it created the workspace, or the tenant.
THEOREM RepliesStayAgreed == Spec => []RepliesAgree
<1>1. TypeOK /\ PInv => RepliesAgree
  <2>. SUFFICES ASSUME TypeOK, PInv, NEW c \in Call, Accepted(c)
                PROVE  /\ \E r \in receipts : r.by = answer[c].hash /\ r.workspace = MineToo(c)
                       /\ \A d \in Call : Accepted(d) /\ d # c =>
                            /\ MineToo(d).id = MineToo(c).id => answer[d].hash = answer[c].hash
                            /\ MineToo(d).id = MineToo(c).id /\ answer[d].workspaceCreated
                                 => ~answer[c].workspaceCreated
                            /\ Mine(d).id = Mine(c).id /\ answer[d].tenantCreated
                                 => ~answer[c].tenantCreated
    BY DEF RepliesAgree
  <2>1. \A d \in Call : Accepted(d) =>
          /\ answer[d] # None
          /\ \E r \in receipts : r.by = answer[d].hash /\ r.workspace = MineToo(d)
          /\ answer[d].workspaceCreated => answer[d].hash = d
    BY DEF PInv, Local, Answered, Accepted
  <2>2. ASSUME NEW d \in Call, Accepted(d), d # c, MineToo(d).id = MineToo(c).id
        PROVE  answer[d].hash = answer[c].hash
    BY <2>1, <2>2 DEF PInv, ScopesWhole
  <2>3. ASSUME NEW d \in Call, Accepted(d), d # c, MineToo(d).id = MineToo(c).id,
               answer[d].workspaceCreated, answer[c].workspaceCreated
        PROVE  FALSE
    BY <2>1, <2>2, <2>3
  <2>4. ASSUME NEW d \in Call, Accepted(d), d # c, Mine(d).id = Mine(c).id,
               answer[d].tenantCreated, answer[c].tenantCreated
        PROVE  FALSE
    BY <2>1, <2>4 DEF PInv, TenantOnce
  <2>. QED BY <2>1, <2>2, <2>3, <2>4
<1>. QED BY <1>1, Invariance, TypeCorrect, PTL

\* A conflict names a contradiction, or an identical request that ran beside it.
THEOREM ConflictsStayReal == Spec => []ConflictsReal
<1>1. PInv => ConflictsReal
  BY DEF PInv, Local, Answered, ConflictsReal, Refused, Twin
<1>. QED BY <1>1, Invariance, PTL
-----------------------------------------------------------------------------
(* The refinement: what each step of a call is in AtomicScopes, where the   *)
(* committed receipts are the scopes.                                       *)

\* No tenant is committed but with a receipt.
Receipted == \A t \in tenants : \E r \in receipts : r.tenant = t

LEMMA ReceiptedInvariant == Spec => []Receipted
<1>1. Init => Receipted
  BY DEF Init, Receipted
<1>2. ASSUME PInv, Receipted, NEW c \in Call, Acts(c)
      PROVE  Receipted'
  <2>1. CASE Unstored
    BY <1>2, <2>1 DEF Unstored, Receipted
  <2>2. CASE Stores(c)
    <3>. DEFINE receipt == [by |-> c, tenant |-> Mine(c), workspace |-> MineToo(c)]
    <3>1. /\ tenants' = tenants \cup pending[c].tenant /\ pending[c].tenant \subseteq {Mine(c)}
          /\ receipts' = receipts \cup {receipt}
      BY <1>2, <2>2 DEF Stores, Install, PInv, Local, Holding, NewReceipt
    <3>2. receipt.tenant = Mine(c)
      OBVIOUS
    <3>. HIDE DEF receipt
    <3>. QED BY <1>2, <3>1, <3>2 DEF Receipted
  <2>. QED BY <1>2, <2>1, <2>2, Stored
<1>3. PInv /\ Receipted /\ [Next]_vars => Receipted'
  <2>. SUFFICES ASSUME PInv, Receipted, [Next]_vars PROVE Receipted'
    OBVIOUS
  <2>1. CASE UNCHANGED vars
    BY <2>1 DEF vars, Receipted
  <2>. QED BY <1>2, <2>1 DEF Next, Terminated, Acts
<1>. QED BY <1>1, <1>3, Invariance, PTL DEF Spec

\* What contradicts a call, or is its own, is among the scopes.
LEMMA ScopeBehind ==
  ASSUME TypeOK, PInv, Receipted, NEW c \in Call, Contradicted(c) \/ MineToo(c) \in workspaces
  PROVE  \E s \in receipts : Atomic!Same(s, req[c]) \/ Atomic!Contradicts(s, req[c])
<1>1. \A w \in workspaces : \E s \in receipts : s.workspace = w
  BY DEF PInv, ScopesWhole
<1>2. MineToo(c).tenant = Mine(c).id
  BY Asked
<1>3. CASE \E t \in tenants : t # Mine(c) /\ ClashTenants(t, Mine(c))
  BY <1>3 DEF Receipted, ClashTenants, Mine, Atomic!Contradicts
<1>4. CASE \E w \in workspaces :
             w # MineToo(c) /\ (w.id = MineToo(c).id \/ (w.tenant = Mine(c).id /\ w.slug = MineToo(c).slug))
  <2>1. PICK s \in receipts :
          /\ s.workspace # MineToo(c)
          /\ \/ s.workspace.id = MineToo(c).id
             \/ s.workspace.tenant = MineToo(c).tenant /\ s.workspace.slug = MineToo(c).slug
    BY <1>1, <1>2, <1>4
  <2>. QED BY <2>1 DEF MineToo, Atomic!Contradicts
<1>5. CASE MineToo(c) \in workspaces
  <2>1. PICK s \in receipts : s.workspace = MineToo(c)
    BY <1>1, <1>5
  <2>2. /\ s.by \in Call /\ s.tenant = Mine(s.by) /\ MineToo(s.by) = MineToo(c)
    BY <2>1 DEF PInv, ByRequest
  <2>3. s.tenant.id = Mine(c).id
    BY <2>2, Asked
  <2>. QED BY <2>1, <2>3 DEF Mine, MineToo, Atomic!Same, Atomic!Contradicts
<1>. QED BY <1>3, <1>4, <1>5 DEF Contradicted

LEMMA RefusalSimulates ==
  ASSUME TypeOK, PInv, Receipted, NEW c \in Call, answer[c] = None, Refuse(c), Committed,
         Contradicted(c) \/ MineToo(c) \in workspaces
  PROVE  Atomic!Next
<1>1. Atomic!Tell(c, "conflict", None, FALSE, FALSE)
  BY DEF Refuse, Return, Reply, Atomic!Tell
<1>2. \E s \in receipts : Atomic!Same(s, req[c]) \/ Atomic!Contradicts(s, req[c])
  BY ScopeBehind
<1>. QED BY <1>1, <1>2 DEF Committed, Atomic!Refuse, Atomic!Next

LEMMA ReplaySimulates ==
  ASSUME TypeOK, PInv, NEW c \in Call, answer[c] = None, Identical(c), Committed,
         Return(c, Reply("EXISTING", HashFor(c), FALSE, FALSE))
  PROVE  Atomic!Next
<1>1. PICK s \in receipts : s.by = HashFor(c) /\ s.workspace = MineToo(c)
  BY ExistingReceipt
<1>2. s \in ReceiptsFor(c)
  BY <1>1, Asked DEF ReceiptsFor
<1>3. Atomic!Same(s, req[c])
  BY <1>2 DEF Identical, Mine, MineToo, Atomic!Same
<1>4. Atomic!Tell(c, "EXISTING", s.by, FALSE, FALSE)
  BY <1>1 DEF Return, Reply, Atomic!Tell
<1>. QED BY <1>3, <1>4 DEF Committed, Atomic!Find, Atomic!Next

LEMMA FailureSimulates ==
  ASSUME NEW c \in Call, answer[c] = None, Fail(c), Committed
  PROVE  Atomic!Next
<1>1. Atomic!Tell(c, "failed", None, FALSE, FALSE)
  BY DEF Fail, Return, Reply, Atomic!Tell
<1>. QED BY <1>1 DEF Committed, Atomic!Fail, Atomic!Next

\* A commit is of a scope that is neither there nor contradicted, and says that the tenant is
\* new exactly when it is.
LEMMA CommitSimulates ==
  ASSUME TypeOK, PInv, Receipted, NEW c \in Call, answer[c] = None, Commit(c) \/ CommitReplyLost(c)
  PROVE  Atomic!Next
<1>1. /\ pc[c] = "commit" /\ Install(c)
      /\ pending[c].workspace = {MineToo(c)} /\ pending[c].receipt = NewReceipt(c)
      /\ pending[c].tenant \subseteq {Mine(c)} /\ Mine(c) \in tenants \cup pending[c].tenant
  BY DEF Commit, CommitReplyLost, PInv, Local, Holding
<1>2. /\ \A t \in pending[c].tenant : \A u \in tenants : ~ClashTenants(u, t)
      /\ \A v \in workspaces : ~ClashWorkspaces(v, MineToo(c))
  BY <1>1 DEF PInv, Local, Free
<1>3. \A s \in receipts : s.tenant \in tenants /\ s.workspace \in workspaces
  BY DEF PInv, ScopesWhole
<1>4. \A u \in tenants : u # Mine(c) => ~ClashTenants(u, Mine(c))
  BY <1>1, <1>2 DEF PInv, IdentitiesUnique, ClashTenants
<1>5. \A s \in receipts : ~Atomic!Same(s, req[c]) /\ ~Atomic!Contradicts(s, req[c])
  BY <1>2, <1>3, <1>4 DEF Atomic!Same, Atomic!Contradicts, ClashTenants, ClashWorkspaces, Mine, MineToo
<1>6. pending[c].tenant # {} <=> \A s \in receipts : s.tenant # Mine(c)
  BY <1>1, <1>2, <1>3 DEF Receipted, ClashTenants
<1>7. receipts' = receipts \cup {[by |-> c, tenant |-> req[c].tenant, workspace |-> req[c].workspace]}
  BY <1>1 DEF Install, NewReceipt, Mine, MineToo
<1>8. \/ Atomic!Tell(c, "CREATED", c, \A s \in receipts : s.tenant # req[c].tenant, TRUE)
      \/ Atomic!Tell(c, "failed", None, FALSE, FALSE)
  <2>1. CASE Commit(c)
    <3>1. (pending[c].tenant # {}) = (\A s \in receipts : s.tenant # req[c].tenant)
      BY <1>6 DEF Mine
    <3>2. answer' = [answer EXCEPT ![c] = Reply("CREATED", c, pending[c].tenant # {}, TRUE)]
      BY <2>1 DEF Commit, Return
    <3>. QED BY <3>1, <3>2 DEF Reply, Atomic!Tell
  <2>2. CASE CommitReplyLost(c)
    BY <2>2 DEF CommitReplyLost, Fail, Return, Reply, Atomic!Tell
  <2>. QED BY <2>1, <2>2
<1>9. Atomic!Create(c)
  BY <1>5, <1>7, <1>8 DEF Atomic!Create
<1>. QED BY <1>1, <1>9 DEF Install, Atomic!Next

LEMMA StepSimulates ==
  ASSUME TypeOK, PInv, Receipted, NEW c \in Call, Acts(c)
  PROVE  Atomic!Next \/ UNCHANGED Atomic!vars
<1>1. pc[c] # "done" /\ answer[c] = None
  BY DEF Acts, Progress, SelectTenant, InsertTenant, SelectWorkspace, InsertWorkspace, InsertStreams,
         Commit, ReadScope, Recheck, RecheckSlug, CommitReplyLost, Abort, PInv, Local, Answered
<1>2. ASSUME NEW label, GoTo(c, label), Committed
      PROVE  UNCHANGED Atomic!vars
  BY <1>2 DEF GoTo, Committed, Atomic!vars
<1>3. CASE SelectTenant(c)
  <2>1. CASE TenantRows(c) \ {Mine(c)} # {} /\ Refuse(c)
    <3>1. Contradicted(c)
      BY <2>1 DEF TenantRows, Contradicted, ClashTenants
    <3>. QED BY <1>1, <1>3, <2>1, <3>1, RefusalSimulates DEF SelectTenant
  <2>. QED BY <1>2, <1>3, <2>1 DEF SelectTenant
<1>4. CASE InsertTenant(c) \/ InsertWorkspace(c) \/ InsertStreams(c)
  BY <1>2, <1>4 DEF InsertTenant, InsertWorkspace, InsertStreams
<1>5. CASE SelectWorkspace(c)
  <2>1. CASE WorkspaceRows(c) # {} /\ Refuse(c)
    <3>1. Contradicted(c) \/ MineToo(c) \in workspaces
      BY <2>1 DEF WorkspaceRows, Contradicted
    <3>. QED BY <1>1, <1>5, <2>1, <3>1, RefusalSimulates DEF SelectWorkspace
  <2>. QED BY <1>1, <1>2, <1>5, <2>1, ReplaySimulates DEF SelectWorkspace
<1>6. CASE Commit(c) \/ CommitReplyLost(c)
  BY <1>1, <1>6, CommitSimulates
<1>7. CASE Abort(c)
  BY <1>1, <1>7, FailureSimulates DEF Abort
<1>8. CASE ReadScope(c)
  <2>1. CASE ~Identical(c) /\ attempt[c] = 2 /\ Refuse(c)
    <3>1. Mine(c) \in tenants /\ WorkspaceClash(c)
      BY <1>8, <2>1 DEF ReadScope, PInv, Local, Late
    <3>2. Contradicted(c)
      BY <2>1, <3>1, ClashOrOwn, IdenticalThere
    <3>. QED BY <1>1, <1>8, <2>1, <3>2, RefusalSimulates DEF ReadScope
  <2>. QED BY <1>1, <1>2, <1>8, <2>1, ReplaySimulates DEF ReadScope
<1>9. CASE Recheck(c)
  <2>1. CASE ~Retryable(c) /\ Refuse(c)
    <3>1. TenantClash(c) \/ WorkspaceClash(c)
      BY <1>9 DEF Recheck, PInv, Local, Late
    <3>2. WorkspaceRows(c) # {} => Contradicted(c) \/ MineToo(c) \in workspaces
      BY DEF WorkspaceRows, Contradicted
    <3>3. Mine(c) \in tenants => Mine(c) \in TenantRows(c)
      BY DEF TenantRows
    <3>4. Contradicted(c) \/ MineToo(c) \in workspaces
      BY <2>1, <3>1, <3>2, <3>3, ClashOrOwn DEF Retryable
    <3>. QED BY <1>1, <1>9, <2>1, <3>4, RefusalSimulates DEF Recheck
  <2>. QED BY <1>2, <1>9, <2>1 DEF Recheck
<1>10. CASE RecheckSlug(c)
  <2>1. CASE SlugTaken(c) /\ Refuse(c)
    <3>1. Contradicted(c) \/ MineToo(c) \in workspaces
      BY <2>1 DEF SlugTaken, Contradicted
    <3>. QED BY <1>1, <1>10, <2>1, <3>1, RefusalSimulates DEF RecheckSlug
  <2>. QED BY <1>10, <2>1 DEF RecheckSlug, Committed, Atomic!vars
<1>. QED BY <1>3, <1>4, <1>5, <1>6, <1>7, <1>8, <1>9, <1>10 DEF Acts, Progress

\* Provisioning looks like one instant: whatever a call is told is true of the scopes that are
\* committed when it is told, and a scope that is created was neither there nor contradicted.
THEOREM ProvisioningIsAtomic == Spec => ImplementsScopes
<1>1. Init => Atomic!Init
  BY DEF Init, Atomic!Init
<1>2. TypeOK /\ PInv /\ Receipted /\ [Next]_vars => [Atomic!Next]_(Atomic!vars)
  <2>. SUFFICES ASSUME TypeOK, PInv, Receipted, [Next]_vars
                PROVE  Atomic!Next \/ UNCHANGED Atomic!vars
    OBVIOUS
  <2>1. CASE UNCHANGED vars
    BY <2>1 DEF vars, Atomic!vars
  <2>. QED BY <2>1, StepSimulates DEF Next, Terminated, Acts
<1>. QED
  BY TypeCorrect, Invariance, ReceiptedInvariant, <1>1, <1>2, PTL DEF Spec, ImplementsScopes, Atomic!Spec
=============================================================================
