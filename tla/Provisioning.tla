----------------------------- MODULE Provisioning -----------------------------
(***************************************************************************)
(* provision_scope of lyte/persistence/store.py: administrators create     *)
(* tenants and workspaces concurrently.  A call tries to read or insert    *)
(* tenant, workspace, stream heads and receipt in one transaction; when a  *)
(* unique constraint refuses it, it reads what the winner has committed,   *)
(* and tries once more if only its own workspace is still missing.         *)
(*                                                                         *)
(* The five stream heads of a workspace are inserted together and stand    *)
(* here as one.  A receipt is named by the call that wrote it.             *)
(***************************************************************************)
EXTENDS Naturals, FiniteSets

CONSTANTS Call,       \* calls; each runs once
          TenantId, WorkspaceId, Slug, Name,
          Requests,   \* the requests calls may carry
          Dialects,   \* databases the deployment may run on
          None        \* absent value

Tenant == [id : TenantId, slug : Slug, name : Name]
Workspace == [id : WorkspaceId, tenant : TenantId, slug : Slug, name : Name]
Receipt == [by : Call, tenant : Tenant, workspace : Workspace]

\* The route builds the workspace for the tenant it names.
ASSUME RequestsAssumption ==
  \A r \in Requests :
    r \in [tenant : Tenant, workspace : Workspace] /\ r.workspace.tenant = r.tenant.id

ASSUME ConstantsAssumption ==
  /\ Dialects \subseteq {"postgresql", "sqlite"}
  /\ None \notin Call \cup TenantId \cup WorkspaceId

VARIABLES dialect,     \* the database in use; never changes
          tenants, workspaces, heads, receipts,  \* committed rows
          pending,     \* rows each call has inserted and not committed
          rows,        \* rows each call holds FOR UPDATE
          writer,      \* call holding SQLite's database write lock
          req,         \* what each call asks for
          pc,          \* next statement of each call
          attempt,     \* first or second
          answer       \* what each call returned

vars == <<dialect, tenants, workspaces, heads, receipts, pending, rows, writer,
          req, pc, attempt, answer>>

Nothing == [tenant |-> {}, workspace |-> {}, heads |-> {}, receipt |-> {}]

Init ==
  /\ dialect \in Dialects
  /\ tenants = {} /\ workspaces = {} /\ heads = {} /\ receipts = {}
  /\ pending = [c \in Call |-> Nothing]
  /\ rows = [c \in Call |-> {}]
  /\ writer = None
  /\ req \in [Call -> Requests]
  /\ pc = [c \in Call |-> "tenant"]
  /\ attempt = [c \in Call |-> 1]
  /\ answer = [c \in Call |-> None]

-----------------------------------------------------------------------------
(* What the database enforces. *)

ClashTenants(t, u) == t.id = u.id \/ t.slug = u.slug

\* Defect: a workspace's slug is not constrained.
ClashWorkspaces_IdOnly(w, v) == w.id = v.id

\* Unique: a workspace's id, and its slug within its tenant.
ClashWorkspaces(w, v) == w.id = v.id \/ (w.tenant = v.tenant /\ w.slug = v.slug)

Mine(c) == req[c].tenant
MineToo(c) == req[c].workspace

\* An insert waits while another transaction has inserted a clashing row.
MayInsertTenant(c) ==
  /\ dialect = "postgresql" =>
       \A d \in Call \ {c} : \A t \in pending[d].tenant : ~ClashTenants(t, Mine(c))
  /\ dialect = "sqlite" => writer \in {None, c}

MayInsertWorkspace(c) ==
  /\ dialect = "postgresql" =>
       \A d \in Call \ {c} : \A w \in pending[d].workspace : ~ClashWorkspaces(w, MineToo(c))
  /\ dialect = "sqlite" => writer \in {None, c}

\* SELECT ... FOR UPDATE waits for a row another transaction holds; SQLite
\* ignores the clause.
MayLock(c, row) == dialect = "postgresql" => \A d \in Call \ {c} : row \notin rows[d]

Lock(c, row) ==
  rows' = IF dialect = "postgresql" THEN [rows EXCEPT ![c] = @ \cup {row}] ELSE rows

TakeWriter(c) == writer' = IF dialect = "sqlite" THEN c ELSE writer

-----------------------------------------------------------------------------
(* What a call does next. *)

Committed == UNCHANGED <<dialect, tenants, workspaces, heads, receipts, req>>
Session == UNCHANGED <<pending, rows, writer>>

GoTo(c, label) ==
  /\ pc' = [pc EXCEPT ![c] = label]
  /\ UNCHANGED <<attempt, answer>>

\* Defect: the transaction's row locks outlive it.
EndSession_KeepsRows(c) ==
  /\ pending' = [pending EXCEPT ![c] = Nothing]
  /\ writer' = IF writer = c THEN None ELSE writer
  /\ UNCHANGED rows

EndSession(c) ==
  /\ pending' = [pending EXCEPT ![c] = Nothing]
  /\ rows' = [rows EXCEPT ![c] = {}]
  /\ writer' = IF writer = c THEN None ELSE writer

Reply(status, hash, tenantCreated, workspaceCreated) ==
  [status |-> status, hash |-> hash,
   tenantCreated |-> tenantCreated, workspaceCreated |-> workspaceCreated]

Return(c, reply) ==
  /\ pc' = [pc EXCEPT ![c] = "done"]
  /\ answer' = [answer EXCEPT ![c] = reply]
  /\ UNCHANGED attempt

Refuse(c) == Return(c, Reply("conflict", None, FALSE, FALSE))
Fail(c) == Return(c, Reply("failed", None, FALSE, FALSE))

-----------------------------------------------------------------------------
(* One attempt: _provision_scope_once. *)

TenantRows(c) == {t \in tenants : t.id = Mine(c).id}
WorkspaceRows(c) == {w \in workspaces : w.id = MineToo(c).id}

\* Receipts of the scope, one in all.
ReceiptsFor(c) ==
  {r \in receipts : r.workspace.tenant = Mine(c).id /\ r.workspace.id = MineToo(c).id}

\* The committed workspace is the one asked for: its identity, its streams, and
\* a receipt that binds tenant and workspace.
Identical(c) ==
  /\ Mine(c) \in TenantRows(c)
  /\ MineToo(c) \in WorkspaceRows(c)
  /\ MineToo(c).id \in heads
  /\ \A r \in ReceiptsFor(c) : r.tenant = Mine(c) /\ r.workspace = MineToo(c)

\* Defect: a replay does not look its receipt up.
HashFor_Missing(c) == None

HashFor(c) == IF ReceiptsFor(c) = {} THEN None ELSE (CHOOSE r \in ReceiptsFor(c) : TRUE).by

SelectTenant(c) ==
  /\ pc[c] = "tenant"
  /\ MayLock(c, Mine(c).id)
  /\ \/ TenantRows(c) = {} /\ GoTo(c, "newtenant") /\ Session
     \/ Mine(c) \in TenantRows(c) /\ Lock(c, Mine(c).id) /\ GoTo(c, "workspace")
        /\ UNCHANGED <<pending, writer>>
     \/ TenantRows(c) \ {Mine(c)} # {} /\ EndSession(c) /\ Refuse(c)
  /\ Committed

InsertTenant(c) ==
  /\ pc[c] = "newtenant"
  /\ MayInsertTenant(c)
  /\ \/ /\ \E t \in tenants : ClashTenants(t, Mine(c))
        /\ EndSession(c)
        /\ GoTo(c, "read")
     \/ /\ \A t \in tenants : ~ClashTenants(t, Mine(c))
        /\ pending' = [pending EXCEPT ![c].tenant = {Mine(c)}]
        /\ TakeWriter(c)
        /\ GoTo(c, "workspace")
        /\ UNCHANGED rows
  /\ Committed

SelectWorkspace(c) ==
  /\ pc[c] = "workspace"
  /\ MayLock(c, MineToo(c).id)
  /\ \/ WorkspaceRows(c) = {} /\ GoTo(c, "newworkspace") /\ Session
     \/ /\ WorkspaceRows(c) # {} /\ Identical(c)
        /\ EndSession(c)
        /\ Return(c, Reply("EXISTING", HashFor(c), FALSE, FALSE))
     \/ WorkspaceRows(c) # {} /\ ~Identical(c) /\ EndSession(c) /\ Refuse(c)
  /\ Committed

InsertWorkspace(c) ==
  /\ pc[c] = "newworkspace"
  /\ MayInsertWorkspace(c)
  /\ \/ /\ \E w \in workspaces : ClashWorkspaces(w, MineToo(c))
        /\ EndSession(c)
        /\ GoTo(c, "read")
     \/ /\ \A w \in workspaces : ~ClashWorkspaces(w, MineToo(c))
        /\ pending' = [pending EXCEPT ![c].workspace = {MineToo(c)}]
        /\ TakeWriter(c)
        /\ GoTo(c, "streams")
        /\ UNCHANGED rows
  /\ Committed

\* Defect: a receipt is written for a new tenant only.
NewReceipt_TenantOnly(c) ==
  IF pending[c].tenant = {} THEN {}
  ELSE {[by |-> c, tenant |-> Mine(c), workspace |-> MineToo(c)]}

NewReceipt(c) == {[by |-> c, tenant |-> Mine(c), workspace |-> MineToo(c)]}

\* The workspace's stream heads, then the first receipt of its chain.
InsertStreams(c) ==
  /\ pc[c] = "streams"
  /\ pending' = [pending EXCEPT ![c].heads = {MineToo(c).id}, ![c].receipt = NewReceipt(c)]
  /\ GoTo(c, "commit")
  /\ UNCHANGED <<rows, writer>> /\ Committed

Install(c) ==
  /\ tenants' = tenants \cup pending[c].tenant
  /\ workspaces' = workspaces \cup pending[c].workspace
  /\ heads' = heads \cup pending[c].heads
  /\ receipts' = receipts \cup pending[c].receipt
  /\ UNCHANGED <<dialect, req>>

Commit(c) ==
  /\ pc[c] = "commit"
  /\ Install(c)
  /\ EndSession(c)
  /\ Return(c, Reply("CREATED", c, pending[c].tenant # {}, TRUE))

CommitReplyLost(c) ==
  /\ pc[c] = "commit"
  /\ Install(c)
  /\ EndSession(c)
  /\ Fail(c)

\* A database error or a crash of the process; it undoes the whole creation.
Abort(c) ==
  /\ pc[c] # "done"
  /\ EndSession(c)
  /\ Fail(c)
  /\ Committed

-----------------------------------------------------------------------------
(* After a constraint refused an insert: provision_scope.  The tenant's row *)
(* is read first, the rest after it; a tenant that is missing then has lost *)
(* its slug to another for good, so the reads may stand as one.             *)

\* _read_provisioned_scope: the winner's scope, if it is this one.
ReadScope(c) ==
  /\ pc[c] = "read"
  /\ \/ Identical(c) /\ Return(c, Reply("EXISTING", HashFor(c), FALSE, FALSE))
     \/ ~Identical(c) /\ attempt[c] = 1 /\ GoTo(c, "recheck")
     \/ ~Identical(c) /\ attempt[c] = 2 /\ Refuse(c)
  /\ Session /\ Committed

\* Defect: a lost insert is final.
Retryable_Never(c) == FALSE

\* The tenant is the one asked for and the workspace is not there.
Retryable(c) == Mine(c) \in TenantRows(c) /\ WorkspaceRows(c) = {}

\* _retryable_missing_workspace ...
Recheck(c) ==
  /\ pc[c] = "recheck"
  /\ \/ Retryable(c) /\ GoTo(c, "slug")
     \/ ~Retryable(c) /\ Refuse(c)
  /\ Session /\ Committed

SlugTaken(c) == \E w \in workspaces : w.tenant = Mine(c).id /\ w.slug = MineToo(c).slug

\* ... and nobody has its slug: once more.
RecheckSlug(c) ==
  /\ pc[c] = "slug"
  /\ \/ SlugTaken(c) /\ Refuse(c)
     \/ /\ ~SlugTaken(c)
        /\ attempt' = [attempt EXCEPT ![c] = 2]
        /\ pc' = [pc EXCEPT ![c] = "tenant"]
        /\ UNCHANGED answer
  /\ Session /\ Committed

-----------------------------------------------------------------------------
Progress(c) ==
  \/ SelectTenant(c) \/ InsertTenant(c) \/ SelectWorkspace(c) \/ InsertWorkspace(c)
  \/ InsertStreams(c) \/ Commit(c) \/ ReadScope(c) \/ Recheck(c) \/ RecheckSlug(c)

Terminated ==
  /\ \A c \in Call : pc[c] = "done"
  /\ UNCHANGED vars

Next ==
  \/ \E c \in Call : Progress(c) \/ CommitReplyLost(c) \/ Abort(c)
  \/ Terminated

Spec == Init /\ [][Next]_vars

\* A call the database and the process keep alive runs on.
FairSpec == Spec /\ \A c \in Call : WF_vars(Progress(c))

-----------------------------------------------------------------------------
(* Correctness. *)

Pending == [tenant : SUBSET Tenant, workspace : SUBSET Workspace,
            heads : SUBSET WorkspaceId, receipt : SUBSET Receipt]
ReplyType == [status : {"CREATED", "EXISTING", "conflict", "failed"},
              hash : Call \cup {None}, tenantCreated : BOOLEAN, workspaceCreated : BOOLEAN]

\* Rows, sessions and replies keep their types, and each call its labels.
TypeOK ==
  /\ dialect \in Dialects
  /\ tenants \subseteq Tenant
  /\ workspaces \subseteq Workspace
  /\ heads \subseteq WorkspaceId
  /\ receipts \subseteq Receipt
  /\ pending \in [Call -> Pending]
  /\ rows \in [Call -> SUBSET (TenantId \cup WorkspaceId)]
  /\ writer \in Call \cup {None}
  /\ req \in [Call -> Requests]
  /\ pc \in [Call -> {"tenant", "newtenant", "workspace", "newworkspace", "streams",
                      "commit", "read", "recheck", "slug", "done"}]
  /\ attempt \in [Call -> {1, 2}]
  /\ answer \in [Call -> ReplyType \cup {None}]

\* "Scope creation, stream heads, and its receipt commit together", in whichever
\* of the two attempts: no scope is ever found half provisioned.
ScopesWhole ==
  /\ \A w \in workspaces :
       /\ w.id \in heads
       /\ \E t \in tenants : t.id = w.tenant
       /\ {r \in receipts : r.workspace = w} # {}
  /\ \A r, s \in receipts : r.workspace.id = s.workspace.id => r = s
  /\ \A r \in receipts : r.tenant \in tenants /\ r.workspace \in workspaces

\* Racing calls that saw an id or a slug free do not both take it.
IdentitiesUnique ==
  /\ \A t, u \in tenants : t # u => t.id # u.id /\ t.slug # u.slug
  /\ \A w, v \in workspaces : w # v => w.id # v.id /\ (w.tenant = v.tenant => w.slug # v.slug)

\* Scopes are whole and their ids and slugs their own, and all variables of provision_scope's
\* calls keep their types.
ScopesHold == TypeOK /\ ScopesWhole /\ IdentitiesUnique

Accepted(c) == answer[c] # None /\ answer[c].status \in {"CREATED", "EXISTING"}

\* "Identical replays return the original receipt hash": every call told that
\* its scope is there names one receipt, of the call that created it, and at
\* most one call says it created the workspace, or the tenant.
RepliesAgree ==
  \A c \in Call : Accepted(c) =>
    /\ \E r \in receipts : r.by = answer[c].hash /\ r.workspace = MineToo(c)
    /\ \A d \in Call : Accepted(d) /\ d # c =>
         /\ MineToo(d).id = MineToo(c).id => answer[d].hash = answer[c].hash
         /\ MineToo(d).id = MineToo(c).id /\ answer[d].workspaceCreated
              => ~answer[c].workspaceCreated
         /\ Mine(d).id = Mine(c).id /\ answer[d].tenantCreated => ~answer[c].tenantCreated

\* Something committed contradicts what the call asks for.
Contradicted(c) ==
  \/ \E t \in tenants : t # Mine(c) /\ ClashTenants(t, Mine(c))
  \/ \E w \in workspaces :
       w # MineToo(c) /\ (w.id = MineToo(c).id \/ (w.tenant = Mine(c).id /\ w.slug = MineToo(c).slug))

Refused(c) == answer[c] # None /\ answer[c].status = "conflict"

\* "A bounded retry admits two valid workspaces racing to create the same exact
\* tenant": a conflict names a contradiction, or an identical request ran too.
ConflictsReal ==
  \A c \in Call : Refused(c) =>
    Contradicted(c) \/ \E d \in Call \ {c} : req[d] = req[c]

\* "Replaying an identical request returns EXISTING": never a conflict.  Not a property of the
\* code: _retryable_missing_workspace refuses a retry that finds its own workspace (README).
ReplayReturnsExisting ==
  \A c \in Call : Refused(c) => Contradicted(c)

\* The scopes are what the receipts bind.
Atomic == INSTANCE AtomicScopes WITH scopes <- receipts

\* Two transactions, a lost insert and the reads after it look like one instant: what a call is
\* told, a new tenant included, is true of the scopes committed when it is told.
ImplementsScopes == Atomic!Spec

\* A call that is not struck by an error returns; row locks, inserts that wait
\* and the write lock never close a circle.
EveryCallReturns == \A c \in Call : <>(pc[c] = "done")
=============================================================================
