---------------------------- MODULE AtomicScopes ----------------------------
(***************************************************************************)
(* What provisioning promises: a call is decided at one instant, by the    *)
(* scopes that are there at that instant.  It creates its scope whole, or  *)
(* is told of the call that did, or is refused by what is there, or fails. *)
(* A scope is a tenant, a workspace of it, and the call that created it.   *)
(***************************************************************************)
CONSTANTS Call, Requests, None

VARIABLES req,     \* what each call asks for
          scopes,  \* the scopes there are
          answer   \* what each call was told

vars == <<req, scopes, answer>>

Init ==
  /\ req \in [Call -> Requests]
  /\ scopes = {}
  /\ answer = [c \in Call |-> None]

Tell(c, status, hash, tenantCreated, workspaceCreated) ==
  answer' = [answer EXCEPT ![c] =
    [status |-> status, hash |-> hash,
     tenantCreated |-> tenantCreated, workspaceCreated |-> workspaceCreated]]

Same(s, r) == s.tenant = r.tenant /\ s.workspace = r.workspace

\* Another tenant has the id or the slug, or another workspace has.
Contradicts(s, r) ==
  \/ s.tenant # r.tenant /\ (s.tenant.id = r.tenant.id \/ s.tenant.slug = r.tenant.slug)
  \/ /\ s.workspace # r.workspace
     /\ \/ s.workspace.id = r.workspace.id
        \/ s.workspace.tenant = r.workspace.tenant /\ s.workspace.slug = r.workspace.slug

\* The answer says whether the tenant is new; it may be lost, the scope is there.
Create(c) ==
  /\ \A s \in scopes : ~Same(s, req[c]) /\ ~Contradicts(s, req[c])
  /\ scopes' = scopes \cup {[by |-> c, tenant |-> req[c].tenant, workspace |-> req[c].workspace]}
  /\ \/ Tell(c, "CREATED", c, \A s \in scopes : s.tenant # req[c].tenant, TRUE)
     \/ Tell(c, "failed", None, FALSE, FALSE)

Find(c) ==
  /\ \E s \in scopes : Same(s, req[c]) /\ Tell(c, "EXISTING", s.by, FALSE, FALSE)
  /\ UNCHANGED scopes

\* A call may be refused by its own scope, when another has created it meanwhile.
Refuse(c) ==
  /\ \E s \in scopes : Same(s, req[c]) \/ Contradicts(s, req[c])
  /\ Tell(c, "conflict", None, FALSE, FALSE)
  /\ UNCHANGED scopes

Fail(c) == Tell(c, "failed", None, FALSE, FALSE) /\ UNCHANGED scopes

Next ==
  /\ \E c \in Call : answer[c] = None /\ (Create(c) \/ Find(c) \/ Refuse(c) \/ Fail(c))
  /\ UNCHANGED req

Spec == Init /\ [][Next]_vars
=============================================================================
