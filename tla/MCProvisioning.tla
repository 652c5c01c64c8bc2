---------------------------- MODULE MCProvisioning ----------------------------
(* Small instances of Provisioning for TLC. *)
EXTENDS Provisioning, TLC

CONSTANTS t1, t2, w1, w2, x, y, n, m

Scope(t, ts, tn, w, ws, wn) ==
  [tenant |-> [id |-> t, slug |-> ts, name |-> tn],
   workspace |-> [id |-> w, tenant |-> t, slug |-> ws, name |-> wn]]

\* Two workspaces of one tenant, the second's slug or the tenant's name taken
\* otherwise, and another tenant with the first's slug or workspace id.
Rivals ==
  {Scope(t1, x, n, w1, x, n), Scope(t1, x, n, w2, y, n), Scope(t1, x, n, w2, x, n),
   Scope(t1, x, m, w2, y, n), Scope(t2, x, n, w2, x, n), Scope(t2, y, n, w1, x, n)}

\* Two workspaces of one tenant.
Replays == {Scope(t1, x, n, w1, x, n), Scope(t1, x, n, w2, y, n)}

Symmetry == Permutations(Call)
=============================================================================
