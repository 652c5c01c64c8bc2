----------------------------- MODULE MCLyteStore -----------------------------
(* Small instances of LyteStore for TLC. *)
EXTENDS LyteStore, TLC

CONSTANTS s1, s2, s3, k1, k2, d1, d2, d3

Ask(op, s, key, d, label) == [op |-> op, scope |-> s, key |-> key, digest |-> d, label |-> label]

\* Keyed receipts that agree and disagree with one another, a bundle on the
\* same key, an unkeyed receipt and a lone memory and trace.
OneScope ==
  {Ask("receipt", s1, k1, d1, "MEASURED"), Ask("receipt", s1, k1, d2, "MEASURED"),
   Ask("receipt", s1, None, d1, "SAMPLE"), Ask("bundle", s1, k1, d3, "MEASURED"),
   Ask("memory", s1, None, d1, "REPORTED"), Ask("trace", s1, None, d1, "MEASURED"),
   Ask("verify", s1, None, d1, "MEASURED")}

\* Three workspaces, one of them not provisioned; keys that collide and keys
\* that do not, so that a collision on a sequence is not one on a key; labels
\* that carry a memory and labels that do not.
ThreeScopes ==
  {Ask("receipt", s1, k1, d1, "MODELED"), Ask("receipt", s1, k2, d2, "MODELED"),
   Ask("receipt", s2, k1, d1, "MODELED"), Ask("receipt", s1, None, d1, "MODELED"),
   Ask("bundle", s1, k1, d3, "SAMPLE"), Ask("receipt", s3, None, d1, "MEASURED")}
    \cup {Ask("memory", s1, None, d1, label) : label \in {"MEASURED", "MODELED", "SAMPLE"}}

\* Bundles, their retries and observations that cite them.
Retries ==
  {Ask("bundle", s1, k1, d3, "MEASURED"), Ask("memory", s1, None, d1, "MEASURED")}

\* Writers and a reader of the receipts chain.
Audits ==
  {Ask("receipt", s1, k1, d1, "MEASURED"), Ask("verify", s1, None, d1, "MEASURED")}

Symmetry == Permutations(Call)
=============================================================================
