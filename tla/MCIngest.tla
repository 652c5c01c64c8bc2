------------------------------- MODULE MCIngest -------------------------------
(* Small instances of Ingest for TLC. *)
EXTENDS Ingest, TLC

CONSTANTS s1, s2, k1, k2, n1, n2, n3, n4, pa, pb, pc, ea, ec

\* Two bodies about one entity, and an OTLP batch.
Subjects == (pa :> ea) @@ (pb :> ea) @@ (pc :> ec)

Event(s, k, p, n, t) ==
  [route |-> "event", scope |-> s, key |-> k, payload |-> p, nonce |-> n, signedAt |-> t]
Otlp(s, k, p) ==
  [route |-> "otlp", scope |-> s, key |-> k, payload |-> p, nonce |-> None, signedAt |-> 0]

\* A delivery, its retry signed afresh, a second event of the entity, the key
\* in another workspace, and an OTLP batch that takes the key.
Delivered == Event(s1, k1, pa, n1, 1)
Retried   == Event(s1, k1, pa, n2, 2)
Traffic ==
  {Delivered, Retried, Event(s1, k2, pb, n3, 1), Event(s2, k1, pb, n4, 1), Otlp(s1, k1, pc)}

\* The delivery and its retry alone.
Retries == {Delivered, Retried}

Symmetry == Permutations(Process)
=============================================================================
