------------------------- MODULE MCOperationalStore -------------------------
(* Small instances of OperationalStore for TLC. *)
EXTENDS OperationalStore, TLC

CONSTANTS e1, e2, b1, b2, here, there

Say(e, b, l) == [entity |-> e, body |-> b, label |-> l]
Ask(op, drafts) == [op |-> op, drafts |-> drafts, expected |-> None]

\* A batch and a seeding that share an entity and differ in its
\* label; a projection, an insert and an update of the entity they share.
Mixed ==
  {Ask("batch", <<Say(e1, b2, here)>>),
   Ask("seed", <<Say(e1, b2, there), Say(e2, b1, here)>>),
   Ask("project", <<Say(e1, b1, here)>>),
   Ask("insert", <<Say(e1, b1, here)>>),
   [Ask("upsert", <<Say(e1, b2, there)>>) EXCEPT !.expected = 1]}

\* Two processes seeding one fixture beside a write of another entity.
Seeds ==
  {Ask("seed", <<Say(e1, b1, here)>>), Ask("project", <<Say(e2, b1, here)>>)}

Symmetry == Permutations(Call)
=============================================================================
