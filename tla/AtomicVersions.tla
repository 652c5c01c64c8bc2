--------------------------- MODULE AtomicVersions ---------------------------
(***************************************************************************)
(* What the operational stream promises: every entity has a history of     *)
(* versions, and a call adds to it at one instant, on the condition it     *)
(* named, judged against the history as it is at that instant.  A version  *)
(* is its number's place in the history; only its content is kept.         *)
(***************************************************************************)
EXTENDS Naturals, Sequences

CONSTANTS Call, Entity, Requests, None

VARIABLES req, history
vars == <<req, history>>

Init ==
  /\ req \in [Call -> Requests]
  /\ history = [e \in Entity |-> <<>>]

Content(d) == [body |-> d.body, label |-> d.label]

\* No version yet, or one of other content.
Differs(d) ==
  LET past == history[d.entity]
  IN  past = <<>> \/ past[Len(past)] # Content(d)

OtherBody(d) ==
  LET past == history[d.entity]
  IN  past = <<>> \/ past[Len(past)].body # d.body

Extend(drafts) ==
  history' = [e \in Entity |->
                IF \E d \in drafts : d.entity = e
                THEN Append(history[e], Content(CHOOSE d \in drafts : d.entity = e))
                ELSE history[e]]

Drafts(c) == {req[c].drafts[i] : i \in DOMAIN req[c].drafts}

\* Insert only what is not there.
Insert(c) ==
  /\ req[c].op = "insert"
  /\ \E d \in Drafts(c) : history[d.entity] = <<>> /\ Extend({d})

\* Replace the version the caller expects, or whatever version there is.
Upsert(c) ==
  /\ req[c].op = "upsert"
  /\ \E d \in Drafts(c) :
       /\ req[c].expected \in {None, Len(history[d.entity])}
       /\ Extend({d})

\* A projection adds a version only if its body is news.
Project(c) ==
  /\ req[c].op = "project"
  /\ \E d \in Drafts(c) : OtherBody(d) /\ Extend({d})

\* A batch adds, together, every draft that is news and nothing else.
Batch(c) ==
  /\ req[c].op \in {"batch", "seed"}
  /\ Extend({d \in Drafts(c) : Differs(d)})

\* Seeding may instead converge one entity at a time.
Converge(c) ==
  /\ req[c].op = "seed"
  /\ \E d \in Drafts(c) : Differs(d) /\ Extend({d})

Next ==
  /\ \E c \in Call : Insert(c) \/ Upsert(c) \/ Project(c) \/ Batch(c) \/ Converge(c)
  /\ UNCHANGED req

Spec == Init /\ [][Next]_vars
=============================================================================
