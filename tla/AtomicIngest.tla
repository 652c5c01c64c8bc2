---------------------------- MODULE AtomicIngest ----------------------------
(***************************************************************************)
(* What ingest promises of its durable rows and answers, however many      *)
(* processes handle a delivery: a key of a workspace is bound to one       *)
(* request for good; only what a receipt says is projected, and only as    *)
(* news; "ok" is said while the entity's latest version says what the      *)
(* request says, and "conflict" while the key is bound to something else.  *)
(* Registries, clocks, crashes and the steps of a handler are left out.    *)
(***************************************************************************)
EXTENDS Naturals, Sequences

CONSTANTS Scope, Entity, EntityOf, Message

VARIABLES receipts,  \* what keys are bound to
          history,   \* versions of each entity of a scope
          answers    \* what clients were answered

vars == <<receipts, history, answers>>

Init ==
  /\ receipts = {}
  /\ history = [place \in Scope \X Entity |-> <<>>]
  /\ answers = {}

\* An event may be a replay of one the process remembers; an OTLP batch never is.
Flags(m) == IF m.route = "event" THEN BOOLEAN ELSE {FALSE}

ReceiptFor(m, replayed) ==
  [route |-> m.route, scope |-> m.scope, key |-> m.key, payload |-> m.payload,
   replayed |-> replayed]
ViewFor(m, replayed) == [payload |-> m.payload, key |-> m.key, replayed |-> replayed]

Bound(m) == {r \in receipts : r.scope = m.scope /\ r.key = m.key}
PlaceFor(m) == <<m.scope, EntityOf[m.payload]>>
Says(m, view) ==
  LET past == history[PlaceFor(m)]
  IN  past # <<>> /\ past[Len(past)] = view

Told(m, status) == answers' = answers \cup {[msg |-> m, status |-> status]}

\* The first request with a key takes it; the client may hear of a failure.
Bind(m, replayed) ==
  /\ Bound(m) = {}
  /\ receipts' = receipts \cup {ReceiptFor(m, replayed)}
  /\ UNCHANGED answers \/ Told(m, "failed")
  /\ UNCHANGED history

Project(m, replayed) ==
  /\ ReceiptFor(m, replayed) \in receipts
  /\ ~Says(m, ViewFor(m, replayed))
  /\ history' = [history EXCEPT ![PlaceFor(m)] = Append(@, ViewFor(m, replayed))]
  /\ Told(m, "ok") \/ Told(m, "failed")
  /\ UNCHANGED receipts

Confirm(m, replayed) ==
  /\ ReceiptFor(m, replayed) \in receipts
  /\ Says(m, ViewFor(m, replayed))
  /\ Told(m, "ok")
  /\ UNCHANGED <<receipts, history>>

Conflict(m, replayed) ==
  /\ Bound(m) \ {ReceiptFor(m, replayed)} # {}
  /\ Told(m, "conflict")
  /\ UNCHANGED <<receipts, history>>

\* Only a signed event is refused before it is looked at; anything may fail.
TurnAway(m) ==
  /\ \E status \in {"failed"} \cup (IF m.route = "event" THEN {"skewed", "nonce", "full", "clash"} ELSE {}) :
       Told(m, status)
  /\ UNCHANGED <<receipts, history>>

Next ==
  \E m \in Message :
    \/ TurnAway(m)
    \/ \E replayed \in Flags(m) :
         Bind(m, replayed) \/ Project(m, replayed) \/ Confirm(m, replayed) \/ Conflict(m, replayed)

Spec == Init /\ [][Next]_vars
=============================================================================
