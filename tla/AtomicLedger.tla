---------------------------- MODULE AtomicLedger ----------------------------
(***************************************************************************)
(* What LyteStore promises its callers, with no transactions, locks or     *)
(* hashes in sight: each call takes effect at one instant, all its streams *)
(* together or none, and an idempotency key is spent once.  A stream is    *)
(* the sequence of the calls whose rows it holds.                          *)
(***************************************************************************)
EXTENDS Naturals, Sequences

CONSTANTS Call, Scope, Requests, Traces, None

Kind == {"receipts", "idempotency", "memory", "anatomy"}
Stream == Scope \X Kind

VARIABLES req, ledger, answer
vars == <<req, ledger, answer>>

Init ==
  /\ req \in [Call -> Requests]
  /\ ledger = [st \in Stream |-> <<>>]
  /\ answer = [c \in Call |-> None]

\* How many rows a call's effect adds to each kind of stream.
Share(c, k) ==
  CASE req[c].op = "receipt" -> IF k = "receipts" \/ (k = "idempotency" /\ req[c].key # None)
                                THEN 1 ELSE 0
    [] req[c].op = "bundle"  -> IF k = "anatomy" THEN Traces ELSE 1
    [] req[c].op = "memory"  -> IF k = "memory" THEN 1 ELSE 0
    [] req[c].op = "trace"   -> IF k = "anatomy" THEN 1 ELSE 0
    [] OTHER                 -> 0

\* The calls that hold c's key.
Holders(c) ==
  LET st == <<req[c].scope, "idempotency">>
  IN  {d \in {ledger[st][i] : i \in DOMAIN ledger[st]} :
         req[c].key # None /\ req[d].key = req[c].key}

Tell(c, status, d) == answer' = [answer EXCEPT ![c] = [status |-> status, receipt |-> d]]

\* The effect of a call; "failed" when the caller never hears of it.
Write(c) ==
  /\ Holders(c) = {}
  /\ ledger' = [st \in Stream |->
                  IF st[1] = req[c].scope
                  THEN ledger[st] \o [i \in 1..Share(c, st[2]) |-> c]
                  ELSE ledger[st]]
  /\ \/ Tell(c, "ok", IF Share(c, "receipts") = 1 THEN c ELSE None)
     \/ Tell(c, "failed", None)

\* The key is spent on the same request: its receipt again.
Replay(c) ==
  /\ \E d \in Holders(c) : req[d].digest = req[c].digest /\ Tell(c, "replay", d)
  /\ UNCHANGED ledger

\* The key is spent on another request.
Conflict(c) ==
  /\ \E d \in Holders(c) : req[d].digest # req[c].digest
  /\ Tell(c, "conflict", None)
  /\ UNCHANGED ledger

\* Refused, failed, or a report on a chain: no effect.
NoEffect(c) ==
  /\ \E status \in {"rejected", "failed", "broken", "valid", "invalid"} : Tell(c, status, None)
  /\ UNCHANGED ledger

Next ==
  \E c \in Call :
    /\ answer[c] = None
    /\ Write(c) \/ Replay(c) \/ Conflict(c) \/ NoEffect(c)
    /\ UNCHANGED req

Spec == Init /\ [][Next]_vars
=============================================================================
