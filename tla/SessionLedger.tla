----------------------------- MODULE SessionLedger -----------------------------
(***************************************************************************)
(* The session ledger of lyte_engine/memory.py and the fixed source        *)
(* connector of lyte_engine/sources.py.  A caller reads the workflow runs  *)
(* of a repository, mints a receipt under a placeholder scope, mints it   *)
(* again for its own session and appends it; or it receipts an analysis of *)
(* its own.  All sessions share one table, whose key is the receipt id.   *)
(* A receipt id is a digest of a body, so it stands here for that body;   *)
(* the truth label follows from the kind and is left out.                  *)
(***************************************************************************)
EXTENDS Integers, Sequences, FiniteSets, SequencesExt

CONSTANTS Caller, SessionOf,  \* the session whose token each caller holds
          Content,            \* what the callers analyse
          Window,             \* the rows that recent returns at most
          Horizon,            \* bound on the clock
          Versions,           \* bound on the run lists that GitHub publishes
          Calls               \* bound on the calls

VARIABLES rows,       \* the observations table
          now,
          published,  \* the instant at which each run list replaced the one before
          stage, fetched,
          minted,     \* the receipt that each caller holds
          begun,
          acked,      \* what append has returned for: session, receipt id and payload
          shown       \* the rows that were read or cited last, and for which session

sessionVars == <<rows, now, published, stage, fetched, minted, begun, acked, shown>>
Idle == UNCHANGED <<now, published, begun>>

Placeholder == 0   \* the scope of 64 zeros
NoReceipt == <<>>

\* A session is the digest of a token, which is not 64 zeros.
ASSUME SessionsAssumption == \A c \in Caller : SessionOf[c] # Placeholder

-----------------------------------------------------------------------------
(* Receipts and rows. *)

\* Minting and minting again digest bodies of different fields, so their ids differ in form.
Id(form, kind, scope, payload, url, at) == <<form, kind, scope, payload, url, at>>

\* An observation that names no instant has that of the clock; one without a source has none.
Minted(scope, kind, payload, url) ==
  LET at == IF url THEN now ELSE 0
  IN  [id |-> Id("minted", kind, scope, payload, url, at),
       scope |-> scope, kind |-> kind, payload |-> payload, url |-> url, at |-> at]

\* Defect: the scope is replaced and the id kept.
Rebound_KeepsId(r, scope) == [r EXCEPT !.scope = scope]
Rebound(r, scope) ==
  [r EXCEPT !.scope = scope, !.id = Id("rebound", r.kind, scope, r.payload, r.url, r.at)]

\* The row that append writes: an instant of 0.0 counts as none.
RowOf(r, kind, summary) ==
  [id |-> r.id, scope |-> r.scope, kind |-> kind, payload |-> r.payload, url |-> r.url,
   at |-> IF r.at = 0 THEN now ELSE r.at, summary |-> summary]

\* INSERT OR IGNORE.
Inserted(row) == IF \E r \in rows : r.id = row.id THEN rows ELSE rows \cup {row}

OfSession(s) == {r \in rows : r.scope = s}

\* The newest rows of a session, latest first; equal instants come in any order.
Recent(s) ==
  LET mine == OfSession(s)
      size == IF Cardinality(mine) < Window THEN Cardinality(mine) ELSE Window
  IN  {list \in [1 .. size -> mine] :
         /\ IsInjective(list)
         /\ \A i, j \in 1 .. size : i < j => list[i].at >= list[j].at
         /\ \A r \in mine \ Range(list) : \A i \in 1 .. size : list[i].at >= r.at}

-----------------------------------------------------------------------------
(* The answer catalog.  The first topic that a question touches, in this order, decides. *)

Topics == {"impact", "service", "agent", "journey", "source", "other"}

\* Places among the records, latest first.
OfKind(records, kinds) == {i \in DOMAIN records : records[i].kind \in kinds}
At(records, places) == {records[i] : i \in places}
First(records, places) == At(records, {i \in places : \A j \in places : i <= j})

\* The services of an analysis with the highest burn; the name breaks a tie, so any may be it.
Hottest(records) ==
  LET burning == {r \in At(records, OfKind(records, {"analysis"})) : r.summary.burn > 0}
  IN  {r \in burning : \A q \in burning : q.summary.burn <= r.summary.burn}

\* The sets of records that an answer may cite; one without any is labelled UNAVAILABLE.
Citations(topic, records) ==
  CASE topic = "impact" -> {At(records, OfKind(records, {"analysis", "journey"}))}
    [] topic = "service" -> IF Hottest(records) = {} THEN {{}} ELSE {{r} : r \in Hottest(records)}
    [] topic = "agent" ->
         {First(records, {i \in OfKind(records, {"analysis"}) : records[i].summary.agents})}
    [] topic = "journey" -> {First(records, OfKind(records, {"journey"}))}
    [] topic = "source" -> {First(records, OfKind(records, {"source"}))}
    [] OTHER -> {At(records, {i \in DOMAIN records : i <= 5})}

-----------------------------------------------------------------------------
(* The callers. *)

SessionInit ==
  /\ rows = {} /\ now = 1 /\ published = <<1>>
  /\ stage = [c \in Caller |-> "idle"]
  /\ fetched = [c \in Caller |-> 0]
  /\ minted = [c \in Caller |-> NoReceipt]
  /\ begun = 0 /\ acked = {}
  /\ shown = [session |-> Placeholder, rows |-> {}]

Tick ==
  /\ now < Horizon
  /\ now' = now + 1
  /\ UNCHANGED <<rows, published, stage, fetched, minted, begun, acked, shown>>

\* External: GitHub has another list of runs.
Publish ==
  /\ Len(published) < Versions
  /\ published' = Append(published, now)
  /\ UNCHANGED <<rows, now, stage, fetched, minted, begun, acked, shown>>

\* A response that is redirected, too large or not the schema raises, and nothing has changed.
Fetch(c) ==
  /\ stage[c] = "idle" /\ begun < Calls
  /\ begun' = begun + 1
  /\ fetched' = [fetched EXCEPT ![c] = Len(published)]
  /\ stage' = [stage EXCEPT ![c] = "fetched"]
  /\ UNCHANGED <<rows, now, published, minted, acked, shown>>

Observe(c) ==
  /\ stage[c] = "fetched"
  /\ minted' = [minted EXCEPT ![c] = Minted(Placeholder, "github-actions", fetched[c], TRUE)]
  /\ fetched' = [fetched EXCEPT ![c] = 0]
  /\ stage' = [stage EXCEPT ![c] = "held"]
  /\ Idle /\ UNCHANGED <<rows, acked, shown>>

Rebind(c) ==
  /\ stage[c] = "held" /\ minted[c].scope = Placeholder
  /\ minted' = [minted EXCEPT ![c] = Rebound(minted[c], SessionOf[c])]
  /\ Idle /\ UNCHANGED <<rows, stage, fetched, acked, shown>>

Analyze(c, payload, url) ==
  /\ stage[c] = "idle" /\ begun < Calls
  /\ begun' = begun + 1
  /\ minted' = [minted EXCEPT ![c] = Minted(SessionOf[c], "analysis", payload, url)]
  /\ stage' = [stage EXCEPT ![c] = "held"]
  /\ UNCHANGED <<rows, now, published, fetched, acked, shown>>

\* One immediate transaction; a receipt of another scope is refused.
AppendRow(c, kind, summary) ==
  /\ stage[c] = "held" /\ minted[c].scope = SessionOf[c]
  /\ kind = "source" <=> minted[c].kind = "github-actions"
  /\ rows' = Inserted(RowOf(minted[c], kind, summary))
  /\ stage' = [stage EXCEPT ![c] = "appended"]
  /\ Idle /\ UNCHANGED <<fetched, minted, acked, shown>>

Return(c) ==
  /\ stage[c] = "appended"
  /\ acked' = acked \cup {[session |-> SessionOf[c], id |-> minted[c].id,
                           payload |-> minted[c].payload]}
  /\ minted' = [minted EXCEPT ![c] = NoReceipt]
  /\ stage' = [stage EXCEPT ![c] = "idle"]
  /\ Idle /\ UNCHANGED <<rows, fetched, shown>>

Get(scope) ==
  /\ \E r \in OfSession(scope) : shown' = [session |-> scope, rows |-> {r}]
  /\ Idle /\ UNCHANGED <<rows, stage, fetched, minted, acked>>

Ask(scope, topic) ==
  /\ \E records \in Recent(scope) :
       \E cited \in Citations(topic, records) :
         shown' = [session |-> scope, rows |-> cited]
  /\ Idle /\ UNCHANGED <<rows, stage, fetched, minted, acked>>

\* The process ends: what it held is lost, the table stays.
ProcessEnds ==
  /\ stage' = [c \in Caller |-> "idle"]
  /\ fetched' = [c \in Caller |-> 0]
  /\ minted' = [c \in Caller |-> NoReceipt]
  /\ Idle /\ UNCHANGED <<rows, acked, shown>>

\* What the answers read of a summary; only an analysis has any of it.
Summaries(kind) ==
  {[burn |-> 0, agents |-> TRUE]} \cup
  (IF kind = "analysis" THEN {[burn |-> 1, agents |-> FALSE]} ELSE {})

SessionNext ==
  \/ Tick \/ Publish \/ ProcessEnds
  \/ \E c \in Caller :
       \/ Fetch(c) \/ Observe(c) \/ Rebind(c) \/ Return(c)
       \/ \E payload \in Content, url \in BOOLEAN : Analyze(c, payload, url)
       \/ \E kind \in {"analysis", "journey", "source"} :
            \E summary \in Summaries(kind) : AppendRow(c, kind, summary)
  \/ \E scope \in Range(SessionOf) : Get(scope) \/ \E topic \in Topics : Ask(scope, topic)

SessionSpec == SessionInit /\ [][SessionNext]_sessionVars

-----------------------------------------------------------------------------
(* Properties. *)

\* What append returned for is durable in the caller's own session, with its payload.
AppendsStay ==
  \A a \in acked : \E r \in OfSession(a.session) : r.id = a.id /\ r.payload = a.payload

\* What is read, and what an answer cites, is of the caller's session and never changes.
ReadingsStay == shown.rows \subseteq OfSession(shown.session)

\* A source row is not dated before what it records was published, and what names no source is
\* in a session once, whatever was retried.
RowsSound ==
  /\ \A r \in rows : r.kind = "source" => published[r.payload] <= r.at
  /\ \A r, q \in rows :
       ~r.url /\ ~q.url /\ r.scope = q.scope /\ r.payload = q.payload => r = q

SessionsHold == AppendsStay /\ ReadingsStay /\ RowsSound

=============================================================================
