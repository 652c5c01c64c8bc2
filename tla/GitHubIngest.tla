----------------------------- MODULE GitHubIngest -----------------------------
(***************************************************************************)
(* POST /ingest/github of lyte/api/routes_ingest.py over the connector of  *)
(* lyte/connectors/github_actions.py: an upstream list of workflow runs is *)
(* read page by page while it changes, the observation's receipt is        *)
(* appended, then the observation is projected as the SOURCE entity of the *)
(* repository.  The handler runs in threads of several processes; the      *)
(* store's calls are atomic steps (LyteStore and OperationalStore).        *)
(***************************************************************************)
EXTENDS Integers, Sequences, FiniteSets, SequencesExt

CONSTANTS Request, GitHubKey,
          Item,        \* the run of every id, as the upstream shows it
          FirstRuns,   \* how many runs the upstream begins with
          PerPage, MaxPages,
          MaxRemovals  \* bound on removals; additions are bounded by Item

Ids == DOMAIN Item

\* Ids are positive and given in order, pages have room, and instants are counted from 1 (0 is none).
ASSUME RunsAssumption ==
  /\ Ids \subseteq Nat \ {0} /\ FirstRuns \in Nat /\ 1 .. FirstRuns \subseteq Ids
  /\ PerPage \in Nat \ {0} /\ MaxPages \in Nat
  /\ \A i \in Ids : Item[i].created \in Nat /\ Item[i].started \in Nat /\ Item[i].updated \in Nat

VARIABLES upstream,   \* ids of the repository's runs, newest first
          removals,   \* runs removed so far
          key,        \* each request's Idempotency-Key
          phase, fetch, result,
          asked,      \* the ETag a request sends in If-None-Match
          asOf,       \* the upstream and the removals when the first page was read
          receipts,   \* durable receipts: their key and their content
          versions,   \* the entity's versions: body and cited receipt
          current,    \* what each request has read of the entity
          answer

gitHubVars == <<upstream, removals, key, phase, fetch, result, asked, asOf, receipts, versions,
          current, answer>>
upstreamVars == <<upstream, removals>>
store == <<receipts, versions>>

-----------------------------------------------------------------------------
(* Pages and results. *)

Page(list, n) ==
  SubSeq(list, (n - 1) * PerPage + 1, IF n * PerPage < Len(list) THEN n * PerPage ELSE Len(list))
\* The ETag stands for what the first page shows, with its count.
ETag(list) == <<Len(list), Page(list, 1)>>
NoETag == <<>>

\* _parse_run: a positive id, timestamps in order; run_started_at may be absent (0).
Started(item) == IF item.started = 0 THEN item.created ELSE item.started
ValidRun(item) == item.created <= Started(item) /\ Started(item) <= item.updated
Run(id) ==
  [id |-> id,
   duration |-> IF Item[id].completed THEN Item[id].updated - Started(Item[id]) ELSE -1]

NewFetch == [pages |-> 0, count |-> -1, runs |-> <<>>, etag |-> NoETag]

Result(state, f, complete) ==
  [state |-> state, runs |-> IF state \in {"OBSERVED", "OBSERVED_PARTIAL"} THEN f.runs ELSE <<>>,
   etag |-> f.etag, pages |-> f.pages, complete |-> complete]
Unavailable(f) == Result("UNAVAILABLE", [f EXCEPT !.etag = NoETag], FALSE)
NoResult == Result("NONE", NewFetch, FALSE)

\* The receipt says how many runs were seen, not which.
ReceiptOf(r) ==
  [state |-> r.state, count |-> Len(r.runs), etag |-> r.etag, pages |-> r.pages,
   complete |-> r.complete]

Seen(f) == {f.runs[i].id : i \in DOMAIN f.runs}

\* Defect: a run that two pages show counts twice.
NoneRepeated_Unchecked(f, page) == TRUE
NoneRepeated(f, page) ==
  /\ \A i \in DOMAIN page : page[i] \notin Seen(f)
  /\ IsInjective(page)

\* A page is refused with the whole observation if the census has moved.
PageConsistent(f, page, count) ==
  /\ f.count \in {-1, count}
  /\ Len(f.runs) + Len(page) <= count
  /\ \A i \in DOMAIN page : ValidRun(Item[page[i]])
  /\ NoneRepeated(f, page)

Extended(f, page, count, etag) ==
  [pages |-> f.pages + 1, count |-> count,
   runs |-> f.runs \o [i \in DOMAIN page |-> Run(page[i])],
   etag |-> IF f.count = -1 THEN etag ELSE f.etag]

\* The last page is short, completes the count, or is the last one allowed.
LastPage(f, page) == Len(page) < PerPage \/ Len(f.runs) = f.count \/ f.pages = MaxPages

Observed(f) ==
  IF Len(f.runs) = f.count THEN Result("OBSERVED", f, TRUE)
  ELSE Result("OBSERVED_PARTIAL", f, FALSE)

-----------------------------------------------------------------------------
(* The upstream. *)

NewRun ==
  LET next == Len(upstream) + removals + 1
  IN  /\ next \in Ids
      /\ upstream' = <<next>> \o upstream
      /\ UNCHANGED <<removals, key, phase, fetch, result, asked, asOf, receipts, versions,
                     current, answer>>

RemoveRun ==
  /\ removals < MaxRemovals
  /\ \E i \in DOMAIN upstream : upstream' = RemoveAt(upstream, i)
  /\ removals' = removals + 1
  /\ UNCHANGED <<key, phase, fetch, result, asked, asOf, receipts, versions, current, answer>>

-----------------------------------------------------------------------------
(* fetch_workflow_runs *)

Moves(r, from, to) == phase[r] = from /\ phase' = [phase EXCEPT ![r] = to]

\* Every outcome of the fetch goes on to the receipt.
Fetched(r, outcome) ==
  /\ Moves(r, "fetching", "fetched")
  /\ fetch' = [fetch EXCEPT ![r] = NewFetch]
  /\ result' = [result EXCEPT ![r] = outcome]

\* The client may send the ETag of a result it was answered.
Begin(r) ==
  /\ Moves(r, "new", "fetching")
  /\ \E etag \in {NoETag} \cup {answer[q].etag : q \in {q \in Request : phase[q] = "ok"}} :
       asked' = [asked EXCEPT ![r] = etag]
  /\ UNCHANGED <<upstreamVars, key, fetch, result, asOf, store, current, answer>>

Remember(r) == asOf' = IF fetch[r].pages = 0 THEN [asOf EXCEPT ![r] = [list |-> upstream, removals |-> removals]]
               ELSE asOf

\* 304 to the first page: nothing was listed, the ETag is still current.
NotModified(r) ==
  /\ fetch[r].pages = 0
  /\ asked[r] # NoETag /\ asked[r] = ETag(upstream)
  /\ Remember(r)
  /\ LET f == [fetch[r] EXCEPT !.pages = 1, !.etag = asked[r]]
     IN  Fetched(r, Result("NOT_MODIFIED", f, TRUE))
  /\ UNCHANGED <<upstreamVars, key, asked, store, current, answer>>

ReadPage(r) ==
  LET f == fetch[r]
      page == Page(upstream, f.pages + 1)
      count == Len(upstream)
      g == Extended(f, page, count, ETag(upstream))
  IN  /\ phase[r] = "fetching"
      /\ ~(f.pages = 0 /\ asked[r] # NoETag /\ asked[r] = ETag(upstream))
      /\ Remember(r)
      /\ IF ~PageConsistent(f, page, count)
         THEN Fetched(r, Unavailable([f EXCEPT !.pages = @ + 1]))
         ELSE IF LastPage(g, page)
         THEN Fetched(r, Observed(g))
         ELSE fetch' = [fetch EXCEPT ![r] = g] /\ UNCHANGED <<phase, result>>
      /\ UNCHANGED <<upstreamVars, key, asked, store, current, answer>>

\* A redirect, another status, an overflowing or malformed body (counted as a page),
\* or a transport error before the response (not counted).
PageFails(r) ==
  /\ \E n \in {0, 1} :
       LET f == [fetch[r] EXCEPT !.pages = @ + n] IN Fetched(r, Unavailable(f))
  /\ Remember(r)
  /\ UNCHANGED <<upstreamVars, key, asked, store, current, answer>>

-----------------------------------------------------------------------------
(* ingest_github_actions *)

Answer(r, status, updated) ==
  answer' = [answer EXCEPT ![r] = [status |-> status, etag |-> result[r].etag, updated |-> updated]]

\* A key stands for one content.
Agrees(mine) == \A other \in receipts : other.key = mine.key => other = mine
Mine(r) == [key |-> key[r], content |-> ReceiptOf(result[r])]

\* append_receipt: a replay finds its row.
AppendReceipt(r) ==
  /\ Agrees(Mine(r))
  /\ Moves(r, "fetched", "receipted")
  /\ receipts' = IF \E other \in receipts : other.key = key[r] THEN receipts
                 ELSE receipts \cup {Mine(r)}
  /\ UNCHANGED <<upstreamVars, key, fetch, result, asked, asOf, versions, current, answer>>

KeyConflict(r) ==
  /\ ~Agrees(Mine(r))
  /\ Moves(r, "fetched", "conflict")
  /\ Answer(r, "conflict", FALSE)
  /\ UNCHANGED <<upstreamVars, key, fetch, result, asked, asOf, store, current>>

Latest == IF versions = <<>> THEN NoResult ELSE Last(versions).body

Retains(outcome) == outcome.state = "NOT_MODIFIED"

\* get_operational for the answer, then: nothing for a 304; the latest version if it has
\* the same body (_persist_projection reads again); otherwise a conditional write.
ReadPrevious(r) ==
  /\ Moves(r, "receipted", IF Retains(result[r]) THEN "projected" ELSE "projecting")
  /\ current' = [current EXCEPT ![r] = [previous |-> Len(versions), version |-> Len(versions),
                                        own |-> Len(versions)]]
  /\ UNCHANGED <<upstreamVars, key, fetch, result, asked, asOf, store, answer>>

ReadCurrent(r) ==
  /\ Moves(r, "projecting", IF Latest = result[r] THEN "projected" ELSE "writing")
  /\ current' = [current EXCEPT ![r].version = Len(versions), ![r].own = Len(versions)]
  /\ UNCHANGED <<upstreamVars, key, fetch, result, asked, asOf, store, answer>>

\* Defect: the version that was read is not compared.
Unmoved_Any(r) == TRUE
Unmoved(r) == current[r].version = Len(versions)

Write(r) ==
  /\ Unmoved(r)
  /\ Moves(r, "writing", "projected")
  /\ versions' = Append(versions, [body |-> result[r], key |-> key[r], by |-> r])
  /\ current' = [current EXCEPT ![r].own = Len(versions) + 1]
  /\ UNCHANGED <<upstreamVars, key, fetch, result, asked, asOf, receipts, answer>>

\* OperationalConflict: another request's projection counts if it has the same body.
Raced(r) ==
  /\ ~Unmoved(r)
  /\ IF Latest = result[r]
     THEN Moves(r, "writing", "projected") /\ UNCHANGED answer
     ELSE Moves(r, "writing", "conflict") /\ Answer(r, "conflict", FALSE)
  /\ current' = [current EXCEPT ![r].own = Len(versions)]
  /\ UNCHANGED <<upstreamVars, key, fetch, result, asked, asOf, store>>

Respond(r) ==
  /\ Moves(r, "projected", "ok")
  /\ Answer(r, "ok", current[r].own # current[r].previous)
  /\ UNCHANGED <<upstreamVars, key, fetch, result, asked, asOf, store, current>>

\* The process dies, or the store fails: the receipt may be durable, the projection not.
Dies(r) ==
  /\ phase[r] \in {"fetched", "receipted", "projecting", "writing", "projected"}
  /\ phase' = [phase EXCEPT ![r] = "lost"]
  /\ UNCHANGED <<upstreamVars, key, fetch, result, asked, asOf, store, current, answer>>

GitHubInit ==
  /\ upstream = [i \in 1 .. FirstRuns |-> FirstRuns + 1 - i]
  /\ removals = 0
  /\ key \in [Request -> GitHubKey]
  /\ phase = [r \in Request |-> "new"]
  /\ fetch = [r \in Request |-> NewFetch]
  /\ result = [r \in Request |-> NoResult]
  /\ asked = [r \in Request |-> NoETag]
  /\ asOf = [r \in Request |-> [list |-> <<>>, removals |-> 0]]
  /\ receipts = {}
  /\ versions = <<>>
  /\ current = [r \in Request |-> [previous |-> 0, version |-> 0, own |-> 0]]
  /\ answer = [r \in Request |-> [status |-> "none", etag |-> NoETag, updated |-> FALSE]]

FetchStep(r) == Begin(r) \/ NotModified(r) \/ ReadPage(r) \/ PageFails(r)
PersistStep(r) ==
  \/ AppendReceipt(r) \/ KeyConflict(r) \/ ReadPrevious(r) \/ ReadCurrent(r) \/ Write(r)
  \/ Raced(r) \/ Respond(r) \/ Dies(r)
GitHubNext == NewRun \/ RemoveRun \/ \E r \in Request : FetchStep(r) \/ PersistStep(r)
GitHubSpec == GitHubInit /\ [][GitHubNext]_gitHubVars

-----------------------------------------------------------------------------
(* Properties. *)

\* An observation that calls itself complete is the list of runs as it was when its first page
\* was read, none skipped and none repeated, though runs were added and removed between
\* pages, as long as fewer runs were removed than a page holds (the checks of
\* fetch_workflow_runs on count and identity; beyond that a page may vanish whole).
CensusExact ==
  \A r \in Request :
    (result[r].state = "OBSERVED" /\ removals - asOf[r].removals < PerPage) =>
      /\ [i \in DOMAIN result[r].runs |-> result[r].runs[i].id] = asOf[r].list
      /\ \A i \in DOMAIN result[r].runs : result[r].runs[i].duration >= -1

\* Every projected snapshot was receipted first, under its key and with its state, count and
\* ETag; no 304 replaces a snapshot; no snapshot is projected twice in a row; and what is
\* answered ok is durable (ingest_github_actions and _persist_projection).
ProjectionsHonest ==
  /\ \A i \in DOMAIN versions :
       LET v == versions[i]
       IN  /\ [key |-> v.key, content |-> ReceiptOf(v.body)] \in receipts
           /\ v.body.state # "NOT_MODIFIED"
           /\ i > 1 => versions[i - 1].body # v.body
  /\ \A r \in Request : phase[r] = "ok" =>
       /\ Mine(r) \in receipts
       /\ result[r].state # "NOT_MODIFIED" => \E i \in DOMAIN versions : versions[i].body = result[r]
       /\ \A i \in DOMAIN versions : versions[i].by = r => answer[r].updated
=============================================================================
