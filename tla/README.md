# Lyte services: specifications and proofs

TLA+ models of Lyte (`src/lyte`, `src/migrations`), their model checking with
TLC and the theorems about them that TLAPS checks. Everything here is translated
from the source; a definition's source lines are in `PROJECT.json` under
`map`.

Contents: [the system](#the-system), [hard behaviours](#what-is-hard-to-test),
[modules](#modules), [runs](#runs-and-what-they-show), [findings](#findings),
[proofs](#proofs), [limits](#what-is-only-model-checked-and-what-is-not-modelled),
[plan](#plan).

## The system

Lyte is a FastAPI service over one relational database (SQLite for local use and
the demo, PostgreSQL in production), with a page that runs in a browser. Every
durable fact is a row of an append-only stream of one workspace; each stream is a
hash chain whose last position is a row of `stream_heads`.

| component | state | operations | talks to |
|---|---|---|---|
| append-only streams (`persistence/store.py`) | `receipts`, `idempotency`, `memory`, `anatomy` rows and their heads | `append_receipt`, `append_analysis_bundle`, `append_memory`, `append_anatomy_trace`, `verify_chain` | the database, one transaction a call |
| operational entities (same file) | `operational` rows: versions of (kind, id) | `insert_operational`, `upsert_operational`, `upsert_operational_batch`, `get_operational` | the database |
| provisioning (same file, `routes_admin.py`) | tenants, workspaces, heads, provisioning receipts | `provision_scope`; `create_tenant`, `create_workspace` at startup | the database |
| ingest (`routes_ingest.py`, `connectors/generic_webhook.py`) | a `ReplayProtector` in each process: nonces and keys with expiry | events, OTLP batches, GitHub observations | appends a receipt, then projects an operational version |
| OTLP parser (`connectors/otlp_http.py`) | the record list and removed keys of the call in progress, under one lock | `parse` of traces, metrics, logs | called by ingest |
| GitHub connector (`connectors/github_actions.py`) | none; an ETag kept in the projected entity | `fetch_workflow_runs`, page by page | GitHub, ingest |
| analysis (`routes_analysis.py`) | none | verify boundary, compute, append one bundle | streams, formulas, anatomy |
| enterprise question (`intelligence/enterprise_ask.py`) | none | load each kind, its receipts, answer with evidence | operational entities, receipts |
| lists (`list_memory`, `list_receipts`, `list_operational`) | a client's offset | one page a request | the database |
| backup and restore (`persistence/preservation.py`) | a run's directory: `intent.json`, `snapshot.sqlite` / `input.sqlite`, `result.json` or `failure.json` | `backup` of a live SQLite file, `restore` into an empty PostgreSQL schema | both databases |
| schema and readiness (`migrations/`, `database.py`, `routes_health.py`) | tables, triggers, `alembic_version` | `upgrade`, `downgrade`, `create_all`, `schema_readiness` | the catalog |
| build receipt (`build_receipt.py`, `routes_health.py`) | a receipt file | generate, observe, answer | the files of the release |
| demo seeding (`demo.py`, `app.py`) | none of its own | scope, receipt, operational fixture, one memory | the store, at the start of every process |
| browser page (`ui/app.js`) | credentials, generation, pages, drawer, question, playback | clicks, timers, replies | the read routes |
| authentication, hatun, formulas, domain, telemetry | none | pure functions of requests and rows | — |
| session ledger (`lyte_engine/memory.py`, `sources.py`) | the `observations` table, receipts in hand | mint, rebind, `append`, `get`, `recent`, answers; `fetch_github_actions` | SQLite, GitHub; no route uses it, `tests/test_enterprise_runtime.py` and `tests/test_release_gates.py` do |
| rest of `lyte_engine`, `a11oy_factory`, tools | none that lasts | — | — |

Interactions: route handlers are coroutines or threadpool functions that call the
store synchronously; several processes share a database but nothing else. The
store never retries on its own except in `provision_scope` (once) and by reading
what the winner committed after an `IntegrityError`. A client that hears nothing
retries with the same `Idempotency-Key`.

What makes each component correct:

- *streams*: sequences contiguous, hashes linked, heads in agreement; a key stands
  for one receipt; a bundle is whole or absent; nothing is rewritten; what a caller
  was told stays true; memory rests on committed evidence of its workspace.
- *operational entities*: versions of an entity are 1, 2, 3, ... in stream order,
  each conditional write is judged against the state it is added to, unchanged
  drafts add nothing.
- *provisioning*: a scope is whole or absent, ids and slugs are unique, replies for
  one scope name one receipt, a refusal names a contradiction.
- *ingest*: a signed message is accepted once by a running process, a projection
  never precedes its receipt, what is answered `durable` is.
- *parser, connector*: an answer is of its own body and whole or refused; what calls
  itself a complete census is one.
- *analysis, question, lists*: what is called verified, cited or exhaustive is so,
  though it was read in several transactions.
- *backup and restore*: a snapshot is one committed state, one import takes effect,
  receipts say no more than what happened.
- *readiness, build receipt, seeding*: ready means a whole schema, VERIFIED the
  files of one release, serving a whole fixture.
- *session ledger*: what `append` returned for stays in its session, what is read or
  cited is of the session that asked, what names no source is there once.
- *page*: only records of the workspace whose credentials are in force are shown.
- *all*: waiting for row locks, the write lock or a silent server always ends.

## What is hard to test

`PROJECT.json` lists the hazards with their lines. They are of six kinds: reads
before locks (idempotency keys, versions, tenants, on PostgreSQL and, where `FOR
UPDATE` is ignored, on SQLite); replies lost after a commit, with the retries that
follow; partial progress (bundles, provisioning, receipt before projection, commit
before `result.json`, DDL statement by statement, seeding); several reads that pass
for one (pages, files, tables and revision, rows and their receipts); time and
capacity (nonce retention against timestamp skew, a registry at its bound); and
late replies to a page that has moved on. One of them has no property: the code
does not prevent it (see the divergences under Findings).

## Modules

| module | models | compared with |
|---|---|---|
| `LyteStore` | the four streams and the five calls on them, statement by statement | `AtomicLedger` |
| `OperationalStore` | the operational stream, its three writers and the two callers that handle a conflict | `AtomicVersions` |
| `Provisioning` | `provision_scope`, both attempts | `AtomicScopes` |
| `Ingest` | event and OTLP handlers of several processes, with the replay registries | `AtomicIngest` |
| `GitHubIngest` | the GitHub handler with its connector, over a list that changes between pages | — |
| `OtlpParser` | the parser and the ingestor that threads share | `Deserved`, the answer a body deserves alone |
| `AnalysisRoute` | `POST /analyze` at processes of different releases | — |
| `EnterpriseAsk` | one question against concurrent writes | — |
| `Paging` | walks through the three lists | — |
| `Preservation` | backup and restore runs, their directories, the live database and the target | — |
| `SchemaReadiness` | migration, `create_all` and the two-statement readiness check | — |
| `BuildReceipt` | generation, observation and the health routes during a deployment | — |
| `Startup` | demo seeding over starts, crashes and releases | — |
| `SessionLedger` | receipts, the table all sessions share, its answers and the fixed GitHub source | — |
| `Workbench` | the page as a system of events | — |
| `MC*` | instances for TLC | |
| `LyteStoreProofs`, `OperationalProofs`, `ProvisioningProofs`, `IngestProofs`, `PreservationProofs`, `WorkbenchProofs` | theorems about the module each is named for | |
| `ConnectorProofs` | theorems about `GitHubIngest` and `OtlpParser` | |
| `SurfaceProofs` | theorems about `Startup`, `AnalysisRoute`, `SessionLedger`, `SchemaReadiness`, `BuildReceipt`, `Paging` and `EnterpriseAsk` | |

`Ingest`, `GitHubIngest`, `AnalysisRoute` and `Startup` use the store's calls as
atomic steps, which the refinements of `AtomicLedger` and `AtomicVersions` justify.
`AtomicScopes` and `AtomicIngest` say what a client may conclude from an answer, without
transactions, registries, clocks and crashes. All four refinements are checked by runs and
are theorems.

How state and steps correspond to the code:

- **LyteStore.** `log`, `head` are committed rows; `seen` holds the heads a
  transaction has read, `lock` the row locks of `SELECT ... FOR UPDATE`, `writer`
  SQLite's write lock. One action per statement at which another transaction can
  come between: the first lookup (`BeginWrite`, `BeginReplay`, `BeginMemory`),
  `LockHead` for each stream in the order of the code, `Recheck` of the key under
  the locks (bundles), `Flush` against the unique constraints or `FlushRefused`,
  `Recover` (the second session after an `IntegrityError`), `Commit`,
  `CommitReplyLost`, `Abort`. `verify_chain` is two actions, `VerifyScan` and
  `VerifyHead`. SHA-256 is injective: a hash is (stream, sequence, writer), the
  writer standing for the data it wrote.
- **OperationalStore.** `SelectLatest`/`RowWait`/`RowWaited` are the locked read of
  the latest version, with PostgreSQL's rule that a waiter gets the row it had chosen;
  `BeginBatch` and `ReadDraft` are the batch under the head's lock; `Reread` and
  `Raced` the callers' reactions to `OperationalConflict`.
- **Provisioning.** `pending` holds each transaction's uncommitted rows, since an
  insert on PostgreSQL waits for an uncommitted rival. `Recheck` and `RecheckSlug`
  are `_retryable_missing_workspace`.
- **Ingest.** A handler runs to its first call of the store in one step (it awaits
  only for the body); every store call is a step of its own. `Crash` empties a
  process's registry and drops its request.
- **GitHubIngest.** `upstream` changes by additions at its front and by removals;
  a page is a slice of it. The handler's steps are the ETag's read, each page, the
  receipt, and the read and write of `_persist_projection`. A run keeps only its
  timestamps.
- **OtlpParser.** A body is a tree of typed nodes, as `strict_json_loads` returns
  it. The walk goes through the places of its resources, scopes, items and points in
  their order, one step a place, so that another thread may come between any two; there
  is no place below a node that is refused. Word sizes are constants.
- **AnalysisRoute.** The output is computed on arrival, references are checked one
  by one, the chain's rows and head are two reads, and the bundle is committed or
  replayed in one step. `Deploy` replaces a process by a later release.
- **EnterpriseAsk.** A request reads each kind of rows, then receipts, in steps of
  its own; `observed` is a history of which versions were the latest meanwhile.
- **Paging.** A list, its writers, and a client that follows offsets; `due` is what
  was there at its first page.
- **SchemaReadiness.** One action for each DDL statement on SQLite, one
  for the whole migration on PostgreSQL; the readiness check is two reads; `seen`
  records what was true at each instant of a request.
- **BuildReceipt.** A deployment writes one file at a time, marker included, while a
  request reads one file at a time; the generator runs between deployments. `whole`
  records which releases were completely on disk during a request.
- **Startup.** One action per transaction of `_make_runtime`. A write is refused where
  another start wrote since this one's read: the batch, which then goes item by item; an
  item (`RefuseItem`), by its version or, on SQLite, by the sequence that another entity
  took; and the memory (`RefuseMemory`): SQLite ignores the `FOR UPDATE` of the head, two
  starts that both listed no memory may compute one sequence, and `append_memory` has no
  handler for the second one's `IntegrityError`. The last two end the start. Where the
  head is read late enough, or locked, the write succeeds, so that two memories are
  possible too. `raced` records that another process wrote between the read of an item
  or of the list and the write. `LyteStore` and `OperationalStore` have the statements.
  A start that ends for want of the database itself (a lock timeout) is a `Crash`.
- **SessionLedger.** A receipt id is a digest of a body and stands for that body. A
  receipt that is minted again for a session has other fields, hence another form of
  id. The row's instant is the receipt's unless that is 0.0, which counts as none.
  The truth label follows from the kind and is left out, except that an answer
  without records is the unavailable one. `ProcessEnds` loses what callers held.
- **Preservation.** A database page is named by the write it shows; a copying pass
  that finds the database written begins again, as SQLite's backup does. A restore
  copies the snapshot, checks the digest of the backup's receipt, locks the tables,
  looks, imports, announces `COMMIT_OUTCOME_UNKNOWN`, commits, reads again. `Raise`
  is the `except` of either run, possible in each of its steps.
- **Workbench.** One action per event; a handler runs to its end, with its
  microtasks, before the next. A record is the workspace its request named and the
  mode of its page, a panel the set of records it displays. `Kept` names the two
  panels that an empty workspace leaves alone.

`MCSurfaces` puts the nine components of its table below in one instance: the
first state chooses which (`surface`), and a behaviour is that component's alone.
They share no state in these models, so nothing is lost.

Each definition named `X_Suffix` ("Defect: ...") is a variant of `X` with a
plausible bug; no specification uses it. Replacing `X` by it breaks the
property it is recorded with, which shows that the property depends on `X`.

## Runs and what they show

| run | instance | result |
|---|---|---|
| `store_pg` | 4 calls, each any of 7 requests on one workspace and one key, PostgreSQL | keys, whole bundles, truthful answers, agreeing retries |
| `store_sqlite` | 3 calls, 3 scopes (one not provisioned), 2 keys, SQLite | chains without row locks; memory rests on evidence |
| `store_fair` | 3 calls, PostgreSQL, fairness | implements `AtomicLedger`; history append-only; every call returns |
| `operational` | 3 of 5 requests, 2 entities, both databases, fairness | intact stream, linear histories, no idle versions, implements `AtomicVersions`, no deadlock |
| `ingest` | 2 processes, 5 messages, 3 deliveries, 1 crash, clock to 3 | registries hold (accepted once, keys never outnumber nonces), receipts before projections, durable answers, implements `AtomicIngest` |
| `provision` | 3 of 6 rival requests, both databases, fairness | whole scopes, unique identities, one receipt a scope, real conflicts, implements `AtomicScopes`, no deadlock |
| `preservation` | 1 backup, 2 restores, 2 source writes, 1 target write | one instant, one import, truthful receipts, results that preserve |
| `surfaces` | one of nine components | see the next table |
| `page` | 2 workspaces and the public page, 3 pages, fairness | one workspace and one mode displayed; every wait ends |
| `store_lookup`, `ingest_retry`, `page_preview` | small instances of the same modules | each violates the one property it checks: see Findings |

| component in `surfaces` | instance | property |
|---|---|---|
| OTLP parser | 2 calls of one ingestor, each with any of the bodies of `MCOtlpParser`, one deviation each; 2 resources, 2 scopes, 3 records | `OtlpSound`: each answer is its body's own, no credential or false histogram in it |
| GitHub ingest | 2 requests, 4 runs and a fifth, 1 removal, pages of 2 | `CensusExact`, `ProjectionsHonest` |
| analysis | 3 requests, 2 processes, 1 key, 2 releases | `AnalysesHold`: verified is durable, replies under a key name one bundle |
| enterprise question | 1 question of 7 intents, 3 writes | `AnswersEarned`: rows were current, receipts are durable and strong enough |
| lists | 3 lists, pages of 1, up to 4 rows, scan limit 3 | `WalksComplete`: all that was there at the first page, or the answer says it is cut |
| schema | 2 processes and a migration, 1 crash, 2 tables, both databases | `SchemaSound` |
| build receipt | 1 request, 3 files, 2 releases | `VerifiedIsARelease` |
| startup | 2 processes, 4 starts, 3 releases (the last with another scenario), 2 entities | `StartupSound`: who serves has it all, who fails was overtaken, a second memory comes of a race |
| session ledger | 3 callers of 2 sessions, 2 calls, 2 run lists, clock to 2, window of 1 | `SessionsHold` |

Why these bounds. Every race of the store is between a reader and one or two
others that commit in between: three calls give each statement a rival before and
after it, and the fourth of `store_pg` lets a retry meet two rivals. A bundle has 2 traces for the
code's 9, which is enough for several rows of one stream in one transaction.
Ingest's retention (3) is more than twice the skew (1), as 900 s is of 300 s, and the
registry's capacity (2) is reached. GitHub's lists need three pages when the fifth
run comes, and a removal with an addition keeps the count; the first
request has the first key, which loses nothing since keys are alike. Memory's
scan limit is below its largest size. The schema's second table is immutable and its first is not, so
that a crash finds tables without guards. One build file is the same in both
releases, so that a digest alone does not tell them apart. Four starts let two
processes each be interrupted and come back. `MaxWrites`,
`MaxRows`, `MaxTime`, `MaxDeliveries`, `MaxCrashes`, `MaxStarts`,
`MaxRequests`, `MaxRemovals`, `MaxVersions`, `MaxGeneration`, `MaxHides`, `Crashes`,
`Releases`, `Builds`, `Observations`, `Calls`, `Horizon` and `Versions` bound counters in guards; five generations of the page
are a boot and two changes of workspace, or a change and a hiding with its
return. Symmetry is used only in
runs without liveness properties; `AtomicIngest`, the one refinement checked under it, knows
nothing of processes. Deadlock is checked where calls wait for
locks; it is not where a system may really stop: `Ingest`, `Preservation` and the
components of `surfaces` when messages, runs and writes are used up,
the page when its user leaves it alone.

Fairness. `FairSpec` assumes weak fairness of `Progress(c)`, the steps of a
transaction that has begun: the database answers a statement that is not blocked
and a live process runs on. Weak fairness is enough because a lock that is released
stays free for a waiter until somebody takes it, and takers are finite in number.
Nothing is assumed of clients, failures or lost replies. That a call returns
therefore says that no circle of waiting transactions exists. The page's
specification is fair only to its own timers (`LoadTimesOut`, `AskTimesOut`), which
`setTimeout` guarantees while the page is visible; neither replies nor the user are
assumed to come. Each question has a timer of its own, so the fairness of `AskTimesOut`
supposes besides that nobody replaces an open question for ever.

## Findings

1. `store_lookup` (`store.py:1070`): the replay of an analysis finds its memory by
   receipt hash alone; an observation that cites the analysis receipt makes the
   lookup ambiguous, and on PostgreSQL the replay may fail as "incomplete".
2. `ingest_retry` (`generic_webhook.py:296`): `replayed` is part of the receipt, so
   a retry of a durable delivery in the same process is answered 409 "already used
   for a different request". Each retry renews the claim, so only a pause of 900 s,
   a restart or another process lets the retry through.
3. `page_preview` (`ui/app.js:104`): the graph's preview and the service filter
   counts keep the evidence of the workspace before after a change to one without
   records, where the page says that none is retained.

Divergences without a run, met while modelling:

- `store.py:1855`: `verify_chain` racing an append reports a head mismatch on an
  intact chain, and an analysis then records `receipt_chain` FAILED (stated as
  `VerifyTellsTruth` in `LyteStore`; it does not hold of the code).
- `demo.py:351`: the item-by-item fallback of seeding, meant to converge, raises the
  conflict again when one more write intervenes (`SeedingConverges` in
  `OperationalStore`; `FailuresEarned` in `Startup` says when this may happen).
- `demo.py:382`: of two first starts on one SQLite file, the one whose memory takes
  the sequence second fails with an `IntegrityError`, though the rest of the fixture
  is there and the memory too (`RefuseMemory` in `Startup`); started again, it finds it.
- `store.py:441`: an identical request that commits between two readings turns a
  provisioning replay, documented as `EXISTING`, into a conflict
  (`ReplayReturnsExisting` in `Provisioning`).
- `routes_health.py:248`: the liveness route reads the source identity again after the
  readiness contract has read it, so that one answer may combine two.
- `enterprise_ask.py:283`: the fallback that looks for a row's receipt reads the
  oldest 100 receipts, so that in a longer chain recent rows go uncited.
- `routes_ingest.py:294`: a GitHub retry whose receipt is durable, but whose upstream
  has changed since, is answered 409.
- `routes_ingest.py:220`: a replay of an older event, after a newer one of its entity,
  projects the older body as the latest.
- `routes_analysis.py:367`: after a release with other formulas the retry of a
  committed analysis gets 503, for as long as its key lasts.
- `generic_webhook.py:112`: a process's registry is keyed by idempotency key without its
  workspace; a key that two workspaces use is called a replay in the second.
- `preservation.py:264`: under steady writes of another connection a backup begins again
  until `BACKUP_TIMEOUT`.
- On SQLite a downgrade drops the triggers first; until the tables go,
  readiness still says ready (`SchemaSound` excepts a downgrade that has begun).

## Proofs

Theorems hold for every value of the constants that satisfies the named
assumptions: any number of calls, scopes, keys, traces, entities, drafts, processes,
messages, crashes, backups, restores, writes, pages of the browser, releases, starts,
sessions, runs, tables, files, observers, walks and pages of a list, and both dialects.

| theorem | says |
|---|---|
| `LyteStoreProofs!TypeCorrect`, `ChainsStayIntact` | `[]TypeOK`, `[]ChainIntact` |
| `HistoryStays` | `AppendOnly` |
| `OneReceipt`, `AnswersStayTruthful`, `RetriesGetOneReceipt` | `[]OneReceiptPerKey`, `[]AnswersTruthful`, `[]RetriesAgree` |
| `BundlesStayWhole`, `MemoriesRest` | `[]WholeBundles`, `[]MemoryRestsOnEvidence` |
| `TransactionsAreAtomic` | `ImplementsLedger`: `LyteStore` implements `AtomicLedger` |
| `OperationalProofs!StreamStaysIntact`, `HistoriesStayOne` | `[]StreamIntact`, `[]HistoriesHold` |
| `WritesAreAtomic` | `ImplementsVersions`: `OperationalStore` implements `AtomicVersions` |
| `ProvisioningProofs!TypeCorrect`, `ScopesStayWhole` | `[]TypeOK`, `[]ScopesHold` (with `IdentitiesStayUnique`) |
| `RepliesStayAgreed`, `ConflictsStayReal` | `[]RepliesAgree`, `[]ConflictsReal` |
| `ProvisioningIsAtomic` | `ImplementsScopes`: `Provisioning` implements `AtomicScopes` |
| `IngestProofs!TypeCorrect`, `RegistriesStayHonest` | `[]TypeOK`, `[]RegistriesHold` |
| `ProjectionsStaySound`, `OkStaysDurable` | `[]ProjectionsHold` (`ProjectionsStayReceipted` and `ProjectionsNeverRepeat`), `[]OkIsDurable` |
| `OtlpConflictsStayEarned` | `[]OtlpConflictsEarned` |
| `IngestIsAtomic` | `ImplementsIngest`: `Ingest` implements `AtomicIngest` |
| `PreservationProofs!TypeCorrect`, `OneImport`, `EffectsStayTruthful` | `[]TypeOK`, `[]ImportedOnce`, `[]EffectsTruthful` |
| `SnapshotsAreOneInstant`, `ResultsStayPreserved` | `[]SnapshotsAtOneInstant`, `[]ResultsPreserve` |
| `WorkbenchProofs!ScopesStayIsolated`, `ModesStayHonest` | `[]ScopeIsolation`, `[]ModeHonest` |
| `ConnectorProofs!CensusIsExact`, `ProjectionsAreHonest` | `[]CensusExact`, `[]ProjectionsHonest` |
| `ParsesStaySound` | `[]OtlpSound` |
| `SurfaceProofs!StartsAreSound`, `AnalysesStayHonest`, `SessionsStaySound` | `[]StartupSound`, `[]AnalysesHold`, `[]SessionsHold` |
| `SchemaStaysSound`, `VerifiedStaysARelease`, `WalksStayComplete` | `[]SchemaSound`, `[]VerifiedIsARelease`, `[]WalksComplete` |
| `AnswersStayEarned` | `[]AnswersEarned` |

Each rests on an invariant that is inductive, proved in the same module under the name
`...Invariance`; its parts and why they are needed follow.

*Streams.* `ChainIntact` is not inductive: a call computes its rows from heads it
read earlier. `IInv` adds `Snapshots` (a head once read is the head of a prefix of
its stream), `AllRead`, `LocksHeld` (PostgreSQL: a writer that has read a head holds
its lock) and `FlushedCurrent` (after the flush the prefix is the whole stream).
The flush establishes the last from the unique constraint on (scope, sequence); the
row lock or the write lock keeps it until the commit (`CommitsApart`: no two calls
stand before their commits on one stream). `InstallContinues` then shows that the
rows committed continue the chain. *History* needs besides that only a commit changes
a stream and that a step is one call's own (`StepIsOwn`), with `AnsweredIsDone`.

*Keys and answers.* `KInv` adds: a call that is not done has written nothing
(`NotYet`), a call writes at most one receipt and one record (`OncePerCall`), a record
names its call's receipt (`Paired`), no key is spent twice (`SpentOnce`) and the key
stays unclaimed between flush and commit (`Unclaimed`). Cardinalities agree by a
bijection (`AsManyRecords`). An answer is true when given (`ResolvesTruthfully`,
`CommitTruthful`) and stays true because rows are only added, none of them the
caller's (`TruthStays`). Agreement of retries follows from truth and `SpentOnce`.

*Bundles and memory.* `EInv` is the two properties with `Cited`: what a memory in
progress is going to cite is a committed receipt of its workspace. A commit adds all
rows of its call at once, and no other step changes a stream.

*Refinement of the ledger.* A commit is the abstract append of the whole call, an
answer found on the way (a replay, a conflict, a refusal) the abstract answer, and
every other statement, lock or abort a stutter (`StepInLedger`). What the abstract
step judges at one instant the transaction judged over several, so the proof uses all
of `IInv`, `KInv` and `EInv`.

*Operational entities.* A write reads the latest version before it has the head. `OInv`
says what that reading is still worth: the version is there and what the call writes
differs from it; the unique constraints of the flush turn this into knowledge of the
latest version. `Dense` (the versions of an entity are 1 to their number) lets a
constraint on (entity, version) stand for the end of a history. A batch reads under the
lock on PostgreSQL; on SQLite its rows follow the latest versions only while the
stream has not grown. For the refinement `VInv` adds that a call expects what its
caller named (`Asked`), begins a batch with its first draft (`Fresh`), and has a row
for every draft it looked at that changes something (`Covers`): a commit is then one
conditional step of `AtomicVersions`, judged at that instant.

*Provisioning.* Inserted rows that are not committed clash with no committed row
(`Free`) and with no other such row (`Apart`): PostgreSQL makes the second insert
wait, SQLite has one writer (`Exclusive`). `Holding` says what a call has inserted at
each statement, `Late` what it can rely on when it reads the winner, `ByRequest` that a
receipt is of the request of its writer; `TenantOnce` and `Answered` carry this to replies.
For the refinement the committed receipts are the scopes, since no tenant is committed
without one (`Receipted`). The commit is the creation, and the tenant it reports as new is
new (`CommitSimulates`); whatever makes a call give up, in either attempt, is among the
scopes at that moment (`ScopeBehind`); every other statement is a stutter.

*Ingest.* `RInv`: the nonce of an accepted message that is still timely is registered and
outlives the message (`Remembered`). This is where `Retention > 2 * Skew` is needed, as
900 s is more than twice 300 s. That keys never outnumber nonces is not
inductive, since pruning removes some of each; `Paired` says it of the entries
that outlive any given moment. `DInv`: a request past its receipt has one that
says what it says (`Backed`), and is about to write over a version that differs
(`Differing`); only the registry makes a replay (`OtlpPlain`). The refinement keeps the
durable rows and the answers: a request in hand says what its message and its flag say
(`InHand`), a write over the version that was read is of news (`WriteSimulates`), an "ok"
without a write is said of the latest version (`OkSimulates`). A registry, a clock and
a crash are stutters: what they decide is which refusals are given, not what is durable.

*GitHub.* Ids are given in order, so a run newer than the first page stands no further
down than as many runs as were removed; fewer than a page holds, and it is not on a
later page. What is left of the first page's list has no more runs after it than it had,
and stands no further apart (`Remains`). With an equal count and none seen twice, a
later page then begins where the one before ended (`NextPage`), so that what has been
read begins the list of the first page (`Reading`, `Counted`): a complete census is that
list. The property says so when fewer runs than a page holds leave in the meantime.
`HInv`: the version that a request read is the latest or never will be again, since
versions are only added, so what it writes over it differs (`Stands`, `Honest`).

*Parser.* `OtlpInv`: whoever parses owns the lock (`OneParses`), and a walk under way has
taken the places that precede all it has left (`Walked`). Places are ordered strictly and
totally (`OrderIsStrict`, `OrderIsTotal`), so the next place that yields a record has the
rank after those before it (`RankCounts`), and the buffers hold what the places taken
yield, no more than the limit. When none is left that is what the body deserves
(`WalkEnds`); a place refused, or one record too many, is one that the body's own answer
meets too (`WalkFails`). That a record is sound is a fact of the node it comes from
(`VisitsAreSound`), which stands below accepted nodes of the body (`NodesAbove`); the sum
of a list, `Total`, is not expanded: the readers of a histogram add up the very list
whose sum the parser compared.

*Backup and restore.* `PInv` adds what the table locks protect: from the inspection to
the commit a restore holds them (`Holding`), so the target stays empty
(`EmptyUnderLock`); what is imported is a qualified snapshot, which is never the
empty one (`Qualified`, `Marked`), so nobody finds the target empty again (`Once`).
`Held` and `Stated` relate what a run knows of its effect, and has written, to what
was committed. `QInv` adds that a pass that was not begun again is of one committed
state, which the result names (`OneInstant`), and that a file past the comparison has
a digest that a result names (`Checked`).

*Page.* A load that is current asked with the credentials in force (`Fresh`), because
every change of credentials is a new generation and drops what was displayed in the
same event; while a load is current or the page hidden nothing plays (`Waiting`,
`Away`), so no reply takes the timeline from under the playback timer; a question in
flight is the last one asked (`Asking`).

*Startup.* A serving process's rows may have been written by others, and its own
transactions are long past: `SInv` says for each phase what the volume has by then
(`Behind`) and, of a process whose write may still be refused, that another wrote since
it read (`Excused`): whoever writes sets `raced` of the processes it overtakes
(`OvertakenBeside`). The volume only gains, so that both survive whatever the others
do (`OthersKeep`), and only the moving process has to be followed (`OwnStep`).

*Analysis.* `AInv`: keys and references are in the chain once (`KeysOnce`, `RefsOnce`),
what a bundle says of its evidence held of the entries before it (`Earned`), what a
request has checked so far is in the chain (`Checked`), and every reply is of a bundle
(`Backed`). The chain only grows, so that what was checked when the request read it is
before the bundle that it commits later.

*Session ledger.* An id tells whose it is and of what (`Tied`), and ids are there once
(`IdsOnce`); so when `INSERT OR IGNORE` ignores a row, the one already there is of the
same session and payload, and nothing is lost (`InHands`). Instants only pass (`Dated`).

*Readiness.* An upgrade has made whatever the statements in front of its next one make
(`Upgrading`), and nothing takes a table or guard away outside a downgrade; so the
version row, which comes last, vouches for all of them. A readiness request answers from
two reads: `Lived` says, of a request that found every table, that it has lived through a
whole schema at the head if that is the revision it has read or would read now. A row
written between its two reads is written when the schema is whole, which is then the
instant that the answer is true of (`Stamps`).

*Build receipt.* The disk holds files of the release being written and of the one before
(`OnDisk`), and a receipt with the right digest is of a whole release, never of one still
being written (`Faithful`). A request whose release was whole at no instant of it found it
already being replaced: some file differs and will not be read as that release had it
(`Spoilt`). This ends with the second replacement, which may bring old bytes back;
but then the marker, read last, is of neither release (`Judging`).

*Lists.* The place of a row is the number of rows in front of it. Rows fill their places
without a gap (`PlacesFilled`, by the pigeonhole principle), and others that come only
move a row away from the front (`PlaceMoves`): memory is listed newest first, the others
in an order in which nothing leaves. So what was due at the first page is in
hand or stands at the offset or after it (`Ahead`); a page that does not reach it is full
and names the next one (`Reached`), which a last page does not. A scan that is not cut
has examined every row (`NotCut`).

*Enterprise question.* Each read of the engine is a transaction of its own, so what it holds
need not be true of the workspace together or any longer. The invariant says what remains
true of it however rows are rewritten: a row was the latest at some moment of the request
(`Read`: `observed` only grows), a receipt is durable (`Quoted`: the chain only grows), and
what an execution receipt said of an action it still says (`Execution`). Every intent
selects from rows that were loaded (`SelectionsAreRead`), and an outcome is selected only
with the two receipts that prove it in the chain (`Improved`).

The assumptions on constants are facts of the code. Those of `LyteStore`,
`OperationalStore` and `Provisioning` (`RequestsAssumption`, `ConstantsAssumption`,
`NoneAssumption`) say that requests have their types, that bundles carry a key and
equal digests are of equal requests, that batches are not empty and name no entity
twice, that a bundle has traces, and that `None` is no id. `ConstantsAssumption` of `Ingest` gives event messages a nonce and every payload
an entity; the one of `Preservation` gives each restore a backup's snapshot. `Numbered`
keeps 0 for no release, `EventsAssumption` has at least one event, `SessionsAssumption`
keeps the placeholder scope apart from digests of tokens, and `RunsAssumption` numbers runs
in the order in which GitHub gives them and makes timestamps natural numbers. `TablesAssumption` makes the
tables and guards of a migration finite lists. `FilesAssumption` lists the payload's files
and lets the marker's bytes tell its release, as `source_revision.txt` holds the revision.
`PagesAssumption` gives a page at least one row, and `AskAssumption` takes the intents from
those that the code knows. `NodesAssumption` says that bodies are made of nodes,
`LimitsAssumption` what `OtlpLimits` checks, and `LockAssumption` that `Nobody` is no call.

The invariants were checked with TLC on the instances of the runs before they were
proved, except the parts that range over all integers or over all sequences of a
set (`Paired`, and the types of unbounded fields); the one of the build receipt also with
three releases, the third of which brings back a file of the first.

## What is only model-checked, and what is not modelled

Only model-checked: `EveryCallReturns` and `EveryWaitEnds` (liveness under fairness
is out of the prover's reach, as is `ENABLED`).
Induction over data is out of the prover's reach too: no theorem says what the sum of a
list is. The modules that are proved about have no `RECURSIVE` operator; the one of
`MCOtlpParser`, which lists the nodes of its bodies, is of the instance.

Abstracted: hashes (injective), payloads and bodies (model values, for the parser
trees of typed nodes), timestamps (except where ingest, the connector and the
enterprise question compare them), SQL text, markup. A transaction's own statements
read what PostgreSQL's READ COMMITTED and SQLite's single writer allow; no other
isolation level is used by the code, except the read-back of a restore, whose
one reading is one step.

Also left out of what is modelled: the indexes of the schema, the update and the delete
trigger of a table as two statements, and the instants within PostgreSQL's one-transaction
upgrade (`SchemaReadiness`); an `observed_at` handed to `observation_receipt`, which only a
test of `src/` does, and a truth label of the caller's own
(`SessionLedger`); the reason in the receipt of an unavailable source (`GitHubIngest`).

Not modelled:

- authentication and scope authority, Hatun and the second brain, domain values, formulas and
  anatomy: pure functions of a request; the formulas are floating point, out of TLC's
  reach;
- the views, scenario and forecast code of `intelligence`, and the catalog and forecast
  routes: projections of stored rows that change no durable state;
- telemetry, settings' parsing, route registration;
- of the page, markup, canvas geometry and the dialogs of scenarios and forecasts;
  also the 220 ms of the drawer's hiding, of which only the order against other
  events is kept;
- Alembic's offline mode;
- of `lyte_engine`, the service, journey and core computations and its telemetry,
  which keep nothing durable; `a11oy_factory`, a static catalog; tools and benchmarks.

## Plan

Done: the modules above, and theorems for every safety property and every refinement of
the passing runs. Left to prove is what the prover does not reach: liveness, and what a
recursive definition computes. Left to model are the components listed above as not
modelled, none of which keeps durable state.
