------------------------------- MODULE MCSurfaces -------------------------------
(***************************************************************************)
(* The components around the store.  They share no state here, so each     *)
(* behaviour is of one of them, which surface names.                       *)
(***************************************************************************)
EXTENDS Startup, AnalysisRoute, SessionLedger, GitHubIngest, SchemaReadiness, BuildReceipt,
        Paging, EnterpriseAsk, OtlpParser, MCOtlpParser, MCEnterpriseAsk

CONSTANTS r1, r2, k1, k2, c1, c2

VARIABLE surface

\* Two processes, started up to four times in three releases, the last with another scenario.
ScenarioOf(r) == IF r = 3 THEN 2 ELSE 1

\* Two payloads, one with evidence of another system, which a later release computes otherwise.
RefsOf(a) == IF a = "p1" THEN {"e1", "external"} ELSE {"e1"}
Computed(a, r) == IF a = "p1" THEN r ELSE 9

\* Two callers of one session and one of another.
TwoSessions == <<1, 1, 2>>

\* A list of four runs that one more may join and one may leave.
Runs == [i \in 1 .. 5 |->
           [created |-> i, started |-> IF i = 2 THEN 3 ELSE 0, updated |-> i + 1, completed |-> i # 5]]

\* One mutable and one immutable table.
TwoTables == <<"tenants", "receipts">>
OneGuarded == <<"receipts">>

\* Two releases, one of whose files is the same in both.
Shipped == <<"lyte/app.py", "lyte/ui/app.js", "source_revision.txt">>
BytesOf == [path \in ToSet(Shipped) |-> IF path = "lyte/ui/app.js" THEN <<1, 1>> ELSE <<1, 2>>]

\* What the first state of a component chooses, it chooses only where its behaviour is followed.
SurfaceInit ==
  /\ surface \in {"analysis", "session", "github", "startup", "schema", "build", "lists", "ask", "otlp"}
  /\ Init /\ AnalysisInit /\ SessionInit
  \* Keys are alike, and only GitHub's requests have any.
  /\ GitHubInit /\ key[r1] = k1 /\ (surface # "github" => key[r2] = k1)
  /\ SchemaInit /\ (surface # "schema" => dialect = "sqlite" /\ ~production /\ tables = {})
  /\ BuildInit
  /\ surface # "build" => receiptFile = NoDocument /\ env = Unset /\ ~required.receipt /\ ~required.source
  /\ PagingInit /\ (surface # "lists" => list = "memory")
  /\ AskInit /\ (surface # "ask" => intent = "ranking")
  /\ OtlpInit /\ (surface # "otlp" => body = [c \in Call |-> "empty"])

ownVars == <<vars, analysisVars, sessionVars, gitHubVars, schemaVars, buildVars, pagingVars, askVars, otlpVars>>

OwnMove ==
  \/ /\ surface = "startup" /\ Next
     /\ UNCHANGED <<analysisVars, sessionVars, gitHubVars, schemaVars, buildVars, pagingVars, askVars, otlpVars>>
  \/ /\ surface = "analysis" /\ AnalysisNext
     /\ UNCHANGED <<vars, sessionVars, gitHubVars, schemaVars, buildVars, pagingVars, askVars, otlpVars>>
  \/ /\ surface = "session" /\ SessionNext
     /\ UNCHANGED <<vars, analysisVars, gitHubVars, schemaVars, buildVars, pagingVars, askVars, otlpVars>>
  \/ /\ surface = "github" /\ GitHubNext
     /\ UNCHANGED <<vars, analysisVars, sessionVars, schemaVars, buildVars, pagingVars, askVars, otlpVars>>
  \/ /\ surface = "schema" /\ SchemaNext
     /\ UNCHANGED <<vars, analysisVars, sessionVars, gitHubVars, buildVars, pagingVars, askVars, otlpVars>>
  \/ /\ surface = "build" /\ BuildNext
     /\ UNCHANGED <<vars, analysisVars, sessionVars, gitHubVars, schemaVars, pagingVars, askVars, otlpVars>>
  \/ /\ surface = "lists" /\ PagingNext
     /\ UNCHANGED <<vars, analysisVars, sessionVars, gitHubVars, schemaVars, buildVars, askVars, otlpVars>>
  \/ /\ surface = "ask" /\ AskNext
     /\ UNCHANGED <<vars, analysisVars, sessionVars, gitHubVars, schemaVars, buildVars, pagingVars, otlpVars>>
  \/ /\ surface = "otlp" /\ OtlpNext
     /\ UNCHANGED <<vars, analysisVars, sessionVars, gitHubVars, schemaVars, buildVars, pagingVars, askVars>>

SurfaceNext == OwnMove /\ UNCHANGED surface

SurfaceSpec == SurfaceInit /\ [][SurfaceNext]_<<surface, ownVars>>

=============================================================================
