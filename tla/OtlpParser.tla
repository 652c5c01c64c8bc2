------------------------------ MODULE OtlpParser ------------------------------
(***************************************************************************)
(* OtlpJsonIngestor of lyte/connectors/otlp_http.py: a bounded OTLP/JSON   *)
(* parser whose record list and set of removed keys are attributes of the  *)
(* ingestor, reused by every call and guarded by one lock.                 *)
(*                                                                         *)
(* A body is a tree of nodes, as strict_json_loads returns it:             *)
(*   [t |-> type, n |-> number, s |-> name, f |-> fields, e |-> items].    *)
(* A "text" has a length n and, where it matters, a name s; "decimal" is a *)
(* string of canonical decimal digits with the value n; "hex32" and        *)
(* "hex16" are identifier strings with the value n; "int", "double" and    *)
(* "bool" are JSON scalars.  Limits and word sizes are constants.          *)
(***************************************************************************)
EXTENDS Integers, Sequences, FiniteSets, SequencesExt

CONSTANTS Call,           \* requests that share one ingestor
          Body,           \* names of the bodies that clients send
          Nodes,          \* the nodes that bodies are made of
          Decoded,        \* the root node of each body; a "refused" node is not strict JSON
          Sensitive,      \* attribute keys for which is_sensitive_key holds
          MaxUnsigned,    \* 2^64 - 1
          MaxSigned,      \* 2^63 - 1
          MaxDouble,      \* JSON integers beyond it overflow float()
          MaxResources, MaxScopes, MaxRecords, MaxAttributes, MaxBuckets, MaxText,
          Nobody

VARIABLES body,      \* what each call sends
          turn,      \* where each call is
          owner,     \* the call that holds the ingestor's lock
          todo,      \* the visits that each call's walk through its body has left
          records,   \* self._records
          stripped,  \* self._stripped
          returned   \* what each call returned

otlpVars == <<body, turn, owner, todo, records, stripped, returned>>

\* Bodies are made of nodes.
ASSUME NodesAssumption ==
  /\ Decoded \in [Body -> Nodes]
  /\ \A v \in Nodes : v.n \in Int /\ v.e \in Seq(Nodes) /\ \A name \in DOMAIN v.f : v.f[name] \in Nodes

\* OtlpLimits.__post_init__
ASSUME LimitsAssumption == {MaxResources, MaxScopes, MaxRecords} \subseteq Nat \ {0}

ASSUME LockAssumption == Nobody \notin Call

-----------------------------------------------------------------------------
(* Nodes. *)

Has(v, name) == name \in DOMAIN v.f
Optional(v, name, P(_)) == Has(v, name) => P(v.f[name])
\* dict.get: an absent field and a null are the same.
Present(v, name) == Has(v, name) /\ v.f[name].t # "null"

Fields(v, allowed, required) ==
  v.t = "object" /\ DOMAIN v.f \subseteq allowed /\ required \subseteq DOMAIN v.f

List(v, maximum) == v.t = "list" /\ Len(v.e) <= maximum
All(v, P(_)) == \A i \in DOMAIN v.e : P(v.e[i])

StringTypes == {"text", "decimal", "hex32", "hex16"}
Text(v) == v.t \in StringTypes /\ (v.t = "text" => v.n <= MaxText)
Named(v) == Text(v) /\ (v.t = "text" => v.n > 0)

Unsigned(v) == v.t = "decimal" /\ v.n \in 0 .. MaxUnsigned
Signed(v) == v.t = "decimal" /\ v.n \in -(MaxSigned + 1) .. MaxSigned
\* An integer that float() cannot hold raises OverflowError: not accepted either.
Number(v) == v.t = "double" \/ (v.t = "int" /\ v.n <= MaxDouble)
Hex(v, width) == v.t = width /\ v.n > 0
Integer(v) == v.t = "int"
Boolean(v) == v.t = "bool"

\* A code, its name, or null, which stands for the default.
Enum(v, codes, names) ==
  \/ v.t = "null"
  \/ v.t = "int" /\ v.n \in codes
  \/ v.t = "text" /\ v.s \in names

SpanKind(v) == Enum(v, 0 .. 5, {"SPAN_KIND_SERVER", "SPAN_KIND_CLIENT"})
StatusCode(v) == Enum(v, 0 .. 2, {"STATUS_CODE_OK", "STATUS_CODE_ERROR"})
Temporality(v) == Enum(v, 1 .. 2, {"AGGREGATION_TEMPORALITY_DELTA"})

AnyValue(v) ==
  /\ Fields(v, {"stringValue", "boolValue", "intValue", "doubleValue"}, {})
  /\ Cardinality(DOMAIN v.f) = 1
  /\ Optional(v, "stringValue", Text)
  /\ Optional(v, "boolValue", Boolean)
  /\ Optional(v, "intValue", Signed)
  /\ Optional(v, "doubleValue", Number)

-----------------------------------------------------------------------------
(* Attribute sets, resources and scopes. *)

Attributes(v) ==
  /\ List(v, MaxAttributes)
  /\ All(v, LAMBDA a : /\ Fields(a, {"key", "value"}, {"key", "value"})
                       /\ Named(a.f["key"])
                       /\ AnyValue(a.f["value"]))
  /\ \A i, j \in DOMAIN v.e : v.e[i].f["key"].s = v.e[j].f["key"].s => i = j

AttributesOf(v) == IF Present(v, "attributes") THEN v.f["attributes"].e ELSE <<>>
HasAttributes(v) == Present(v, "attributes") => Attributes(v.f["attributes"])
KeysOf(v) == {a.f["key"].s : a \in ToSet(AttributesOf(v))}

\* What strip_sensitive_attributes keeps, and what it reports as removed.
Clean(v) == KeysOf(v) \ Sensitive
Removed(v) == KeysOf(v) \cap Sensitive

Resource(v) == Fields(v, {"attributes"}, {}) /\ HasAttributes(v)
InstrumentationScope(v) ==
  /\ Fields(v, {"name", "version", "attributes"}, {})
  /\ Optional(v, "name", Named)
  /\ Optional(v, "version", Named)
  /\ HasAttributes(v)

\* The kept keys of an optional resource or scope of a group, and the removed ones.
Kept(group, name) == IF Present(group, name) THEN Clean(group.f[name]) ELSE {}
Dropped(group, name) == IF Present(group, name) THEN Removed(group.f[name]) ELSE {}

-----------------------------------------------------------------------------
(* Records.  A visit is one checked node of the walk through a body: whether it is
   accepted, the keys removed at it, and the record it yields, if any. *)

Visit(ok, removed, yield) == [ok |-> ok, removed |-> removed, yield |-> yield]
Refused == Visit(FALSE, {}, <<>>)
Opened(removed) == Visit(TRUE, removed, <<>>)

NewRecord(v, context, data) ==
  <<[resource |-> context.resource, scope |-> context.scope, attributes |-> Clean(v),
     data |-> data]>>

Span(v) ==
  /\ Fields(v, {"traceId", "spanId", "parentSpanId", "traceState", "name", "kind",
                "startTimeUnixNano", "endTimeUnixNano", "attributes", "status"},
            {"traceId", "spanId", "name", "startTimeUnixNano", "endTimeUnixNano"})
  /\ Hex(v.f["traceId"], "hex32")
  /\ Hex(v.f["spanId"], "hex16")
  /\ Optional(v, "parentSpanId", LAMBDA p : Hex(p, "hex16") \/ (p.t = "text" /\ p.n = 0))
  /\ Unsigned(v.f["startTimeUnixNano"])
  /\ Unsigned(v.f["endTimeUnixNano"])
  /\ v.f["startTimeUnixNano"].n <= v.f["endTimeUnixNano"].n
  /\ Optional(v, "status", LAMBDA s : /\ Fields(s, {"code", "message"}, {})
                                       /\ Optional(s, "code", StatusCode)
                                       /\ Optional(s, "message", Text))
  /\ Optional(v, "kind", SpanKind)
  /\ Optional(v, "traceState", Text)
  /\ Named(v.f["name"])
  /\ HasAttributes(v)

SpanVisit(v, context) ==
  IF ~Span(v) THEN Refused
  ELSE Visit(TRUE, Removed(v), NewRecord(v, context,
         [span |-> v.f["spanId"].n, at |-> v.f["endTimeUnixNano"].n,
          duration |-> v.f["endTimeUnixNano"].n - v.f["startTimeUnixNano"].n]))

LogRecord(v) ==
  /\ Fields(v, {"timeUnixNano", "observedTimeUnixNano", "severityNumber", "severityText",
                "body", "attributes", "flags", "traceId", "spanId"},
            {"timeUnixNano", "body"})
  /\ Unsigned(v.f["timeUnixNano"])
  /\ AnyValue(v.f["body"])
  /\ Optional(v, "observedTimeUnixNano", Unsigned)
  /\ Optional(v, "severityNumber", LAMBDA n : Integer(n) /\ n.n \in 0 .. 24)
  /\ Optional(v, "severityText", Text)
  /\ Optional(v, "flags", Integer)
  /\ Optional(v, "traceId", LAMBDA h : Hex(h, "hex32"))
  /\ Optional(v, "spanId", LAMBDA h : Has(v, "traceId") /\ Hex(h, "hex16"))
  /\ HasAttributes(v)

LogVisit(v, context) ==
  IF ~LogRecord(v) THEN Refused
  ELSE Visit(TRUE, Removed(v), NewRecord(v, context,
         [at |-> v.f["timeUnixNano"].n,
          trace |-> IF Has(v, "traceId") THEN v.f["traceId"].n ELSE 0,
          span |-> IF Has(v, "spanId") THEN v.f["spanId"].n ELSE 0]))

\* A gauge, a sum or a histogram, its name and its metadata; the points come after.
Metric(v) ==
  /\ Fields(v, {"name", "description", "unit", "gauge", "sum", "histogram"}, {"name"})
  /\ Cardinality(DOMAIN v.f \cap {"gauge", "sum", "histogram"}) = 1
  /\ Named(v.f["name"])
  /\ Optional(v, "description", Text)
  /\ Optional(v, "unit", Text)
  /\ Optional(v, "gauge", LAMBDA g : Fields(g, {"dataPoints"}, {"dataPoints"}))
  /\ Optional(v, "sum", LAMBDA s :
       LET names == {"dataPoints", "aggregationTemporality", "isMonotonic"}
       IN  /\ Fields(s, names, names)
           /\ Temporality(s.f["aggregationTemporality"])
           /\ Boolean(s.f["isMonotonic"]))
  /\ Optional(v, "histogram", LAMBDA h :
       LET names == {"dataPoints", "aggregationTemporality"}
       IN  Fields(h, names, names) /\ Temporality(h.f["aggregationTemporality"]))

\* What number and histogram points have in common.
Timed(v) ==
  /\ Unsigned(v.f["timeUnixNano"])
  /\ Optional(v, "startTimeUnixNano", LAMBDA s : Unsigned(s) /\ s.n <= v.f["timeUnixNano"].n)
  /\ Optional(v, "flags", Integer)
  /\ HasAttributes(v)

NumberPoint(v) ==
  /\ Fields(v, {"attributes", "startTimeUnixNano", "timeUnixNano", "asDouble", "asInt", "flags"},
            {"timeUnixNano"})
  /\ Has(v, "asDouble") # Has(v, "asInt")
  /\ Optional(v, "asDouble", Number)
  /\ Optional(v, "asInt", Signed)
  /\ Timed(v)

Numbers(v) == [i \in DOMAIN v.e |-> v.e[i].n]
Total(numbers) == FoldSeq(LAMBDA n, total : n + total, 0, numbers)
\* The buckets hold as many observations as the point says.
HistogramCounts(v) == Unsigned(v.f["count"]) /\ Total(Numbers(v.f["bucketCounts"])) = v.f["count"].n

HistogramPoint(v) ==
  /\ Fields(v, {"attributes", "startTimeUnixNano", "timeUnixNano", "count", "sum", "bucketCounts",
                "explicitBounds", "min", "max", "flags"},
            {"timeUnixNano", "count", "bucketCounts", "explicitBounds"})
  /\ List(v.f["bucketCounts"], MaxBuckets)
  /\ List(v.f["explicitBounds"], MaxBuckets)
  /\ All(v.f["bucketCounts"], Unsigned)
  /\ All(v.f["explicitBounds"], Number)
  /\ LET counts == v.f["bucketCounts"].e
         bounds == v.f["explicitBounds"].e
     IN  /\ Len(counts) = Len(bounds) + 1
         /\ \A i \in 1 .. Len(bounds) - 1 : bounds[i].n < bounds[i + 1].n
  /\ HistogramCounts(v)
  /\ Timed(v)
  /\ \A name \in {"sum", "min", "max"} : Optional(v, name, Number)
  /\ (Has(v, "min") /\ Has(v, "max")) => v.f["min"].n <= v.f["max"].n

HistogramVisit(v, context) ==
  IF ~HistogramPoint(v) THEN Refused
  ELSE Visit(TRUE, Removed(v), NewRecord(v, context,
         [at |-> v.f["timeUnixNano"].n, count |-> v.f["count"].n,
          buckets |-> Numbers(v.f["bucketCounts"]), bounds |-> Numbers(v.f["explicitBounds"])]))

NumberVisit(v, context) ==
  IF ~NumberPoint(v) THEN Refused
  ELSE Visit(TRUE, Removed(v), NewRecord(v, context,
         [at |-> v.f["timeUnixNano"].n,
          value |-> IF Has(v, "asInt") THEN v.f["asInt"].n ELSE v.f["asDouble"].n]))

MetricKind(v) == CHOOSE k \in {"gauge", "sum", "histogram"} : Has(v, k)
PointsOf(v) == v.f[MetricKind(v)].f["dataPoints"]
MetricVisit(v) == IF Metric(v) /\ List(PointsOf(v), MaxRecords) THEN Opened({}) ELSE Refused
PointVisit(v, point, context) ==
  IF MetricKind(v) = "histogram" THEN HistogramVisit(point, context) ELSE NumberVisit(point, context)

-----------------------------------------------------------------------------
(* The walk: groups of a resource, in them groups of a scope, in them items, in a metric its
   points.  A place <<g, s, i, p>> has the number of each, or 0 where the node is above it; the
   walk takes places in their order.  Nothing below a refused node is a place. *)

Scopes ==
  [resourceSpans |-> "scopeSpans", resourceMetrics |-> "scopeMetrics", resourceLogs |-> "scopeLogs"]
Items == [resourceSpans |-> "spans", resourceMetrics |-> "metrics", resourceLogs |-> "logRecords"]
Signals == DOMAIN Scopes
\* Strict JSON with exactly one of the three containers.
Export(root) ==
  root.t = "object" /\ Cardinality(DOMAIN root.f) = 1 /\ DOMAIN root.f \subseteq Signals
SignalOf(root) == CHOOSE k \in Signals : Has(root, k)

GroupsOf(root) == root.f[SignalOf(root)]
ScopesOf(root, g) == GroupsOf(root).e[g].f[Scopes[SignalOf(root)]]
ItemsOf(root, g, s) == ScopesOf(root, g).e[s].f[Items[SignalOf(root)]]

Envelope(v, inner, holder, Holder(_)) ==
  /\ Fields(v, {inner, holder, "schemaUrl"}, {inner})
  /\ Present(v, holder) => Holder(v.f[holder])
  /\ Optional(v, "schemaUrl", Named)

GroupVisit(v, inner, holder, Holder(_), maximum) ==
  IF Envelope(v, inner, holder, Holder) /\ List(v.f[inner], maximum)
  THEN Opened(Dropped(v, holder)) ELSE Refused

ItemVisit(signal, v, context) ==
  CASE signal = "resourceSpans" -> SpanVisit(v, context)
    [] signal = "resourceLogs" -> LogVisit(v, context)
    [] signal = "resourceMetrics" -> MetricVisit(v)

VisitAt(root, x) ==
  LET signal == SignalOf(root)
      group == GroupsOf(root).e[x[1]]
      scope == ScopesOf(root, x[1]).e[x[2]]
      item == ItemsOf(root, x[1], x[2]).e[x[3]]
      context == [resource |-> Kept(group, "resource"), scope |-> Kept(scope, "scope")]
  IN  CASE x[1] = 0 -> IF List(GroupsOf(root), MaxResources) THEN Opened({}) ELSE Refused
        [] x[1] > 0 /\ x[2] = 0 -> GroupVisit(group, Scopes[signal], "resource", Resource, MaxScopes)
        [] x[2] > 0 /\ x[3] = 0 -> GroupVisit(scope, Items[signal], "scope", InstrumentationScope, MaxRecords)
        [] x[3] > 0 /\ x[4] = 0 -> ItemVisit(signal, item, context)
        [] x[4] > 0 -> PointVisit(item, PointsOf(item).e[x[4]], context)

\* Each number is within the list of an accepted node, and 0 below a 0.
IsPlace(root, x) ==
  /\ x[1] > 0 => VisitAt(root, <<0, 0, 0, 0>>).ok /\ x[1] <= Len(GroupsOf(root).e)
  /\ x[2] > 0 => x[1] > 0 /\ VisitAt(root, <<x[1], 0, 0, 0>>).ok /\ x[2] <= Len(ScopesOf(root, x[1]).e)
  /\ x[3] > 0 => x[2] > 0 /\ VisitAt(root, <<x[1], x[2], 0, 0>>).ok /\ x[3] <= Len(ItemsOf(root, x[1], x[2]).e)
  /\ x[4] > 0 => /\ x[3] > 0 /\ SignalOf(root) = "resourceMetrics" /\ VisitAt(root, <<x[1], x[2], x[3], 0>>).ok
                 /\ x[4] <= Len(PointsOf(ItemsOf(root, x[1], x[2]).e[x[3]]).e)

Places == (0 .. MaxResources) \X (0 .. MaxScopes) \X (0 .. MaxRecords) \X (0 .. MaxRecords)
Precedes(x, y) == \E k \in 1 .. 4 : x[k] < y[k] /\ \A j \in 1 .. k - 1 : x[j] = y[j]
Nearest(S) == {x \in S : \A y \in S : ~Precedes(y, x)}

Visits(root) == [x \in {y \in Places : IsPlace(root, y)} |-> VisitAt(root, x)]

-----------------------------------------------------------------------------
(* Calls on one ingestor. *)

Refusal == [outcome |-> "refused", records |-> <<>>, stripped |-> {}]
Batch(recs, keys) == [outcome |-> "batch", records |-> recs, stripped |-> keys]

OtlpInit ==
  /\ body \in [Call -> Body]
  /\ turn = [c \in Call |-> "new"]
  /\ owner = Nobody
  /\ todo = [c \in Call |-> <<>>]
  /\ records = <<>>
  /\ stripped = {}
  /\ returned = [c \in Call |-> Refusal]

\* Defect: calls of several workers parse at once.
LockFree_Always == TRUE
LockFree == owner = Nobody

\* The lock is released with the answer, also when the parser raises.
Leave(c, result) ==
  /\ returned' = [returned EXCEPT ![c] = result]
  /\ turn' = [turn EXCEPT ![c] = "done"]
  /\ owner' = Nobody

\* Refused before the buffers are touched: not JSON, or not one container.
RefuseRoot(c) ==
  /\ turn[c] = "new" /\ LockFree
  /\ ~Export(Decoded[body[c]])
  /\ Leave(c, Refusal)
  /\ UNCHANGED <<body, todo, records, stripped>>

Emptied(buffer, empty) == empty

Enter(c) ==
  /\ turn[c] = "new" /\ LockFree
  /\ Export(Decoded[body[c]])
  /\ owner' = c
  /\ turn' = [turn EXCEPT ![c] = "parsing"]
  /\ records' = Emptied(records, <<>>)
  /\ stripped' = Emptied(stripped, {})
  /\ todo' = [todo EXCEPT ![c] = Visits(Decoded[body[c]])]
  /\ UNCHANGED <<body, returned>>

\* _append: the record limit refuses the request, it does not cut it.
Fits(visit) == visit.yield = <<>> \/ Len(records) < MaxRecords

Accept(c) ==
  /\ turn[c] = "parsing"
  /\ \E x \in Nearest(DOMAIN todo[c]) :
       LET visit == todo[c][x] IN
       /\ visit.ok /\ Fits(visit)
       /\ records' = records \o visit.yield
       /\ stripped' = stripped \cup visit.removed
       /\ todo' = [todo EXCEPT ![c] = Restrict(@, DOMAIN @ \ {x})]
  /\ UNCHANGED <<body, turn, owner, returned>>

\* What was parsed before stays in the buffers.
Refuse(c) ==
  /\ turn[c] = "parsing"
  /\ \E x \in Nearest(DOMAIN todo[c]) : ~(todo[c][x].ok /\ Fits(todo[c][x]))
  /\ Leave(c, Refusal)
  /\ UNCHANGED <<body, todo, records, stripped>>

Finish(c) ==
  /\ turn[c] = "parsing" /\ DOMAIN todo[c] = {}
  /\ Leave(c, IF records = <<>> THEN Refusal ELSE Batch(records, stripped))
  /\ UNCHANGED <<body, todo, records, stripped>>

OtlpNext == \E c \in Call : RefuseRoot(c) \/ Enter(c) \/ Accept(c) \/ Refuse(c) \/ Finish(c)
OtlpSpec == OtlpInit /\ [][OtlpNext]_otlpVars

-----------------------------------------------------------------------------
(* Properties. *)

\* The places that yield records; the rank of one is how many of them are not after it.
Yielding(visits) == {x \in DOMAIN visits : visits[x].yield # <<>>}
Rank(yielding, x) == Cardinality({y \in yielding : ~Precedes(x, y)})
RecordsOf(visits, yielding, count) ==
  [n \in 1 .. count |-> visits[CHOOSE x \in yielding : Rank(yielding, x) = n].yield[1]]

\* The answer a body deserves whatever other calls the ingestor serves.
Deserved(root) ==
  LET visits == Visits(root)
      yielding == Yielding(visits)
      count == Cardinality(yielding)
  IN  IF Export(root) /\ count \in 1 .. MaxRecords /\ \A x \in DOMAIN visits : visits[x].ok
      THEN Batch(RecordsOf(visits, yielding, count), UNION {visits[x].removed : x \in DOMAIN visits})
      ELSE Refusal

\* Nothing is cut, mixed or left over: a call on a shared ingestor is answered with all
\* records and all removed keys of its own body, or refused for what its own body says
\* (the lock and the reset of _ingest_locked; "nothing is silently truncated").
AnswersAreOwn == \A c \in Call : turn[c] = "done" => returned[c] = Deserved(Decoded[body[c]])

\* The records of any batch that is answered: no credential in the three attribute sets of a
\* record, no negative duration, no span without a trace, and histograms whose cumulative
\* counts rise over rising bounds to their total (what the readers of a batch rely on).
SoundRecord(r) ==
  /\ (r.resource \cup r.scope \cup r.attributes) \cap Sensitive = {}
  /\ "duration" \in DOMAIN r.data => r.data.duration \in 0 .. r.data.at
  /\ ({"trace", "span"} \subseteq DOMAIN r.data /\ r.data.span > 0) => r.data.trace > 0
  /\ "buckets" \in DOMAIN r.data =>
       LET d == r.data
       IN  /\ Total(SubSeq(d.buckets, 1, Len(d.bounds) + 1)) = d.count
           /\ \A i \in 1 .. Len(d.bounds) - 1 : d.bounds[i] < d.bounds[i + 1]
           /\ d.count <= MaxUnsigned
RecordsSound == \A c \in Call : \A i \in DOMAIN returned[c].records : SoundRecord(returned[c].records[i])

\* Both for every call of parse and return on a shared ingestor: each is answered for its own
\* body, with all of its records or with a refusal, and no record that is answered carries a
\* credential or a false histogram.
OtlpSound == AnswersAreOwn /\ RecordsSound

=============================================================================
