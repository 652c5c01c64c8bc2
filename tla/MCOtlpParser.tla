----------------------------- MODULE MCOtlpParser -----------------------------
(* Bodies for OtlpParser, each of them one deviation from an export that is accepted. *)
EXTENDS Integers, Sequences, FiniteSets, TLC

Node(t, n, s, f, e) == [t |-> t, n |-> n, s |-> s, f |-> f, e |-> e]
NoFields == [x \in {} |-> 0]
Str(s) == Node("text", 3, s, NoFields, <<>>)
Empty == Node("text", 0, "", NoFields, <<>>)
Long == Node("text", 9, "long", NoFields, <<>>)
Dec(n) == Node("decimal", n, "", NoFields, <<>>)
Num(t, n) == Node(t, n, "", NoFields, <<>>)
Null == Num("null", 0)
Obj(f) == Node("object", 0, "", f, <<>>)
Arr(e) == Node("list", 0, "", NoFields, e)

Attr(k, v) == Obj([key |-> Str(k), value |-> v])
Plain == Attr("route", Obj([stringValue |-> Empty]))
Credential == Attr("auth.token", Obj([intValue |-> Dec(1)]))

SpanBase ==
  [traceId |-> Num("hex32", 1), spanId |-> Num("hex16", 1), name |-> Str("get"),
   startTimeUnixNano |-> Dec(2), endTimeUnixNano |-> Dec(3)]
LogBase == [timeUnixNano |-> Dec(2), body |-> Obj([boolValue |-> Num("bool", 1)])]
Bucketed(counts, bounds) ==
  [timeUnixNano |-> Dec(3), count |-> Dec(3),
   bucketCounts |-> Arr([i \in DOMAIN counts |-> Dec(counts[i])]),
   explicitBounds |-> Arr([i \in DOMAIN bounds |-> Num("double", bounds[i])])]

Spans(items) == Obj([spans |-> Arr(items)])
Traces(groups) == Obj([resourceSpans |-> Arr(groups)])
OneTrace(span) == Traces(<<Obj([scopeSpans |-> Arr(<<Spans(<<Obj(span)>>)>>)])>>)
Logs(f) == Obj([resourceLogs |-> Arr(<<Obj([scopeLogs |-> Arr(<<Obj([logRecords |-> Arr(<<Obj(f)>>)])>>)])>>)])
Metrics(f) ==
  Obj([resourceMetrics |-> Arr(<<Obj([scopeMetrics |-> Arr(<<Obj([metrics |-> Arr(<<Obj(f)>>)])>>)])>>)])
Gauge(points) == Metrics([name |-> Str("cpu"), gauge |-> Obj([dataPoints |-> Arr(points)])])
Histogram(point) ==
  Metrics([name |-> Str("latency"),
           histogram |-> Obj([aggregationTemporality |-> Num("int", 1),
                              dataPoints |-> Arr(<<Obj(point)>>)])])

Decode ==
  \* Two resources, three spans, the second resource with a credential beside a route.
  [traces |-> Traces(<<
      Obj([scopeSpans |-> Arr(<<Spans(<<Obj(SpanBase)>>), Spans(<<>>)>>)]),
      Obj([resource |-> Obj([attributes |-> Arr(<<Credential, Plain>>)]),
           scopeSpans |-> Arr(<<
             Obj([scope |-> Obj([name |-> Str("http"), attributes |-> Arr(<<Plain>>)]),
                  spans |-> Arr(<<Obj(SpanBase @@ [attributes |-> Arr(<<Credential>>)]),
                                  Obj(SpanBase @@ [kind |-> Str("SPAN_KIND_SERVER"),
                                                   status |-> Obj([code |-> Num("int", 2)]),
                                                   parentSpanId |-> Empty])>>)])>>)])>>),
   \* One record more than the limit, in lists that are within theirs.
   overfull |-> Traces(<<Obj([scopeSpans |-> Arr(<<Spans(<<Obj(SpanBase), Obj(SpanBase)>>),
                                                   Spans(<<Obj(SpanBase), Obj(SpanBase)>>)>>)])>>),
   backwards |-> OneTrace([SpanBase EXCEPT !.endTimeUnixNano = Dec(1)]),
   overflow |-> OneTrace([SpanBase EXCEPT !.endTimeUnixNano = Dec(9)]),
   zeroTrace |-> OneTrace([SpanBase EXCEPT !.traceId = Num("hex32", 0)]),
   events |-> OneTrace(SpanBase @@ [events |-> Arr(<<>>)]),
   doubled |-> OneTrace(SpanBase @@ [attributes |-> Arr(<<Plain, Plain>>)]),
   \* A record is parsed before the one that is refused.
   half |-> Gauge(<<Obj([timeUnixNano |-> Dec(1), asInt |-> Dec(-2)]),
                    Obj([timeUnixNano |-> Dec(1), asInt |-> Dec(1), asDouble |-> Num("double", 1)])>>),
   \* One point more than the record limit.
   crowded |-> Gauge([i \in 1 .. 4 |-> Obj([timeUnixNano |-> Dec(i), asDouble |-> Num("int", i)])]),
   empty |-> Gauge(<<>>),
   histogram |-> Histogram(Bucketed(<<1, 0, 2>>, <<1, 2>>) @@ [attributes |-> Arr(<<Plain, Credential>>)]),
   miscounted |-> Histogram(Bucketed(<<1, 1, 2>>, <<1, 2>>)),
   unordered |-> Histogram(Bucketed(<<1, 0, 2>>, <<2, 2>>)),
   untyped |-> Metrics([name |-> Str("cpu")]),
   logs |-> Logs(LogBase @@ [severityNumber |-> Num("int", 24), severityText |-> Empty,
                             traceId |-> Num("hex32", 4), spanId |-> Num("hex16", 5)]),
   orphan |-> Logs(LogBase @@ [spanId |-> Num("hex16", 5)]),
   longName |-> Logs(LogBase @@ [severityText |-> Long]),
   mixed |-> Obj([resourceSpans |-> Arr(<<>>), resourceLogs |-> Arr(<<>>)]),
   malformed |-> Num("refused", 0)]

SensitiveKeys == {"auth.token"}
Bodies == DOMAIN Decode
\* TLC keeps the value of a definition, but not that of one a constant is replaced by.
Trees == Decode

RECURSIVE Below(_)
Below(v) ==
  {v} \cup UNION {Below(v.e[i]) : i \in DOMAIN v.e} \cup UNION {Below(v.f[name]) : name \in DOMAIN v.f}
AllNodes == UNION {Below(Decode[b]) : b \in Bodies}
=============================================================================
