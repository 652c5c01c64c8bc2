------------------------------ MODULE AnalysisRoute ------------------------------
(***************************************************************************)
(* POST /analyze (lyte/api/routes_analysis.py): the formulas are computed  *)
(* by the process that answers, the evidence and the receipt chain are     *)
(* verified in transactions of their own, and the bundle of receipt,       *)
(* memory and traces is committed under the caller's key in a later one.   *)
(* Appends of other calls come in between, releases that compute other     *)
(* outputs are rolled out, and a commit may fail or lose its reply.        *)
(***************************************************************************)
EXTENDS Integers, Sequences, SequencesExt, FiniteSets

CONSTANTS Replica, Key, Payload,
          Refs(_),       \* the evidence that a payload cites
          Evidence,      \* references that are receipts once ingested
          Output(_, _),  \* what a release computes for a payload
          Releases,      \* the number of releases, rolled out in order
          MaxRequests    \* bound on the requests that arrive

VARIABLES chain,    \* the receipt chain: evidence and analysis bundles
          release,  \* the release that each process runs
          req,      \* the request of each process
          arrived,
          replies   \* every 200 that was sent

analysisVars == <<chain, release, req, arrived, replies>>

NoRequest == [phase |-> "idle"]

Bundles == {b \in ToSet(chain) : b.kind = "analysis.completed"}
Ingested == {b.ref : b \in {x \in ToSet(chain) : x.kind = "evidence"}}

-----------------------------------------------------------------------------
(* Other writers. *)

Ingest(e) ==
  /\ e \notin Ingested
  /\ chain' = Append(chain, [kind |-> "evidence", ref |-> e])
  /\ UNCHANGED <<release, req, arrived, replies>>

\* A process is replaced by one of a later release; what it was doing is lost.
Deploy(p) ==
  /\ release[p] < Releases
  /\ release' = [release EXCEPT ![p] = @ + 1]
  /\ req' = [req EXCEPT ![p] = NoRequest]
  /\ UNCHANGED <<chain, arrived, replies>>

-----------------------------------------------------------------------------
(* One request. *)

Arrive(p, k, a) ==
  /\ req[p].phase = "idle" /\ arrived < MaxRequests
  /\ arrived' = arrived + 1
  /\ req' = [req EXCEPT ![p] =
       [phase |-> "verify", key |-> k, payload |-> a, output |-> Output(a, release[p]),
        todo |-> Refs(a), verified |-> {}, counted |-> 0, intact |-> FALSE]]
  /\ UNCHANGED <<chain, release, replies>>

Resolves(e) == e \in Ingested

\* _verify_analysis_boundary: one reference at a time.
CheckRef(p, e) ==
  /\ req[p].phase = "verify" /\ e \in req[p].todo
  /\ req' = [req EXCEPT ![p].todo = @ \ {e},
                        ![p].verified = IF Resolves(e) THEN @ \cup {e} ELSE @]
  /\ UNCHANGED <<chain, release, arrived, replies>>

\* verify_chain: the rows, then the head they must match.
ReadRows(p) ==
  /\ req[p].phase = "verify" /\ req[p].todo = {}
  /\ req' = [req EXCEPT ![p].phase = "head", ![p].counted = Len(chain)]
  /\ UNCHANGED <<chain, release, arrived, replies>>
ReadHead(p) ==
  /\ req[p].phase = "head"
  /\ req' = [req EXCEPT ![p].phase = "commit", ![p].intact = (Len(chain) = req[p].counted)]
  /\ UNCHANGED <<chain, release, arrived, replies>>

\* The evidence that the bundle records: receipts of this workspace, and whether they are all.
Recorded(r) ==
  [verified |-> r.verified, counted |-> r.counted, intact |-> r.intact,
   state |-> IF r.verified = Refs(r.payload) THEN "VERIFIED_SCOPED" ELSE "PARTIAL"]

Bundle(r) ==
  [kind |-> "analysis.completed", key |-> r.key, payload |-> r.payload, output |-> r.output,
   verification |-> Recorded(r)]
Held(k) == {b \in Bundles : b.key = k}
Stored(r) == IF Held(r.key) = {} THEN Bundle(r) ELSE CHOOSE b \in Held(r.key) : TRUE

\* append_analysis_bundle: a key commits once, a replay reads what it committed.
Committed(r) == IF Held(r.key) = {} THEN Append(chain, Bundle(r)) ELSE chain

Conflict(p) ==
  /\ req[p].phase = "commit"
  /\ \E b \in Held(req[p].key) : b.payload # req[p].payload
  /\ req' = [req EXCEPT ![p] = NoRequest]
  /\ UNCHANGED <<chain, release, arrived, replies>>

\* Defect: a replay is answered whatever this release computes.
Same_Any(r) == TRUE
\* The output of this release is the output that is stored.
Same(r) == Stored(r).output = r.output

\* 200, or 503 if the stored output differs from the one just computed.
Commit(p) ==
  LET r == req[p]
  IN  /\ r.phase = "commit" /\ \A b \in Held(r.key) : b.payload = r.payload
      /\ chain' = Committed(r)
      /\ replies' = IF Same(r)
                    THEN replies \cup {[key |-> r.key, payload |-> r.payload, formulas |-> r.output,
                                        trace |-> Stored(r).verification, receipt |-> Stored(r).output]}
                    ELSE replies
      /\ req' = [req EXCEPT ![p] = NoRequest]
      /\ UNCHANGED <<release, arrived>>

\* An error: the transaction failed, or it committed and its answer was lost.
Fail(p) ==
  /\ req[p].phase = "commit" /\ \A b \in Held(req[p].key) : b.payload = req[p].payload
  /\ chain' \in {chain, Committed(req[p])}
  /\ req' = [req EXCEPT ![p] = NoRequest]
  /\ UNCHANGED <<release, arrived, replies>>

\* 503: verification could not be read.
VerificationFails(p) ==
  /\ req[p].phase \in {"verify", "head"}
  /\ req' = [req EXCEPT ![p] = NoRequest]
  /\ UNCHANGED <<chain, release, arrived, replies>>

AnalysisInit ==
  /\ chain = <<>> /\ release = [p \in Replica |-> 1] /\ arrived = 0 /\ replies = {}
  /\ req = [p \in Replica |-> NoRequest]
Serve ==
  \E p \in Replica :
    \/ \E k \in Key, a \in Payload : Arrive(p, k, a)
    \/ \E e \in UNION {Refs(a) : a \in Payload} : CheckRef(p, e)
    \/ ReadRows(p) \/ ReadHead(p) \/ Conflict(p) \/ Commit(p) \/ Fail(p) \/ VerificationFails(p)
Others == (\E e \in Evidence : Ingest(e)) \/ \E p \in Replica : Deploy(p)
AnalysisNext == Serve \/ Others
AnalysisSpec == AnalysisInit /\ [][AnalysisNext]_analysisVars

-----------------------------------------------------------------------------
(* Properties. *)

Before(b) == {chain[i] : i \in {j \in DOMAIN chain : \E n \in DOMAIN chain : chain[n] = b /\ j < n}}

\* The evidence that a bundle calls verified, and the chain that it calls intact, were durable
\* before it, though both were read in earlier transactions (_verify_analysis_boundary).
VerifiedIsDurable ==
  \A b \in Bundles :
    /\ b.verification.verified \subseteq {x.ref : x \in {y \in Before(b) : y.kind = "evidence"}}
    /\ b.verification.state = "VERIFIED_SCOPED" => b.verification.verified = Refs(b.payload)
    /\ b.verification.counted <= Cardinality(Before(b))

\* Whoever is answered 200 is given formulas, traces and receipt of the one bundle that is durable
\* under its key, of whichever release and after however many retries (analyze: "analysis output
\* differs from its original durable receipt").
RepliesOfOneBundle ==
  \A s \in replies :
    \E b \in Bundles :
      /\ Held(s.key) = {b} /\ s.payload = b.payload
      /\ s.formulas = b.output /\ s.receipt = b.output /\ s.trace = b.verification

\* Both for every bundle and reply of analyze.
AnalysesHold == VerifiedIsDurable /\ RepliesOfOneBundle

=============================================================================
