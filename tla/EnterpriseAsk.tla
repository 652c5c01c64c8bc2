------------------------------ MODULE EnterpriseAsk ------------------------------
(***************************************************************************)
(* A question asked of one workspace (lyte/intelligence/enterprise_ask.py, *)
(* POST /ask).  The engine loads the entities of each kind, the execution  *)
(* and outcome receipts, and the receipts of the rows it selected, each in *)
(* a transaction of its own, while rows are replaced and receipts appended.*)
(* Intents that rank one kind are one intent, "ranking"; the wording of    *)
(* questions and answers is left out.                                      *)
(***************************************************************************)
EXTENDS Integers, Sequences, SequencesExt, FiniteSets

CONSTANTS Intents,       \* the intents asked in this instance
          AskEntity,     \* [kind, id] records; rows of a kind are listed by id
          RowsOf(_),     \* the rows that may be written for an entity
          Receipts(_),   \* the receipts that may be appended while an intent is asked
          EntityLimit, ReceiptLimit,  \* _ENTITY_LIMIT, _RECEIPT_FALLBACK_LIMIT
          Day,           \* 24 hours
          MaxWrites                   \* bound on upserts

NoRow == [truth |-> "UNAVAILABLE"]

VARIABLES intent,    \* the intent of this behaviour's questions
          latest,    \* the latest version of each entity
          writes,
          evidence,  \* the receipt chain, oldest first
          engine,    \* the engine of the request in progress, and its answer
          observed   \* rows that were the latest at some moment of the request

askVars == <<intent, latest, writes, evidence, engine, observed>>

-----------------------------------------------------------------------------
(* Truth labels, weakest first. *)

Strength == [MODELED |-> 1, REPORTED |-> 2, MEASURED |-> 3]
Accepted == DOMAIN Strength

\* _compatible_receipt: a row claims no more than its receipt.
Compatible(row, r) ==
  /\ r.truth \in Accepted
  /\ Strength[r.truth] >= Strength[row.truth]

Weakest(used) == {l \in Accepted : \E row \in used : l \in {row.truth, row.inner}}
\* _truth: of rows and of their indicators.
TruthOf(used) ==
  IF intent \in {"ranking_modeled", "formulas"} \/ "MODELED" \in Weakest(used) THEN "MODELED"
  ELSE IF "REPORTED" \in Weakest(used) THEN "REPORTED" ELSE "MEASURED"

-----------------------------------------------------------------------------
(* What an intent loads and selects. *)

KindsOf ==
  [ranking |-> <<"Service">>,
   ranking_modeled |-> <<"BusinessOutcome">>,
   journey |-> <<"CustomerJourney", "DeploymentEvent">>,
   incident |-> <<"Incident", "DeploymentEvent">>,
   review |-> <<"Recommendation", "Decision">>,
   formulas |-> <<"BusinessOutcome", "Service", "CustomerJourney">>,
   outcome |-> <<"ActionRequest", "OutcomeVerification">>]

ASSUME AskAssumption == Intents \subseteq DOMAIN KindsOf /\ ReceiptLimit \in Nat

FirstRows(kind) ==
  {e \in AskEntity : /\ e.kind = kind /\ latest[e] # NoRow
                     /\ Cardinality({d \in AskEntity : d.kind = kind /\ d.id < e.id /\ latest[d] # NoRow}) < EntityLimit}
\* list_operational, then _available.
Loaded(kind) == {latest[e] : e \in {x \in FirstRows(kind) : latest[x].truth \in Accepted}}

Flagged(S) == {r \in S : r.flag}
Earliest(S) == {i \in S : \A j \in S : i <= j}
Least(S) == {{r} : r \in {x \in S : \A y \in S : x.id <= y.id}}

\* A deployment that precedes the other row, of one of its services if it names any.
Related(row, deployment) ==
  /\ deployment.at <= row.at
  /\ row.services # {} => deployment.service \in row.services
  /\ intent = "incident" => row.at - deployment.at <= Day
Closest(S, deployments) ==
  LET pairs == {p \in S \X deployments : Related(p[1], p[2])}
  IN  {{p[1], p[2]} : p \in {q \in pairs : \A o \in pairs : q[1].at - q[2].at <= o[1].at - o[2].at}}

\* The selections the handler may make of what it has loaded; none is an unavailable answer.
Selections(have) ==
  CASE intent \in {"ranking", "ranking_modeled"} ->
         LET usable == Flagged(have[KindsOf[intent][1]])
         IN  {{r} : r \in {x \in usable : \A y \in usable : x.value >= y.value}}
    [] intent = "journey" -> Closest(Flagged(have["CustomerJourney"]), have["DeploymentEvent"])
    [] intent = "incident" -> Closest(have["Incident"], have["DeploymentEvent"])
    [] intent = "review" -> IF Flagged(have["Recommendation"]) # {}
                            THEN Least(Flagged(have["Recommendation"]))
                            ELSE Least(Flagged(have["Decision"]))
    [] intent = "formulas" ->
         LET usable == {i \in DOMAIN KindsOf["formulas"] : Flagged(have[KindsOf["formulas"][i]]) # {}}
         IN  UNION {Least(Flagged(have[KindsOf["formulas"][i]])) : i \in Earliest(usable)}
    [] intent = "outcome" -> IF engine.proven = {} THEN {} ELSE {engine.proven}

\* The kinds still to be loaded: decisions only if no recommendation names a review.
AnyNamed == "Recommendation" \in DOMAIN engine.have /\ Flagged(engine.have["Recommendation"]) # {}
Missing ==
  {k \in ToSet(KindsOf[intent]) : k \notin DOMAIN engine.have /\ ~(k = "Decision" /\ AnyNamed)}

-----------------------------------------------------------------------------
(* Improvement after an action (_post_action_outcome). *)

ByHash(h) == {r \in ToSet(evidence) : r.hash = h}

\* Non-simulated, measured rows of the states that the handler accepts.
Actions == {a \in engine.have["ActionRequest"] : a.flag /\ a.truth = "MEASURED"}
Verifications == {v \in engine.have["OutcomeVerification"] : v.flag /\ v.truth = "MEASURED"}

Executes(a, r) ==
  /\ r.truth = "MEASURED" /\ r.kind = "action.executed" /\ r.subject = a.id
  /\ a.execution \in a.refs

Links(a, v) ==
  /\ v.action = a.id /\ v.execution = a.execution
  /\ v.outcome \in v.refs

\* Defect: a verification window that began before the execution is accepted.
After_Any(r, x) == r.from < r.to
After(r, x) == x.at <= r.from /\ r.from < r.to

Verifies(a, v, r, x) ==
  /\ r.truth = "MEASURED" /\ r.kind = "outcome.verified" /\ r.subject = v.id
  /\ r.action = a.id /\ r.execution = a.execution /\ r.improved
  /\ After(r, x)

-----------------------------------------------------------------------------
(* The workspace.  No step of an intent reads rows of another intent's kinds. *)

UpsertRow(e, c) ==
  /\ engine.phase # "answered" /\ writes < MaxWrites /\ e.kind \in ToSet(KindsOf[intent])
  /\ latest' = [latest EXCEPT ![e] = c]
  /\ writes' = writes + 1
  /\ observed' = IF engine.phase = "idle" THEN observed ELSE observed \cup {c}
  /\ UNCHANGED <<intent, evidence, engine>>

AppendEvidence(r) ==
  /\ engine.phase # "answered" /\ r \notin ToSet(evidence)
  /\ evidence' = Append(evidence, r)
  /\ UNCHANGED <<intent, latest, writes, engine, observed>>

-----------------------------------------------------------------------------
(* The request. *)

NoAnswer == [rows |-> {}, truth |-> "UNAVAILABLE", cites |-> {}]
NothingLoaded == [k \in {} |-> {}]
\* ask_enterprise: a new engine, which has loaded nothing, for each request.
BeginAsk ==
  /\ engine.phase = "idle"
  /\ engine' = [engine EXCEPT !.phase = "load"]
  /\ observed' = {latest[e] : e \in AskEntity}
  /\ UNCHANGED <<intent, latest, writes, evidence>>

\* _load
Load ==
  /\ engine.phase = "load"
  /\ \E i \in Earliest({j \in DOMAIN KindsOf[intent] : KindsOf[intent][j] \in Missing}) :
       LET kind == KindsOf[intent][i]
       IN  engine' = [engine EXCEPT !.have =
              [k \in DOMAIN @ \cup {kind} |-> IF k = kind THEN Loaded(kind) ELSE @[k]]]
  /\ UNCHANGED <<intent, latest, writes, evidence, observed>>

\* One action's execution receipt.
FindExecution ==
  /\ engine.phase = "load" /\ Missing = {} /\ intent = "outcome" /\ engine.proven = {}
  /\ \E a \in Actions :
       /\ ~\E d \in engine.executions : d.action = a
       /\ \A b \in Actions : b.id < a.id => \E d \in engine.executions : d.action = b
       /\ engine' = [engine EXCEPT !.executions = @ \cup
            {[action |-> a, by |-> {x \in ByHash(a.execution) : Executes(a, x)}, tried |-> {}]}]
  /\ UNCHANGED <<intent, latest, writes, evidence, observed>>

\* One verification's outcome receipt, for an action whose execution is proven.
FindOutcome ==
  /\ engine.phase = "load" /\ intent = "outcome" /\ engine.proven = {}
  /\ \E d \in engine.executions : \E v \in {x \in Verifications : Links(d.action, x)} \ d.tried :
       /\ d.by # {}
       /\ engine' = [engine EXCEPT
            !.executions = (@ \ {d}) \cup {[d EXCEPT !.tried = @ \cup {v}]},
            !.proven = IF \E r \in ByHash(v.outcome), x \in d.by : Verifies(d.action, v, r, x)
                       THEN {d.action, v} ELSE {}]
  /\ UNCHANGED <<intent, latest, writes, evidence, observed>>

Searched ==
  /\ Missing = {}
  /\ (intent = "outcome" /\ engine.proven = {}) =>
       \A a \in Actions : \E d \in engine.executions :
         d.action = a /\ (d.by # {} => {v \in Verifications : Links(a, v)} \subseteq d.tried)

Hashes == {r.hash : r \in Receipts(intent)}

Select ==
  /\ engine.phase = "load" /\ Searched
  /\ IF Selections(engine.have) = {}
     THEN engine' = [engine EXCEPT !.phase = "answered"]
     ELSE \E used \in Selections(engine.have) :
            engine' = [engine EXCEPT !.phase = "cite", !.used = used,
                                     !.todo = UNION {row.refs : row \in used}]
  /\ UNCHANGED <<intent, latest, writes, evidence, observed>>

\* _receipts_for: each reference that is a digest is looked up by itself.
Resolve(h) ==
  /\ engine.phase = "cite" /\ h \in engine.todo \cap Hashes
  /\ engine' = [engine EXCEPT !.todo = @ \ {h}, !.found = @ \cup ByHash(h)]
  /\ UNCHANGED <<intent, latest, writes, evidence, observed>>

\* The others are sought in the first receipts of the chain.
Fallback ==
  /\ engine.phase = "cite" /\ engine.todo # {} /\ engine.todo \cap Hashes = {}
  /\ LET first == ToSet(SubSeq(evidence, 1, IF Len(evidence) < ReceiptLimit THEN Len(evidence) ELSE ReceiptLimit))
     IN  engine' = [engine EXCEPT !.todo = {}, !.found = @ \cup {r \in first : r.refs \cap engine.todo # {}}]
  /\ UNCHANGED <<intent, latest, writes, evidence, observed>>

Cites(row) ==
  {r \in engine.found : Compatible(row, r) /\ (r.hash \in row.refs \/ r.refs \cap row.refs # {})}

\* Every selected row needs a compatible receipt.
Covered == \A row \in engine.used : Cites(row) # {}

Conclude ==
  /\ engine.phase = "cite" /\ engine.todo = {}
  /\ engine' = [engine EXCEPT !.phase = "answered",
       !.answer = IF Covered
                  THEN [rows |-> engine.used, truth |-> TruthOf(engine.used),
                        cites |-> {c \in engine.used \X engine.found : c[2] \in Cites(c[1])}]
                  ELSE NoAnswer]
  /\ UNCHANGED <<intent, latest, writes, evidence, observed>>

AskInit ==
  /\ intent \in Intents
  /\ latest = [e \in AskEntity |-> NoRow] /\ writes = 0 /\ evidence = <<>> /\ observed = {}
  /\ engine = [phase |-> "idle", have |-> NothingLoaded, proven |-> {}, executions |-> {},
               found |-> {}, used |-> {}, todo |-> {}, answer |-> NoAnswer]

Rewrite ==
  \/ \E e \in AskEntity : \E c \in RowsOf(e) : UpsertRow(e, c)
  \/ \E r \in Receipts(intent) : AppendEvidence(r)
AskStep ==
  \/ BeginAsk \/ Load \/ FindExecution \/ FindOutcome \/ Select
  \/ \E h \in Hashes : Resolve(h)
  \/ Fallback \/ Conclude
AskNext == Rewrite \/ AskStep
AskSpec == AskInit /\ [][AskNext]_askVars

-----------------------------------------------------------------------------
(* Properties. *)

Answered == engine.phase = "answered" /\ engine.answer.rows # {}

\* An answer rests, row by row, on versions that were the latest at some moment of its request,
\* each with a durable receipt that is cited for it and claims no less than the row, and claims
\* itself no more than its weakest row, although every row, kind and receipt was read in a
\* transaction of its own (_load, _receipts_for, _answer).
AnswersGrounded ==
  Answered => \A row \in engine.answer.rows :
    /\ row \in observed
    /\ \E c \in engine.answer.cites : /\ c[1] = row /\ c[2] \in ToSet(evidence)
                                      /\ Strength[c[2].truth] >= Strength[row.truth]
    /\ Strength[engine.answer.truth] <= Strength[row.truth]

\* An improvement is claimed only if measured receipts show that the action was executed and
\* that, over a window that began no earlier, its outcome improved, however the action's and the
\* verification's rows were rewritten between the reads (_post_action_outcome).
ImprovementEarned ==
  (Answered /\ intent = "outcome") =>
    \E x \in ToSet(evidence), r \in ToSet(evidence) :
      /\ x.truth = "MEASURED" /\ x.kind = "action.executed" /\ r.truth = "MEASURED"
      /\ r.kind = "outcome.verified" /\ r.execution = x.hash /\ r.improved
      /\ x.at <= r.from /\ r.from < r.to

\* Both for every answer of the engine.
AnswersEarned == AnswersGrounded /\ ImprovementEarned

=============================================================================
