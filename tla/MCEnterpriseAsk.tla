---------------------------- MODULE MCEnterpriseAsk ----------------------------
(* Three versions written to the kinds of one intent, while one question of it is answered. *)
EXTENDS Integers, Sequences, FiniteSets, TLC
Kinds == {"Service", "BusinessOutcome", "CustomerJourney", "DeploymentEvent", "Incident",
          "Recommendation", "Decision", "ActionRequest", "OutcomeVerification"}
Entities ==
  [kind : Kinds, id : {1}]
  \cup [kind : {"Service", "DeploymentEvent", "Recommendation", "OutcomeVerification"}, id : {2}]

Row(e, f, t, r) == [kind |-> e.kind, id |-> e.id, flag |-> f, truth |-> t, inner |-> t, refs |-> {r}]
Rows(e) ==
  CASE e.kind = "Service" ->
         {Row(e, TRUE, "MEASURED", "h1") @@ [value |-> e.id], Row(e, TRUE, "REPORTED", "s1") @@ [value |-> 2]}
    [] e.kind = "BusinessOutcome" ->
         {Row(e, TRUE, "MEASURED", "s1") @@ [value |-> 1], Row(e, FALSE, "UNAVAILABLE", "h1") @@ [value |-> 1]}
    [] e.kind \in {"CustomerJourney", "Incident"} ->
         {Row(e, TRUE, "MEASURED", "h1") @@ [at |-> 2, services |-> {}],
          Row(e, TRUE, "MODELED", "s1") @@ [at |-> 4, services |-> {"a"}],
          Row(e, FALSE, "MEASURED", "h1") @@ [at |-> 4, services |-> {"a"}]}
    [] e.kind = "DeploymentEvent" ->
         {Row(e, TRUE, "MEASURED", "h1") @@ [at |-> 1, service |-> "a"],
          Row(e, TRUE, "MEASURED", "s1") @@ [at |-> 3, service |-> "a"],
          Row(e, TRUE, "REPORTED", "h2") @@ [at |-> 3, service |-> "b"]}
    [] e.kind \in {"Recommendation", "Decision"} ->
         {Row(e, TRUE, "MEASURED", "s1"), Row(e, FALSE, "REPORTED", "h2")}
    [] e.kind = "ActionRequest" ->
         {Row(e, TRUE, "MEASURED", x) @@ [execution |-> x] : x \in {"x1", "x2"}}
    [] e.kind = "OutcomeVerification" ->
         {Row(e, TRUE, "MEASURED", o[1]) @@ [outcome |-> o[1], execution |-> o[2], action |-> 1] :
            o \in {<<"o1", "x1">>, IF e.id = 1 THEN <<"o1", "x2">> ELSE <<"o2", "x2">>}}

Base(h, t, k) == [hash |-> h, truth |-> t, kind |-> k, refs |-> {"s1"}]
Appended(i) ==
  IF i = "outcome"
  THEN {Base("x1", "MEASURED", "action.executed") @@ [subject |-> 1, at |-> 1],
        Base("x2", "MEASURED", "action.executed") @@ [subject |-> 1, at |-> 3],
        Base("o1", "MEASURED", "outcome.verified") @@ [subject |-> 1, action |-> 1, execution |-> "x1", improved |-> TRUE, from |-> 2, to |-> 3],
        Base("o2", "MEASURED", "outcome.verified") @@ [subject |-> 2, action |-> 1, execution |-> "x2", improved |-> TRUE, from |-> 2, to |-> 4]}
  ELSE {Base("h1", "MEASURED", "ingest"), Base("h2", "REPORTED", "ingest")}

\* TLC keeps the value of a definition, but not that of one a constant is replaced by.
Asked == Entities

Questions == {"ranking", "ranking_modeled", "journey", "incident", "review", "formulas", "outcome"}

=============================================================================
