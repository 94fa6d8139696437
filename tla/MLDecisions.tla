----------------------------- MODULE MLDecisions -----------------------------
(* agents/ml_decision: the decisions seeded into the log, the evidence that *)
(* the accumulator files under them from POC results, and the detector that *)
(* declares a decision ready to close.  A field is committed at a time, and *)
(* a decision may be updated between the detector's check and its update.   *)
EXTENDS Naturals, Sequences, FiniteSetsExt, SequencesExt

CONSTANTS
  Decisions,    \* SEED_DECISIONS
  Blocked,      \* those seeded as "blocked"
  Fields,       \* fields _parse_poc_results reads, in its order: a sequence
  DecisionOf,   \* EVIDENCE_DECISION_MAP, for the fields it has
  ReadyField,   \* evidence_type of READINESS_THRESHOLDS, for the decisions it has
  Threshold,    \* its threshold
  Amounts,      \* values a field may have; 0 stands for a list
  Detectors,    \* instances of ReadinessDetectorAgent
  MaxEvidence   \* bound on the rows of evidence

\* Fields that decide are counts, and no threshold is met by having none.
ASSUME EvidenceAssumption ==
  /\ Amounts \subseteq Nat
  /\ Fields \in Seq(STRING)
  /\ \A d \in DOMAIN ReadyField : Threshold[d] \in Nat \ {0}

VARIABLES
  decision,     \* status of each row of ml_decisions
  evidence,     \* rows: field and value, in order of collected_at
  ingesting,    \* the results still to be filed: place of the field -> value
  ready         \* what each detector's check returned and it has still to update

mlVars == <<decision, evidence, ingesting, ready>>

NoResults == [i \in {} |-> 0]

MLInit ==
  /\ decision = [d \in Decisions |-> IF d \in Blocked THEN "blocked" ELSE "open"]
  /\ evidence = <<>>
  /\ ingesting = NoResults
  /\ ready = [x \in Detectors |-> {}]

\* _parse_poc_results: the fields that the file has.
ParseResults(values) ==
  /\ ingesting = NoResults
  /\ ingesting' = values
  /\ UNCHANGED <<decision, evidence, ready>>

\* One field of _ingest_evidence, in the order they were asked for: skipped when
\* no decision asks for it; a list is not a value that the database takes, so
\* what follows it is not filed.
IngestField ==
  /\ ingesting # NoResults
  /\ LET i == Min(DOMAIN ingesting)
         left == [j \in DOMAIN ingesting \ {i} |-> ingesting[j]]
     IN  IF Fields[i] \notin DOMAIN DecisionOf
         THEN ingesting' = left /\ UNCHANGED evidence
         ELSE IF ingesting[i] = 0
              THEN ingesting' = NoResults /\ UNCHANGED evidence
              ELSE /\ Len(evidence) < MaxEvidence
                   /\ evidence' = Append(evidence, [field |-> Fields[i], value |-> ingesting[i]])
                   /\ ingesting' = left
  /\ UNCHANGED <<decision, ready>>

\* The values filed under a decision for the field its readiness depends on.
Values(d) ==
  {evidence[i].value : i \in {j \in DOMAIN evidence :
     evidence[j].field = ReadyField[d] /\ DecisionOf[evidence[j].field] = d}}

\* A slip in Collected: every row of evidence is counted, each time it was filed.
CollectedInAll(d) ==
  FoldSeq(LAMBDA r, n : n + (IF r.field = ReadyField[d] THEN r.value ELSE 0), 0, evidence)

\* _get_max_evidence_value.
Collected(d) == IF Values(d) = {} THEN 0 ELSE Max(Values(d))

\* check_all_readiness.
Check(x) ==
  /\ ready[x] = {}
  /\ ready' = [ready EXCEPT ![x] = {d \in DOMAIN ReadyField :
                 decision[d] = "open" /\ Collected(d) >= Threshold[d]}]
  /\ UNCHANGED <<decision, evidence, ingesting>>

\* The alert and update_decision for one of them.
DeclareReady(x, d) ==
  /\ d \in ready[x]
  /\ decision' = [decision EXCEPT ![d] = "ready_to_close"]
  /\ ready' = [ready EXCEPT ![x] = @ \ {d}]
  /\ UNCHANGED <<evidence, ingesting>>

\* update_decision by hand, and back to open when a decision is taken up again.
UpdateDecision(d, s) ==
  /\ decision[d] # s
  /\ decision' = [decision EXCEPT ![d] = s]
  /\ UNCHANGED <<evidence, ingesting, ready>>

MLNext ==
  \/ \E S \in SUBSET DOMAIN Fields : \E values \in [S -> Amounts] : ParseResults(values)
  \/ IngestField
  \/ \E x \in Detectors :
       Check(x) \/ \E d \in Decisions : DeclareReady(x, d)
  \/ \E d \in Decisions, s \in {"open", "closed"} : UpdateDecision(d, s)

MLSpec == MLInit /\ [][MLNext]_mlVars

MLTypeOK ==
  /\ decision \in [Decisions -> {"open", "blocked", "ready_to_close", "closed"}]
  /\ evidence \in Seq([field : STRING, value : Amounts])
  /\ \E S \in SUBSET DOMAIN Fields : ingesting \in [S -> Amounts]
  /\ ready \in [Detectors -> SUBSET DOMAIN ReadyField]

\* A decision is declared ready only when one set of results, not the same
\* results filed again after a failure, reached its threshold, whoever else
\* updates decisions between the detector's check and its update.
ReadyHasEvidence ==
  \A d \in Decisions : decision[d] = "ready_to_close" =>
    /\ d \in DOMAIN ReadyField
    /\ \E i \in DOMAIN evidence :
         evidence[i].field = ReadyField[d] /\ evidence[i].value >= Threshold[d]
=============================================================================
