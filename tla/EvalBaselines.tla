---------------------------- MODULE EvalBaselines -----------------------------
(* evals/runner.py with scorers.py: suites of scenarios are evaluated, their *)
(* scores compared with the recorded baseline, and the baseline rewritten    *)
(* from the run on request.  The system changes between the runs.            *)
EXTENDS Naturals, FiniteSets

CONSTANTS
  Scenarios,     \* keys suite::id
  SuiteOf(_),    \* the suite of each
  NeedsModel,    \* the scenarios of the skill_selection suites
  MaxChanges     \* bound on the changes of the system

VARIABLES
  score,         \* what each scenario would score now if it were run in full
  had,           \* the best it would ever have scored
  contract,      \* whether the expectations of a scenario are in its vocabulary
  baseline,      \* baselines.json: the scores it has
  last,          \* the last run: what it evaluated, its regressions, its exit code,
                 \* and the next two as it found them
  recorded,      \* each scenario in the last update it was part of
  updated,       \* the scenarios of the last update
  changes

evalVars == <<score, had, contract, baseline, last, recorded, updated, changes>>

Full == 2          \* every check of the scenario passes
Scores == 0..Full  \* 1: some check passes
NoScore == 9
NoRecord == [score |-> NoScore, live |-> FALSE]
Unrecorded == [s \in Scenarios |-> NoRecord]
NoRun == [of |-> [s \in {} |-> 0], regressions |-> {}, exit |-> 0,
          known |-> Unrecorded, updated |-> {}]
Suites == {SuiteOf(s) : s \in Scenarios}

EvalInit ==
  /\ score \in [Scenarios -> Scores]
  /\ had = score
  /\ contract = [s \in Scenarios |-> TRUE]
  /\ baseline = [s \in Scenarios |-> NoScore]
  /\ last = NoRun
  /\ recorded = Unrecorded
  /\ updated = {}
  /\ changes = 0

\* A change of the router, a prompt or the model, or of a scenario file.
SystemChanges(s, n) ==
  /\ changes < MaxChanges
  /\ score' = [score EXCEPT ![s] = n]
  /\ had' = [had EXCEPT ![s] = IF n > @ THEN n ELSE @]
  /\ changes' = changes + 1
  /\ UNCHANGED <<contract, baseline, last, recorded, updated>>

ContractBreaks(s) ==
  /\ changes < MaxChanges /\ s \in NeedsModel /\ contract[s]
  /\ contract' = [contract EXCEPT ![s] = FALSE]
  /\ changes' = changes + 1
  /\ UNCHANGED <<score, had, baseline, last, recorded, updated>>

\* evaluate_skill_selection: offline only the contract is checked; live without a
\* key the scenario is skipped; live the model's choices count as well.
SkillScore(s, live, key) ==
  IF ~live THEN (IF contract[s] THEN Full ELSE 1)
  ELSE IF ~key THEN NoScore
  ELSE IF contract[s] THEN score[s]
  ELSE IF score[s] = Full THEN 1 ELSE score[s]

\* evaluate_routing: the routing table is what it is.
Evaluated(s, live, key) == IF s \in NeedsModel THEN SkillScore(s, live, key) ELSE score[s]

\* run: the suites asked for, and the outcomes that are not skipped.
Outcomes(suites, live, key) ==
  LET in == {s \in Scenarios : SuiteOf(s) \in suites /\ Evaluated(s, live, key) # NoScore}
  IN [s \in in |-> Evaluated(s, live, key)]

\* find_regressions.
Regressions(of) == {s \in DOMAIN of : baseline[s] # NoScore /\ of[s] < baseline[s]}

\* The exit code of main: a failed scenario, critical or not, or a regression.
ExitCode(of) ==
  IF (\E s \in DOMAIN of : of[s] < Full) \/ Regressions(of) # {} THEN 1 ELSE 0

\* A slip in save_baselines: the file's scores are kept, with those it has over the
\* run's.
SavedUnderOld(of) ==
  [s \in Scenarios |-> IF baseline[s] = NoScore /\ s \in DOMAIN of THEN of[s] ELSE baseline[s]]

\* save_baselines: the scores of this run are the file.
Saved(of) == [s \in Scenarios |-> IF s \in DOMAIN of THEN of[s] ELSE NoScore]

\* The report of main over the baseline as it is.
Report(of, exit) ==
  [of |-> of, regressions |-> Regressions(of), exit |-> exit,
   known |-> recorded, updated |-> updated]

\* main: the regressions are found before the baseline is rewritten.
RunEvals(suites, live, key, update) ==
  LET of == Outcomes(suites, live, key) IN
  /\ last' = Report(of, ExitCode(of))
  /\ baseline' = IF update THEN Saved(of) ELSE baseline
  /\ recorded' = IF update
                 THEN [s \in Scenarios |-> IF s \in DOMAIN of
                                           THEN [score |-> of[s], live |-> live] ELSE recorded[s]]
                 ELSE recorded
  /\ updated' = IF update THEN DOMAIN of ELSE updated
  /\ UNCHANGED <<score, had, contract, changes>>

\* main dies as it writes the baseline, after the report: load_baselines reads a file
\* that does not parse as one with no scores.
UpdateDies(suites, live, key) ==
  LET of == Outcomes(suites, live, key) IN
  /\ last' = Report(of, 1)
  /\ baseline' = [s \in Scenarios |-> NoScore]
  /\ updated' = {}
  /\ UNCHANGED <<score, had, contract, recorded, changes>>

EvalNext ==
  \/ \E s \in Scenarios : (\E n \in Scores : SystemChanges(s, n)) \/ ContractBreaks(s)
  \/ \E suites \in {Suites} \union {{x} : x \in Suites}, live, key \in BOOLEAN :
       \/ \E update \in BOOLEAN : RunEvals(suites, live, key, update)
       \/ UpdateDies(suites, live, key)

EvalSpec == EvalInit /\ [][EvalNext]_evalVars

\* A scenario scores less than when it was last recorded.
Dropped(s) == last.known[s].score # NoScore /\ last.of[s] < last.known[s].score

\* Its record is of a run that tested it: offline the model is not asked.
Tested(s) == s \notin NeedsModel \/ last.known[s].live

\* What the report of a run may name and leave out.  A scenario that scores less than when it was last
\* recorded goes unnamed only if the last update left it out or died; and one that is
\* named scores less than when it was recorded, and was once better unless it was
\* recorded offline, where a scenario for the model counts as passed without it.
RegressionsAreExplained ==
  \A s \in DOMAIN last.of :
    /\ Dropped(s) /\ s \notin last.regressions => s \notin last.updated
    /\ s \in last.regressions =>
         /\ Dropped(s)
         /\ Tested(s) => last.of[s] < had[s]
===============================================================================
