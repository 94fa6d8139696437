------------------------------ MODULE TestReview ------------------------------
(* agents/coding/test_review_agent.py: the review of a set of test files.    *)
(* The heuristics classify each test; their findings come first, the model's *)
(* after them; of two findings of one category under one name the first is   *)
(* kept; and the verdict is the worse of the computed one and the model's.   *)
EXTENDS Naturals, Sequences, FiniteSets, SequencesExt, FiniteSetsExt

CONSTANTS
  Shapes,       \* what tests are like: records of TestShape
  MaxTests,     \* bound on the tests of a submission
  NameKey(_),   \* the part of a test's name that tells findings apart
  Coverages,    \* coverage reports: of a kind "none", "percent" or "ratio" (in percent)
  ModelFindings \* findings a model may return

TestShape ==
  [real : Nat, mock : Nat, tautology : BOOLEAN, weak : BOOLEAN, sad : BOOLEAN,
   skipped : BOOLEAN, swallows : BOOLEAN]

ASSUME ReviewAssumption ==
  /\ MaxTests \in Nat
  /\ Coverages \subseteq {"none", "percent", "ratio"} \X Nat
  /\ Shapes \subseteq TestShape

VARIABLES
  stage,        \* what the review is at
  tests,        \* the test functions found
  broken,       \* whether a file does not parse, or has assertions commented out
  untested,     \* whether a public function of the implementation is in no test
  coverage,     \* the coverage as parsed, or Unknown
  detected,     \* the static findings
  review,       \* findings and verdict
  wiki          \* the verdict recorded under the module's name

reviewVars == <<stage, tests, broken, untested, coverage, detected, review, wiki>>

Severities == {"high", "medium", "low"}
VerdictOrder == [v \in {"MEANINGFUL", "GAPS_FOUND", "COVERAGE_MISLEADING"} |->
                   IF v = "MEANINGFUL" THEN 0 ELSE IF v = "GAPS_FOUND" THEN 1 ELSE 2]
Unknown == 1000
NoReview == [findings |-> <<>>, verdict |-> "none"]
NoModelAnswer == [findings |-> <<>>, verdict |-> ""]

Finding(category, on, severity, by) ==
  [category |-> category, on |-> on, severity |-> severity, by |-> by]
Static(category, on, severity) == Finding(category, on, severity, "static_analysis")
When(condition, finding) == IF condition THEN <<finding>> ELSE <<>>

NoAssertion(t) == t.real = 0 /\ t.mock = 0 /\ ~t.tautology /\ ~t.weak
MockOnly(t) == t.real = 0 /\ t.mock > 0

\* The findings of _analyze_test_function.
TestFindings(name, t) ==
  When(NoAssertion(t), Static("NO_ASSERTION", name, "high"))
  \o When(MockOnly(t), Static("MOCK_ONLY_ASSERTION", name, "high"))
  \o When(t.tautology, Static("TAUTOLOGY", name, "high"))
  \o When(t.real = 0 /\ t.weak, Static("WEAK_ASSERTION", name, "medium"))
  \o When(t.skipped, Static("SUPPRESSED_FAILURE", name, "high"))
  \o When(t.swallows, Static("SUPPRESSED_FAILURE", name, "high"))

Count(Holds(_)) == Cardinality({i \in DOMAIN tests : Holds(tests[i])})
Total == Len(tests)
Sad == Count(LAMBDA t : t.sad)
Unasserted == Count(LAMBDA t : t.real = 0)
RealIn(ts) == FoldFunction(LAMBDA t, n : t.real + n, 0, ts)
Assertions == RealIn(tests)
HeavilyMocked == Count(LAMBDA t : t.mock >= 3 /\ t.real <= 1)

\* _build_metrics and the tests that _verdict counts as weak, once for each reason.
WeakTests ==
  Count(LAMBDA t : t.tautology) + Count(MockOnly) + Count(NoAssertion)
  + Count(LAMBDA t : t.skipped) + Count(LAMBDA t : t.swallows)

\* _parse_coverage: a number up to 1 is taken for a ratio.
Parsed(report) ==
  IF report[1] = "none" THEN Unknown
  ELSE IF report[1] = "percent" /\ report[2] <= 1 THEN report[2] * 100 ELSE report[2]

\* The findings of _suite_level_findings; none about a suite without tests.
SuiteFindings ==
  IF Total = 0 THEN <<>>
  ELSE When(Sad = 0, Static("MISSING_SAD_PATH", <<"suite">>, "high"))
       \o When(Sad > 0 /\ 5 * Sad < Total, Static("MISSING_SAD_PATH", <<"suite">>, "medium"))
       \o (IF coverage = Unknown THEN <<>>
           ELSE IF coverage >= 80 /\ 4 * Unasserted > Total
                THEN <<Static("GAMED_COVERAGE", <<"suite">>, "high")>>
                ELSE When(coverage < 60, Static("MISSING_HAPPY_PATH", <<"suite">>, "medium")))
       \o When(Assertions < Total /\ Total > 2, Static("WEAK_ASSERTION", <<"suite">>, "medium"))
       \o When(HeavilyMocked > 0, Static("OVER_MOCKING", <<"mocked">>, "medium"))

\* _analyze_static.
StaticFindings ==
  When(broken, Static("SUPPRESSED_FAILURE", <<"file">>, "high"))
  \o FlattenSeq([i \in DOMAIN tests |-> TestFindings(<<"test", i>>, tests[i])])
  \o SuiteFindings
  \o When(untested, Static("MISSING_HAPPY_PATH", <<"none">>, "high"))

SameKey(f, g) == f.category = g.category /\ NameKey(f.on) = NameKey(g.on)

FirstOfKeys(all) ==
  {all[i] : i \in {j \in DOMAIN all : \A k \in 1..(j - 1) : ~SameKey(all[k], all[j])}}

\* A slip in _merge_findings: what the model has refined replaces what was found.
MergedModelFirst(static, model) == FirstOfKeys(model \o static)

\* _merge_findings: the first finding of each category and name, the static ones
\* first.
Merged(static, model) == FirstOfKeys(static \o model)

\* _verdict.
Verdict(findings) ==
  IF \E f \in findings : f.category = "GAMED_COVERAGE" THEN "COVERAGE_MISLEADING"
  ELSE IF coverage # Unknown /\ coverage >= 80 /\ Total > 0 /\ 4 * WeakTests > Total
       THEN "COVERAGE_MISLEADING"
  ELSE IF findings # {} THEN "GAPS_FOUND"
  ELSE "MEANINGFUL"

\* run: the model's verdict counts if it is one and is worse.
WorseOf(verdict, says) ==
  IF says \in DOMAIN VerdictOrder /\ VerdictOrder[says] > VerdictOrder[verdict]
  THEN says ELSE verdict

ReviewInit ==
  /\ stage = "idle"
  /\ tests = <<>> /\ broken = FALSE /\ untested = FALSE
  /\ coverage = Unknown
  /\ detected = <<>>
  /\ review = NoReview
  /\ wiki = "none"

\* _collect_test_files, _collect_implementation and the AST walk: at least one
\* file of tests, which need not define a test.
Submit(given, unparsed, gap, report) ==
  /\ stage = "idle"
  /\ tests' = given
  /\ broken' = unparsed
  /\ untested' = gap
  /\ coverage' = Parsed(report)
  /\ stage' = "static"
  /\ UNCHANGED <<detected, review, wiki>>

Analyze ==
  /\ stage = "static"
  /\ detected' = StaticFindings
  /\ stage' = "model"
  /\ UNCHANGED <<tests, broken, untested, coverage, review, wiki>>

\* _review_with_llm, where no provider, a failed call and an answer that does not
\* parse all leave the static findings; the merge and the verdict; and
\* _record_to_wiki, which must not fail the run.
Review(answer, written) ==
  /\ stage = "model"
  /\ LET findings == Merged(detected, answer.findings) IN
     review' = [findings |-> findings, verdict |-> WorseOf(Verdict(findings), answer.verdict)]
  /\ wiki' = IF written THEN review'.verdict ELSE wiki
  /\ stage' = "done"
  /\ UNCHANGED <<tests, broken, untested, coverage, detected>>

Submissions == UNION {[1..n -> Shapes] : n \in 0..MaxTests}
Answers == {NoModelAnswer} \union
  [findings : {<<>>} \union {<<f>> : f \in ModelFindings},
   verdict : DOMAIN VerdictOrder \union {"FINE"}]

ReviewNext ==
  \/ \E given \in Submissions, unparsed, gap \in BOOLEAN, report \in Coverages :
       Submit(given, unparsed, gap, report)
  \/ Analyze
  \/ \E answer \in Answers, written \in BOOLEAN : Review(answer, written)

ReviewSpec == ReviewInit /\ [][ReviewNext]_reviewVars

Reviewed == stage = "done"

\* The model only adds: whatever it answers, the verdict is no better than that
\* of the static analysis alone, and a finding of the static analysis is there
\* with its severity.
ModelOnlyWorsens ==
  Reviewed =>
    LET alone == Merged(detected, <<>>) IN
    /\ VerdictOrder[review.verdict] >= VerdictOrder[Verdict(alone)]
    /\ alone \subseteq review.findings

\* The verdict MEANINGFUL means that every test found asserts on a real value,
\* runs, and lets failures through, that some test takes a sad path, and that no
\* known coverage is below the floor.
MeaningfulMeansAsserted ==
  Reviewed /\ review.verdict = "MEANINGFUL" =>
    /\ \A i \in DOMAIN tests : tests[i].real > 0 /\ ~tests[i].skipped /\ ~tests[i].swallows
    /\ Total > 0 => \E i \in DOMAIN tests : tests[i].sad
    /\ Total > 0 /\ coverage # Unknown => coverage >= 60

\* A verdict stands on what was found: neither the model nor the order in which
\* findings are merged makes it better, and the best one is earned.
VerdictStands == ModelOnlyWorsens /\ MeaningfulMeansAsserted
===============================================================================
