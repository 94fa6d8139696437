-------------------------------- MODULE MCWork --------------------------------
(* TLC instance of the work around the agents: events and their tasks (web), *)
(* plans (plans), the reviews of tests and of code (tests, code) and the     *)
(* evaluation of the agents (evals).  They share no state, so each behaviour *)
(* exercises one of them ("part").                                           *)
EXTENDS WebApp, PlanGate, TestReview, RefactorReview, EvalBaselines, TLC

CONSTANT Parts   \* the parts of this instance that act

VARIABLE part

\* Tests of every kind the heuristics tell apart, and the two whose names differ
\* in punctuation only.
Kind(real, mock, taut, weak) ==
  [real |-> real, mock |-> mock, tautology |-> taut, weak |-> weak, sad |-> FALSE,
   skipped |-> FALSE, swallows |-> FALSE]
WShapes ==
  {Kind(0, 0, FALSE, FALSE), Kind(0, 3, TRUE, FALSE), Kind(0, 0, FALSE, TRUE),
   Kind(1, 3, FALSE, FALSE), [Kind(2, 0, FALSE, FALSE) EXCEPT !.sad = TRUE],
   [Kind(1, 0, FALSE, FALSE) EXCEPT !.skipped = TRUE, !.swallows = TRUE]}
WNameKey(on) == IF on = <<"test", 3>> THEN <<"test", 2>> ELSE on
WCoverages == {<<"none", 0>>, <<"percent", 1>>, <<"ratio", 85>>}
Says(category, on, severity) ==
  [category |-> category, on |-> on, severity |-> severity, by |-> "llm"]

WModelFindings ==
  {Says("WEAK_ASSERTION", <<"test", 1>>, "low"), Says("GAMED_COVERAGE", <<"suite">>, "medium")}

WFiles == <<"a.py", "b.py", "test_a.py">>
WIsTest(f) == f = "test_a.py"
\* "" is a blank line.
Code(nodes, unused, lines) ==
  LET kept == SelectSeq([i \in DOMAIN lines |-> i], LAMBDA i : lines[i] # "") IN
  [parses |-> TRUE, long |-> FALSE, nodes |-> nodes, unused |-> unused,
   code |-> [k \in DOMAIN kept |-> [at |-> kept[k], text |-> lines[kept[k]]]]]
WSources ==
  {Code(<<{"long", "deep", "many parameters"}>>, 0, <<"x", "y", "x", "y">>),
   Code(<<{"unused", "vague name"}, {"no self", "vague parameters"}>>, 2, <<"p", "", "q", "r">>),
   [Code(<<{"very long"}>>, 1, <<"r", "p", "q", "r", "p", "q", "s", "r", "p">>) EXCEPT !.long = TRUE],
   Code(<<{"many methods", "vague name"}, {"no self"}, {"no self", "deep"}>>, 0,
        <<"", "x", "y", "", "", "r", "", "p", "q">>),
   [Code(<<>>, 0, <<"q", "r">>) EXCEPT !.parses = FALSE]}

\* The path of b.py is so long that nothing else of a location with it counts.
WPlaceText(place) ==
  IF place[1] = "copies" /\ \A c \in place[2] : c.file = "b.py" THEN "b.py" ELSE place

WModelSays ==
  {<<>>} \union
  {<<[category |-> c, file |-> f, place |-> p, severity |-> "low", by |-> "llm"]>> :
     c \in {"LONG_FUNCTION", "STRUCTURE"}, f \in {"a.py", "b.py"},
     p \in {<<"lines", 1>>, <<"file">>}}

WSuiteOf(s) == IF s = "route" THEN "routing" ELSE "skills"

allVars == <<part, webVars, planVars, reviewVars, refVars, evalVars>>

MCInit ==
  /\ part \in Parts
  /\ WebInit /\ PlanInit /\ ReviewInit /\ RefInit /\ EvalInit
  /\ part # "evals" => score = [s \in Scenarios |-> Full]

MCNext ==
  \/ part = "web" /\ WebNext /\ UNCHANGED <<part, planVars, reviewVars, refVars, evalVars>>
  \/ part = "plans" /\ PlanNext /\ UNCHANGED <<part, webVars, reviewVars, refVars, evalVars>>
  \/ part = "tests" /\ ReviewNext
     /\ UNCHANGED <<part, webVars, planVars, refVars, evalVars>>
  \/ part = "code" /\ RefNext
     /\ UNCHANGED <<part, webVars, planVars, reviewVars, evalVars>>
  \/ part = "evals" /\ EvalNext
     /\ UNCHANGED <<part, webVars, planVars, reviewVars, refVars>>

MCSpec == MCInit /\ [][MCNext]_allVars

Alike == Permutations(Planners)
===============================================================================
