------------------------------- MODULE PlanGate -------------------------------
(* agents/planning/plan_generator.py: a spec is grilled, and a run ends in a *)
(* plan to be reviewed or in the questions to be answered first.  Either is  *)
(* written under docs/plans, committed through commit_file of mcp/github.py, *)
(* put into the wiki and announced.  Runs of one spec share the plan's id,   *)
(* and people accept the plan by ticking its box in the repository.          *)
EXTENDS Naturals, FiniteSets

CONSTANTS
  Planners,      \* callers of the agent: the queue's worker, a direct call
  MaxBlocking,   \* bound on the blocking questions of a grill
  MaxRuns,       \* bound on the runs
  MaxVersion     \* bound on the commits of one file

ASSUME PlanAssumption == MaxBlocking \in Nat /\ MaxRuns \in Nat /\ MaxVersion \in Nat

VARIABLES
  planner,       \* what each caller's run is at
  docs,          \* docs/plans of the working tree
  repo,          \* docs/plans of the repository: content and version of each file
  plans,         \* status of the plan's wiki entry
  announced,     \* the events emitted
  reading,       \* the plan a reviewer has open, with its version
  accepted,      \* the plans a reviewer read and accepted
  started        \* runs started

planVars ==
  <<planner, docs, repo, plans, announced, reading, accepted, started>>

Paths == {"plan", "questions"}
Nothing == [run |-> 0]
NotRunning == [at |-> "idle"]
NotReading == [version |-> 0]

PlanInit ==
  /\ planner = [p \in Planners |-> NotRunning]
  /\ docs = [f \in Paths |-> Nothing]
  /\ repo = [f \in Paths |-> [version |-> 0, doc |-> Nothing, ticked |-> FALSE]]
  /\ plans = "none"
  /\ announced = {}
  /\ reading = NotReading
  /\ accepted = {}
  /\ started = 0

At(p, where) == planner[p].at = where
Go(p, where) == planner' = [planner EXCEPT ![p].at = where]
Ends(p) == planner' = [planner EXCEPT ![p] = NotRunning]

\* A run with a spec and a provider: force_plan and max_blocking_questions are
\* the caller's.
StartPlanning(p, forced, tolerance) ==
  /\ planner[p] = NotRunning
  /\ started < MaxRuns
  /\ started' = started + 1
  /\ planner' = [planner EXCEPT ![p] =
       [at |-> "grill", run |-> started', forced |-> forced, tolerance |-> tolerance]]
  /\ UNCHANGED <<docs, repo, plans, announced, reading, accepted>>

\* A slip in the gate: the model's word is enough.
ReadyIfDeclared(declared, blocking, tolerance) ==
  IF declared = "absent" THEN blocking = 0 ELSE declared = "yes"

\* ready of run: what the model declares, or else that nothing blocks, and the
\* caller's tolerance.
Ready(declared, blocking, tolerance) ==
  /\ IF declared = "absent" THEN blocking = 0 ELSE declared = "yes"
  /\ blocking <= tolerance

\* What a reader of the artifact can tell: whose it is, the blocking questions it
\* lists, and the warning that force_plan puts at its head.
Rendered(r, blocking) ==
  [run |-> r.run, blocking |-> blocking, warned |-> r.forced, tolerance |-> r.tolerance]

\* GRILL: the answer sends the run to the plan or to the questions.
Grilled(p, declared, blocking) ==
  /\ At(p, "grill")
  /\ LET r == planner[p]
         ready == Ready(declared, blocking, r.tolerance)
     IN planner' = [planner EXCEPT ![p] =
          [at |-> IF ready \/ r.forced THEN "plan" ELSE "write",
           file |-> IF ready \/ r.forced THEN "plan" ELSE "questions",
           doc |-> Rendered(r, blocking), sha |-> 0]]
  /\ UNCHANGED <<docs, repo, plans, announced, reading, accepted, started>>

\* PLAN: the markdown is rendered, whatever the gaps that are reported in it.
Planned(p) ==
  /\ At(p, "plan")
  /\ Go(p, "write")
  /\ UNCHANGED <<docs, repo, plans, announced, reading, accepted, started>>

\* No answer, or none that parses, in either phase.
NoAnswer(p) ==
  /\ At(p, "grill") \/ At(p, "plan")
  /\ Ends(p)
  /\ UNCHANGED <<docs, repo, plans, announced, reading, accepted, started>>

\* _write_artifact; an OSError is logged and the run goes on.
WriteArtifact(p, written) ==
  /\ At(p, "write")
  /\ docs' = IF written THEN [docs EXCEPT ![planner[p].file] = planner[p].doc] ELSE docs
  /\ Go(p, "commit")
  /\ UNCHANGED <<repo, plans, announced, reading, accepted, started>>

\* commit_file asks for the file's sha, and goes on without one if the answer is
\* an error.  No client, no credentials or no connection end it here.
CommitReads(p, connected, answered) ==
  /\ At(p, "commit")
  /\ planner' = [planner EXCEPT
       ![p].at = IF connected THEN "put" ELSE "wiki",
       ![p].sha = IF answered THEN repo[planner[p].file].version ELSE 0]
  /\ UNCHANGED <<docs, repo, plans, announced, reading, accepted, started>>

Replace(f, doc, ticked) ==
  repo' = [repo EXCEPT ![f] = [version |-> @.version + 1, doc |-> doc, ticked |-> ticked]]

\* A slip: the tick in the file that is replaced is carried over.
CommitPutsUnderTick(p) ==
  /\ At(p, "put")
  /\ LET r == planner[p]
         file == r.file
         fits == r.sha = repo[file].version /\ repo[file].version < MaxVersion
     IN IF fits THEN Replace(file, r.doc, repo[file].ticked) ELSE UNCHANGED repo
  /\ Go(p, "wiki")
  /\ UNCHANGED <<docs, plans, announced, reading, accepted, started>>

\* The PUT: refused (409, 422) when the file is no longer what was read; the run
\* goes on whatever it hears.
CommitPuts(p) ==
  /\ At(p, "put")
  /\ LET r == planner[p]
         file == r.file
         fits == r.sha = repo[file].version /\ repo[file].version < MaxVersion
     IN IF fits THEN Replace(file, r.doc, FALSE) ELSE UNCHANGED repo
  /\ Go(p, "wiki")
  /\ UNCHANGED <<docs, plans, announced, reading, accepted, started>>

\* wiki.put: awaiting_review or awaiting_answers; when it raises the run fails.
PutPlanInWiki(p, raises) ==
  /\ At(p, "wiki")
  /\ IF raises THEN Ends(p) /\ UNCHANGED plans
     ELSE /\ Go(p, "emit")
          /\ plans' = IF planner[p].file = "plan" THEN "awaiting_review" ELSE "awaiting_answers"
  /\ UNCHANGED <<docs, repo, announced, reading, accepted, started>>

EmitPlan(p) ==
  /\ At(p, "emit")
  /\ announced' = announced \union {planner[p].doc.run}
  /\ Ends(p)
  /\ UNCHANGED <<docs, repo, plans, reading, accepted, started>>

\* A person opens the plan in the repository, and later commits it with its box
\* ticked; the repository refuses that if the file has changed.
OpensPlan ==
  /\ reading = NotReading
  /\ repo["plan"].doc # Nothing
  /\ reading' = [version |-> repo["plan"].version, run |-> repo["plan"].doc.run]
  /\ UNCHANGED <<planner, docs, repo, plans, announced, accepted, started>>

AcceptsPlan ==
  /\ reading # NotReading
  /\ reading' = NotReading
  /\ IF reading.version = repo["plan"].version /\ reading.version < MaxVersion
     THEN /\ Replace("plan", repo["plan"].doc, TRUE)
          /\ accepted' = accepted \union {reading.run}
     ELSE UNCHANGED <<repo, accepted>>
  /\ UNCHANGED <<planner, docs, plans, announced, started>>

PlanNext ==
  \/ \E p \in Planners :
       \/ \E forced \in BOOLEAN, tolerance \in {0, 1} : StartPlanning(p, forced, tolerance)
       \/ \E declared \in {"yes", "no", "absent"}, b \in 0..MaxBlocking : Grilled(p, declared, b)
       \/ Planned(p) \/ NoAnswer(p)
       \/ \E ok \in BOOLEAN : WriteArtifact(p, ok) \/ PutPlanInWiki(p, ok)
       \/ \E connected, answered \in BOOLEAN : CommitReads(p, connected, answered)
       \/ CommitPuts(p) \/ EmitPlan(p)
  \/ OpensPlan \/ AcceptsPlan

PlanSpec == PlanInit /\ [][PlanNext]_planVars

\* A plan that rests on more blocking questions than its caller tolerates is in
\* the working tree or the repository only under its warning (force_plan): no
\* answer of the model, and no later run of the same spec, makes it a plain one.
NoPlanOnGuess ==
  \A doc \in {docs["plan"], repo["plan"].doc} \ {Nothing} :
    doc.warned \/ doc.blocking <= doc.tolerance

\* The box that lets the implementation start is ticked only on a plan somebody
\* read: a run that plans the spec again never leaves the tick on its new plan.
AcceptedAsRead == repo["plan"].ticked => repo["plan"].doc.run \in accepted
===============================================================================
