--------------------------- MODULE PipelineExecutor ---------------------------
(***************************************************************************)
(* pipeline/pipelines.py: PipelineExecutor.execute, for any pipeline and   *)
(* any agents.                                                             *)
(*                                                                         *)
(* A run takes the steps of a pipeline in order.  The accumulated context  *)
(* (PipelineContext.data) decides which steps are skipped and is what the  *)
(* agents read; the results of the agents are merged back into it and      *)
(* deposited in the shared wiki.  One behaviour is a series of runs; the   *)
(* executor keeps nothing between them, the wiki and the outside world do. *)
(*                                                                         *)
(* A value of the context is its kind and its contents.  An agent's data   *)
(* is a function on all keys, Absent where the dict has no such key.       *)
(***************************************************************************)
EXTENDS Naturals, Sequences, FiniteSets

CONSTANTS
  Keys,           \* keys of the context that agents write
  Atoms,          \* what values, outputs and effects are made of
  Agents,         \* agent names that pipelines mention
  Registered,     \* _agents: the names that resolve to an agent
  Pipelines,      \* the definitions that can be run
  Replies(_, _),  \* what an agent may return, given its name and the context
  MayRaise,       \* agents whose execute may raise once run has ended
  WikiMayFail,    \* whether a put to the wiki can fail
  MaxRuns,        \* bound: runs in a behaviour
  MaxSecond       \* bound: values of the wiki's one-second clock

NoKey == ""
Absent == <<"absent", {}>>

Value == {"absent", "data", "bundle", "outputs"} \X SUBSET Atoms
Step == [agent : Agents, output : Keys \cup {NoKey}, required : BOOLEAN,
         skip : Keys \cup {NoKey}]
Pipeline == [name : STRING, steps : Seq(Step)]
ReplyValue == {Absent} \cup ({"data"} \X SUBSET Atoms)
Reply == [success : BOOLEAN, data : [Keys -> ReplyValue], outputs : SUBSET Atoms,
          review : BOOLEAN, effects : SUBSET Atoms]
StepResult == [success : BOOLEAN, skipped : BOOLEAN, outputs : SUBSET Atoms,
               review : BOOLEAN]

ASSUME ExecutorAssumption ==
  /\ NoKey \notin Keys
  /\ Keys \subseteq Atoms
  /\ Registered \subseteq Agents
  /\ \A p \in Pipelines : p \in Pipeline /\ p.steps # <<>>
  /\ MaxRuns \in Nat
  /\ MaxSecond \in Nat

VARIABLES
  phase,     \* "idle", "loop" over the steps, or "finish" after the loop
  pipeline,  \* the pipeline being run
  step,      \* position of the next step
  ctx,       \* PipelineContext.data
  results,   \* step_results: one StepResult per step taken so far
  success,   \* pipeline_success
  review,    \* human_review_needed
  artifacts, \* PipelineContext.artifacts, as <<step, output>> pairs
  report,    \* the PipelineResult of the last run that returned
  runs,      \* how many runs have begun
  entries,   \* wiki, the pipelines' namespaces: <<agent, second>> -> run
  latest,    \* wiki, namespace latest_runs: agent -> <<second, run>>
  second,    \* the clock that names wiki entries
  world      \* history: what the agents of this run have done outside

vars == <<phase, pipeline, step, ctx, results, success, review, artifacts,
          report, runs, entries, latest, second, world>>

wiki == <<entries, latest, second>>

NoEntries == [e \in {} |-> 0]
NoReport == [name |-> "none"]

Init ==
  /\ phase = "idle" /\ pipeline \in Pipelines
  /\ step = 1
  /\ ctx = [k \in Keys |-> Absent]
  /\ results = <<>>
  /\ success = TRUE /\ review = FALSE
  /\ artifacts = {}
  /\ report = NoReport
  /\ runs = 0
  /\ entries = NoEntries /\ latest = NoEntries /\ second = 1
  /\ world = {}

-----------------------------------------------------------------------------
(* The head of execute: a new context.  The payload's own keys (source,    *)
(* trigger_type, metadata) are not among Keys: no step's condition and no  *)
(* agent's data names them.                                                *)

\* Variant (not the code): the review flag is kept from run to run.
BeginKeepingReview(p) ==
  /\ phase = "idle" /\ runs < MaxRuns
  /\ runs' = runs + 1
  /\ phase' = "loop" /\ pipeline' = p
  /\ step' = 1
  /\ ctx' = [k \in Keys |-> Absent]
  /\ results' = <<>> /\ success' = TRUE /\ artifacts' = {} /\ world' = {}
  /\ UNCHANGED <<report, review, wiki>>

Begin(p) ==
  /\ phase = "idle" /\ runs < MaxRuns
  /\ runs' = runs + 1
  /\ phase' = "loop" /\ pipeline' = p
  /\ step' = 1
  /\ ctx' = [k \in Keys |-> Absent]
  /\ results' = <<>>
  /\ success' = TRUE /\ review' = FALSE
  /\ artifacts' = {}
  /\ world' = {}
  /\ UNCHANGED <<report, wiki>>

-----------------------------------------------------------------------------
(* One iteration of the loop over the steps.                               *)

Current == pipeline.steps[step]

\* A value is false in a condition when it has no contents.
Truthy(v) == v[2] # {}

\* skip_if_empty names a key whose value is missing or empty.
ToSkip(s) == s.skip # NoKey /\ ~Truthy(ctx[s.skip])

\* The end of an iteration: record the step, and leave the loop after a
\* required step that failed.
Close(r) ==
  LET stop == ~r.success /\ Current.required IN
  /\ results' = Append(results, r)
  /\ success' = (success /\ ~stop)
  /\ step' = step + 1
  /\ phase' = IF stop \/ step = Len(pipeline.steps) THEN "finish" ELSE "loop"

SkipStep ==
  /\ phase = "loop" /\ ToSkip(Current)
  /\ Close([success |-> TRUE, skipped |-> TRUE, outputs |-> {}, review |-> FALSE])
  /\ UNCHANGED <<pipeline, ctx, review, artifacts, report, runs, wiki, world>>

Failed == [success |-> FALSE, skipped |-> FALSE, outputs |-> {}, review |-> FALSE]

\* Variant (not the code): the run goes on without a required agent.
AgentMissingGoesOn ==
  /\ phase = "loop" /\ ~ToSkip(Current)
  /\ Current.agent \notin Registered
  /\ results' = Append(results, Failed)
  /\ step' = step + 1
  /\ phase' = IF step = Len(pipeline.steps) THEN "finish" ELSE "loop"
  /\ UNCHANGED <<pipeline, ctx, success, review, artifacts, report, runs, wiki, world>>

AgentMissing ==
  /\ phase = "loop" /\ ~ToSkip(Current)
  /\ Current.agent \notin Registered
  /\ Close(Failed)
  /\ UNCHANGED <<pipeline, ctx, review, artifacts, report, runs, wiki, world>>

CanRun == /\ phase = "loop" /\ ~ToSkip(Current)
          /\ Current.agent \in Registered

Written(data) == {k \in Keys : data[k] # Absent}

\* Variant (not the code): outputs are not stored when there is no data.
WrappedDataOnly(r) == <<"bundle", Written(r.data)>>

\* What ctx.set(output_key, ...) stores: the whole data dict, or the list of
\* outputs when there is no data, or nothing.
Wrapped(r) == IF Written(r.data) # {} THEN <<"bundle", Written(r.data)>>
                                      ELSE <<"outputs", r.outputs>>

\* The output key first, then every key of the data, which wins.
Merge(s, r) ==
  [k \in Keys |->
     IF k \in Written(r.data) THEN r.data[k]
     ELSE IF k = s.output /\ Truthy(Wrapped(r)) THEN Wrapped(r)
     ELSE ctx[k]]

\* wiki.put: insert, or replace the entry of the same key.
Put(f, key, v) == [x \in DOMAIN f \cup {key} |-> IF x = key THEN v ELSE f[x]]

\* Variant (not the code): the two puts in the other order.
DepositLatestFirst(a, r) ==
  \/ /\ ~Truthy(Wrapped(r)) \/ WikiMayFail
     /\ UNCHANGED wiki
  \/ /\ Truthy(Wrapped(r))
     /\ second' \in {second, second + 1} /\ second' <= MaxSecond
     /\ latest' = Put(latest, a, <<second', runs>>)
     /\ \/ entries' = Put(entries, <<a, second'>>, runs)
        \/ WikiMayFail /\ UNCHANGED entries

\* _deposit_to_wiki: nothing for an empty result; then two puts, and an
\* exception of either is swallowed.  Keys are agent and second.
Deposit(a, r) ==
  \/ /\ ~Truthy(Wrapped(r)) \/ WikiMayFail
     /\ UNCHANGED wiki
  \/ /\ Truthy(Wrapped(r))
     /\ second' \in {second, second + 1} /\ second' <= MaxSecond
     /\ entries' = Put(entries, <<a, second'>>, runs)
     /\ \/ latest' = Put(latest, a, <<second', runs>>)
        \/ WikiMayFail /\ UNCHANGED latest

\* agent.execute returns: merge, deposit, artifacts, review flag, record.  A
\* result that reports failure is merged and deposited like any other.
StepReturns ==
  /\ CanRun
  /\ \E r \in Replies(Current.agent, ctx) \cap Reply :
       /\ ctx' = Merge(Current, r)
       /\ Deposit(Current.agent, r)
       /\ artifacts' = artifacts \cup {<<step, o>> : o \in r.outputs}
       /\ review' = (review \/ r.review)
       /\ world' = world \cup {<<step, e>> : e \in r.effects}
       /\ Close([success |-> r.success, skipped |-> FALSE,
                 outputs |-> r.outputs, review |-> r.review])
  /\ UNCHANGED <<pipeline, report, runs>>

\* agent.execute raises: base.py turns an exception of run into a result, so
\* it is the logging after run that raised, and what run did outside stays.
StepRaises ==
  /\ CanRun
  /\ Current.agent \in MayRaise
  /\ \E r \in Replies(Current.agent, ctx) \cap Reply :
       world' = world \cup {<<step, e>> : e \in r.effects}
  /\ Close(Failed)
  /\ UNCHANGED <<pipeline, ctx, review, artifacts, report, runs, wiki>>

\* After the loop: count the steps and return the PipelineResult.
CountOf(P(_)) == Cardinality({i \in 1 .. Len(results) : P(results[i])})

Completed(r) == ~r.skipped /\ r.success
Skipped(r) == r.skipped
FailedStep(r) == ~r.skipped /\ ~r.success

Finish ==
  /\ phase = "finish"
  /\ phase' = "idle"
  /\ report' = [name      |-> pipeline.name,
                steps     |-> pipeline.steps,
                success   |-> success,
                total     |-> Len(pipeline.steps),
                completed |-> CountOf(Completed),
                skipped   |-> CountOf(Skipped),
                failed    |-> CountOf(FailedStep),
                review    |-> review,
                artifacts |-> artifacts,
                results   |-> results]
  /\ UNCHANGED <<pipeline, step, ctx, results, success, review, artifacts,
                 runs, wiki, world>>

Next == \/ \E p \in Pipelines : Begin(p)
        \/ SkipStep \/ AgentMissing \/ StepReturns \/ StepRaises \/ Finish

Spec == Init /\ [][Next]_vars

-----------------------------------------------------------------------------
(* Properties.                                                             *)

TypeOK ==
  /\ phase \in {"idle", "loop", "finish"}
  /\ pipeline \in Pipelines
  /\ step \in Nat \ {0}
  /\ ctx \in [Keys -> Value]
  /\ results \in Seq(StepResult)
  /\ success \in BOOLEAN /\ review \in BOOLEAN
  /\ artifacts \subseteq (Nat \X Atoms)
  /\ world \subseteq (Nat \X Atoms)
  /\ runs \in Nat /\ second \in Nat
  /\ DOMAIN entries \subseteq (Agents \X Nat)
  /\ DOMAIN latest \subseteq Agents
  /\ \A e \in DOMAIN entries : entries[e] \in Nat
  /\ \A a \in DOMAIN latest : latest[a] \in Nat \X Nat

Returned == report # NoReport

\* The report of a run accounts for every step it took, exactly once, and it
\* took all of them unless it failed.
StepsAddUp ==
  Returned =>
    /\ report.completed + report.skipped + report.failed = Len(report.results)
    /\ report.success => Len(report.results) = report.total
    /\ ~report.success => report.failed > 0

\* A run fails exactly when a required step failed, and that step is the last
\* one it took: no agent runs behind a required failure, while the failure
\* of an optional step stops nothing.
FailsAtRequiredStep ==
  Returned =>
    /\ Len(report.results) <= report.total
    /\ \A i \in 1 .. Len(report.results) :
         (report.steps[i].required /\ FailedStep(report.results[i]))
           <=> (~report.success /\ i = Len(report.results))

\* The bundle of a step's data never hides the value the step itself gave for
\* that key: who reads a key finds the value, not the dict around it.
ValueNotBundle ==
  \A k \in Keys : ctx[k][1] = "bundle" => k \notin ctx[k][2]

\* A step that asks for a human's review is not forgotten by the end of the
\* run, whatever the later steps do, and no other run's request leaks into it.
ReviewReported ==
  Returned => (report.review <=> \E i \in 1 .. Len(report.results) :
                                    report.results[i].review)

\* latest_runs never names an entry that the wiki does not have: the entry
\* exists under the agent and the second, and is of that run or a later one
\* (two runs in one second share a key).
LatestIsDeposited ==
  \A a \in DOMAIN latest :
    LET e == <<a, latest[a][1]>> IN
    e \in DOMAIN entries /\ entries[e] >= latest[a][2]
=============================================================================
