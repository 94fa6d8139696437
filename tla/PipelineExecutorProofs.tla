------------------------ MODULE PipelineExecutorProofs ------------------------
(***************************************************************************)
(* Proofs about PipelineExecutor, for any pipelines, agents and answers,   *)
(* and about the seven pipelines of PipelineFlows, whatever their agents   *)
(* answer.                                                                 *)
(*                                                                         *)
(* The run in progress is described by RunInv: as many results as steps    *)
(* taken, and a required step that failed only at the end of an            *)
(* unsuccessful run.  What a report says is fixed when the run returns, so *)
(* the properties of reports are proved once, for Finish.                  *)
(*                                                                         *)
(* PipelineFlows gives the constants of the executor no values, so what is *)
(* particular to the seven pipelines has the hypothesis FlowInstance: the  *)
(* keys, the pipelines and the answers are those of PipelineFlows.  The    *)
(* number of runs, and which agents are registered, may raise or find the  *)
(* wiki failing, stay free.                                                *)
(***************************************************************************)
EXTENDS PipelineFlows, FiniteSetTheorems, TLAPS

InRun == phase \in {"loop", "finish"}

RequiredFailure(i) == pipeline.steps[i].required /\ FailedStep(results[i])

RunInv ==
  InRun =>
    /\ Len(results) + 1 = step
    /\ Len(results) <= Len(pipeline.steps)
    /\ phase = "loop" => success /\ step <= Len(pipeline.steps)
    /\ phase = "finish" /\ success => Len(results) = Len(pipeline.steps)
    /\ ~success => Len(results) > 0
    /\ \A i \in 1 .. Len(results) :
         RequiredFailure(i) <=> (~success /\ i = Len(results))

ReviewInv == InRun => (review <=> \E i \in 1 .. Len(results) : results[i].review)

WikiInv == LatestIsDeposited /\ \A a \in DOMAIN latest : latest[a][2] <= runs

ReportInv == StepsAddUp /\ FailsAtRequiredStep /\ ReviewReported

-----------------------------------------------------------------------------
(* Facts about the operators.                                              *)

\* Where the loop stands, the step to take is one of the definition's.
LEMMA CurrentType ==
  ASSUME TypeOK, RunInv, phase = "loop"
  PROVE  /\ step \in 1 .. Len(pipeline.steps)
         /\ Current \in Step
         /\ Len(pipeline.steps) \in Nat
  <1>1. pipeline.steps \in Seq(Step)
    BY ExecutorAssumption DEF TypeOK, Pipeline
  <1>2. step \in 1 .. Len(pipeline.steps)
    BY <1>1 DEF TypeOK, RunInv, InRun
  <1> QED
    BY <1>1, <1>2 DEF Current

\* The merged context is a context, and no value is the bundle around it.
LEMMA MergeFacts ==
  ASSUME ctx \in [Keys -> Value], NEW s \in Step, NEW r \in Reply
  PROVE  /\ Merge(s, r) \in [Keys -> Value]
         /\ ValueNotBundle =>
              \A k \in Keys : Merge(s, r)[k][1] = "bundle" => k \notin Merge(s, r)[k][2]
  <1>1. \A k \in Keys : r.data[k] \in ReplyValue
    BY DEF Reply
  <1>2. Written(r.data) \in SUBSET Atoms
    BY ExecutorAssumption DEF Written
  <1>3. Wrapped(r) \in Value
    BY <1>2 DEF Wrapped, Value, Reply
  <1>4. \A k \in Keys : r.data[k] \in Value /\ (k \in Written(r.data) => r.data[k][1] = "data")
    BY <1>1 DEF ReplyValue, Value, Absent, Written
  <1>5. Wrapped(r)[1] = "bundle" => Wrapped(r)[2] = Written(r.data)
    BY DEF Wrapped
  <1>6. Merge(s, r) \in [Keys -> Value]
    BY <1>3, <1>4 DEF Merge
  <1>7. ASSUME ValueNotBundle, NEW k \in Keys, Merge(s, r)[k][1] = "bundle"
        PROVE  k \notin Merge(s, r)[k][2]
    <2>1. CASE k \in Written(r.data)
      BY <2>1, <1>4, <1>7 DEF Merge
    <2>2. CASE k \notin Written(r.data) /\ k = s.output /\ Truthy(Wrapped(r))
      <3>1. Merge(s, r)[k] = Wrapped(r)
        BY <2>2 DEF Merge
      <3> QED BY <3>1, <2>2, <1>5, <1>7
    <2>3. CASE k \notin Written(r.data) /\ ~(k = s.output /\ Truthy(Wrapped(r)))
      <3>1. Merge(s, r)[k] = ctx[k]
        BY <2>3 DEF Merge
      <3> QED BY <3>1, <1>7 DEF ValueNotBundle
    <2> QED BY <2>1, <2>2, <2>3
  <1> QED BY <1>6, <1>7

\* The cardinalities of two disjoint finite sets add up.
LEMMA DisjointSum ==
  ASSUME NEW A, NEW B, IsFiniteSet(A), IsFiniteSet(B), A \cap B = {}
  PROVE  /\ IsFiniteSet(A \cup B)
         /\ Cardinality(A \cup B) = Cardinality(A) + Cardinality(B)
  <1>1. IsFiniteSet(A \cup B) /\
        Cardinality(A \cup B) = Cardinality(A) + Cardinality(B) - Cardinality(A \cap B)
    BY FS_Union
  <1>2. Cardinality(A) \in Nat /\ Cardinality(B) \in Nat
    BY FS_CardinalityType
  <1>3. Cardinality(A \cap B) = 0
    BY FS_EmptySet
  <1> QED BY <1>1, <1>2, <1>3

\* Every step is completed, skipped or failed, and only one of the three.
LEMMA CountsAddUp ==
  ASSUME results \in Seq(StepResult)
  PROVE  CountOf(Completed) + CountOf(Skipped) + CountOf(FailedStep) = Len(results)
  <1> DEFINE N == 1 .. Len(results)
             C == {i \in N : Completed(results[i])}
             S == {i \in N : Skipped(results[i])}
             F == {i \in N : FailedStep(results[i])}
  <1>1. Len(results) \in Nat
    OBVIOUS
  <1>2. IsFiniteSet(N) /\ Cardinality(N) = Len(results)
    BY <1>1, FS_Interval, SMTT(30)
  <1>3. IsFiniteSet(C) /\ IsFiniteSet(S) /\ IsFiniteSet(F)
    BY <1>2, FS_Subset
  <1>4. \A i \in N : results[i] \in StepResult
    OBVIOUS
  <1>5. \A i \in N : results[i].skipped \in BOOLEAN /\ results[i].success \in BOOLEAN
    BY <1>4 DEF StepResult
  <1>6. C \cap S = {} /\ (C \cup S) \cap F = {}
    BY DEF Completed, Skipped, FailedStep
  <1>7. N = (C \cup S) \cup F
    BY <1>5 DEF Completed, Skipped, FailedStep
  <1>8. /\ IsFiniteSet(C \cup S)
        /\ Cardinality(C \cup S) = Cardinality(C) + Cardinality(S)
    BY <1>3, <1>6, DisjointSum
  <1>9. Cardinality((C \cup S) \cup F) = Cardinality(C \cup S) + Cardinality(F)
    BY <1>3, <1>6, <1>8, DisjointSum
  <1>10. /\ CountOf(Completed) = Cardinality(C)
         /\ CountOf(Skipped) = Cardinality(S)
         /\ CountOf(FailedStep) = Cardinality(F)
    BY DEF CountOf
  <1> HIDE DEF N, C, S, F
  <1> QED BY <1>2, <1>7, <1>8, <1>9, <1>10

-----------------------------------------------------------------------------
(* The end of an iteration, shared by the four actions that take a step.   *)

\* A step that closes with a well-formed result keeps the run's description.
LEMMA ClosePreserves ==
  ASSUME TypeOK, RunInv, phase = "loop", UNCHANGED pipeline,
         NEW r \in StepResult, Close(r), r.skipped => r.success
  PROVE  /\ RunInv'
         /\ phase' \in {"loop", "finish"}
         /\ step' \in Nat \ {0}
         /\ results' = Append(results, r) /\ results' \in Seq(StepResult)
         /\ success' \in BOOLEAN
  <1> USE DEF TypeOK
  <1> DEFINE stop == ~r.success /\ Current.required
             n == Len(results)
  <1>1. /\ step \in 1 .. Len(pipeline.steps) /\ Current \in Step
        /\ Len(pipeline.steps) \in Nat
    BY CurrentType
  <1>2. /\ n \in Nat /\ n + 1 = step /\ success
        /\ \A i \in 1 .. n : ~RequiredFailure(i)
    BY DEF RunInv, InRun
  <1>3. /\ results' = Append(results, r) /\ success' = (success /\ ~stop)
        /\ step' = step + 1
        /\ phase' = IF stop \/ step = Len(pipeline.steps) THEN "finish" ELSE "loop"
    BY DEF Close
  <1>4. /\ Len(results') = n + 1 /\ results' \in Seq(StepResult)
        /\ \A i \in 1 .. n : results'[i] = results[i]
        /\ results'[n + 1] = r
    BY <1>3
  <1>5. r.success \in BOOLEAN /\ r.skipped \in BOOLEAN /\ Current.required \in BOOLEAN
    BY <1>1 DEF StepResult, Step
  <1>6. success' = ~stop
    BY <1>2, <1>3
  <1>7. (pipeline.steps[n + 1].required /\ FailedStep(results'[n + 1])) <=> stop
    <2>1. pipeline.steps[n + 1] = Current
      BY <1>2 DEF Current
    <2> QED BY <2>1, <1>4, <1>5 DEF FailedStep
  <1>8. \A i \in 1 .. n + 1 :
          (pipeline'.steps[i].required /\ FailedStep(results'[i])) <=> (stop /\ i = n + 1)
    <2> SUFFICES ASSUME NEW i \in 1 .. n + 1
                 PROVE  (pipeline.steps[i].required /\ FailedStep(results'[i]))
                          <=> (stop /\ i = n + 1)
      OBVIOUS
    <2>1. CASE i = n + 1
      BY <2>1, <1>7
    <2>2. CASE i # n + 1
      <3>1. i \in 1 .. n
        BY <2>2, <1>2
      <3> QED BY <3>1, <2>2, <1>2, <1>4 DEF RequiredFailure
    <2> QED BY <2>1, <2>2
  <1>9. RunInv'
    <2> SUFFICES /\ Len(results') + 1 = step'
                 /\ Len(results') <= Len(pipeline.steps)
                 /\ phase' = "loop" => success' /\ step' <= Len(pipeline.steps)
                 /\ phase' = "finish" /\ success' => Len(results') = Len(pipeline.steps)
                 /\ ~success' => Len(results') > 0
                 /\ \A i \in 1 .. Len(results') :
                      (pipeline'.steps[i].required /\ FailedStep(results'[i]))
                        <=> (~success' /\ i = Len(results'))
      BY DEF RunInv, RequiredFailure
    <2> HIDE DEF stop
    <2>1. Len(results') + 1 = step' /\ Len(results') <= Len(pipeline.steps)
      BY <1>1, <1>2, <1>3, <1>4
    <2>2. phase' = "loop" => success' /\ step' <= Len(pipeline.steps)
      BY <1>1, <1>3, <1>6
    <2>3. phase' = "finish" /\ success' => Len(results') = Len(pipeline.steps)
      BY <1>1, <1>2, <1>3, <1>4, <1>6
    <2>4. \A i \in 1 .. Len(results') :
            (pipeline'.steps[i].required /\ FailedStep(results'[i]))
              <=> (~success' /\ i = Len(results'))
      BY <1>4, <1>6, <1>8
    <2> QED BY <2>1, <2>2, <2>3, <2>4, <1>2, <1>4
  <1> QED BY <1>1, <1>2, <1>3, <1>4, <1>6, <1>9

\* The run's review flag remains the disjunction of its results' flags.
LEMMA ReviewAfterClose ==
  ASSUME TypeOK, ReviewInv, phase = "loop", NEW r \in StepResult,
         results' = Append(results, r), review' = (review \/ r.review)
  PROVE  ReviewInv'
  <1> DEFINE n == Len(results)
  <1>1. results \in Seq(StepResult) /\ n \in Nat
    BY DEF TypeOK
  <1>2. /\ Len(results') = n + 1
        /\ \A i \in 1 .. n : results'[i] = results[i]
        /\ results'[n + 1] = r
    BY <1>1
  <1>3. (\E i \in 1 .. n + 1 : results'[i].review)
          <=> (\E i \in 1 .. n : results[i].review) \/ r.review
    <2>1. 1 .. n + 1 = 1 .. n \cup {n + 1}
      BY <1>1
    <2> HIDE DEF n
    <2> QED BY <2>1, <1>2
  <1>4. review <=> \E i \in 1 .. n : results[i].review
    BY DEF ReviewInv, InRun
  <1>5. review' <=> \E i \in 1 .. Len(results') : results'[i].review
    BY <1>2, <1>3, <1>4
  <1> QED BY <1>5 DEF ReviewInv

IInv == TypeOK /\ RunInv /\ ReviewInv /\ WikiInv /\ ValueNotBundle /\ ReportInv

\* A report and the wiki keep what they say while neither is written.
LEMMA Kept ==
  /\ ReportInv /\ UNCHANGED report => ReportInv'
  /\ WikiInv /\ UNCHANGED <<wiki, runs>> => WikiInv'
  <1>1. ASSUME ReportInv, UNCHANGED report PROVE ReportInv'
    BY <1>1 DEF ReportInv, StepsAddUp, FailsAtRequiredStep, ReviewReported, Returned
  <1>2. ASSUME WikiInv, UNCHANGED <<wiki, runs>> PROVE WikiInv'
    BY <1>2 DEF WikiInv, LatestIsDeposited, wiki
  <1> QED BY <1>1, <1>2

\* A step that ends without a result of its agent changes nothing else.
LEMMA QuietStep ==
  ASSUME IInv, phase = "loop", NEW r \in StepResult, Close(r),
         r.skipped => r.success, r.review = FALSE,
         UNCHANGED <<pipeline, ctx, review, artifacts, report, runs, wiki>>,
         world' \subseteq Nat \X Atoms
  PROVE  IInv'
  <1>1. TypeOK /\ RunInv /\ ReviewInv /\ WikiInv /\ ValueNotBundle /\ ReportInv
    BY DEF IInv
  <1>2. /\ RunInv' /\ phase' \in {"loop", "finish"} /\ step' \in Nat \ {0}
        /\ results' = Append(results, r) /\ results' \in Seq(StepResult)
        /\ success' \in BOOLEAN
    BY <1>1, ClosePreserves
  <1>3. TypeOK'
    BY <1>1, <1>2 DEF TypeOK, wiki
  <1>4. ReviewInv'
    <2>1. review' = (review \/ r.review)
      BY <1>1 DEF TypeOK
    <2> QED BY <1>1, <1>2, <2>1, ReviewAfterClose
  <1>5. WikiInv' /\ ReportInv'
    BY <1>1, Kept
  <1>6. ValueNotBundle'
    BY <1>1 DEF ValueNotBundle
  <1> QED BY <1>2, <1>3, <1>4, <1>5, <1>6 DEF IInv

LEMMA FailedType == Failed \in StepResult /\ Failed.skipped = FALSE /\ Failed.review = FALSE
  BY DEF Failed, StepResult

LEMMA SkipStepInv == ASSUME IInv, SkipStep PROVE IInv'
  <1> DEFINE r == [success |-> TRUE, skipped |-> TRUE, outputs |-> {}, review |-> FALSE]
  <1>1. r \in StepResult /\ r.success /\ r.review = FALSE
    BY DEF StepResult
  <1>2. /\ phase = "loop" /\ Close(r)
        /\ UNCHANGED <<pipeline, ctx, review, artifacts, report, runs, wiki>>
        /\ world' = world
    BY DEF SkipStep
  <1>3. world' \subseteq Nat \X Atoms
    BY <1>2 DEF IInv, TypeOK
  <1> HIDE DEF r
  <1> QED BY <1>1, <1>2, <1>3, QuietStep

LEMMA AgentMissingInv == ASSUME IInv, AgentMissing PROVE IInv'
  <1>1. /\ phase = "loop" /\ Close(Failed)
        /\ UNCHANGED <<pipeline, ctx, review, artifacts, report, runs, wiki>>
        /\ world' = world
    BY DEF AgentMissing
  <1>2. world' \subseteq Nat \X Atoms
    BY <1>1 DEF IInv, TypeOK
  <1> QED BY <1>1, <1>2, FailedType, QuietStep

\* What an agent does outside is recorded with its step.
LEMMA WorldType ==
  ASSUME TypeOK, NEW r \in Reply
  PROVE  /\ world \cup {<<step, e>> : e \in r.effects} \subseteq Nat \X Atoms
         /\ artifacts \cup {<<step, o>> : o \in r.outputs} \subseteq Nat \X Atoms
  <1>1. r.effects \subseteq Atoms /\ r.outputs \subseteq Atoms
    BY DEF Reply
  <1>2. step \in Nat /\ world \subseteq Nat \X Atoms /\ artifacts \subseteq Nat \X Atoms
    BY DEF TypeOK
  <1> QED BY <1>1, <1>2

LEMMA StepRaisesInv == ASSUME IInv, StepRaises PROVE IInv'
  <1>1. PICK r \in Replies(Current.agent, ctx) \cap Reply :
          world' = world \cup {<<step, e>> : e \in r.effects}
    BY DEF StepRaises
  <1>2. /\ phase = "loop" /\ Close(Failed)
        /\ UNCHANGED <<pipeline, ctx, review, artifacts, report, runs, wiki>>
    BY DEF StepRaises, CanRun
  <1>3. world' \subseteq Nat \X Atoms
    BY <1>1, WorldType DEF IInv
  <1> QED BY <1>2, <1>3, FailedType, QuietStep

\* The two puts keep the wiki's types and its order.
LEMMA DepositInv ==
  ASSUME TypeOK, WikiInv, runs' = runs, NEW a \in Agents, NEW r \in Reply, Deposit(a, r)
  PROVE  /\ WikiInv'
         /\ second' \in Nat
         /\ DOMAIN entries' \subseteq Agents \X Nat
         /\ DOMAIN latest' \subseteq Agents
         /\ \A e \in DOMAIN entries' : entries'[e] \in Nat
         /\ \A b \in DOMAIN latest' : latest'[b] \in Nat \X Nat
  <1>0. /\ second \in Nat /\ runs \in Nat
        /\ DOMAIN entries \subseteq Agents \X Nat
        /\ DOMAIN latest \subseteq Agents
        /\ \A e \in DOMAIN entries : entries[e] \in Nat
        /\ \A b \in DOMAIN latest : latest[b] \in Nat \X Nat
    BY DEF TypeOK
  <1>1. CASE UNCHANGED wiki
    <2>1. WikiInv'
      BY <1>1, Kept
    <2> QED BY <2>1, <1>0, <1>1 DEF wiki
  <1>2. CASE ~UNCHANGED wiki
    <2>1. /\ second' \in {second, second + 1}
          /\ entries' = Put(entries, <<a, second'>>, runs)
          /\ latest' = Put(latest, a, <<second', runs>>) \/ latest' = latest
      BY <1>2 DEF Deposit
    <2> DEFINE key == <<a, second'>>
    <2>2. second' \in Nat /\ key \in Agents \X Nat
      BY <1>0, <2>1
    <2>3. /\ DOMAIN entries' = DOMAIN entries \cup {key}
          /\ entries'[key] = runs
          /\ \A e \in DOMAIN entries : e # key => entries'[e] = entries[e]
      BY <2>1 DEF Put
    <2>4. /\ DOMAIN latest' \subseteq DOMAIN latest \cup {a}
          /\ \A b \in DOMAIN latest' : (b = a /\ latest'[b] = <<second', runs>>)
                                      \/ (b \in DOMAIN latest /\ latest'[b] = latest[b])
      <3>1. CASE latest' = latest
        BY <3>1
      <3>2. CASE latest' = Put(latest, a, <<second', runs>>)
        BY <3>2 DEF Put
      <3> QED BY <3>1, <3>2, <2>1
    <2>5. \A e \in DOMAIN entries' : entries'[e] \in Nat
      BY <2>3, <1>0
    <2>6. \A b \in DOMAIN latest' : latest'[b] \in Nat \X Nat
      BY <2>2, <2>4, <1>0
    <2>7. WikiInv'
      <3> SUFFICES ASSUME NEW b \in DOMAIN latest'
                   PROVE  /\ <<b, latest'[b][1]>> \in DOMAIN entries'
                          /\ entries'[<<b, latest'[b][1]>>] >= latest'[b][2]
                          /\ latest'[b][2] <= runs
        BY DEF WikiInv, LatestIsDeposited
      <3>1. CASE b = a /\ latest'[b] = <<second', runs>>
        BY <3>1, <2>3, <1>0
      <3>2. CASE b \in DOMAIN latest /\ latest'[b] = latest[b]
        <4>1. /\ <<b, latest[b][1]>> \in DOMAIN entries
              /\ entries[<<b, latest[b][1]>>] >= latest[b][2]
              /\ latest[b][2] <= runs
          BY <3>2 DEF WikiInv, LatestIsDeposited
        <4>2. CASE <<b, latest[b][1]>> = key
          BY <4>1, <4>2, <3>2, <2>3, <1>0
        <4>3. CASE <<b, latest[b][1]>> # key
          BY <4>1, <4>3, <3>2, <2>3
        <4> QED BY <4>2, <4>3
      <3> QED BY <3>1, <3>2, <2>4
    <2> QED BY <2>2, <2>3, <2>4, <2>5, <2>6, <2>7, <1>0
  <1> QED BY <1>1, <1>2

LEMMA StepReturnsInv == ASSUME IInv, StepReturns PROVE IInv'
  <1>1. TypeOK /\ RunInv /\ ReviewInv /\ WikiInv /\ ValueNotBundle /\ ReportInv
    BY DEF IInv
  <1>2. PICK r \in Replies(Current.agent, ctx) \cap Reply :
          /\ ctx' = Merge(Current, r)
          /\ Deposit(Current.agent, r)
          /\ artifacts' = artifacts \cup {<<step, o>> : o \in r.outputs}
          /\ review' = (review \/ r.review)
          /\ world' = world \cup {<<step, e>> : e \in r.effects}
          /\ Close([success |-> r.success, skipped |-> FALSE,
                    outputs |-> r.outputs, review |-> r.review])
    BY DEF StepReturns
  <1>3. phase = "loop" /\ pipeline' = pipeline /\ report' = report /\ runs' = runs
    BY DEF StepReturns, CanRun
  <1> DEFINE sr == [success |-> r.success, skipped |-> FALSE,
                    outputs |-> r.outputs, review |-> r.review]
  <1>4. sr \in StepResult /\ sr.skipped = FALSE /\ sr.review = r.review /\ r.review \in BOOLEAN
    BY DEF Reply, StepResult
  <1>5. Current \in Step /\ Current.agent \in Agents
    BY <1>1, <1>3, CurrentType DEF Step
  <1>6. /\ RunInv' /\ phase' \in {"loop", "finish"} /\ step' \in Nat \ {0}
        /\ results' = Append(results, sr) /\ results' \in Seq(StepResult)
        /\ success' \in BOOLEAN
    <2>1. Close(sr)
      BY <1>2
    <2> HIDE DEF sr
    <2> QED BY <2>1, <1>1, <1>3, <1>4, ClosePreserves
  <1>7. ReviewInv'
    <2>1. review' = (review \/ sr.review)
      BY <1>2, <1>4
    <2> HIDE DEF sr
    <2> QED BY <2>1, <1>1, <1>3, <1>4, <1>6, ReviewAfterClose
  <1>8. ctx' \in [Keys -> Value] /\ ValueNotBundle'
    <2>1. ctx \in [Keys -> Value]
      BY <1>1 DEF TypeOK
    <2> QED BY <1>1, <1>2, <1>5, <2>1, MergeFacts DEF ValueNotBundle
  <1>9. /\ WikiInv' /\ second' \in Nat
        /\ DOMAIN entries' \subseteq Agents \X Nat
        /\ DOMAIN latest' \subseteq Agents
        /\ \A e \in DOMAIN entries' : entries'[e] \in Nat
        /\ \A b \in DOMAIN latest' : latest'[b] \in Nat \X Nat
    BY <1>1, <1>2, <1>3, <1>5, DepositInv
  <1>10. world' \subseteq Nat \X Atoms /\ artifacts' \subseteq Nat \X Atoms
    BY <1>1, <1>2, WorldType
  <1>11. review' \in BOOLEAN /\ pipeline' \in Pipelines /\ runs' \in Nat
    BY <1>1, <1>2, <1>3, <1>4 DEF TypeOK
  <1>12. TypeOK'
    BY <1>6, <1>8, <1>9, <1>10, <1>11 DEF TypeOK
  <1>13. ReportInv'
    BY <1>1, <1>3, Kept
  <1> QED BY <1>6, <1>7, <1>8, <1>9, <1>12, <1>13 DEF IInv

LEMMA BeginInv == ASSUME IInv, NEW p \in Pipelines, Begin(p) PROVE IInv'
  <1>1. TypeOK /\ WikiInv /\ ReportInv
    BY DEF IInv
  <1>2. p.steps \in Seq(Step) /\ Len(p.steps) \in Nat /\ Len(p.steps) >= 1
    <2>1. p \in Pipeline /\ p.steps # <<>>
      BY ExecutorAssumption
    <2>2. p.steps \in Seq(Step)
      BY <2>1 DEF Pipeline
    <2> QED BY <2>1, <2>2
  <1>3. /\ phase' = "loop" /\ pipeline' = p /\ step' = 1 /\ results' = <<>>
        /\ success' = TRUE /\ review' = FALSE /\ ctx' = [k \in Keys |-> Absent]
        /\ runs' = runs + 1 /\ artifacts' = {} /\ world' = {}
        /\ UNCHANGED <<report, wiki>>
    BY DEF Begin
  <1>4. Absent \in Value
    BY DEF Absent, Value
  <1>5. TypeOK'
    <2>1. ctx' \in [Keys -> Value]
      BY <1>3, <1>4
    <2>2. results' \in Seq(StepResult)
      BY <1>3
    <2>3. runs' \in Nat
      BY <1>1, <1>3 DEF TypeOK
    <2>4. success' \in BOOLEAN /\ review' \in BOOLEAN
      BY <1>3
    <2>5. step' \in Nat \ {0} /\ phase' \in {"idle", "loop", "finish"} /\ pipeline' \in Pipelines
      BY <1>3
    <2> QED BY <2>1, <2>2, <2>3, <2>4, <2>5, <1>1, <1>3 DEF TypeOK, wiki
  <1>6. RunInv'
    BY <1>2, <1>3 DEF RunInv, InRun
  <1>7. ReviewInv'
    BY <1>3 DEF ReviewInv
  <1>8. WikiInv'
    <2>1. \A a \in DOMAIN latest : latest[a][2] \in Nat /\ latest[a][2] <= runs
      BY <1>1 DEF WikiInv, TypeOK
    <2>2. runs \in Nat
      BY <1>1 DEF TypeOK
    <2> QED BY <1>1, <1>3, <2>1, <2>2 DEF WikiInv, LatestIsDeposited, wiki
  <1>9. ValueNotBundle'
    BY <1>3 DEF ValueNotBundle, Absent
  <1>10. ReportInv'
    BY <1>1, <1>3, Kept
  <1> QED BY <1>5, <1>6, <1>7, <1>8, <1>9, <1>10 DEF IInv

LEMMA FinishInv == ASSUME IInv, Finish PROVE IInv'
  <1>1. /\ TypeOK /\ RunInv /\ ReviewInv /\ WikiInv /\ ValueNotBundle
        /\ phase = "finish" /\ InRun
    BY DEF IInv, Finish, InRun
  <1>2. /\ phase' = "idle"
        /\ UNCHANGED <<pipeline, step, ctx, results, success, review, artifacts,
                       runs, wiki, world>>
    BY DEF Finish
  <1>3. /\ report'.steps = pipeline.steps /\ report'.success = success
        /\ report'.total = Len(pipeline.steps) /\ report'.results = results
        /\ report'.review = review /\ report'.completed = CountOf(Completed)
        /\ report'.skipped = CountOf(Skipped) /\ report'.failed = CountOf(FailedStep)
    BY DEF Finish
  <1>4. /\ Len(results) <= Len(pipeline.steps)
        /\ success => Len(results) = Len(pipeline.steps)
        /\ ~success => Len(results) > 0
        /\ \A i \in 1 .. Len(results) :
             (pipeline.steps[i].required /\ FailedStep(results[i]))
               <=> (~success /\ i = Len(results))
    BY <1>1 DEF RunInv, RequiredFailure
  <1>5. results \in Seq(StepResult) /\ Len(results) \in Nat
    BY <1>1 DEF TypeOK
  <1>6. ~success => CountOf(FailedStep) > 0
    <2> SUFFICES ASSUME ~success PROVE CountOf(FailedStep) > 0
      OBVIOUS
    <2> DEFINE F == {i \in 1 .. Len(results) : FailedStep(results[i])}
    <2>1. Len(results) \in F
      BY <1>4, <1>5
    <2>2. IsFiniteSet(F)
      <3>1. IsFiniteSet(1 .. Len(results)) /\ F \in SUBSET (1 .. Len(results))
        BY <1>5, FS_Interval
      <3> HIDE DEF F
      <3> QED BY <3>1, FS_Subset
    <2>3. Cardinality(F) \in Nat /\ Cardinality(F) # 0
      BY <2>1, <2>2, FS_CardinalityType, FS_EmptySet
    <2>4. CountOf(FailedStep) = Cardinality(F)
      BY DEF CountOf
    <2> QED BY <2>3, <2>4
  <1>7. StepsAddUp'
    <2>1. CountOf(Completed) + CountOf(Skipped) + CountOf(FailedStep) = Len(results)
      BY <1>5, CountsAddUp
    <2> QED BY <2>1, <1>3, <1>4, <1>6 DEF StepsAddUp
  <1>8. FailsAtRequiredStep'
    BY <1>3, <1>4 DEF FailsAtRequiredStep, FailedStep
  <1>9. ReviewReported'
    BY <1>1, <1>3 DEF ReviewReported, ReviewInv
  <1>10. TypeOK'
    BY <1>1, <1>2 DEF TypeOK, wiki
  <1>11. RunInv' /\ ReviewInv'
    BY <1>2 DEF RunInv, ReviewInv, InRun
  <1>12. WikiInv' /\ ValueNotBundle'
    <2>1. WikiInv'
      BY <1>1, <1>2, Kept
    <2> QED BY <2>1, <1>1, <1>2 DEF ValueNotBundle
  <1> QED BY <1>7, <1>8, <1>9, <1>10, <1>11, <1>12 DEF IInv, ReportInv

LEMMA StutterInv == ASSUME IInv, UNCHANGED vars PROVE IInv'
  <1>1. TypeOK' /\ RunInv' /\ ReviewInv' /\ ValueNotBundle'
    BY DEF IInv, vars, TypeOK, RunInv, ReviewInv, InRun, RequiredFailure,
           FailedStep, ValueNotBundle
  <1>2. WikiInv' /\ ReportInv'
    BY Kept DEF IInv, vars, wiki
  <1> QED BY <1>1, <1>2 DEF IInv

LEMMA InitIInv == ASSUME Init PROVE IInv
  <1> USE DEF Init
  <1>1. TypeOK
    <2>1. Absent \in Value
      BY DEF Absent, Value
    <2>2. ctx \in [Keys -> Value]
      BY <2>1
    <2>3. DOMAIN entries = {} /\ DOMAIN latest = {}
      BY DEF NoEntries
    <2>4. results \in Seq(StepResult)
      OBVIOUS
    <2>5. success \in BOOLEAN /\ review \in BOOLEAN
      OBVIOUS
    <2>6. artifacts \subseteq (Nat \X Atoms) /\ world \subseteq (Nat \X Atoms)
      OBVIOUS
    <2>7. /\ DOMAIN entries \subseteq (Agents \X Nat) /\ DOMAIN latest \subseteq Agents
          /\ \A e \in DOMAIN entries : entries[e] \in Nat
          /\ \A a \in DOMAIN latest : latest[a] \in Nat \X Nat
      BY ONLY <2>3
    <2>8. /\ phase \in {"idle", "loop", "finish"} /\ pipeline \in Pipelines
          /\ step \in Nat \ {0} /\ runs \in Nat /\ second \in Nat
      OBVIOUS
    <2> QED BY ONLY <2>2, <2>4, <2>5, <2>6, <2>7, <2>8 DEF TypeOK
  <1>2. RunInv /\ ReviewInv
    BY DEF RunInv, ReviewInv, InRun
  <1>3. WikiInv
    BY DEF WikiInv, LatestIsDeposited, NoEntries
  <1>4. ValueNotBundle
    BY DEF ValueNotBundle, Absent
  <1>5. ReportInv
    BY DEF ReportInv, StepsAddUp, FailsAtRequiredStep, ReviewReported, Returned
  <1> QED BY <1>1, <1>2, <1>3, <1>4, <1>5 DEF IInv

LEMMA Inductive == Spec => []IInv
  <1>1. IInv /\ [Next]_vars => IInv'
    BY BeginInv, SkipStepInv, AgentMissingInv, StepReturnsInv, StepRaisesInv,
       FinishInv, StutterInv DEF Next
  <1> QED BY <1>1, InitIInv, PTL DEF Spec

-----------------------------------------------------------------------------
(* The theorems.                                                           *)

\* The state of the executor, of its wiki and of its history keeps its type.
THEOREM ExecutorTypes == Spec => []TypeOK
  BY Inductive, PTL DEF IInv

\* Every report counts each step it took once, as completed, skipped or
\* failed; a successful run took all steps, a failed one has a failed step.
THEOREM ReportsAddUp == Spec => []StepsAddUp
  BY Inductive, PTL DEF IInv, ReportInv

\* A run fails at its first required failure and nowhere else.
THEOREM RequiredFailureStops == Spec => []FailsAtRequiredStep
  BY Inductive, PTL DEF IInv, ReportInv

\* No key of the context yields the bundle around its own value.
THEOREM NoBundleForValue == Spec => []ValueNotBundle
  BY Inductive, PTL DEF IInv

\* A report asks for review exactly when one of its steps did.
THEOREM ReviewNotForgotten == Spec => []ReviewReported
  BY Inductive, PTL DEF IInv, ReportInv

\* latest_runs names entries the wiki has, of that run or a later one.
THEOREM LatestRunsDeposited == Spec => []LatestIsDeposited
  BY Inductive, PTL DEF IInv, WikiInv

-----------------------------------------------------------------------------
(* The seven pipelines with the agents in them.                            *)

\* The executor runs the pipelines of pipelines.py with their agents.
FlowInstance ==
  /\ Keys = FlowKeys
  /\ Pipelines = ALL_PIPELINES
  /\ \A a \in FlowAgents, c \in [FlowKeys -> Value] : Replies(a, c) = FlowReplies(a, c)

Items == "classified_items"

\* The keys that conditions name, and the agents of the required steps for them.
SkipKeys == {"parsed_minutes", "parsed_session", "classified_items", "drift_report"}
Sources == {"transcript_parser", "priority_classifier", "drift_detector"}

\* The agents that run before some required step of a pipeline other than knowledge.
Quiet == {"transcript_parser", "priority_classifier", "session_memory",
          "evidence_accumulator", "wbs_updater"}

AgentNames ==
  {"transcript_parser", "priority_classifier", "req_extractor", "ticket_creator",
   "minutes_publisher", "decision_logger", "drift_detector", "session_memory",
   "concern_tracker", "coach_linker", "adr_generator", "diagram_updater",
   "traceability_builder", "pr_reviewer", "test_generator", "doc_generator",
   "prompt_regression", "evidence_accumulator", "readiness_detector", "wbs_updater",
   "weekly_digest", "alert_agent", "context_packager", "briefing_generator"}

\* What the properties need of where a step is.
Placed(p, i) ==
  /\ p.steps[i].agent \in AgentNames
  /\ p.steps[i].skip # NoKey =>
       \E j \in 1..(i - 1) : /\ p.steps[j].required /\ p.steps[j].agent \in Sources
                             /\ p.steps[j].output = p.steps[i].skip
  /\ p.steps[i].required /\ p.steps[i].agent \in Sources => p.steps[i].output \in SkipKeys
  /\ p.steps[i].agent = "ticket_creator" \/ p.steps[i].skip = Items =>
       \A j \in i..Len(p.steps) :
         p.steps[j].output # Items /\ p.steps[j].agent # "priority_classifier"
  /\ p.steps[i].skip = Items => ~(p.steps[i].required /\ p.steps[i].agent \in Sources)
  /\ p.steps[i].required /\ p.name # "knowledge" =>
       \A j \in 1..(i - 1) : p.steps[j].agent \in Quiet

InOrder(p) == \A i \in 1..Len(p.steps) : Placed(p, i)

\* A step without a condition that need not succeed may be anywhere.
LEMMA FreeStep ==
  ASSUME NEW p, NEW i, p.steps[i].agent \in AgentNames,
         p.steps[i].agent \notin Sources, p.steps[i].agent # "ticket_creator",
         p.steps[i].skip = NoKey, ~ p.steps[i].required \/ p.name = "knowledge"
  PROVE  Placed(p, i)
  BY DEF Placed, Items, NoKey

\* The conditions on other keys than the items, or none.
OtherConditions == {NoKey, "parsed_minutes", "parsed_session", "drift_report"}

LEMMA ItemsApart == \A k \in OtherConditions : k # Items
  BY DEF OtherConditions, Items, NoKey

LEMMA RequirementsInOrder == InOrder(REQUIREMENTS)
<1> DEFINE p == REQUIREMENTS
<1>1. /\ Len(p.steps) = 7 /\ p.name = "requirements"
      /\ p.steps[1] = Required("transcript_parser", "parsed_minutes", NoKey)
      /\ p.steps[2] = Required("priority_classifier", "classified_items", "parsed_minutes")
      /\ p.steps[3] = Required("req_extractor", "requirements", "classified_items")
      /\ p.steps[4] = Optional("ticket_creator", "jira_tickets", "classified_items")
      /\ p.steps[5] = Optional("minutes_publisher", "confluence_page", "parsed_minutes")
      /\ p.steps[6] = Optional("decision_logger", "decisions", "parsed_minutes")
      /\ p.steps[7] = Optional("drift_detector", "drift_report", "parsed_minutes")
  BY DEF REQUIREMENTS
<1> HIDE DEF p
<1>2. 1..Len(p.steps) = {1, 2, 3, 4, 5, 6, 7}
  BY <1>1
<1>3. Placed(p, 1)
  <2>1. /\ p.steps[1].agent \in AgentNames
        /\ p.steps[1].output \in SkipKeys
    BY <1>1 DEF Required, Optional, AgentNames, SkipKeys
  <2>2. p.steps[1].skip = NoKey
    BY <1>1 DEF Required, Optional
  <2>3. p.steps[1].agent # "ticket_creator" /\ p.steps[1].skip # Items
    <3>1. p.steps[1].agent # "ticket_creator"
      BY <1>1 DEF Required, Optional
    <3>2. p.steps[1].skip \in OtherConditions
      BY <1>1 DEF Required, Optional, OtherConditions
    <3>3. QED
      BY <3>1, <3>2, ItemsApart
  <2>4. \A j \in 1..(1 - 1) : p.steps[j].agent \in Quiet
    BY <1>1 DEF Required, Optional, Quiet
  <2>5. QED
    BY <2>1, <2>2, <2>3, <2>4 DEF Placed
<1>4. Placed(p, 2)
  <2>1. /\ p.steps[2].agent \in AgentNames
        /\ p.steps[2].output \in SkipKeys
    BY <1>1 DEF Required, Optional, AgentNames, SkipKeys
  <2>2. /\ 1 \in 1..(2 - 1) /\ p.steps[1].required /\ p.steps[1].agent \in Sources
        /\ p.steps[1].output = p.steps[2].skip
    BY <1>1 DEF Required, Optional, Sources
  <2>3. p.steps[2].agent # "ticket_creator" /\ p.steps[2].skip # Items
    <3>1. p.steps[2].agent # "ticket_creator"
      BY <1>1 DEF Required, Optional
    <3>2. p.steps[2].skip \in OtherConditions
      BY <1>1 DEF Required, Optional, OtherConditions
    <3>3. QED
      BY <3>1, <3>2, ItemsApart
  <2>4. \A j \in 1..(2 - 1) : p.steps[j].agent \in Quiet
    BY <1>1 DEF Required, Optional, Quiet
  <2>5. QED
    BY <2>1, <2>2, <2>3, <2>4 DEF Placed
<1>5. Placed(p, 3)
  <2>1. /\ p.steps[3].agent \in AgentNames
        /\ ~ (p.steps[3].required /\ p.steps[3].agent \in Sources)
    BY <1>1 DEF Required, Optional, AgentNames, Sources
  <2>2. /\ 2 \in 1..(3 - 1) /\ p.steps[2].required /\ p.steps[2].agent \in Sources
        /\ p.steps[2].output = p.steps[3].skip
    BY <1>1 DEF Required, Optional, Sources
  <2>3. \A j \in 3..Len(p.steps) :
          p.steps[j].output # Items /\ p.steps[j].agent # "priority_classifier"
    BY <1>1, <1>2 DEF Required, Optional, Items
  <2>4. \A j \in 1..(3 - 1) : p.steps[j].agent \in Quiet
    BY <1>1 DEF Required, Optional, Quiet
  <2>5. QED
    BY <2>1, <2>2, <2>3, <2>4 DEF Placed
<1>6. Placed(p, 4)
  <2>1. /\ p.steps[4].agent \in AgentNames
        /\ ~ (p.steps[4].required /\ p.steps[4].agent \in Sources)
    BY <1>1 DEF Required, Optional, AgentNames, Sources
  <2>2. /\ 2 \in 1..(4 - 1) /\ p.steps[2].required /\ p.steps[2].agent \in Sources
        /\ p.steps[2].output = p.steps[4].skip
    BY <1>1 DEF Required, Optional, Sources
  <2>3. \A j \in 4..Len(p.steps) :
          p.steps[j].output # Items /\ p.steps[j].agent # "priority_classifier"
    BY <1>1, <1>2 DEF Optional, Items
  <2>4. ~ p.steps[4].required
    BY <1>1 DEF Optional
  <2>5. QED
    BY <2>1, <2>2, <2>3, <2>4 DEF Placed
<1>7. Placed(p, 5)
  <2>1. /\ p.steps[5].agent \in AgentNames
        /\ ~ (p.steps[5].required /\ p.steps[5].agent \in Sources)
    BY <1>1 DEF Required, Optional, AgentNames, Sources
  <2>2. /\ 1 \in 1..(5 - 1) /\ p.steps[1].required /\ p.steps[1].agent \in Sources
        /\ p.steps[1].output = p.steps[5].skip
    BY <1>1 DEF Required, Optional, Sources
  <2>3. p.steps[5].agent # "ticket_creator" /\ p.steps[5].skip # Items
    <3>1. p.steps[5].agent # "ticket_creator"
      BY <1>1 DEF Required, Optional
    <3>2. p.steps[5].skip \in OtherConditions
      BY <1>1 DEF Required, Optional, OtherConditions
    <3>3. QED
      BY <3>1, <3>2, ItemsApart
  <2>4. ~ p.steps[5].required
    BY <1>1 DEF Optional
  <2>5. QED
    BY <2>1, <2>2, <2>3, <2>4 DEF Placed
<1>8. Placed(p, 6)
  <2>1. /\ p.steps[6].agent \in AgentNames
        /\ ~ (p.steps[6].required /\ p.steps[6].agent \in Sources)
    BY <1>1 DEF Required, Optional, AgentNames, Sources
  <2>2. /\ 1 \in 1..(6 - 1) /\ p.steps[1].required /\ p.steps[1].agent \in Sources
        /\ p.steps[1].output = p.steps[6].skip
    BY <1>1 DEF Required, Optional, Sources
  <2>3. p.steps[6].agent # "ticket_creator" /\ p.steps[6].skip # Items
    <3>1. p.steps[6].agent # "ticket_creator"
      BY <1>1 DEF Required, Optional
    <3>2. p.steps[6].skip \in OtherConditions
      BY <1>1 DEF Required, Optional, OtherConditions
    <3>3. QED
      BY <3>1, <3>2, ItemsApart
  <2>4. ~ p.steps[6].required
    BY <1>1 DEF Optional
  <2>5. QED
    BY <2>1, <2>2, <2>3, <2>4 DEF Placed
<1>9. Placed(p, 7)
  <2>1. /\ p.steps[7].agent \in AgentNames
        /\ ~ (p.steps[7].required /\ p.steps[7].agent \in Sources)
    BY <1>1 DEF Required, Optional, AgentNames, Sources
  <2>2. /\ 1 \in 1..(7 - 1) /\ p.steps[1].required /\ p.steps[1].agent \in Sources
        /\ p.steps[1].output = p.steps[7].skip
    BY <1>1 DEF Required, Optional, Sources
  <2>3. p.steps[7].agent # "ticket_creator" /\ p.steps[7].skip # Items
    <3>1. p.steps[7].agent # "ticket_creator"
      BY <1>1 DEF Required, Optional
    <3>2. p.steps[7].skip \in OtherConditions
      BY <1>1 DEF Required, Optional, OtherConditions
    <3>3. QED
      BY <3>1, <3>2, ItemsApart
  <2>4. ~ p.steps[7].required
    BY <1>1 DEF Optional
  <2>5. QED
    BY <2>1, <2>2, <2>3, <2>4 DEF Placed
<1>10. QED
  BY <1>2, <1>3, <1>4, <1>5, <1>6, <1>7, <1>8, <1>9 DEF InOrder, p

LEMMA CoachSessionInOrder == InOrder(COACH_SESSION)
<1> DEFINE p == COACH_SESSION
<1>1. /\ Len(p.steps) = 5 /\ p.name = "coach_session"
      /\ p.steps[1] = Required("transcript_parser", "parsed_session", NoKey)
      /\ p.steps[2] = Required("session_memory", "session_embedded", NoKey)
      /\ p.steps[3] = Required("concern_tracker", "concerns", NoKey)
      /\ p.steps[4] = Optional("coach_linker", "ml_links", NoKey)
      /\ p.steps[5] = Optional("decision_logger", "decisions", "parsed_session")
  BY DEF COACH_SESSION
<1> HIDE DEF p
<1>2. 1..Len(p.steps) = {1, 2, 3, 4, 5}
  BY <1>1
<1>3. Placed(p, 1)
  <2>1. /\ p.steps[1].agent \in AgentNames
        /\ p.steps[1].output \in SkipKeys
    BY <1>1 DEF Required, Optional, AgentNames, SkipKeys
  <2>2. p.steps[1].skip = NoKey
    BY <1>1 DEF Required, Optional
  <2>3. p.steps[1].agent # "ticket_creator" /\ p.steps[1].skip # Items
    <3>1. p.steps[1].agent # "ticket_creator"
      BY <1>1 DEF Required, Optional
    <3>2. p.steps[1].skip \in OtherConditions
      BY <1>1 DEF Required, Optional, OtherConditions
    <3>3. QED
      BY <3>1, <3>2, ItemsApart
  <2>4. \A j \in 1..(1 - 1) : p.steps[j].agent \in Quiet
    BY <1>1 DEF Required, Optional, Quiet
  <2>5. QED
    BY <2>1, <2>2, <2>3, <2>4 DEF Placed
<1>4. Placed(p, 2)
  <2>1. /\ p.steps[2].agent \in AgentNames
        /\ ~ (p.steps[2].required /\ p.steps[2].agent \in Sources)
    BY <1>1 DEF Required, Optional, AgentNames, Sources
  <2>2. p.steps[2].skip = NoKey
    BY <1>1 DEF Required, Optional
  <2>3. p.steps[2].agent # "ticket_creator" /\ p.steps[2].skip # Items
    <3>1. p.steps[2].agent # "ticket_creator"
      BY <1>1 DEF Required, Optional
    <3>2. p.steps[2].skip \in OtherConditions
      BY <1>1 DEF Required, Optional, OtherConditions
    <3>3. QED
      BY <3>1, <3>2, ItemsApart
  <2>4. \A j \in 1..(2 - 1) : p.steps[j].agent \in Quiet
    BY <1>1 DEF Required, Optional, Quiet
  <2>5. QED
    BY <2>1, <2>2, <2>3, <2>4 DEF Placed
<1>5. Placed(p, 3)
  <2>1. /\ p.steps[3].agent \in AgentNames
        /\ ~ (p.steps[3].required /\ p.steps[3].agent \in Sources)
    BY <1>1 DEF Required, Optional, AgentNames, Sources
  <2>2. p.steps[3].skip = NoKey
    BY <1>1 DEF Required, Optional
  <2>3. p.steps[3].agent # "ticket_creator" /\ p.steps[3].skip # Items
    <3>1. p.steps[3].agent # "ticket_creator"
      BY <1>1 DEF Required, Optional
    <3>2. p.steps[3].skip \in OtherConditions
      BY <1>1 DEF Required, Optional, OtherConditions
    <3>3. QED
      BY <3>1, <3>2, ItemsApart
  <2>4. \A j \in 1..(3 - 1) : p.steps[j].agent \in Quiet
    BY <1>1 DEF Required, Optional, Quiet
  <2>5. QED
    BY <2>1, <2>2, <2>3, <2>4 DEF Placed
<1>6. Placed(p, 4)
  BY <1>1, FreeStep DEF Required, Optional, AgentNames, Sources
<1>7. Placed(p, 5)
  <2>1. /\ p.steps[5].agent \in AgentNames
        /\ ~ (p.steps[5].required /\ p.steps[5].agent \in Sources)
    BY <1>1 DEF Required, Optional, AgentNames, Sources
  <2>2. /\ 1 \in 1..(5 - 1) /\ p.steps[1].required /\ p.steps[1].agent \in Sources
        /\ p.steps[1].output = p.steps[5].skip
    BY <1>1 DEF Required, Optional, Sources
  <2>3. p.steps[5].agent # "ticket_creator" /\ p.steps[5].skip # Items
    <3>1. p.steps[5].agent # "ticket_creator"
      BY <1>1 DEF Required, Optional
    <3>2. p.steps[5].skip \in OtherConditions
      BY <1>1 DEF Required, Optional, OtherConditions
    <3>3. QED
      BY <3>1, <3>2, ItemsApart
  <2>4. ~ p.steps[5].required
    BY <1>1 DEF Optional
  <2>5. QED
    BY <2>1, <2>2, <2>3, <2>4 DEF Placed
<1>8. QED
  BY <1>2, <1>3, <1>4, <1>5, <1>6, <1>7 DEF InOrder, p

LEMMA ArchitectureInOrder == InOrder(ARCHITECTURE)
<1> DEFINE p == ARCHITECTURE
<1>1. /\ Len(p.steps) = 4 /\ p.name = "architecture"
      /\ p.steps[1] = Required("drift_detector", "drift_report", NoKey)
      /\ p.steps[2] = Optional("adr_generator", "adr_draft", "drift_report")
      /\ p.steps[3] = Optional("diagram_updater", "diagram_pr", "drift_report")
      /\ p.steps[4] = Optional("traceability_builder", "traceability", NoKey)
  BY DEF ARCHITECTURE
<1> HIDE DEF p
<1>2. 1..Len(p.steps) = {1, 2, 3, 4}
  BY <1>1
<1>3. Placed(p, 1)
  <2>1. /\ p.steps[1].agent \in AgentNames
        /\ p.steps[1].output \in SkipKeys
    BY <1>1 DEF Required, Optional, AgentNames, SkipKeys
  <2>2. p.steps[1].skip = NoKey
    BY <1>1 DEF Required, Optional
  <2>3. p.steps[1].agent # "ticket_creator" /\ p.steps[1].skip # Items
    <3>1. p.steps[1].agent # "ticket_creator"
      BY <1>1 DEF Required, Optional
    <3>2. p.steps[1].skip \in OtherConditions
      BY <1>1 DEF Required, Optional, OtherConditions
    <3>3. QED
      BY <3>1, <3>2, ItemsApart
  <2>4. \A j \in 1..(1 - 1) : p.steps[j].agent \in Quiet
    BY <1>1 DEF Required, Optional, Quiet
  <2>5. QED
    BY <2>1, <2>2, <2>3, <2>4 DEF Placed
<1>4. Placed(p, 2)
  <2>1. /\ p.steps[2].agent \in AgentNames
        /\ ~ (p.steps[2].required /\ p.steps[2].agent \in Sources)
    BY <1>1 DEF Required, Optional, AgentNames, Sources
  <2>2. /\ 1 \in 1..(2 - 1) /\ p.steps[1].required /\ p.steps[1].agent \in Sources
        /\ p.steps[1].output = p.steps[2].skip
    BY <1>1 DEF Required, Optional, Sources
  <2>3. p.steps[2].agent # "ticket_creator" /\ p.steps[2].skip # Items
    <3>1. p.steps[2].agent # "ticket_creator"
      BY <1>1 DEF Required, Optional
    <3>2. p.steps[2].skip \in OtherConditions
      BY <1>1 DEF Required, Optional, OtherConditions
    <3>3. QED
      BY <3>1, <3>2, ItemsApart
  <2>4. ~ p.steps[2].required
    BY <1>1 DEF Optional
  <2>5. QED
    BY <2>1, <2>2, <2>3, <2>4 DEF Placed
<1>5. Placed(p, 3)
  <2>1. /\ p.steps[3].agent \in AgentNames
        /\ ~ (p.steps[3].required /\ p.steps[3].agent \in Sources)
    BY <1>1 DEF Required, Optional, AgentNames, Sources
  <2>2. /\ 1 \in 1..(3 - 1) /\ p.steps[1].required /\ p.steps[1].agent \in Sources
        /\ p.steps[1].output = p.steps[3].skip
    BY <1>1 DEF Required, Optional, Sources
  <2>3. p.steps[3].agent # "ticket_creator" /\ p.steps[3].skip # Items
    <3>1. p.steps[3].agent # "ticket_creator"
      BY <1>1 DEF Required, Optional
    <3>2. p.steps[3].skip \in OtherConditions
      BY <1>1 DEF Required, Optional, OtherConditions
    <3>3. QED
      BY <3>1, <3>2, ItemsApart
  <2>4. ~ p.steps[3].required
    BY <1>1 DEF Optional
  <2>5. QED
    BY <2>1, <2>2, <2>3, <2>4 DEF Placed
<1>6. Placed(p, 4)
  BY <1>1, FreeStep DEF Required, Optional, AgentNames, Sources
<1>7. QED
  BY <1>2, <1>3, <1>4, <1>5, <1>6 DEF InOrder, p

LEMMA CodingInOrder == InOrder(CODING)
<1> DEFINE p == CODING
<1>1. /\ Len(p.steps) = 4 /\ p.name = "coding"
      /\ p.steps[1] = Required("pr_reviewer", "review_comments", NoKey)
      /\ p.steps[2] = Optional("test_generator", "test_stubs", NoKey)
      /\ p.steps[3] = Optional("doc_generator", "doc_updates", NoKey)
      /\ p.steps[4] = Optional("prompt_regression", "regression_results", NoKey)
  BY DEF CODING
<1> HIDE DEF p
<1>2. 1..Len(p.steps) = {1, 2, 3, 4}
  BY <1>1
<1>3. Placed(p, 1)
  <2>1. /\ p.steps[1].agent \in AgentNames
        /\ ~ (p.steps[1].required /\ p.steps[1].agent \in Sources)
    BY <1>1 DEF Required, Optional, AgentNames, Sources
  <2>2. p.steps[1].skip = NoKey
    BY <1>1 DEF Required, Optional
  <2>3. p.steps[1].agent # "ticket_creator" /\ p.steps[1].skip # Items
    <3>1. p.steps[1].agent # "ticket_creator"
      BY <1>1 DEF Required, Optional
    <3>2. p.steps[1].skip \in OtherConditions
      BY <1>1 DEF Required, Optional, OtherConditions
    <3>3. QED
      BY <3>1, <3>2, ItemsApart
  <2>4. \A j \in 1..(1 - 1) : p.steps[j].agent \in Quiet
    BY <1>1 DEF Required, Optional, Quiet
  <2>5. QED
    BY <2>1, <2>2, <2>3, <2>4 DEF Placed
<1>4. Placed(p, 2)
  BY <1>1, FreeStep DEF Required, Optional, AgentNames, Sources
<1>5. Placed(p, 3)
  BY <1>1, FreeStep DEF Required, Optional, AgentNames, Sources
<1>6. Placed(p, 4)
  BY <1>1, FreeStep DEF Required, Optional, AgentNames, Sources
<1>7. QED
  BY <1>2, <1>3, <1>4, <1>5, <1>6 DEF InOrder, p

LEMMA MLDecisionInOrder == InOrder(ML_DECISION)
<1> DEFINE p == ML_DECISION
<1>1. /\ Len(p.steps) = 3 /\ p.name = "ml_decision"
      /\ p.steps[1] = Required("evidence_accumulator", "evidence", NoKey)
      /\ p.steps[2] = Required("readiness_detector", "readiness_alerts", NoKey)
      /\ p.steps[3] = Optional("coach_linker", "coach_links", NoKey)
  BY DEF ML_DECISION
<1> HIDE DEF p
<1>2. 1..Len(p.steps) = {1, 2, 3}
  BY <1>1
<1>3. Placed(p, 1)
  <2>1. /\ p.steps[1].agent \in AgentNames
        /\ ~ (p.steps[1].required /\ p.steps[1].agent \in Sources)
    BY <1>1 DEF Required, Optional, AgentNames, Sources
  <2>2. p.steps[1].skip = NoKey
    BY <1>1 DEF Required, Optional
  <2>3. p.steps[1].agent # "ticket_creator" /\ p.steps[1].skip # Items
    <3>1. p.steps[1].agent # "ticket_creator"
      BY <1>1 DEF Required, Optional
    <3>2. p.steps[1].skip \in OtherConditions
      BY <1>1 DEF Required, Optional, OtherConditions
    <3>3. QED
      BY <3>1, <3>2, ItemsApart
  <2>4. \A j \in 1..(1 - 1) : p.steps[j].agent \in Quiet
    BY <1>1 DEF Required, Optional, Quiet
  <2>5. QED
    BY <2>1, <2>2, <2>3, <2>4 DEF Placed
<1>4. Placed(p, 2)
  <2>1. /\ p.steps[2].agent \in AgentNames
        /\ ~ (p.steps[2].required /\ p.steps[2].agent \in Sources)
    BY <1>1 DEF Required, Optional, AgentNames, Sources
  <2>2. p.steps[2].skip = NoKey
    BY <1>1 DEF Required, Optional
  <2>3. p.steps[2].agent # "ticket_creator" /\ p.steps[2].skip # Items
    <3>1. p.steps[2].agent # "ticket_creator"
      BY <1>1 DEF Required, Optional
    <3>2. p.steps[2].skip \in OtherConditions
      BY <1>1 DEF Required, Optional, OtherConditions
    <3>3. QED
      BY <3>1, <3>2, ItemsApart
  <2>4. \A j \in 1..(2 - 1) : p.steps[j].agent \in Quiet
    BY <1>1 DEF Required, Optional, Quiet
  <2>5. QED
    BY <2>1, <2>2, <2>3, <2>4 DEF Placed
<1>5. Placed(p, 3)
  BY <1>1, FreeStep DEF Required, Optional, AgentNames, Sources
<1>6. QED
  BY <1>2, <1>3, <1>4, <1>5 DEF InOrder, p

LEMMA ProjectInOrder == InOrder(PROJECT_MGMT)
<1> DEFINE p == PROJECT_MGMT
<1>1. /\ Len(p.steps) = 3 /\ p.name = "project_mgmt"
      /\ p.steps[1] = Optional("wbs_updater", "wbs_state", NoKey)
      /\ p.steps[2] = Required("weekly_digest", "digest", NoKey)
      /\ p.steps[3] = Optional("alert_agent", "alerts", NoKey)
  BY DEF PROJECT_MGMT
<1> HIDE DEF p
<1>2. 1..Len(p.steps) = {1, 2, 3}
  BY <1>1
<1>3. Placed(p, 1)
  BY <1>1, FreeStep DEF Required, Optional, AgentNames, Sources
<1>4. Placed(p, 2)
  <2>1. /\ p.steps[2].agent \in AgentNames
        /\ ~ (p.steps[2].required /\ p.steps[2].agent \in Sources)
    BY <1>1 DEF Required, Optional, AgentNames, Sources
  <2>2. p.steps[2].skip = NoKey
    BY <1>1 DEF Required, Optional
  <2>3. p.steps[2].agent # "ticket_creator" /\ p.steps[2].skip # Items
    <3>1. p.steps[2].agent # "ticket_creator"
      BY <1>1 DEF Required, Optional
    <3>2. p.steps[2].skip \in OtherConditions
      BY <1>1 DEF Required, Optional, OtherConditions
    <3>3. QED
      BY <3>1, <3>2, ItemsApart
  <2>4. \A j \in 1..(2 - 1) : p.steps[j].agent \in Quiet
    BY <1>1 DEF Required, Optional, Quiet
  <2>5. QED
    BY <2>1, <2>2, <2>3, <2>4 DEF Placed
<1>5. Placed(p, 3)
  BY <1>1, FreeStep DEF Required, Optional, AgentNames, Sources
<1>6. QED
  BY <1>2, <1>3, <1>4, <1>5 DEF InOrder, p

LEMMA KnowledgeInOrder == InOrder(KNOWLEDGE)
<1> DEFINE p == KNOWLEDGE
<1>1. /\ Len(p.steps) = 2 /\ p.name = "knowledge"
      /\ p.steps[1] = Required("context_packager", "context_package", NoKey)
      /\ p.steps[2] = Required("briefing_generator", "briefing", NoKey)
  BY DEF KNOWLEDGE
<1> HIDE DEF p
<1>2. 1..Len(p.steps) = {1, 2}
  BY <1>1
<1>3. Placed(p, 1)
  BY <1>1, FreeStep DEF Required, Optional, AgentNames, Sources
<1>4. Placed(p, 2)
  BY <1>1, FreeStep DEF Required, Optional, AgentNames, Sources
<1>5. QED
  BY <1>2, <1>3, <1>4 DEF InOrder, p

LEMMA AllInOrder == \A p \in ALL_PIPELINES : InOrder(p)
  BY RequirementsInOrder, CoachSessionInOrder, ArchitectureInOrder, CodingInOrder,
     MLDecisionInOrder, ProjectInOrder, KnowledgeInOrder DEF ALL_PIPELINES

\* A value that answers the condition on key k: one with contents, or the empty
\* list of a classifier.
Settled(v, k) == Truthy(v) \/ (k = Items /\ v = Unclassified)

\* What the properties need of an answer of agent a to the context c.
Harmless(a, c, r) ==
  /\ \A k \in SkipKeys : r.data[k] = Absent \/ Settled(r.data[k], k)
  /\ a \in Sources /\ r.success => Written(r.data) # {} \/ r.outputs # {}
  /\ r.outputs \subseteq {"note", "output"}
  /\ "p0" \in r.data[Items][2] => r.review
  /\ a # "priority_classifier" => r.data[Items] = Absent
  /\ "item_ticket" \in r.effects => a = "ticket_creator" /\ "p1" \in c[Items][2]
  /\ a \in Quiet => r.effects \cap Published = {}

LEMMA AnswerFacts ==
  ASSUME NEW data, NEW outs, NEW effects, NEW r \in Answers(data, outs, effects)
  PROVE  /\ r.success = TRUE /\ r.data = data /\ r.outputs = outs /\ r.review = FALSE
         /\ r.effects \subseteq effects
  BY DEF Answers

LEMMA FailureFacts ==
  ASSUME NEW effects, NEW r \in Failures(effects)
  PROVE  /\ r.success = FALSE /\ r.data = NoData /\ r.outputs = {} /\ r.review = FALSE
         /\ r.effects \subseteq effects
  BY DEF Failures

LEMMA DataFacts ==
  /\ \A k \in FlowKeys : NoData[k] = Absent
  /\ \A v : \A k \in FlowKeys : DataOf(k, v)[k] = <<"data", v>>
  /\ \A v : \A k, j \in FlowKeys : j # k => DataOf(k, v)[j] = Absent
  /\ SkipKeys \subseteq FlowKeys
<1>1. SkipKeys \subseteq FlowKeys
  BY DEF SkipKeys, FlowKeys
<1>2. \A k \in FlowKeys : NoData[k] = Absent
  BY DEF NoData
<1>3. QED
  BY <1>1, <1>2 DEF NoData, DataOf

\* Answers without data for a condition's key, by agents that publish no ticket.
LEMMA PlainAnswer ==
  ASSUME NEW a, NEW c, NEW data, NEW outs \in SUBSET {"note", "output"}, NEW effects,
         \A k \in SkipKeys : data[k] = Absent,
         a \notin Sources, "item_ticket" \notin effects,
         a \in Quiet => effects \cap Published = {}
  PROVE  \A r \in Answers(data, outs, effects) : Harmless(a, c, r)
<1> SUFFICES ASSUME NEW r \in Answers(data, outs, effects) PROVE Harmless(a, c, r)
  OBVIOUS
<1>1. r.data = data /\ r.outputs = outs /\ r.effects \subseteq effects
  BY DEF Answers
<1>2. r.data[Items] = Absent
  BY <1>1 DEF SkipKeys, Items
<1>3. "p0" \notin r.data[Items][2]
  BY <1>2 DEF Absent
<1>4. QED
  BY <1>1, <1>2, <1>3 DEF Harmless

LEMMA PlainFailure ==
  ASSUME NEW a, NEW c, NEW effects, "item_ticket" \notin effects,
         a \in Quiet => effects \cap Published = {}
  PROVE  \A r \in Failures(effects) : Harmless(a, c, r)
<1> SUFFICES ASSUME NEW r \in Failures(effects) PROVE Harmless(a, c, r)
  OBVIOUS
<1>1. r.success = FALSE /\ r.data = NoData /\ r.outputs = {} /\ r.effects \subseteq effects
  BY FailureFacts
<1>2. \A k \in SkipKeys : r.data[k] = Absent
  BY <1>1, DataFacts
<1>3. r.data[Items] = Absent
  BY <1>2 DEF SkipKeys, Items
<1>4. "p0" \notin r.data[Items][2]
  BY <1>3 DEF Absent
<1>5. QED
  BY <1>1, <1>2, <1>3, <1>4 DEF Harmless

LEMMA ParserHarmless ==
  ASSUME NEW c, NEW r \in TranscriptParser
  PROVE  Harmless("transcript_parser", c, r)
<1>1. CASE r \in Failures({"commit"})
  BY <1>1, PlainFailure DEF Published
<1>2. ASSUME NEW m, NEW t, r \in Answers(ParsedData(m, t), {"output"}, {"commit"})
      PROVE  Harmless("transcript_parser", c, r)
  <2>1. r.data = ParsedData(m, t) /\ r.outputs = {"output"} /\ r.effects \subseteq {"commit"}
    <3>1. PICK x \in SUBSET {"commit"} :
            r = [success |-> TRUE, data |-> ParsedData(m, t), outputs |-> {"output"},
                 review |-> FALSE, effects |-> x]
      BY <1>2 DEF Answers
    <3>2. QED
      BY <3>1
  <2>2. /\ ParsedData(m, t)["parsed_minutes"] = <<"data", {"minutes"} \cup m>>
        /\ \A k \in SkipKeys : k # "parsed_minutes" => ParsedData(m, t)[k] = Absent
    <3>1. \A k \in SkipKeys : k \in FlowKeys /\ k # "transcript_cleaned" /\ NoData[k] = Absent
      BY DataFacts DEF SkipKeys
    <3>2. DOMAIN NoData = FlowKeys /\ "parsed_minutes" \in FlowKeys
      BY DEF NoData, FlowKeys
    <3>3. QED
      BY <3>1, <3>2 DEF ParsedData
  <2>3. \A k \in SkipKeys : r.data[k] = Absent \/ Settled(r.data[k], k)
    BY <2>1, <2>2 DEF Settled, Truthy
  <2>4. r.data[Items] = Absent
    BY <2>1, <2>2 DEF Items, SkipKeys
  <2>5. "p0" \notin r.data[Items][2]
    BY <2>4 DEF Absent
  <2>6. QED
    BY <2>1, <2>3, <2>4, <2>5 DEF Harmless, Published
<1>3. r \in Failures({"commit"}) \/ \E m, t : r \in Answers(ParsedData(m, t), {"output"}, {"commit"})
  BY DEF TranscriptParser
<1>4. QED
  BY <1>1, <1>2, <1>3

LEMMA ClassifierHarmless ==
  ASSUME NEW c, NEW r \in PriorityClassifier(c)
  PROVE  Harmless("priority_classifier", c, r)
<1> DEFINE data(cl) == DataOf("classified_items", cl)
<1>1. CASE r \in Failures({})
  BY <1>1, PlainFailure
<1>2. CASE r \in Noted
  <2>1. r.data = NoData /\ r.outputs = {"note"} /\ r.effects = {}
    BY <1>2 DEF Noted, Answers
  <2>2. \A k \in SkipKeys : r.data[k] = Absent
    BY <2>1, DataFacts
  <2>3. "p0" \notin r.data[Items][2]
    BY <2>2 DEF SkipKeys, Items, Absent
  <2>4. QED
    BY <2>1, <2>2, <2>3 DEF Harmless
<1>3. ASSUME NEW cl \in SUBSET {"p0", "p1"},
             r \in IF "p0" \in cl THEN Asking(Answers(data(cl), {"output"}, {}))
                   ELSE Answers(data(cl), {"output"}, {})
      PROVE  Harmless("priority_classifier", c, r)
  <2>1. /\ r.data = data(cl) /\ r.outputs = {"output"} /\ r.effects = {}
        /\ "p0" \in cl => r.review
    <3>1. CASE "p0" \in cl
      <4>1. PICK q \in Answers(data(cl), {"output"}, {}) : r = [q EXCEPT !.review = TRUE]
        BY <1>3, <3>1 DEF Asking
      <4>2. PICK e \in SUBSET {} :
              q = [success |-> TRUE, data |-> data(cl), outputs |-> {"output"},
                   review |-> FALSE, effects |-> e]
        BY <4>1 DEF Answers
      <4>3. r = [success |-> TRUE, data |-> data(cl), outputs |-> {"output"},
                 review |-> TRUE, effects |-> e]
        BY <4>1, <4>2
      <4>4. QED
        BY <4>3
    <3>2. CASE "p0" \notin cl
      BY <1>3, <3>2 DEF Answers
    <3>3. QED
      BY <3>1, <3>2
  <2>2. data(cl)[Items] = <<"data", cl>> /\ \A k \in SkipKeys : k # Items => data(cl)[k] = Absent
    BY DataFacts DEF Items, FlowKeys
  <2>3. Settled(<<"data", cl>>, Items)
    BY DEF Settled, Truthy, Unclassified
  <2> HIDE DEF data
  <2>4. \A k \in SkipKeys : r.data[k] = Absent \/ Settled(r.data[k], k)
    BY <2>1, <2>2, <2>3
  <2>5. QED
    BY <2>1, <2>2, <2>4 DEF Harmless
<1>4. \/ r \in Failures({}) \/ r \in Noted
      \/ \E cl \in SUBSET {"p0", "p1"} :
           r \in IF "p0" \in cl THEN Asking(Answers(data(cl), {"output"}, {}))
                 ELSE Answers(data(cl), {"output"}, {})
  BY DEF PriorityClassifier
<1> HIDE DEF data
<1>5. QED
  BY <1>1, <1>2, <1>3, <1>4

LEMMA TicketHarmless ==
  ASSUME NEW c, NEW r \in TicketCreator(c)
  PROVE  Harmless("ticket_creator", c, r)
<1> DEFINE items == c["classified_items"][2]
           with(t) == {[q EXCEPT !.effects = t] :
                         q \in Answers(NoData, IF t = {} THEN {} ELSE {"output"}, {})}
           all == UNION {with(t) : t \in SUBSET TicketsFor(items)}
           Ticketed(q) == /\ q.data = NoData /\ q.outputs \subseteq {"output"}
                          /\ q.effects \subseteq TicketsFor(items)
<1>1. \A q \in all : /\ Ticketed(q)
                     /\ Ticketed([q EXCEPT !.review = TRUE])
  <2> TAKE q \in all
  <2>1. PICK t \in SUBSET TicketsFor(items) : q \in with(t)
    OBVIOUS
  <2>2. PICK outs \in SUBSET {"output"} :
          q = [success |-> TRUE, data |-> NoData, outputs |-> outs, review |-> FALSE,
               effects |-> t]
    <3>1. PICK x \in Answers(NoData, IF t = {} THEN {} ELSE {"output"}, {}) :
            q = [x EXCEPT !.effects = t]
      BY <2>1
    <3>2. PICK e \in SUBSET {} :
            x = [success |-> TRUE, data |-> NoData,
                 outputs |-> IF t = {} THEN {} ELSE {"output"}, review |-> FALSE, effects |-> e]
      BY <3>1 DEF Answers
    <3>3. q = [success |-> TRUE, data |-> NoData,
               outputs |-> IF t = {} THEN {} ELSE {"output"}, review |-> FALSE, effects |-> t]
      BY <3>1, <3>2
    <3>4. (IF t = {} THEN {} ELSE {"output"}) \in SUBSET {"output"}
      OBVIOUS
    <3>5. QED
      BY <3>3, <3>4
  <2> HIDE DEF items
  <2>3. QED
    BY <2>2
<1>2. r \in Failures(TicketsFor(items)) \/ r \in all \/ r \in Asking(all)
  BY DEF TicketCreator
<1> HIDE DEF all
<1>3. Ticketed(r)
  <2>1. CASE r \in Failures(TicketsFor(items))
    BY <2>1, FailureFacts
  <2>2. CASE r \in all
    BY <1>1, <2>2
  <2>3. CASE r \in Asking(all)
    <3>1. PICK q \in all : r = [q EXCEPT !.review = TRUE]
      BY <2>3 DEF Asking
    <3>2. QED
      BY <1>1, <3>1
  <2>4. QED
    BY <1>2, <2>1, <2>2, <2>3
<1>4. \A k \in SkipKeys : r.data[k] = Absent
  BY <1>3, DataFacts
<1>5. "p0" \notin r.data[Items][2] /\ r.data[Items] = Absent
  BY <1>4 DEF SkipKeys, Items, Absent
<1>6. "item_ticket" \in r.effects => "p1" \in items
  BY <1>3 DEF TicketsFor
<1>7. QED
  BY <1>3, <1>4, <1>5, <1>6 DEF Harmless, Sources, Quiet, Items

LEMMA DriftHarmless ==
  ASSUME NEW c, NEW r \in DriftDetector(c)
  PROVE  Harmless("drift_detector", c, r)
<1>1. CASE r \in Failures({"commit"})
  BY <1>1, PlainFailure DEF Quiet
<1>2. CASE r \in Noted
  <2>1. r.data = NoData /\ r.outputs = {"note"} /\ r.effects = {}
    BY <1>2 DEF Noted, Answers
  <2>2. \A k \in SkipKeys : r.data[k] = Absent
    BY <2>1, DataFacts
  <2>3. "p0" \notin r.data[Items][2] /\ r.data[Items] = Absent
    BY <2>2 DEF SkipKeys, Items, Absent
  <2>4. QED
    BY <2>1, <2>2, <2>3 DEF Harmless
<1>3. ASSUME NEW v, v # {}, NEW e \in SUBSET {"commit"},
             r \in Answers(DataOf("drift_report", v), {"output"}, e)
      PROVE  Harmless("drift_detector", c, r)
  <2>1. r.data = DataOf("drift_report", v) /\ r.outputs = {"output"} /\ r.effects \subseteq {"commit"}
    <3>1. PICK x \in SUBSET e :
            r = [success |-> TRUE, data |-> DataOf("drift_report", v), outputs |-> {"output"},
                 review |-> FALSE, effects |-> x]
      BY <1>3 DEF Answers
    <3>2. QED
      BY <3>1
  <2>2. /\ r.data["drift_report"] = <<"data", v>>
        /\ \A k \in SkipKeys : k # "drift_report" => r.data[k] = Absent
    BY <2>1, DataFacts DEF FlowKeys
  <2>3. \A k \in SkipKeys : r.data[k] = Absent \/ Settled(r.data[k], k)
    BY <1>3, <2>2 DEF Settled, Truthy
  <2>4. "p0" \notin r.data[Items][2] /\ r.data[Items] = Absent
    BY <2>2 DEF SkipKeys, Items, Absent
  <2>5. QED
    BY <2>1, <2>3, <2>4 DEF Harmless, Quiet
<1>4. r \in Failures({"commit"}) \/ r \in Noted
      \/ r \in Answers(DataOf("drift_report", {"report"}), {"output"}, {})
      \/ r \in Answers(DataOf("drift_report", {"report", "drifts"}), {"output"}, {"commit"})
  BY DEF DriftDetector
<1>5. QED
  BY <1>1, <1>2, <1>3, <1>4

\* The data of the other agents has no key that a condition names.
LEMMA PlainData ==
  /\ \A k \in SkipKeys : NoData[k] = Absent
  /\ \A v : \A j \in {"requirements", "extraction", "coverage", "alerts", "briefing"} :
       \A k \in SkipKeys : DataOf(j, v)[k] = Absent
<1>1. /\ {"requirements", "extraction", "coverage", "alerts", "briefing"} \subseteq FlowKeys
      /\ {"requirements", "extraction", "coverage", "alerts", "briefing"} \cap SkipKeys = {}
  BY DEF FlowKeys, SkipKeys
<1>2. QED
  BY <1>1, DataFacts

\* Every answer of every agent is harmless.
LEMMA RepliesHarmless ==
  ASSUME NEW a \in AgentNames, NEW c, NEW r \in FlowReplies(a, c)
  PROVE  Harmless(a, c, r)
<1>1. CASE a = "transcript_parser"
  BY <1>1, ParserHarmless DEF FlowReplies
<1>2. CASE a = "priority_classifier"
  BY <1>2, ClassifierHarmless DEF FlowReplies
<1>3. CASE a = "ticket_creator"
  BY <1>3, TicketHarmless DEF FlowReplies
<1>4. CASE a = "drift_detector"
  BY <1>4, DriftHarmless DEF FlowReplies
<1>5. CASE a = "req_extractor"
  <2>1. r \in ReqExtractor(c)
    BY <1>5 DEF FlowReplies
  <2>2. \A q \in Answers(NoData, {"note"}, {}) : Harmless(a, c, q)
    BY <1>5, PlainData, PlainAnswer DEF Sources, Quiet, Published
  <2>3. \A q \in Answers(DataOf("requirements", {"req"}), {"output"}, {"commit"}) : Harmless(a, c, q)
    BY <1>5, PlainData, PlainAnswer DEF Sources, Quiet, Published
  <2>4. \A q \in Failures({"commit"}) : Harmless(a, c, q)
    BY <1>5, PlainFailure DEF Quiet, Published
  <2>5. QED
    BY <2>1, <2>2, <2>3, <2>4 DEF ReqExtractor, Noted
<1>6. CASE a = "minutes_publisher"
  <2>1. r \in MinutesPublisher
    BY <1>6 DEF FlowReplies
  <2>2. \A q \in Answers(NoData, {"output"}, {"page"}) : Harmless(a, c, q)
    BY <1>6, PlainData, PlainAnswer DEF Sources, Quiet, Published
  <2>3. \A q \in Answers(NoData, {}, {}) : Harmless(a, c, q)
    BY <1>6, PlainData, PlainAnswer DEF Sources, Quiet, Published
  <2>4. \A q \in Failures({"page"}) : Harmless(a, c, q)
    BY <1>6, PlainFailure DEF Quiet, Published
  <2>5. QED
    BY <2>1, <2>2, <2>3, <2>4 DEF MinutesPublisher
<1>7. CASE a = "decision_logger"
  <2>1. r \in DecisionLogger(c)
    BY <1>7 DEF FlowReplies
  <2>2. \A q \in Answers(NoData, {"output"}, {"decision_log"}) : Harmless(a, c, q)
    BY <1>7, PlainData, PlainAnswer DEF Sources, Quiet, Published
  <2>3. \A q \in Answers(NoData, {"note"}, {}) : Harmless(a, c, q)
    BY <1>7, PlainData, PlainAnswer DEF Sources, Quiet, Published
  <2>4. \A q \in Failures({"decision_log"}) : Harmless(a, c, q)
    BY <1>7, PlainFailure DEF Quiet, Published
  <2>5. QED
    BY <2>1, <2>2, <2>3, <2>4 DEF DecisionLogger, Noted
<1>8. CASE a = "session_memory"
  <2>1. r \in SessionMemory
    BY <1>8 DEF FlowReplies
  <2>2. \A q \in Answers(DataOf("extraction", {"output"}), {"output"}, {"session"}) : Harmless(a, c, q)
    BY <1>8, PlainData, PlainAnswer DEF Sources, Quiet, Published
  <2>3. \A q \in Failures({"session"}) : Harmless(a, c, q)
    BY <1>8, PlainFailure DEF Quiet, Published
  <2>4. QED
    BY <2>1, <2>2, <2>3 DEF SessionMemory
<1>9. CASE a = "concern_tracker"
  <2>1. r \in ConcernTracker
    BY <1>9 DEF FlowReplies
  <2>2. \A q \in Answers(NoData, {"output"}, {"message"}) : Harmless(a, c, q)
    BY <1>9, PlainData, PlainAnswer DEF Sources, Quiet, Published
  <2>3. \A q \in Failures({"message"}) : Harmless(a, c, q)
    BY <1>9, PlainFailure DEF Quiet, Published
  <2>4. QED
    BY <2>1, <2>2, <2>3 DEF ConcernTracker
<1>10. CASE a = "coach_linker"
  <2>1. r \in CoachLinker
    BY <1>10 DEF FlowReplies
  <2>2. \A q \in Answers(NoData, {"output"}, {}) : Harmless(a, c, q)
    BY <1>10, PlainData, PlainAnswer DEF Sources, Quiet, Published
  <2>3. \A q \in Answers(NoData, {}, {}) : Harmless(a, c, q)
    BY <1>10, PlainData, PlainAnswer DEF Sources, Quiet, Published
  <2>4. \A q \in Failures({}) : Harmless(a, c, q)
    BY <1>10, PlainFailure DEF Quiet, Published
  <2>5. QED
    BY <2>1, <2>2, <2>3, <2>4 DEF CoachLinker
<1>11. CASE a = "adr_generator"
  <2>1. r \in ADRGenerator
    BY <1>11 DEF FlowReplies
  <2>2. \A q \in Answers(NoData, {"note"}, {}) : Harmless(a, c, q)
    BY <1>11, PlainData, PlainAnswer DEF Sources, Quiet, Published
  <2>3. QED
    BY <2>1, <2>2 DEF ADRGenerator, Noted
<1>12. CASE a = "diagram_updater"
  <2>1. r \in DiagramUpdater
    BY <1>12 DEF FlowReplies
  <2>2. \A q \in Answers(NoData, {"note"}, {}) : Harmless(a, c, q)
    BY <1>12, PlainData, PlainAnswer DEF Sources, Quiet, Published
  <2>3. QED
    BY <2>1, <2>2 DEF DiagramUpdater, Noted
<1>13. CASE a = "traceability_builder"
  <2>1. r \in TraceabilityBuilder
    BY <1>13 DEF FlowReplies
  <2>2. \A q \in Answers(DataOf("coverage", {"rows"}), {"output"}, {"commit"}) : Harmless(a, c, q)
    BY <1>13, PlainData, PlainAnswer DEF Sources, Quiet, Published
  <2>3. \A q \in Failures({"commit"}) : Harmless(a, c, q)
    BY <1>13, PlainFailure DEF Quiet, Published
  <2>4. QED
    BY <2>1, <2>2, <2>3 DEF TraceabilityBuilder
<1>14. CASE a = "pr_reviewer"
  <2>1. r \in PRReviewer
    BY <1>14 DEF FlowReplies
  <2>2. \A q \in Answers(NoData, {"note"}, {}) : Harmless(a, c, q)
    BY <1>14, PlainData, PlainAnswer DEF Sources, Quiet, Published
  <2>3. QED
    BY <2>1, <2>2 DEF PRReviewer, Noted
<1>15. CASE a = "test_generator"
  <2>1. r \in TestGenerator
    BY <1>15 DEF FlowReplies
  <2>2. \A q \in Answers(NoData, {"note"}, {}) : Harmless(a, c, q)
    BY <1>15, PlainData, PlainAnswer DEF Sources, Quiet, Published
  <2>3. QED
    BY <2>1, <2>2 DEF TestGenerator, Noted
<1>16. CASE a = "doc_generator"
  <2>1. r \in DocGenerator
    BY <1>16 DEF FlowReplies
  <2>2. \A q \in Answers(NoData, {"note"}, {}) : Harmless(a, c, q)
    BY <1>16, PlainData, PlainAnswer DEF Sources, Quiet, Published
  <2>3. QED
    BY <2>1, <2>2 DEF DocGenerator, Noted
<1>17. CASE a = "prompt_regression"
  <2>1. r \in PromptRegression
    BY <1>17 DEF FlowReplies
  <2>2. \A q \in Answers(NoData, {"note"}, {}) : Harmless(a, c, q)
    BY <1>17, PlainData, PlainAnswer DEF Sources, Quiet, Published
  <2>3. QED
    BY <2>1, <2>2 DEF PromptRegression, Noted
<1>18. CASE a = "evidence_accumulator"
  <2>1. r \in EvidenceAccumulator
    BY <1>18 DEF FlowReplies
  <2>2. \A q \in Answers(NoData, {"output"}, {"evidence_row"}) : Harmless(a, c, q)
    BY <1>18, PlainData, PlainAnswer DEF Sources, Quiet, Published
  <2>3. \A q \in Answers(NoData, {}, {}) : Harmless(a, c, q)
    BY <1>18, PlainData, PlainAnswer DEF Sources, Quiet, Published
  <2>4. \A q \in Failures({"evidence_row"}) : Harmless(a, c, q)
    BY <1>18, PlainFailure DEF Quiet, Published
  <2>5. QED
    BY <2>1, <2>2, <2>3, <2>4 DEF EvidenceAccumulator
<1>19. CASE a = "readiness_detector"
  <2>1. r \in ReadinessDetector
    BY <1>19 DEF FlowReplies
  <2>2. \A q \in Answers(NoData, {"output"}, {"message", "status"}) : Harmless(a, c, q)
    BY <1>19, PlainData, PlainAnswer DEF Sources, Quiet, Published
  <2>3. \A q \in Failures({"message", "status"}) : Harmless(a, c, q)
    BY <1>19, PlainFailure DEF Quiet, Published
  <2>4. QED
    BY <2>1, <2>2, <2>3 DEF ReadinessDetector
<1>20. CASE a = "wbs_updater"
  <2>1. r \in WBSUpdater
    BY <1>20 DEF FlowReplies
  <2>2. \A q \in Answers(NoData, {"output"}, {"commit"}) : Harmless(a, c, q)
    BY <1>20, PlainData, PlainAnswer DEF Sources, Quiet, Published
  <2>3. \A q \in Failures({"commit"}) : Harmless(a, c, q)
    BY <1>20, PlainFailure DEF Quiet, Published
  <2>4. QED
    BY <2>1, <2>2, <2>3 DEF WBSUpdater
<1>21. CASE a = "weekly_digest"
  <2>1. r \in WeeklyDigest
    BY <1>21 DEF FlowReplies
  <2>2. \A q \in Answers(NoData, {"output"}, {"message", "page"}) : Harmless(a, c, q)
    BY <1>21, PlainData, PlainAnswer DEF Sources, Quiet, Published
  <2>3. \A q \in Failures({"message", "page"}) : Harmless(a, c, q)
    BY <1>21, PlainFailure DEF Quiet, Published
  <2>4. QED
    BY <2>1, <2>2, <2>3 DEF WeeklyDigest
<1>22. CASE a = "alert_agent"
  <2>1. r \in AlertAgent
    BY <1>22 DEF FlowReplies
  <2>2. \A q \in Answers(DataOf("alerts", {}), {"output"}, {}) : Harmless(a, c, q)
    BY <1>22, PlainData, PlainAnswer DEF Sources, Quiet, Published
  <2>3. \A q \in Answers(DataOf("alerts", {"rows"}), {"output"}, {"message"}) : Harmless(a, c, q)
    BY <1>22, PlainData, PlainAnswer DEF Sources, Quiet, Published
  <2>4. \A q \in Failures({"message"}) : Harmless(a, c, q)
    BY <1>22, PlainFailure DEF Quiet, Published
  <2>5. QED
    BY <2>1, <2>2, <2>3, <2>4 DEF AlertAgent
<1>23. CASE a = "context_packager"
  <2>1. r \in ContextPackager
    BY <1>23 DEF FlowReplies
  <2>2. \A q \in Answers(NoData, {"output"}, {"message"}) : Harmless(a, c, q)
    BY <1>23, PlainData, PlainAnswer DEF Sources, Quiet, Published
  <2>3. \A q \in Answers(NoData, {}, {}) : Harmless(a, c, q)
    BY <1>23, PlainData, PlainAnswer DEF Sources, Quiet, Published
  <2>4. \A q \in Failures({"message"}) : Harmless(a, c, q)
    BY <1>23, PlainFailure DEF Quiet, Published
  <2>5. QED
    BY <2>1, <2>2, <2>3, <2>4 DEF ContextPackager
<1>24. CASE a = "briefing_generator"
  <2>1. r \in BriefingGenerator
    BY <1>24 DEF FlowReplies
  <2>2. \A q \in Answers(DataOf("briefing", {"text"}), {"output"}, {"message"}) : Harmless(a, c, q)
    BY <1>24, PlainData, PlainAnswer DEF Sources, Quiet, Published
  <2>3. \A q \in Failures({"message"}) : Harmless(a, c, q)
    BY <1>24, PlainFailure DEF Quiet, Published
  <2>4. QED
    BY <2>1, <2>2, <2>3 DEF BriefingGenerator
<1>25. QED
  BY <1>1, <1>2, <1>3, <1>4, <1>5, <1>6, <1>7, <1>8, <1>9, <1>10, <1>11, <1>12, <1>13,
     <1>14, <1>15, <1>16, <1>17, <1>18, <1>19,
     <1>20, <1>21, <1>22, <1>23, <1>24 DEF AgentNames

-----------------------------------------------------------------------------
(* The run of one of the seven.                                            *)

\* What a required step has answered for a condition stays an answer.
SourcesAnswered ==
  phase = "loop" =>
    \A j \in 1..(step - 1) :
      pipeline.steps[j].required /\ pipeline.steps[j].agent \in Sources
        => Settled(ctx[pipeline.steps[j].output], pipeline.steps[j].output)

\* A step taken was skipped exactly when it needs items and none are listed.
SkipsExplained ==
  \A i \in 1..Len(results) :
    results[i].skipped <=> pipeline.steps[i].skip = Items /\ ctx[Items] = Unclassified

\* Who has classified a p0 item has asked for review.
ReviewAsked == "p0" \in ctx[Items][2] => review

\* A ticket for an item is the work of ticket_creator, for an item that is still
\* there.
TicketsForItems ==
  \A i \in Nat : <<i, "item_ticket">> \in world =>
    /\ i \in 1..(step - 1) /\ pipeline.steps[i].agent = "ticket_creator"
    /\ "p1" \in ctx[Items][2]

QuietPublishNothing ==
  \A i \in Nat, e \in Published : <<i, e>> \in world =>
    i \in 1..(step - 1) /\ pipeline.steps[i].agent \notin Quiet

\* Until the next run begins, the report and the state are of one run.
ReportOfRun ==
  phase = "idle" /\ Returned =>
    /\ report.name = pipeline.name /\ report.steps = pipeline.steps
    /\ report.results = results /\ report.review = review
    /\ report.total = Len(pipeline.steps)

FlowInv ==
  /\ SourcesAnswered /\ SkipsExplained /\ ReviewAsked /\ TicketsForItems
  /\ QuietPublishNothing /\ ReportOfRun

\* Where the loop stands, the step is one of a pipeline in order.
LEMMA CurrentPlaced ==
  ASSUME FlowInstance, IInv, phase = "loop"
  PROVE  /\ step \in 1..Len(pipeline.steps) /\ Len(pipeline.steps) \in Nat
         /\ Current = pipeline.steps[step] /\ Current \in Step
         /\ \A i \in 1..Len(pipeline.steps) : Placed(pipeline, i)
         /\ Current.agent \in AgentNames
<1>1. /\ step \in 1..Len(pipeline.steps) /\ Len(pipeline.steps) \in Nat
      /\ Current = pipeline.steps[step] /\ Current \in Step
  BY CurrentType DEF IInv, Current
<1>2. InOrder(pipeline)
  BY AllInOrder DEF IInv, TypeOK, FlowInstance
<1>3. QED
  BY <1>1, <1>2 DEF InOrder, Placed

\* An agent of the pipelines answers harmlessly.
LEMMA ReplyFacts ==
  ASSUME FlowInstance, IInv, phase = "loop", NEW r \in Replies(Current.agent, ctx)
  PROVE  Harmless(Current.agent, ctx, r)
<1>1. ctx \in [FlowKeys -> Value]
  BY DEF IInv, TypeOK, FlowInstance
<1>2. Current.agent \in FlowAgents
  <2>1. pipeline \in ALL_PIPELINES
    BY DEF IInv, TypeOK, FlowInstance
  <2>2. step \in 1..Len(pipeline.steps) /\ Current = pipeline.steps[step]
    BY CurrentPlaced
  <2>3. QED
    BY <2>1, <2>2 DEF FlowAgents
<1>3. Current.agent \in AgentNames
  BY CurrentPlaced
<1>4. r \in FlowReplies(Current.agent, ctx)
  BY <1>1, <1>2 DEF FlowInstance
<1>5. QED
  BY <1>3, <1>4, RepliesHarmless

\* A condition fires for items only, and when none are listed.
LEMMA FiringCondition ==
  ASSUME FlowInstance, IInv, FlowInv, phase = "loop"
  PROVE  ToSkip(Current) <=> Current.skip = Items /\ ctx[Items] = Unclassified
<1>1. Placed(pipeline, step) /\ Current = pipeline.steps[step]
  BY CurrentPlaced
<1>2. ASSUME ToSkip(Current) PROVE Current.skip = Items /\ ctx[Items] = Unclassified
  <2>1. Current.skip # NoKey /\ ~Truthy(ctx[Current.skip])
    BY <1>2 DEF ToSkip
  <2>2. PICK j \in 1..(step - 1) :
          /\ pipeline.steps[j].required /\ pipeline.steps[j].agent \in Sources
          /\ pipeline.steps[j].output = Current.skip
    BY <1>1, <2>1 DEF Placed
  <2>3. Settled(ctx[Current.skip], Current.skip)
    BY <2>2 DEF FlowInv, SourcesAnswered
  <2>4. QED
    BY <2>1, <2>3 DEF Settled
<1>3. ASSUME Current.skip = Items, ctx[Items] = Unclassified PROVE ToSkip(Current)
  BY <1>3 DEF ToSkip, Truthy, Unclassified, Items, NoKey
<1>4. QED
  BY <1>2, <1>3

\* The merge keeps what conditions need, and the review of p0 items.
LEMMA MergeOfFlow ==
  ASSUME FlowInstance, IInv, phase = "loop", NEW r \in Reply,
         Harmless(Current.agent, ctx, r)
  PROVE  LET new == Merge(Current, r) IN
         /\ \A k \in SkipKeys : Settled(ctx[k], k) => Settled(new[k], k)
         /\ Current.output \in SkipKeys /\ Current.agent \in Sources /\ r.success
              => Settled(new[Current.output], Current.output)
         /\ "p0" \in new[Items][2] => r.review \/ "p0" \in ctx[Items][2]
         /\ Current.output # Items /\ Current.agent # "priority_classifier"
              => new[Items] = ctx[Items]
<1> DEFINE new == Merge(Current, r)
<1>1. Keys = FlowKeys /\ SkipKeys \subseteq Keys /\ Items \in Keys /\ Items \in SkipKeys
  BY DataFacts DEF FlowInstance, Items, SkipKeys
<1>2. \A k \in Keys : new[k] = IF k \in Written(r.data) THEN r.data[k]
                                ELSE IF k = Current.output /\ Truthy(Wrapped(r)) THEN Wrapped(r)
                                ELSE ctx[k]
  BY DEF Merge
<1>3. \A k \in SkipKeys : k \in Written(r.data) => Settled(r.data[k], k)
  BY DEF Harmless, Written
<1>4. \A k \in SkipKeys : Settled(ctx[k], k) => Settled(new[k], k)
  BY <1>1, <1>2, <1>3 DEF Settled
<1>5. ASSUME Current.output \in SkipKeys, Current.agent \in Sources, r.success
      PROVE  Settled(new[Current.output], Current.output)
  <2>1. Written(r.data) # {} \/ r.outputs # {}
    BY <1>5 DEF Harmless
  <2>2. Truthy(Wrapped(r))
    BY <2>1 DEF Truthy, Wrapped
  <2>3. QED
    BY <1>1, <1>2, <1>3, <1>5, <2>2 DEF Settled
<1>6. ASSUME "p0" \in new[Items][2], "p0" \notin ctx[Items][2] PROVE r.review
  <2>1. "p0" \notin Wrapped(r)[2]
    <3>1. "p0" \notin Keys
      BY <1>1 DEF FlowKeys
    <3>2. "p0" \notin Written(r.data)
      BY <3>1 DEF Written
    <3>3. "p0" \notin r.outputs
      BY DEF Harmless
    <3>4. QED
      BY <3>2, <3>3 DEF Wrapped
  <2>2. new[Items] = r.data[Items]
    BY <1>1, <1>2, <1>6, <2>1
  <2>3. QED
    BY <1>6, <2>2 DEF Harmless
<1>7. ASSUME Current.output # Items, Current.agent # "priority_classifier"
      PROVE  new[Items] = ctx[Items]
  <2>1. Items \notin Written(r.data)
    BY <1>7 DEF Harmless, Written
  <2>2. QED
    BY <1>1, <1>2, <1>7, <2>1
<1>8. QED
  BY <1>4, <1>5, <1>6, <1>7

\* What the agent of a step does outside is its own.
LEMMA WorldOfFlow ==
  ASSUME FlowInstance, IInv, FlowInv, phase = "loop", NEW r \in Reply,
         Harmless(Current.agent, ctx, r),
         world' = world \cup {<<step, e>> : e \in r.effects},
         step' = step + 1, pipeline' = pipeline,
         ctx' = ctx \/ ctx' = Merge(Current, r)
  PROVE  TicketsForItems' /\ QuietPublishNothing'
<1>1. /\ step \in 1..Len(pipeline.steps) /\ Len(pipeline.steps) \in Nat
      /\ Current = pipeline.steps[step]
      /\ \A i \in 1..Len(pipeline.steps) : Placed(pipeline, i)
  BY CurrentPlaced
<1>2. \A i \in 1..(step - 1) : i \in 1..(step' - 1)
  BY <1>1
<1>3. step \in 1..(step' - 1)
  BY <1>1
<1>4. \A e : \A i \in Nat : <<i, e>> \in world' =>
        <<i, e>> \in world \/ (i = step /\ e \in r.effects)
  OBVIOUS
<1>5. ASSUME NEW i \in 1..step, pipeline.steps[i].agent = "ticket_creator"
      PROVE  ctx'[Items] = ctx[Items]
  <2>1. Placed(pipeline, i) /\ step \in i..Len(pipeline.steps)
    BY <1>1
  <2>2. Current.output # Items /\ Current.agent # "priority_classifier"
    BY <1>1, <1>5, <2>1 DEF Placed
  <2>3. QED
    BY <2>2, MergeOfFlow
<1>6. ASSUME NEW i \in Nat, <<i, "item_ticket">> \in world'
      PROVE  /\ i \in 1..(step' - 1) /\ pipeline'.steps[i].agent = "ticket_creator"
             /\ "p1" \in ctx'[Items][2]
  <2>1. CASE <<i, "item_ticket">> \in world
    <3>1. /\ i \in 1..(step - 1) /\ pipeline.steps[i].agent = "ticket_creator"
          /\ "p1" \in ctx[Items][2]
      BY <2>1 DEF FlowInv, TicketsForItems
    <3>2. i \in 1..step
      BY <1>1, <3>1
    <3>3. QED
      BY <1>2, <1>5, <3>1, <3>2
  <2>2. CASE i = step /\ "item_ticket" \in r.effects
    <3>1. Current.agent = "ticket_creator" /\ "p1" \in ctx[Items][2]
      BY <2>2 DEF Harmless
    <3>2. step \in 1..step
      BY <1>1
    <3>3. QED
      BY <1>1, <1>3, <1>5, <2>2, <3>1, <3>2
  <2>3. QED
    BY <1>4, <1>6, <2>1, <2>2
<1>7. ASSUME NEW i \in Nat, NEW e \in Published, <<i, e>> \in world'
      PROVE  i \in 1..(step' - 1) /\ pipeline'.steps[i].agent \notin Quiet
  <2>1. CASE <<i, e>> \in world
    <3>1. i \in 1..(step - 1) /\ pipeline.steps[i].agent \notin Quiet
      BY <2>1 DEF FlowInv, QuietPublishNothing
    <3>2. QED
      BY <1>2, <3>1
  <2>2. CASE i = step /\ e \in r.effects
    <3>1. Current.agent \notin Quiet
      BY <2>2 DEF Harmless
    <3>2. QED
      BY <1>1, <1>3, <2>2, <3>1
  <2>3. QED
    BY <1>4, <1>7, <2>1, <2>2
<1>8. QED
  BY <1>6, <1>7 DEF TicketsForItems, QuietPublishNothing

\* A step that closes leaves the skips explained, and the sources answered if its
\* own answer is.
LEMMA CloseOfFlow ==
  ASSUME FlowInstance, IInv, FlowInv, phase = "loop", NEW r \in StepResult, Close(r),
         r.skipped <=> ToSkip(Current), pipeline' = pipeline,
         \A k \in SkipKeys : Settled(ctx[k], k) => Settled(ctx'[k], k),
         Current.output \in SkipKeys /\ Current.agent \in Sources /\ r.success /\ ~r.skipped
           => Settled(ctx'[Current.output], Current.output),
         Current.output # Items /\ Current.agent # "priority_classifier"
           => ctx'[Items] = ctx[Items]
  PROVE  SkipsExplained' /\ SourcesAnswered'
<1>1. /\ step \in 1..Len(pipeline.steps) /\ Len(pipeline.steps) \in Nat
      /\ Current = pipeline.steps[step]
      /\ \A i \in 1..Len(pipeline.steps) : Placed(pipeline, i)
  BY CurrentPlaced
<1>2. results \in Seq(StepResult) /\ results' = Append(results, r) /\ step' = step + 1
  BY DEF IInv, TypeOK, Close
<1>3. r.skipped <=> Current.skip = Items /\ ctx[Items] = Unclassified
  BY FiringCondition
<1>4. SkipsExplained'
  <2>1. /\ Len(results) \in Nat /\ Len(results') = Len(results) + 1
        /\ \A i \in 1..Len(results) : results'[i] = results[i]
        /\ results'[Len(results) + 1] = r /\ Len(results) + 1 = step
    BY <1>2 DEF IInv, RunInv, InRun
  <2>2. SUFFICES ASSUME NEW i \in 1..step
                 PROVE  results'[i].skipped
                          <=> pipeline.steps[i].skip = Items /\ ctx'[Items] = Unclassified
    BY <2>1 DEF SkipsExplained
  <2>3. results'[i].skipped <=> pipeline.steps[i].skip = Items /\ ctx[Items] = Unclassified
    <3>1. CASE i = step
      BY <1>1, <1>3, <2>1, <3>1
    <3>2. CASE i \in 1..Len(results)
      BY <2>1, <3>2 DEF FlowInv, SkipsExplained
    <3>3. QED
      BY <1>1, <2>1, <3>1, <3>2
  <2>4. CASE pipeline.steps[i].skip = Items
    <3>1. Placed(pipeline, i) /\ step \in i..Len(pipeline.steps)
      BY <1>1
    <3>2. Current.output # Items /\ Current.agent # "priority_classifier"
      BY <1>1, <2>4, <3>1 DEF Placed
    <3>3. QED
      BY <2>3, <3>2
  <2>5. QED
    BY <2>3, <2>4
<1>5. ASSUME phase' = "loop", NEW j \in 1..(step' - 1),
             pipeline.steps[j].required, pipeline.steps[j].agent \in Sources
      PROVE  Settled(ctx'[pipeline.steps[j].output], pipeline.steps[j].output)
  <2>1. j \in 1..Len(pipeline.steps) /\ (j = step \/ j \in 1..(step - 1))
    BY <1>1, <1>2
  <2>2. pipeline.steps[j].output \in SkipKeys
    BY <1>1, <1>5, <2>1 DEF Placed
  <2>3. CASE j = step
    <3>1. r.success
      BY <1>1, <1>5, <2>3 DEF Close
    <3>2. ~r.skipped
      BY <1>1, <1>3, <1>5, <2>3 DEF Placed
    <3>3. QED
      BY <1>1, <1>5, <2>2, <2>3, <3>1, <3>2
  <2>4. CASE j \in 1..(step - 1)
    <3>1. Settled(ctx[pipeline.steps[j].output], pipeline.steps[j].output)
      BY <1>5, <2>4 DEF FlowInv, SourcesAnswered
    <3>2. QED
      BY <2>2, <3>1
  <2>5. QED
    BY <2>1, <2>3, <2>4
<1>6. QED
  BY <1>4, <1>5 DEF SourcesAnswered

\* What does not depend on the step.
LEMMA ReportsOfFlow ==
  ASSUME FlowInv, phase' \in {"loop", "finish"}, UNCHANGED report
  PROVE  ReportOfRun'
  BY DEF FlowInv, ReportOfRun, Returned

LEMMA ClosePhase ==
  ASSUME NEW r, Close(r)
  PROVE  phase' \in {"loop", "finish"} /\ step' = step + 1
  BY DEF Close

LEMMA StepReturnsFlow ==
  ASSUME FlowInstance, IInv, FlowInv, StepReturns
  PROVE  FlowInv'
<1>1. PICK r \in Replies(Current.agent, ctx) \cap Reply :
        /\ ctx' = Merge(Current, r)
        /\ review' = (review \/ r.review)
        /\ world' = world \cup {<<step, e>> : e \in r.effects}
        /\ Close([success |-> r.success, skipped |-> FALSE,
                  outputs |-> r.outputs, review |-> r.review])
  BY DEF StepReturns
<1>2. phase = "loop" /\ pipeline' = pipeline /\ report' = report
  BY DEF StepReturns, CanRun
<1>3. Harmless(Current.agent, ctx, r)
  BY <1>2, ReplyFacts
<1> DEFINE sr == [success |-> r.success, skipped |-> FALSE,
                  outputs |-> r.outputs, review |-> r.review]
<1>4. /\ sr \in StepResult /\ sr.skipped = FALSE /\ sr.success = r.success /\ Close(sr)
      /\ ~ToSkip(Current)
  BY <1>1 DEF Reply, StepResult, StepReturns, CanRun
<1> HIDE DEF sr
<1>5. phase' \in {"loop", "finish"} /\ step' = step + 1
  BY <1>4, ClosePhase
<1>6. /\ \A k \in SkipKeys : Settled(ctx[k], k) => Settled(ctx'[k], k)
      /\ Current.output \in SkipKeys /\ Current.agent \in Sources /\ r.success
           => Settled(ctx'[Current.output], Current.output)
      /\ Current.output # Items /\ Current.agent # "priority_classifier"
           => ctx'[Items] = ctx[Items]
      /\ "p0" \in ctx'[Items][2] => r.review \/ "p0" \in ctx[Items][2]
  BY <1>1, <1>2, <1>3, MergeOfFlow
<1>7. SkipsExplained' /\ SourcesAnswered'
  BY <1>2, <1>4, <1>6, CloseOfFlow
<1>8. ReviewAsked'
  BY <1>1, <1>6 DEF FlowInv, ReviewAsked
<1>9. TicketsForItems' /\ QuietPublishNothing'
  BY <1>1, <1>2, <1>3, <1>5, WorldOfFlow
<1>10. ReportOfRun'
  BY <1>2, <1>5, ReportsOfFlow
<1>11. QED
  BY <1>7, <1>8, <1>9, <1>10 DEF FlowInv

LEMMA StepRaisesFlow ==
  ASSUME FlowInstance, IInv, FlowInv, StepRaises
  PROVE  FlowInv'
<1>1. PICK r \in Replies(Current.agent, ctx) \cap Reply :
        world' = world \cup {<<step, e>> : e \in r.effects}
  BY DEF StepRaises
<1>2. phase = "loop" /\ Close(Failed) /\ ~ToSkip(Current)
      /\ UNCHANGED <<pipeline, ctx, review, report>>
  BY DEF StepRaises, CanRun
<1>3. Harmless(Current.agent, ctx, r)
  BY <1>2, ReplyFacts
<1>4. phase' \in {"loop", "finish"} /\ step' = step + 1
  BY <1>2, ClosePhase
<1>5. SkipsExplained' /\ SourcesAnswered'
  <2>1. Failed.success = FALSE
    BY DEF Failed
  <2>2. QED
    BY <1>2, <2>1, FailedType, CloseOfFlow
<1>6. TicketsForItems' /\ QuietPublishNothing'
  BY <1>1, <1>2, <1>3, <1>4, WorldOfFlow
<1>7. ReportOfRun'
  BY <1>2, <1>4, ReportsOfFlow
<1>8. QED
  BY <1>2, <1>5, <1>6, <1>7 DEF FlowInv, ReviewAsked

LEMMA AgentMissingFlow ==
  ASSUME FlowInstance, IInv, FlowInv, AgentMissing
  PROVE  FlowInv'
<1>1. phase = "loop" /\ Close(Failed) /\ ~ToSkip(Current)
      /\ UNCHANGED <<pipeline, ctx, review, report, world>>
  BY DEF AgentMissing
<1>2. phase' \in {"loop", "finish"} /\ step' = step + 1
  BY <1>1, ClosePhase
<1>3. SkipsExplained' /\ SourcesAnswered'
  <2>1. Failed.success = FALSE
    BY DEF Failed
  <2>2. QED
    BY <1>1, <2>1, FailedType, CloseOfFlow
<1>4. \A i \in 1..(step - 1) : i \in 1..(step' - 1)
  BY <1>2 DEF IInv, TypeOK
<1>5. TicketsForItems' /\ QuietPublishNothing'
  BY <1>1, <1>4 DEF FlowInv, TicketsForItems, QuietPublishNothing
<1>6. ReportOfRun'
  BY <1>1, <1>2, ReportsOfFlow
<1>7. QED
  BY <1>1, <1>3, <1>5, <1>6 DEF FlowInv, ReviewAsked

LEMMA SkipStepFlow ==
  ASSUME FlowInstance, IInv, FlowInv, SkipStep
  PROVE  FlowInv'
<1> DEFINE sr == [success |-> TRUE, skipped |-> TRUE, outputs |-> {}, review |-> FALSE]
<1>1. /\ phase = "loop" /\ Close(sr) /\ ToSkip(Current)
      /\ UNCHANGED <<pipeline, ctx, review, report, world>>
  BY DEF SkipStep
<1>2. sr \in StepResult /\ sr.skipped
  BY DEF StepResult
<1> HIDE DEF sr
<1>3. phase' \in {"loop", "finish"} /\ step' = step + 1
  BY <1>1, ClosePhase
<1>4. SkipsExplained' /\ SourcesAnswered'
  BY <1>1, <1>2, CloseOfFlow
<1>5. \A i \in 1..(step - 1) : i \in 1..(step' - 1)
  BY <1>3 DEF IInv, TypeOK
<1>6. TicketsForItems' /\ QuietPublishNothing'
  BY <1>1, <1>5 DEF FlowInv, TicketsForItems, QuietPublishNothing
<1>7. ReportOfRun'
  BY <1>1, <1>3, ReportsOfFlow
<1>8. QED
  BY <1>1, <1>4, <1>6, <1>7 DEF FlowInv, ReviewAsked

LEMMA BeginFlow ==
  ASSUME FlowInstance, IInv, FlowInv, NEW p \in Pipelines, Begin(p)
  PROVE  FlowInv'
<1>1. /\ phase' = "loop" /\ step' = 1 /\ results' = <<>> /\ world' = {}
      /\ ctx' = [k \in Keys |-> Absent] /\ report' = report
  BY DEF Begin
<1>2. SourcesAnswered' /\ SkipsExplained'
  BY <1>1 DEF SourcesAnswered, SkipsExplained
<1>3. ReviewAsked'
  <2>1. Items \in Keys
    BY DEF FlowInstance, Items, FlowKeys
  <2>2. ctx'[Items][2] = {}
    BY <1>1, <2>1 DEF Absent
  <2>3. QED
    BY <2>2 DEF ReviewAsked
<1>4. TicketsForItems' /\ QuietPublishNothing'
  BY <1>1 DEF TicketsForItems, QuietPublishNothing
<1>5. ReportOfRun'
  BY <1>1, ReportsOfFlow
<1>6. QED
  BY <1>2, <1>3, <1>4, <1>5 DEF FlowInv

LEMMA FinishFlow ==
  ASSUME IInv, FlowInv, Finish
  PROVE  FlowInv'
<1>1. /\ phase' = "idle" /\ UNCHANGED <<pipeline, step, ctx, results, review, world>>
      /\ report'.name = pipeline.name /\ report'.steps = pipeline.steps
      /\ report'.results = results /\ report'.review = review
      /\ report'.total = Len(pipeline.steps) /\ report'.skipped = CountOf(Skipped)
  BY DEF Finish
<1>2. ReportOfRun'
  BY <1>1 DEF ReportOfRun
<1>3. SourcesAnswered' /\ SkipsExplained' /\ ReviewAsked'
  BY <1>1 DEF FlowInv, SourcesAnswered, SkipsExplained, ReviewAsked
<1>4. TicketsForItems' /\ QuietPublishNothing'
  BY <1>1 DEF FlowInv, TicketsForItems, QuietPublishNothing
<1>5. QED
  BY <1>2, <1>3, <1>4 DEF FlowInv

LEMMA StutterFlow ==
  ASSUME FlowInv, UNCHANGED vars
  PROVE  FlowInv'
<1>1. UNCHANGED <<phase, pipeline, step, ctx, results, review, world, report>>
  BY DEF vars
<1>2. SourcesAnswered' /\ SkipsExplained' /\ ReviewAsked'
  BY <1>1 DEF FlowInv, SourcesAnswered, SkipsExplained, ReviewAsked
<1>3. TicketsForItems' /\ QuietPublishNothing'
  BY <1>1 DEF FlowInv, TicketsForItems, QuietPublishNothing
<1>4. ReportOfRun'
  BY <1>1 DEF FlowInv, ReportOfRun, Returned
<1>5. QED
  BY <1>2, <1>3, <1>4 DEF FlowInv

LEMMA InitFlow ==
  ASSUME FlowInstance, Init
  PROVE  FlowInv
<1>1. /\ phase = "idle" /\ results = <<>> /\ world = {} /\ report = NoReport
      /\ ctx = [k \in Keys |-> Absent]
  BY DEF Init
<1>2. Items \in Keys
  BY DEF FlowInstance, Items, FlowKeys
<1>3. ctx[Items][2] = {}
  BY <1>1, <1>2 DEF Absent
<1>4. SourcesAnswered /\ SkipsExplained /\ ReviewAsked
  BY <1>1, <1>3 DEF SourcesAnswered, SkipsExplained, ReviewAsked
<1>5. TicketsForItems /\ QuietPublishNothing
  BY <1>1 DEF TicketsForItems, QuietPublishNothing
<1>6. ReportOfRun
  BY <1>1 DEF ReportOfRun, Returned
<1>7. QED
  BY <1>4, <1>5, <1>6 DEF FlowInv

LEMMA NextFlow ==
  ASSUME FlowInstance, IInv, FlowInv, [Next]_vars
  PROVE  FlowInv'
<1>1. ASSUME NEW p \in Pipelines, Begin(p) PROVE FlowInv'
  BY <1>1, BeginFlow
<1>2. CASE SkipStep
  BY <1>2, SkipStepFlow
<1>3. CASE AgentMissing
  BY <1>3, AgentMissingFlow
<1>4. CASE StepReturns
  BY <1>4, StepReturnsFlow
<1>5. CASE StepRaises
  BY <1>5, StepRaisesFlow
<1>6. CASE Finish
  BY <1>6, FinishFlow
<1>7. CASE UNCHANGED vars
  BY <1>7, StutterFlow
<1>8. QED
  BY <1>1, <1>2, <1>3, <1>4, <1>5, <1>6, <1>7 DEF Next

LEMMA FlowInductive ==
  ASSUME FlowInstance
  PROVE  Spec => [](IInv /\ FlowInv)
<1>1. IInv /\ FlowInv /\ [Next]_vars => FlowInv'
  BY NextFlow
<1>2. Init => FlowInv
  BY InitFlow
<1>3. QED
  BY <1>1, <1>2, Inductive, PTL DEF Spec

\* The invariants give the properties.
LEMMA FlowGives ==
  ASSUME FlowInstance, IInv, FlowInv
  PROVE  P0Held /\ FailedRunQuiet /\ SkippedWhenUnclassified
<1>1. P0Held
  <2>1. FlowReturned /\ report.name = "requirements" /\ "p0" \in ctx["classified_items"][2]
          => report.review
    BY DEF FlowReturned, FlowInv, ReviewAsked, ReportOfRun, Items
  <2>2. Did("item_ticket") => "p1" \in ctx["classified_items"][2]
    <3>1. \A i \in 1..Len(results) : i \in Nat
      BY DEF IInv, TypeOK
    <3>2. QED
      BY <3>1 DEF Did, FlowInv, TicketsForItems, Items
  <2>3. QED
    BY <2>1, <2>2 DEF P0Held
<1>2. FailedRunQuiet
  <2>1. SUFFICES ASSUME Returned, phase = "idle", ~report.success, report.name # "knowledge",
                        NEW i \in 1..(Len(report.results) - 1), NEW e \in Published,
                        <<i, e>> \in world
                 PROVE  FALSE
    BY DEF FailedRunQuiet, FlowReturned
  <2>2. /\ report.name = pipeline.name /\ report.steps = pipeline.steps
        /\ report.results = results /\ report.total = Len(pipeline.steps)
    BY <2>1 DEF FlowInv, ReportOfRun
  <2>3. Len(results) \in Nat /\ i \in Nat /\ Len(results) \in 1..Len(results)
    BY <2>1, <2>2 DEF IInv, TypeOK
  <2>4. Len(results) <= Len(pipeline.steps) /\ pipeline.steps[Len(results)].required
    BY <2>1, <2>2, <2>3 DEF IInv, ReportInv, FailsAtRequiredStep
  <2>5. Placed(pipeline, Len(results))
    <3>1. InOrder(pipeline)
      BY AllInOrder DEF IInv, TypeOK, FlowInstance
    <3>2. Len(pipeline.steps) \in Nat
      BY ExecutorAssumption DEF IInv, TypeOK, Pipeline
    <3>3. QED
      BY <2>3, <2>4, <3>1, <3>2 DEF InOrder
  <2>6. pipeline.steps[i].agent \in Quiet
    BY <2>1, <2>2, <2>4, <2>5 DEF Placed
  <2>7. pipeline.steps[i].agent \notin Quiet
    BY <2>1, <2>3 DEF FlowInv, QuietPublishNothing
  <2>8. QED
    BY <2>6, <2>7
<1>3. SkippedWhenUnclassified
  <2>1. SUFFICES ASSUME Returned, phase = "idle", NEW i \in 1..Len(report.results)
                 PROVE  report.results[i].skipped
                          <=> report.steps[i].skip = Items /\ ctx[Items] = Unclassified
    BY DEF SkippedWhenUnclassified, FlowReturned, Items
  <2>2. report.steps = pipeline.steps /\ report.results = results
    BY <2>1 DEF FlowInv, ReportOfRun
  <2>3. QED
    BY <2>1, <2>2 DEF FlowInv, SkipsExplained
<1>4. QED
  BY <1>1, <1>2, <1>3

\* In the seven pipelines a p0 item is never forgotten and gets no ticket by itself,
\* whatever the agents answer and whoever of them fails (P0Held).
THEOREM P0IsHeld == FlowInstance => (Spec => []P0Held)
<1> SUFFICES ASSUME FlowInstance PROVE Spec => []P0Held
  OBVIOUS
<1>1. IInv /\ FlowInv => P0Held
  BY FlowGives
<1>2. QED
  BY <1>1, FlowInductive, PTL

\* A run that failed has published nothing before its last step (FailedRunQuiet).
THEOREM FailureIsQuiet == FlowInstance => (Spec => []FailedRunQuiet)
<1> SUFFICES ASSUME FlowInstance PROVE Spec => []FailedRunQuiet
  OBVIOUS
<1>1. IInv /\ FlowInv => FailedRunQuiet
  BY FlowGives
<1>2. QED
  BY <1>1, FlowInductive, PTL

\* In the seven pipelines a step is skipped exactly when it needs items and the
\* classifier has listed none (SkippedWhenUnclassified).
THEOREM SkipsAreExplained == FlowInstance => (Spec => []SkippedWhenUnclassified)
<1> SUFFICES ASSUME FlowInstance PROVE Spec => []SkippedWhenUnclassified
  OBVIOUS
<1>1. IInv /\ FlowInv => SkippedWhenUnclassified
  BY FlowGives
<1>2. QED
  BY <1>1, FlowInductive, PTL
=============================================================================
