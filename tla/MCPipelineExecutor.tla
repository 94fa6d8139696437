-------------------------- MODULE MCPipelineExecutor --------------------------
(* TLC instance of PipelineExecutor.  First, two runs of every pipeline of up *)
(* to MaxSteps steps drawn from shapes that cover the branches of the loop,   *)
(* with an agent that may answer anything the merge tells apart, failure with *)
(* data included.  Second, one run of each of the seven pipelines with all    *)
(* that their agents may answer.                                              *)
EXTENDS PipelineFlows

CONSTANT MaxSteps

MCAgents == FlowAgents \cup {"any", "ghost"}
MCRegistered == FlowAgents \cup {"any"}

Shape(a, out, req, skip) ==
  [agent |-> a, output |-> out, required |-> req, skip |-> skip]

Shapes == {Shape("any", "requirements", TRUE, NoKey),
           Shape("any", "requirements", FALSE, "requirements"),
           Shape("any", NoKey, FALSE, NoKey), Shape("any", NoKey, TRUE, "coverage"),
           Shape("ghost", "requirements", TRUE, "requirements"),
           Shape("ghost", "requirements", FALSE, NoKey)}

SmallPipelines ==
  {[name |-> "small", steps |-> s] : s \in UNION {[1 .. n -> Shapes] : n \in 1 .. MaxSteps}}

MCPipelines == SmallPipelines \cup ALL_PIPELINES

AnyReplies ==
  {[success |-> ok, data |-> d, outputs |-> o, review |-> v, effects |-> {}] :
     <<ok, d, o, v>> \in
       {<<TRUE, NoData, {}, FALSE>>,
        <<TRUE, NoData, {"output"}, TRUE>>,
        <<TRUE, DataOf("requirements", {"output"}), {}, FALSE>>,
        <<TRUE, DataOf("requirements", {}), {"output"}, FALSE>>,
        <<TRUE, DataOf("coverage", {"output"}), {}, FALSE>>,
        <<FALSE, NoData, {}, FALSE>>,
        <<FALSE, DataOf("coverage", {"output"}), {}, TRUE>>}}

MCReplies(a, c) == IF a = "any" THEN AnyReplies ELSE FlowReplies(a, c)

\* The seven run alone, without the wiki, which their steps never read: MaxRuns
\* and MaxSecond are for the small ones.
MayBegin(p) == runs = 0 \/ {p, pipeline} \subseteq SmallPipelines

WikiUsed == pipeline \in ALL_PIPELINES => UNCHANGED wiki

MCNext == \/ \E p \in Pipelines : MayBegin(p) /\ Begin(p)
          \/ SkipStep \/ AgentMissing \/ (StepReturns /\ WikiUsed) \/ StepRaises \/ Finish

MCSpec == Init /\ [][MCNext]_vars
=============================================================================
