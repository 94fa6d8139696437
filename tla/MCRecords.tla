------------------------------ MODULE MCRecords ------------------------------
(* TLC instance of the stores and of what is kept in them: the version       *)
(* history, the wiki and the event bus, each written over several            *)
(* connections; the prompt registry with its file; the risk register under   *)
(* two reviewers; and the seeding of the traceability graph, which writes    *)
(* the risk register, by two seeders (a meeting with a concern, a decision   *)
(* and an action item, a coach session with a commitment, a ticket, two      *)
(* risks, and an architecture decision of a meeting that has no minutes).    *)
(* But for the last two they are separate files with no state in common, so  *)
(* each behaviour exercises one of them ("area") and the run checks the sum  *)
(* of their state spaces, not the product.                                   *)
EXTENDS SharedMemory, EventBus, ArtifactVersions, PromptRegistry, Traceability, TLC

CONSTANT Areas   \* the parts of this instance that act

VARIABLE area

GItems == {"mtg", "con", "dec", "act", "coach", "com", "tkt", "risk1", "risk2", "arch", "req"}
GScript == <<"mtg", "con", "dec", "act", "coach", "com", "tkt", "risk1", "risk2", "arch", "req">>
GKind ==
  "mtg" :> "meeting" @@ "con" :> "concern" @@ "dec" :> "decision" @@ "act" :> "action_item"
  @@ "coach" :> "coach_session" @@ "com" :> "commitment" @@ "tkt" :> "jira_ticket"
  @@ "risk1" :> "risk" @@ "risk2" :> "risk" @@ "arch" :> "architecture" @@ "req" :> "requirement"
GMeeting ==
  [i \in GItems |-> IF i \in {"coach", "com"} THEN "20 Feb"
                    ELSE IF i = "arch" THEN "12 Feb" ELSE "5 Feb"]
GCurated ==
  [i \in GItems |->
    CASE i \in {"con", "dec", "act", "tkt"} -> {<<"mtg", "RAISED_IN">>}
      [] i = "com" -> {<<"coach", "RAISED_IN">>}
      [] i = "arch" -> {<<"12 Feb", "RAISED_IN">>}
      [] i = "req" -> {<<"mtg", "RAISED_IN">>, <<"arch", "DECIDED_BY">>}
      [] OTHER -> {}]
GRelates ==
  {<<"arch", "con">>, <<"con", "dec">>, <<"con", "req">>, <<"dec", "arch">>, <<"act", "dec">>,
   <<"req", "risk1">>, <<"tkt", "arch">>, <<"tkt", "act">>, <<"tkt", "com">>, <<"com", "req">>,
   <<"arch", "com">>}
GRisks == {"risk1"}
GMitigating == {"risk1"}

allVars == <<area, verVars, wikiVars, busVars, promptVars, riskVars, graphVars>>

MCInit ==
  /\ area \in Areas
  /\ VerInit /\ WikiInit /\ BusInit /\ PromptInit /\ RiskInit /\ GraphInit

MCNext ==
  \/ /\ area = "versions" /\ VerNext
     /\ UNCHANGED <<area, wikiVars, busVars, promptVars, riskVars, graphVars>>
  \/ /\ area = "wiki" /\ WikiNext
     /\ UNCHANGED <<area, verVars, busVars, promptVars, riskVars, graphVars>>
  \/ /\ area = "events" /\ BusNext
     /\ UNCHANGED <<area, verVars, wikiVars, promptVars, riskVars, graphVars>>
  \/ /\ area = "prompts" /\ PromptNext
     /\ UNCHANGED <<area, verVars, wikiVars, busVars, riskVars, graphVars>>
  \/ /\ area = "risks" /\ RiskNext
     /\ UNCHANGED <<area, verVars, wikiVars, busVars, promptVars, graphVars>>
  \/ /\ area = "graph" /\ SeedingNext
     /\ UNCHANGED <<area, verVars, wikiVars, busVars, promptVars>>

MCSpec == MCInit /\ [][MCNext]_allVars

\* The users of the registry are alike, and so are the contents of the prompt.
Alike == Permutations(Users) \union Permutations(Texts)
===============================================================================
