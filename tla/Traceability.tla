---------------------------- MODULE Traceability ----------------------------
(* pipeline/traceability.py and pipeline/seed_traceability.py: the artifact *)
(* graph and its seeding from the minutes, the coach sessions, Jira, the    *)
(* risk register and the curated architecture and requirements.  add_artifact *)
(* and link each commit, so a seeder that dies leaves a part of the graph;  *)
(* another one may run at the same time (the endpoint and the agent).       *)
EXTENDS RiskRegister, FiniteSets

CONSTANTS
  Seeders,     \* GET /traceability and the traceability_builder agent
  Items,       \* what is seeded
  Script,      \* the items in the order of seed
  Kind,        \* artifact_type of each item
  Meeting,     \* source_meeting of each item; for a ticket, that of its label
  Curated,     \* the links seed makes with the item: pairs of a target and a type
  Relates,     \* pairs of items that domains, labels or the curated maps relate
  SeededAt,    \* the 20 artifacts above which the store counts as seeded
  MaxSeedings  \* bound on the seedings that write

ASSUME ScriptAssumption == Script \in Seq(Items)

VARIABLES
  artifacts,   \* pairs of an item and the number of the seeding that made its id
  links,       \* triples of a source, a target and a link type
  seeder,      \* where each seeder is
  seedings,    \* how many seedings have written
  died         \* a seeder has died

graphVars == <<artifacts, links, seeder, seedings, died>>

Resting == [at |-> "rest"]

GraphInit ==
  /\ artifacts = {}
  /\ links = {}
  /\ seeder = [s \in Seeders |-> Resting]
  /\ seedings = 0
  /\ died = FALSE

\* Meetings, sessions, tickets, decisions of the architecture and requirements
\* have ids of their own.  A concern, decision, action item or commitment has
\* a random one, and so has a risk: seed asks a row for "risk_id", its id is "id".
OwnId == {"meeting", "coach_session", "jira_ticket", "architecture", "requirement"}
Node(i, n) == <<i, IF Kind[i] \in OwnId THEN 0 ELSE n>>
KindOf(a) == Kind[a[1]]

Rule(from, to, type) == [from |-> from, to |-> to, type |-> type, same |-> FALSE]
RuleInMeeting(from, to, type) == [Rule(from, to, type) EXCEPT !.same = TRUE]

\* Sections 1 to 6 of _build_cross_links.
RulesOfConcerns ==
  << Rule("architecture", "concern", "ADDRESSES"),
     RuleInMeeting("concern", "decision", "BECAME"),
     Rule("concern", "requirement", "BECAME"),
     Rule("decision", "architecture", "DECIDED_BY"),
     RuleInMeeting("action_item", "decision", "TRIGGERED"),
     Rule("requirement", "risk", "MITIGATES") >>

\* Section 7: by curated key, by label, and by domain for what has neither.
RulesOfTickets ==
  << Rule("jira_ticket", "architecture", "IMPLEMENTS"),
     Rule("jira_ticket", "requirement", "IMPLEMENTS"),
     Rule("jira_ticket", "risk", "MITIGATES"),
     Rule("jira_ticket", "commitment", "IMPLEMENTS"),
     RuleInMeeting("jira_ticket", "action_item", "IMPLEMENTS") >>

\* Sections 8 and 9.
RulesOfRisks ==
  << Rule("architecture", "risk", "MITIGATES"),
     Rule("architecture", "commitment", "IMPLEMENTS"),
     Rule("commitment", "requirement", "BECAME") >>

CrossRules == RulesOfConcerns \o RulesOfTickets \o RulesOfRisks

\* The links a rule asks for between the artifacts of a set.
Wanted(rule, among) ==
  {<<p[1], p[2], rule.type>> : p \in
    {q \in among \X among :
      /\ KindOf(q[1]) = rule.from /\ KindOf(q[2]) = rule.to
      /\ <<q[1][1], q[2][1]>> \in Relates
      /\ rule.same => Meeting[q[1][1]] = Meeting[q[2][1]]}}

\* seed: nothing is done in a store that counts as seeded, unless forced.
SeedStarts(s, force) ==
  /\ seeder[s] = Resting
  /\ seedings < MaxSeedings
  /\ force \/ Cardinality(artifacts) <= SeededAt
  /\ seedings' = seedings + 1
  /\ seeder' = [seeder EXCEPT ![s] = [at |-> "add", step |-> 1, number |-> seedings + 1]]
  /\ UNCHANGED <<artifacts, links, died>>

Links == UNION {Curated[i] : i \in Items}
Item(s) == Script[seeder[s].step]
NextStep(s) ==
  [seeder EXCEPT ![s] = [at |-> "add", step |-> @.step + 1, number |-> @.number]]

\* add_artifact, INSERT OR REPLACE.
AddArtifact(s) ==
  /\ seeder[s].at = "add" /\ seeder[s].step <= Len(Script)
  /\ artifacts' = artifacts \union {Node(Item(s), seeder[s].number)}
  /\ seeder' = IF Curated[Item(s)] = {} THEN NextStep(s)
               ELSE [seeder EXCEPT ![s] = [at |-> "link", step |-> @.step, number |-> @.number,
                                           left |-> Curated[Item(s)]]]
  /\ UNCHANGED <<links, seedings, died>>

\* A link of the artifact just added: RAISED_IN its meeting MTG-<date>, which
\* exists only if the meeting has minutes, or its session; DECIDED_BY for the
\* curated requirements.
LinkArtifact(s, l) ==
  /\ seeder[s].at = "link" /\ l \in seeder[s].left
  /\ links' = links \union {<<Node(Item(s), seeder[s].number), <<l[1], 0>>, l[2]>>}
  /\ seeder' = IF seeder[s].left = {l} THEN NextStep(s)
               ELSE [seeder EXCEPT ![s].left = @ \ {l}]
  /\ UNCHANGED <<artifacts, seedings, died>>

\* A slip in CrossReads: only what this seeding added is read.
CrossReadsOwn(s) ==
  /\ seeder[s].at = "add" /\ seeder[s].step > Len(Script)
  /\ seeder' = [seeder EXCEPT ![s] =
                 [at |-> "cross", section |-> 1,
                  read |-> {a \in artifacts : a[2] \in {0, seeder[s].number}}]]
  /\ UNCHANGED <<artifacts, links, seedings, died>>

\* _build_cross_links reads all artifacts by type.
CrossReads(s) ==
  /\ seeder[s].at = "add" /\ seeder[s].step > Len(Script)
  /\ seeder' = [seeder EXCEPT ![s] = [at |-> "cross", section |-> 1, read |-> artifacts]]
  /\ UNCHANGED <<artifacts, links, seedings, died>>

\* One section of _build_cross_links; its links are committed one by one, and
\* nothing reads them before the section ends.
CrossLinks(s) ==
  /\ seeder[s].at = "cross"
  /\ LET n == seeder[s].section IN
       /\ links' = links \union Wanted(CrossRules[n], seeder[s].read)
       /\ seeder' = [seeder EXCEPT ![s] = IF n = Len(CrossRules) THEN Resting
                                          ELSE [@ EXCEPT !.section = n + 1]]
  /\ UNCHANGED <<artifacts, seedings, died>>

SeederDies(s) ==
  /\ seeder[s] # Resting
  /\ seeder' = [seeder EXCEPT ![s] = Resting]
  /\ died' = TRUE
  /\ UNCHANGED <<artifacts, links, seedings>>

\* seed_risk_register is called before the risks are added.
SeedsRisks(s) ==
  /\ Kind[Item(s)] = "risk"
  /\ \A n \in 1..(seeder[s].step - 1) : Kind[Script[n]] # "risk"

SeedingNext ==
  \E s \in Seeders :
    \/ \E force \in BOOLEAN : SeedStarts(s, force) /\ UNCHANGED riskVars
    \/ AddArtifact(s) /\ IF SeedsRisks(s) THEN SeedRisks ELSE UNCHANGED riskVars
    \/ \E l \in Links : LinkArtifact(s, l) /\ UNCHANGED riskVars
    \/ CrossReads(s) /\ UNCHANGED riskVars
    \/ CrossLinks(s) /\ UNCHANGED riskVars
    \/ SeederDies(s) /\ UNCHANGED riskVars

GraphNext == SeedingNext \/ (RiskNext /\ UNCHANGED graphVars)

GraphSpec == RiskInit /\ GraphInit /\ [][GraphNext]_<<riskVars, graphVars>>

\* A seeder is adding the artifact of a step, linking it, or in a section of
\* _build_cross_links with the artifacts that were read at its head.
AddStep == [at : {"add"}, step : Nat \ {0}, number : Nat]
LinkStep == [at : {"link"}, step : Nat \ {0}, number : Nat, left : SUBSET Links]
CrossStep == [at : {"cross"}, section : Nat, read : SUBSET (Items \X Nat)]

GraphTypeOK ==
  /\ artifacts \subseteq Items \X Nat
  /\ seeder \in [Seeders -> {Resting} \union AddStep \union LinkStep \union CrossStep]
  /\ seedings \in Nat
  /\ died \in BOOLEAN

AllResting == \A s \in Seeders : seeder[s] = Resting

\* When the seeders have finished and none died, every two artifacts that a
\* rule of _build_cross_links relates are linked, the copies that a forced or
\* a second seeding made among them: each seeding reads the artifacts after
\* it has added its own.
SeededMeansLinked ==
  AllResting /\ ~died =>
    \A n \in DOMAIN CrossRules : Wanted(CrossRules[n], artifacts) \subseteq links
=============================================================================
