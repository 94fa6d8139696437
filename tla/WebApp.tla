-------------------------------- MODULE WebApp --------------------------------
(* orchestrator/main.py, router.py and registry.py: an event received by the *)
(* webhook becomes one task for every agent of its route.  The queue is what *)
(* SerialExecutor says, which TaskQueue implements.  The agents of a route   *)
(* get nothing from each other but what they leave in the stores, so the     *)
(* order of their tasks is all that connects them.                           *)
EXTENDS Naturals, Sequences, FiniteSets, SequencesExt

CONSTANTS
  TriggerTypes,   \* trigger types of the events that are sent
  Clients,        \* who asks for results
  MaxTasks        \* bound on the tasks accepted

VARIABLES
  tasks,          \* the tasks accepted, by number: agent, and the event of a webhook
  active,         \* the task being executed
  answered,       \* the tasks answered, in order
  events,         \* how many events the webhook accepted
  replies,        \* what POST /webhook returned for each event: the task numbers
  polled          \* the results each client has seen

webVars == <<tasks, active, answered, events, replies, polled>>

Queue == INSTANCE SerialExecutor WITH accepted <- Len(tasks)

\* register_all_agents, by domain.
RequirementsAgents == {"transcript_parser", "priority_classifier", "req_extractor", "stale_detector"}
ArchitectureAgents == {"drift_detector", "adr_generator", "diagram_updater", "traceability_builder"}
CodingAgents == {"boilerplate_generator", "pr_reviewer", "test_generator", "doc_generator",
                 "refactor_agent", "test_review_agent"}
ManagementAgents == {"ticket_creator", "wbs_updater", "weekly_digest", "alert_agent"}
KnowledgeAgents == {"minutes_publisher", "decision_logger", "prompt_regression", "context_packager"}
MemoryAgents == {"session_memory", "commitment_tracker", "concern_tracker", "briefing_generator",
                 "decision_log", "evidence_accumulator", "readiness_detector", "coach_linker"}
Registered == RequirementsAgents \union ArchitectureAgents \union CodingAgents
              \union {"plan_generator"} \union ManagementAgents \union KnowledgeAgents
              \union MemoryAgents

\* TRIGGER_ROUTES.
Route(trigger) ==
  CASE trigger = "transcript" ->
         <<"transcript_parser", "priority_classifier", "req_extractor", "drift_detector",
           "decision_logger">>
    [] trigger = "coach_transcript" ->
         <<"transcript_parser", "session_memory", "commitment_tracker", "concern_tracker",
           "coach_linker">>
    [] trigger = "jira_webhook" -> <<"wbs_updater", "traceability_builder">>
    [] trigger = "pr_event" ->
         <<"pr_reviewer", "traceability_builder", "doc_generator", "prompt_regression">>
    [] trigger = "slack_event" -> <<"decision_logger">>
    [] trigger = "cron_monday_8am" -> <<"stale_detector", "context_packager">>
    [] trigger = "cron_friday_6pm" -> <<"weekly_digest">>
    [] trigger = "cron_6h_alert" -> <<"alert_agent">>
    [] trigger = "cron_pre_meeting" -> <<"briefing_generator">>
    [] trigger = "poc_result" -> <<"evidence_accumulator", "readiness_detector">>
    [] OTHER -> <<>>

\* What must have run before a task of the same event: agents that fill a store
\* before the agent that reads it (sessions, commitments, evidence).
Feeds ==
  {<<"session_memory", "commitment_tracker">>, <<"session_memory", "concern_tracker">>,
   <<"session_memory", "coach_linker">>, <<"evidence_accumulator", "readiness_detector">>}

WebInit ==
  /\ tasks = <<>> /\ active = {} /\ answered = <<>>
  /\ events = 0
  /\ replies = <<>>
  /\ polled = [c \in Clients |-> {}]

\* A slip in webhook: each task goes in front of those already collected.
DispatchedInFront(trigger) ==
  LET agents == Reverse(Route(trigger)) IN
  [i \in DOMAIN agents |-> [agent |-> agents[i], event |-> events + 1]]

\* The loop of webhook over resolve_agents; no await inside, so the tasks of an
\* event are next to each other.
Dispatched(trigger) ==
  LET agents == Route(trigger) IN
  [i \in DOMAIN agents |-> [agent |-> agents[i], event |-> events + 1]]

Webhook(trigger) ==
  /\ Route(trigger) # <<>>
  /\ Len(tasks) + Len(Route(trigger)) <= MaxTasks
  /\ tasks' = tasks \o Dispatched(trigger)
  /\ events' = events + 1
  /\ replies' = Append(replies, [i \in DOMAIN Route(trigger) |-> Len(tasks) + i])
  /\ UNCHANGED <<active, answered, polled>>

\* POST /trigger, with any name; an unknown one is answered with an error.
ManualTrigger(agent) ==
  /\ Len(tasks) < MaxTasks
  /\ tasks' = Append(tasks, [agent |-> agent, event |-> 0])
  /\ UNCHANGED <<active, answered, events, replies, polled>>

Begin == UNCHANGED <<tasks, events, replies, polled>> /\ Queue!Begin
Answer == UNCHANGED <<tasks, events, replies, polled>> /\ Queue!Answer

\* GET /task/{task_id}: a task not answered yet and one never heard of look alike.
GetTaskStatus(c, n) ==
  /\ n \in 1..Len(tasks)
  /\ \E i \in DOMAIN answered : answered[i] = n
  /\ polled' = [polled EXCEPT ![c] = @ \union {n}]
  /\ UNCHANGED <<tasks, active, answered, events, replies>>

WebNext ==
  \/ \E t \in TriggerTypes : Webhook(t)
  \/ \E a \in {"plan_generator", "nobody"} : ManualTrigger(a)
  \/ Begin \/ Answer
  \/ \E c \in Clients, n \in 1..MaxTasks : GetTaskStatus(c, n)

WebSpec == WebInit /\ [][WebNext]_webVars

AnsweredBefore(m, n) ==
  \E i \in DOMAIN answered : answered[i] = m /\ \A j \in DOMAIN answered : answered[j] = n => i < j

\* An agent of an event is executed only after the agents of the same event that
\* fill the store it reads, with nothing of another event in between, and every
\* agent of a route has a handler.
EventsInOrder ==
  /\ \A n \in active, m \in DOMAIN tasks :
       /\ tasks[n].event # 0
       /\ tasks[m].event = tasks[n].event
       /\ <<tasks[m].agent, tasks[n].agent>> \in Feeds
       => /\ AnsweredBefore(m, n)
          /\ \A k \in m..n : tasks[k].event = tasks[n].event
  /\ \A n \in DOMAIN tasks : tasks[n].event # 0 => tasks[n].agent \in Registered
===============================================================================
