------------------------------ MODULE WorkProofs ------------------------------
(* What the work around the agents keeps: the tasks of an event run in the   *)
(* order of its route, a plan is what the gate let through, a verdict on     *)
(* tests and the smells of code stand whatever the model adds, and a green   *)
(* evaluation lost nothing.                                                  *)
EXTENDS WebApp, PlanGate, TestReview, RefactorReview, EvalBaselines,
        Induction, FiniteSetTheorems, SequenceTheorems, TLAPS

-------------------------------------------------------------------------------
(* The events of the web application and their tasks. *)

Task == [agent : Registered \union {"nobody"}, event : Nat]

\* The tasks are answered in the order of their numbers, one at a time.
OneAtATime ==
  /\ Len(answered) <= Len(tasks)
  /\ \A i \in 1..Len(answered) : answered[i] = i
  /\ active \subseteq {Len(answered) + 1}
  /\ active # {} => Len(answered) < Len(tasks)

\* The tasks of an event are those of the route of its trigger, after place b.
RouteOf(e, t, b) ==
  /\ b + Len(Route(t)) <= Len(tasks)
  /\ \A i \in 1..Len(Route(t)) : tasks[b + i] = [agent |-> Route(t)[i], event |-> e]
  /\ \A m \in DOMAIN tasks : tasks[m].event = e => m \in (b + 1)..(b + Len(Route(t)))

LEMMA TaskOfRoute ==
  ASSUME NEW e, NEW t, NEW b \in Nat, RouteOf(e, t, b), Len(Route(t)) \in Nat,
         NEW n \in (b + 1)..(b + Len(Route(t)))
  PROVE  /\ n - b \in 1..Len(Route(t))
         /\ tasks[n].event = e /\ tasks[n].agent = Route(t)[n - b]
<1> DEFINE i == n - b
<1>1. i \in 1..Len(Route(t)) /\ b + i = n
  OBVIOUS
<1> HIDE DEF i
<1>2. tasks[b + i] = [agent |-> Route(t)[i], event |-> e]
  BY <1>1 DEF RouteOf
<1>3. tasks[n].event = e /\ tasks[n].agent = Route(t)[i]
  BY <1>1, <1>2
<1>4. QED
  BY <1>1, <1>3 DEF i

EventsWhole ==
  \A e \in 1..events : \E t \in TriggerTypes, b \in Nat : RouteOf(e, t, b)

WebInv ==
  /\ tasks \in Seq(Task)
  /\ answered \in Seq(Nat)
  /\ events \in Nat
  /\ \A n \in DOMAIN tasks : tasks[n].event <= events
  /\ OneAtATime
  /\ EventsWhole

LEMMA RouteCases ==
  ASSUME NEW t
  PROVE  Route(t) \in
    {<<"transcript_parser", "priority_classifier", "req_extractor", "drift_detector",
       "decision_logger">>,
     <<"transcript_parser", "session_memory", "commitment_tracker", "concern_tracker",
       "coach_linker">>,
     <<"wbs_updater", "traceability_builder">>,
     <<"pr_reviewer", "traceability_builder", "doc_generator", "prompt_regression">>,
     <<"decision_logger">>, <<"stale_detector", "context_packager">>, <<"weekly_digest">>,
     <<"alert_agent">>, <<"briefing_generator">>,
     <<"evidence_accumulator", "readiness_detector">>, <<>>}
  BY DEF Route

\* A route names registered agents, and who feeds comes before who is fed.
LEMMA RouteFacts ==
  ASSUME NEW t
  PROVE  /\ Route(t) \in Seq(Registered)
         /\ \A i \in 1..Len(Route(t)) : Route(t)[i] \in Registered
         /\ \A i, j \in 1..Len(Route(t)) : <<Route(t)[i], Route(t)[j]>> \in Feeds => i < j
<1> DEFINE Fine(r) ==
      /\ r \in Seq(Registered)
      /\ \A i \in 1..Len(r) : r[i] \in Registered
      /\ \A i, j \in 1..Len(r) : <<r[i], r[j]>> \in Feeds => i < j
<1>1. Fine(<<"transcript_parser", "priority_classifier", "req_extractor", "drift_detector",
    "decision_logger">>)
  <2> DEFINE r == <<"transcript_parser", "priority_classifier", "req_extractor", "drift_detector",
    "decision_logger">>
  <2>1. Len(r) = 5 /\ r \in [1..5 -> {r[i] : i \in 1..5}]
    OBVIOUS
  <2>2. \A i \in 1..5 : r[i] \in Registered
    BY DEF Registered, RequirementsAgents, ArchitectureAgents,
        CodingAgents, ManagementAgents, KnowledgeAgents, MemoryAgents
  <2>3. r \in Seq(Registered)
    BY <2>1, <2>2
  <2>4. \A i \in 1..5 : <<r[i], r[1]>> \notin Feeds
    BY DEF Feeds
  <2>5. \A i, j \in 1..5 : <<r[i], r[j]>> \in Feeds => i < j
    BY <2>4 DEF Feeds
  <2>6. QED
    BY <2>1, <2>2, <2>3, <2>5
<1>2. Fine(<<"transcript_parser", "session_memory", "commitment_tracker", "concern_tracker",
    "coach_linker">>)
  <2> DEFINE r == <<"transcript_parser", "session_memory", "commitment_tracker", "concern_tracker",
    "coach_linker">>
  <2>1. Len(r) = 5 /\ r \in [1..5 -> {r[i] : i \in 1..5}]
    OBVIOUS
  <2>2. \A i \in 1..5 : r[i] \in Registered
    BY DEF Registered, RequirementsAgents, ArchitectureAgents,
        CodingAgents, ManagementAgents, KnowledgeAgents, MemoryAgents
  <2>3. r \in Seq(Registered)
    BY <2>1, <2>2
  <2>4. \A i \in 1..5 : <<r[i], r[1]>> \notin Feeds
    BY DEF Feeds
  <2>5. \A i, j \in 1..5 : <<r[i], r[j]>> \in Feeds => i < j
    BY <2>4 DEF Feeds
  <2>6. QED
    BY <2>1, <2>2, <2>3, <2>5
<1>3. Fine(<<"wbs_updater", "traceability_builder">>)
  <2> DEFINE r == <<"wbs_updater", "traceability_builder">>
  <2>1. Len(r) = 2 /\ r \in [1..2 -> {r[i] : i \in 1..2}]
    OBVIOUS
  <2>2. \A i \in 1..2 : r[i] \in Registered
    BY DEF Registered, RequirementsAgents, ArchitectureAgents,
        CodingAgents, ManagementAgents, KnowledgeAgents, MemoryAgents
  <2>3. r \in Seq(Registered)
    BY <2>1, <2>2
  <2>4. \A i \in 1..2 : <<r[i], r[1]>> \notin Feeds
    BY DEF Feeds
  <2>5. \A i, j \in 1..2 : <<r[i], r[j]>> \in Feeds => i < j
    BY <2>4 DEF Feeds
  <2>6. QED
    BY <2>1, <2>2, <2>3, <2>5
<1>4. Fine(<<"pr_reviewer", "traceability_builder", "doc_generator", "prompt_regression">>)
  <2> DEFINE r == <<"pr_reviewer", "traceability_builder", "doc_generator", "prompt_regression">>
  <2>1. Len(r) = 4 /\ r \in [1..4 -> {r[i] : i \in 1..4}]
    OBVIOUS
  <2>2. \A i \in 1..4 : r[i] \in Registered
    BY DEF Registered, RequirementsAgents, ArchitectureAgents,
        CodingAgents, ManagementAgents, KnowledgeAgents, MemoryAgents
  <2>3. r \in Seq(Registered)
    BY <2>1, <2>2
  <2>4. \A i \in 1..4 : <<r[i], r[1]>> \notin Feeds
    BY DEF Feeds
  <2>5. \A i, j \in 1..4 : <<r[i], r[j]>> \in Feeds => i < j
    BY <2>4 DEF Feeds
  <2>6. QED
    BY <2>1, <2>2, <2>3, <2>5
<1>5. Fine(<<>>)
  OBVIOUS
<1>6. Fine(<<"decision_logger">>)
  <2> DEFINE r == <<"decision_logger">>
  <2>1. Len(r) = 1 /\ r \in [1..1 -> {r[i] : i \in 1..1}]
    OBVIOUS
  <2>2. \A i \in 1..1 : r[i] \in Registered
    BY DEF Registered, RequirementsAgents, ArchitectureAgents,
        CodingAgents, ManagementAgents, KnowledgeAgents, MemoryAgents
  <2>3. r \in Seq(Registered)
    BY <2>1, <2>2
  <2>4. \A i \in 1..1 : <<r[i], r[1]>> \notin Feeds
    BY DEF Feeds
  <2>5. \A i, j \in 1..1 : <<r[i], r[j]>> \in Feeds => i < j
    BY <2>4 DEF Feeds
  <2>6. QED
    BY <2>1, <2>2, <2>3, <2>5
<1>7. Fine(<<"weekly_digest">>)
  <2> DEFINE r == <<"weekly_digest">>
  <2>1. Len(r) = 1 /\ r \in [1..1 -> {r[i] : i \in 1..1}]
    OBVIOUS
  <2>2. \A i \in 1..1 : r[i] \in Registered
    BY DEF Registered, RequirementsAgents, ArchitectureAgents,
        CodingAgents, ManagementAgents, KnowledgeAgents, MemoryAgents
  <2>3. r \in Seq(Registered)
    BY <2>1, <2>2
  <2>4. \A i \in 1..1 : <<r[i], r[1]>> \notin Feeds
    BY DEF Feeds
  <2>5. \A i, j \in 1..1 : <<r[i], r[j]>> \in Feeds => i < j
    BY <2>4 DEF Feeds
  <2>6. QED
    BY <2>1, <2>2, <2>3, <2>5
<1>8. Fine(<<"alert_agent">>)
  <2> DEFINE r == <<"alert_agent">>
  <2>1. Len(r) = 1 /\ r \in [1..1 -> {r[i] : i \in 1..1}]
    OBVIOUS
  <2>2. \A i \in 1..1 : r[i] \in Registered
    BY DEF Registered, RequirementsAgents, ArchitectureAgents,
        CodingAgents, ManagementAgents, KnowledgeAgents, MemoryAgents
  <2>3. r \in Seq(Registered)
    BY <2>1, <2>2
  <2>4. \A i \in 1..1 : <<r[i], r[1]>> \notin Feeds
    BY DEF Feeds
  <2>5. \A i, j \in 1..1 : <<r[i], r[j]>> \in Feeds => i < j
    BY <2>4 DEF Feeds
  <2>6. QED
    BY <2>1, <2>2, <2>3, <2>5
<1>9. Fine(<<"briefing_generator">>)
  <2> DEFINE r == <<"briefing_generator">>
  <2>1. Len(r) = 1 /\ r \in [1..1 -> {r[i] : i \in 1..1}]
    OBVIOUS
  <2>2. \A i \in 1..1 : r[i] \in Registered
    BY DEF Registered, RequirementsAgents, ArchitectureAgents,
        CodingAgents, ManagementAgents, KnowledgeAgents, MemoryAgents
  <2>3. r \in Seq(Registered)
    BY <2>1, <2>2
  <2>4. \A i \in 1..1 : <<r[i], r[1]>> \notin Feeds
    BY DEF Feeds
  <2>5. \A i, j \in 1..1 : <<r[i], r[j]>> \in Feeds => i < j
    BY <2>4 DEF Feeds
  <2>6. QED
    BY <2>1, <2>2, <2>3, <2>5
<1>10. Fine(<<"stale_detector", "context_packager">>)
  <2> DEFINE r == <<"stale_detector", "context_packager">>
  <2>1. Len(r) = 2 /\ r \in [1..2 -> {r[i] : i \in 1..2}]
    OBVIOUS
  <2>2. \A i \in 1..2 : r[i] \in Registered
    BY DEF Registered, RequirementsAgents, ArchitectureAgents,
        CodingAgents, ManagementAgents, KnowledgeAgents, MemoryAgents
  <2>3. r \in Seq(Registered)
    BY <2>1, <2>2
  <2>4. \A i \in 1..2 : <<r[i], r[1]>> \notin Feeds
    BY DEF Feeds
  <2>5. \A i, j \in 1..2 : <<r[i], r[j]>> \in Feeds => i < j
    BY <2>4 DEF Feeds
  <2>6. QED
    BY <2>1, <2>2, <2>3, <2>5
<1>11. Fine(<<"evidence_accumulator", "readiness_detector">>)
  <2> DEFINE r == <<"evidence_accumulator", "readiness_detector">>
  <2>1. Len(r) = 2 /\ r \in [1..2 -> {r[i] : i \in 1..2}]
    OBVIOUS
  <2>2. \A i \in 1..2 : r[i] \in Registered
    BY DEF Registered, RequirementsAgents, ArchitectureAgents,
        CodingAgents, ManagementAgents, KnowledgeAgents, MemoryAgents
  <2>3. r \in Seq(Registered)
    BY <2>1, <2>2
  <2>4. \A i \in 1..2 : <<r[i], r[1]>> \notin Feeds
    BY DEF Feeds
  <2>5. \A i, j \in 1..2 : <<r[i], r[j]>> \in Feeds => i < j
    BY <2>4 DEF Feeds
  <2>6. QED
    BY <2>1, <2>2, <2>3, <2>5
<1> HIDE DEF Fine
<1>12. Fine(Route(t))
  BY <1>1, <1>2, <1>3, <1>4, <1>5, <1>6, <1>7, <1>8, <1>9, <1>10, <1>11, RouteCases
<1>13. QED
  BY <1>12 DEF Fine

LEMMA InitWeb == WebInit => WebInv
  BY DEF WebInit, WebInv, OneAtATime, EventsWhole

LEMMA WebParts ==
  ASSUME WebInv
  PROVE  /\ Len(tasks) \in Nat /\ DOMAIN tasks = 1..Len(tasks)
         /\ Len(answered) \in Nat /\ DOMAIN answered = 1..Len(answered)
         /\ events \in Nat
         /\ \A n \in 1..Len(tasks) : tasks[n] \in Task
<1>1. tasks \in Seq(Task) /\ answered \in Seq(Nat) /\ events \in Nat
  BY DEF WebInv
<1>2. QED
  BY <1>1, LenProperties, ElementOfSeq

\* What is added after the tasks there are, of no event yet, leaves the routes.
LEMMA RoutesStay ==
  ASSUME WebInv, tasks' \in Seq(Task), Len(tasks) <= Len(tasks'),
         \A n \in 1..Len(tasks) : tasks'[n] = tasks[n],
         \A n \in (Len(tasks) + 1)..Len(tasks') : tasks'[n].event \notin 1..events
  PROVE  \A e \in 1..events : \E t \in TriggerTypes, b \in Nat : RouteOf(e, t, b)'
<1> SUFFICES ASSUME NEW e \in 1..events
             PROVE  \E t \in TriggerTypes, b \in Nat : RouteOf(e, t, b)'
  OBVIOUS
<1>1. PICK t \in TriggerTypes, b \in Nat : RouteOf(e, t, b)
  BY DEF WebInv, EventsWhole
<1>2. Len(tasks') \in Nat /\ DOMAIN tasks' = 1..Len(tasks') /\ Len(Route(t)) \in Nat
  BY RouteFacts, LenProperties
<1>3. b + Len(Route(t)) <= Len(tasks')
  BY <1>1, <1>2, WebParts DEF RouteOf
<1>4. \A i \in 1..Len(Route(t)) : tasks'[b + i] = [agent |-> Route(t)[i], event |-> e]
  BY <1>1, <1>2, WebParts DEF RouteOf
<1>5. \A m \in DOMAIN tasks' : tasks'[m].event = e => m \in (b + 1)..(b + Len(Route(t)))
  <2> SUFFICES ASSUME NEW m \in DOMAIN tasks', tasks'[m].event = e
               PROVE  m \in (b + 1)..(b + Len(Route(t)))
    OBVIOUS
  <2>1. m \in 1..Len(tasks)
    BY <1>2, WebParts
  <2>2. QED
    BY <1>1, <2>1, WebParts DEF RouteOf
<1>6. QED
  BY <1>3, <1>4, <1>5 DEF RouteOf

LEMMA WebhookKeeps ==
  ASSUME WebInv, NEW t \in TriggerTypes, Webhook(t)
  PROVE  WebInv'
<1> DEFINE new == Dispatched(t)
           r == Route(t)
<1>1. tasks' = tasks \o new /\ events' = events + 1 /\ UNCHANGED <<active, answered>>
  BY DEF Webhook
<1>2. r \in Seq(Registered) /\ Len(r) \in Nat /\ DOMAIN r = 1..Len(r)
      /\ \A i \in 1..Len(r) : r[i] \in Registered
  BY RouteFacts, LenProperties, ElementOfSeq
<1>3. new \in Seq(Task) /\ Len(new) = Len(r)
      /\ \A i \in 1..Len(r) : new[i] = [agent |-> r[i], event |-> events + 1]
  <2>1. new = [i \in 1..Len(r) |-> [agent |-> r[i], event |-> events + 1]]
    BY <1>2 DEF Dispatched
  <2>2. \A i \in 1..Len(r) : [agent |-> r[i], event |-> events + 1] \in Task
    BY <1>2, WebParts DEF Task
  <2>3. QED
    BY <1>2, <2>1, <2>2
<1> HIDE DEF new, r
<1>4. tasks \in Seq(Task) /\ Len(tasks) \in Nat
  BY WebParts DEF WebInv
<1>5. tasks' \in Seq(Task) /\ Len(tasks') = Len(tasks) + Len(r)
      /\ (\A n \in 1..(Len(tasks) + Len(r)) : tasks'[n] =
           IF n <= Len(tasks) THEN tasks[n] ELSE new[n - Len(tasks)])
  <2>1. tasks' \in Seq(Task) /\ Len(tasks') = Len(tasks) + Len(new)
        /\ (\A n \in 1..(Len(tasks) + Len(new)) : tasks'[n] =
             IF n <= Len(tasks) THEN tasks[n] ELSE new[n - Len(tasks)])
    <3>1. (tasks \o new) \in Seq(Task) /\ Len(tasks \o new) = Len(tasks) + Len(new)
          /\ (\A n \in 1..(Len(tasks) + Len(new)) : (tasks \o new)[n] =
               IF n <= Len(tasks) THEN tasks[n] ELSE new[n - Len(tasks)])
      <4>1. tasks \in Seq(Task) /\ new \in Seq(Task)
        BY <1>3, <1>4
      <4>2. QED
        BY <4>1, ConcatProperties
    <3>2. QED
      BY <1>1, <3>1
  <2>2. QED
    BY <1>3, <2>1
<1>6. \A n \in 1..Len(tasks) : tasks'[n] = tasks[n]
  BY <1>2, <1>4, <1>5
<1>7. \A i \in 1..Len(r) : tasks'[Len(tasks) + i] = [agent |-> r[i], event |-> events + 1]
  <2> TAKE i \in 1..Len(r)
  <2> DEFINE n == Len(tasks) + i
  <2>1. n \in 1..(Len(tasks) + Len(r)) /\ ~ (n <= Len(tasks)) /\ n - Len(tasks) = i
    BY <1>2, <1>4
  <2> HIDE DEF n
  <2>2. tasks'[n] = new[i]
    BY <1>5, <2>1
  <2>3. QED
    BY <1>3, <2>2 DEF n
<1>8. \A n \in (Len(tasks) + 1)..Len(tasks') : tasks'[n].event = events + 1
  <2> TAKE n \in (Len(tasks) + 1)..Len(tasks')
  <2>1. n - Len(tasks) \in 1..Len(r) /\ Len(tasks) + (n - Len(tasks)) = n
    BY <1>2, <1>4, <1>5
  <2> DEFINE i == n - Len(tasks)
  <2>2. i \in 1..Len(r) /\ Len(tasks) + i = n
    BY <2>1
  <2> HIDE DEF i
  <2>3. tasks'[Len(tasks) + i] = [agent |-> r[i], event |-> events + 1]
    BY <1>7, <2>2
  <2>4. tasks'[n].event = [agent |-> r[i], event |-> events + 1].event
    BY <2>2, <2>3
  <2>5. QED
    BY <2>4
<1>9. DOMAIN tasks' = 1..Len(tasks') /\ Len(tasks') \in Nat
  BY <1>5, LenProperties
<1>10. \A n \in DOMAIN tasks' : tasks'[n].event <= events'
  <2> TAKE n \in DOMAIN tasks'
  <2>1. CASE n \in 1..Len(tasks)
    <3>1. tasks[n].event <= events /\ tasks[n].event \in Nat
      BY <2>1, WebParts DEF WebInv, Task
    <3>2. QED
      BY <1>1, <1>6, <2>1, <3>1, WebParts
  <2>2. CASE n \in (Len(tasks) + 1)..Len(tasks')
    BY <1>1, <1>8, <2>2, WebParts
  <2>3. QED
    BY <1>4, <1>9, <2>1, <2>2
<1> PICK e \in Nat : e = events + 1
  BY WebParts
<1> PICK b \in Nat : b = Len(tasks)
  BY <1>4
<1>11. RouteOf(e, t, b)'
  <2>1. \A m \in DOMAIN tasks' : tasks'[m].event = e => m \in (b + 1)..(b + Len(r))
    <3> SUFFICES ASSUME NEW m \in DOMAIN tasks', tasks'[m].event = events + 1
                 PROVE  m \notin 1..Len(tasks)
      BY <1>2, <1>4, <1>5, <1>9
    <3>1. \A n \in 1..Len(tasks) : tasks[n].event <= events /\ tasks[n].event \in Nat
      BY WebParts DEF WebInv, Task
    <3>2. QED
      BY <1>6, <3>1, WebParts
  <2>2. \A i \in 1..Len(r) : tasks'[b + i] = [agent |-> r[i], event |-> e]
    BY <1>7
  <2>3. b + Len(r) <= Len(tasks')
    BY <1>2, <1>4, <1>5
  <2>4. QED
    BY <2>1, <2>2, <2>3 DEF RouteOf, r
<1>12. EventsWhole'
  <2>1. \A d \in 1..events : \E u \in TriggerTypes, p \in Nat : RouteOf(d, u, p)'
    BY <1>2, <1>4, <1>5, <1>6, <1>8, WebParts, RoutesStay
  <2>2. \A d \in 1..events' : d \in 1..events \/ d = e
    BY <1>1, WebParts
  <2>3. QED
    BY <1>11, <2>1, <2>2 DEF EventsWhole
<1>13. OneAtATime'
  BY <1>1, <1>2, <1>4, <1>5, WebParts DEF WebInv, OneAtATime
<1>14. QED
  BY <1>1, <1>5, <1>10, <1>12, <1>13, WebParts DEF WebInv

LEMMA ManualTriggerKeeps ==
  ASSUME WebInv, NEW name \in Registered \union {"nobody"}, ManualTrigger(name)
  PROVE  WebInv'
<1> DEFINE new == [agent |-> name, event |-> 0]
<1>1. tasks' = Append(tasks, new) /\ UNCHANGED <<active, answered, events>>
  BY DEF ManualTrigger
<1>2. new \in Task /\ new.event = 0
  BY DEF Task
<1> HIDE DEF new
<1>3. tasks \in Seq(Task) /\ Len(tasks) \in Nat /\ DOMAIN tasks = 1..Len(tasks)
  BY WebParts DEF WebInv
<1>4. tasks' \in Seq(Task) /\ Len(tasks') = Len(tasks) + 1
      /\ (\A n \in 1..Len(tasks) : tasks'[n] = tasks[n]) /\ tasks'[Len(tasks) + 1] = new
      /\ DOMAIN tasks' = 1..(Len(tasks) + 1)
  BY <1>1, <1>2, <1>3, AppendProperties, LenProperties
<1>5. EventsWhole'
  <2>1. \A n \in (Len(tasks) + 1)..Len(tasks') : tasks'[n].event \notin 1..events
    BY <1>2, <1>3, <1>4
  <2>2. QED
    BY <1>1, <1>3, <1>4, <2>1, RoutesStay DEF EventsWhole
<1>6. \A n \in DOMAIN tasks' : tasks'[n].event <= events'
  BY <1>1, <1>2, <1>3, <1>4, WebParts DEF WebInv
<1>7. OneAtATime'
  BY <1>1, <1>3, <1>4, WebParts DEF WebInv, OneAtATime
<1>8. answered' \in Seq(Nat) /\ events' \in Nat
  BY <1>1 DEF WebInv
<1>9. tasks' \in Seq(Task)
  BY <1>4
<1>10. QED
  BY <1>5, <1>6, <1>7, <1>8, <1>9 DEF WebInv

LEMMA EventsStayWhole ==
  ASSUME EventsWhole, UNCHANGED <<tasks, events>>
  PROVE  EventsWhole'
<1>1. \A e, t, b : RouteOf(e, t, b) => RouteOf(e, t, b)'
  BY DEF RouteOf
<1>2. QED
  BY <1>1 DEF EventsWhole

LEMMA QueueStepKeeps ==
  ASSUME WebInv, Begin \/ Answer
  PROVE  WebInv'
<1>1. UNCHANGED <<tasks, events>>
  BY DEF Begin, Answer
<1>2. EventsWhole'
  BY <1>1, EventsStayWhole DEF WebInv
<1>3. answered' \in Seq(Nat) /\ OneAtATime'
  <2>1. CASE Begin
    <3>1. answered' = answered /\ active = {} /\ active' = {Len(answered) + 1}
          /\ Len(answered) < Len(tasks)
      BY <2>1 DEF Begin, Queue!Begin
    <3>2. QED
      BY <1>1, <3>1 DEF WebInv, OneAtATime
  <2>2. CASE Answer
    <3>1. PICK n \in active : answered' = Append(answered, n) /\ active' = active \ {n}
      BY <2>2 DEF Answer, Queue!Answer
    <3>2. n = Len(answered) + 1 /\ Len(answered) < Len(tasks) /\ n \in Nat
      BY <3>1, WebParts DEF WebInv, OneAtATime
    <3>3. active' = {}
      BY <3>1, <3>2 DEF WebInv, OneAtATime
    <3>4. answered' \in Seq(Nat) /\ Len(answered') = Len(answered) + 1
          /\ (\A i \in 1..Len(answered) : answered'[i] = answered[i])
          /\ answered'[Len(answered) + 1] = n
      BY <3>1, <3>2, AppendProperties DEF WebInv
    <3>5. \A i \in 1..Len(answered') : answered'[i] = i
      <4>1. \A i \in 1..Len(answered) : answered'[i] = i
        BY <3>4, WebParts DEF WebInv, OneAtATime
      <4>2. QED
        BY <3>2, <3>4, <4>1, WebParts
    <3>6. Len(answered') <= Len(tasks')
      BY <1>1, <3>2, <3>4, WebParts
    <3>7. QED
      BY <3>3, <3>4, <3>5, <3>6 DEF OneAtATime
  <2>3. QED
    BY <2>1, <2>2
<1>4. /\ tasks' \in Seq(Task) /\ events' \in Nat
      /\ \A n \in DOMAIN tasks' : tasks'[n].event <= events'
  BY <1>1 DEF WebInv
<1>5. answered' \in Seq(Nat) /\ OneAtATime'
  BY <1>3
<1>6. QED
  BY <1>2, <1>4, <1>5 DEF WebInv

LEMMA NextWeb == WebInv /\ [WebNext]_webVars => WebInv'
<1> SUFFICES ASSUME WebInv, [WebNext]_webVars PROVE WebInv'
  OBVIOUS
<1>1. ASSUME UNCHANGED <<tasks, active, answered, events>> PROVE WebInv'
  <2>1. EventsWhole'
    BY <1>1, EventsStayWhole DEF WebInv
  <2>2. QED
    BY <1>1, <2>1 DEF WebInv, OneAtATime
<1>2. ASSUME NEW c \in Clients, NEW n \in 1..MaxTasks, GetTaskStatus(c, n) PROVE WebInv'
  BY <1>1, <1>2 DEF GetTaskStatus
<1>3. CASE UNCHANGED webVars
  BY <1>1, <1>3 DEF webVars
<1>4. ASSUME NEW a \in {"plan_generator", "nobody"}, ManualTrigger(a) PROVE WebInv'
  <2>1. a \in Registered \union {"nobody"}
    BY DEF Registered
  <2>2. QED
    BY <1>4, <2>1, ManualTriggerKeeps
<1>5. QED
  BY <1>2, <1>3, <1>4, WebhookKeeps, QueueStepKeeps DEF WebNext

LEMMA InvOrdersEvents ==
  ASSUME WebInv
  PROVE  EventsInOrder
<1>1. ASSUME NEW n \in active, NEW m \in DOMAIN tasks, tasks[n].event # 0,
             tasks[m].event = tasks[n].event,
             <<tasks[m].agent, tasks[n].agent>> \in Feeds
      PROVE  /\ AnsweredBefore(m, n)
             /\ \A k \in m..n : tasks[k].event = tasks[n].event
  <2>1. n = Len(answered) + 1 /\ n \in DOMAIN tasks /\ n \in Nat
    BY <1>1, WebParts DEF WebInv, OneAtATime
  <2> DEFINE e == tasks[n].event
  <2>2. e \in 1..events
    <3>1. tasks[n] \in Task /\ tasks[n].event <= events /\ events \in Nat
      BY <2>1, WebParts DEF WebInv
    <3>2. QED
      BY <1>1, <3>1 DEF Task
  <2>3. PICK t \in TriggerTypes, b \in Nat : RouteOf(e, t, b)
    BY <2>2 DEF WebInv, EventsWhole
  <2>4. Len(Route(t)) \in Nat
    BY RouteFacts, LenProperties
  <2>5. m \in (b + 1)..(b + Len(Route(t))) /\ n \in (b + 1)..(b + Len(Route(t)))
    BY <1>1, <2>1, <2>3 DEF RouteOf
  <2>6. m - b \in 1..Len(Route(t)) /\ n - b \in 1..Len(Route(t))
        /\ tasks[m].agent = Route(t)[m - b] /\ tasks[n].agent = Route(t)[n - b]
    BY <2>3, <2>4, <2>5, TaskOfRoute
  <2>7. m - b < n - b
    BY <1>1, <2>6, RouteFacts
  <2>8. m < n
    BY <2>4, <2>5, <2>7
  <2>9. \A k \in m..n : tasks[k].event = e
    <3> TAKE k \in m..n
    <3>1. k \in (b + 1)..(b + Len(Route(t)))
      BY <2>4, <2>5
    <3>2. QED
      BY <2>3, <2>4, <3>1, TaskOfRoute
  <2>10. AnsweredBefore(m, n)
    <3>1. m \in DOMAIN answered /\ answered[m] = m
      BY <1>1, <2>1, <2>8, WebParts DEF WebInv, OneAtATime
    <3>2. \A j \in DOMAIN answered : answered[j] # n
      BY <2>1, WebParts DEF WebInv, OneAtATime
    <3>3. QED
      BY <3>1, <3>2 DEF AnsweredBefore
  <2>11. QED
    BY <2>9, <2>10
<1>2. ASSUME NEW n \in DOMAIN tasks, tasks[n].event # 0
      PROVE  tasks[n].agent \in Registered
  <2> DEFINE e == tasks[n].event
  <2>1. e \in 1..events
    BY <1>2, WebParts DEF WebInv, Task
  <2>2. PICK t \in TriggerTypes, b \in Nat : RouteOf(e, t, b)
    BY <2>1 DEF WebInv, EventsWhole
  <2>3. n \in (b + 1)..(b + Len(Route(t))) /\ Len(Route(t)) \in Nat /\ n \in Nat
    BY <1>2, <2>2, RouteFacts, LenProperties, WebParts DEF RouteOf
  <2> HIDE DEF e
  <2>4. n - b \in 1..Len(Route(t)) /\ tasks[n].agent = Route(t)[n - b]
    BY <2>2, <2>3, TaskOfRoute
  <2>5. QED
    BY <2>4, RouteFacts
<1>3. QED
  BY <1>1, <1>2 DEF EventsInOrder

\* An agent runs after the agents of its event that feed it, with nothing of
\* another event in between, for any triggers and any number of tasks
\* (EventsInOrder).
THEOREM EventsKeepOrder == WebSpec => []EventsInOrder
<1>1. WebInit => WebInv
  BY InitWeb
<1>2. WebInv /\ [WebNext]_webVars => WebInv'
  BY NextWeb
<1>3. WebInv => EventsInOrder
  BY InvOrdersEvents
<1>4. QED
  BY <1>1, <1>2, <1>3, PTL DEF WebSpec

-------------------------------------------------------------------------------
(* The plan generator, for every set of planners and every bound: what a run
   carries from the gate to the repository is what the gate let through, and a
   reviewer's tick lands on the text the reviewer opened. *)

Docs == [run : Nat, blocking : Nat, warned : BOOLEAN, tolerance : {0, 1}]
Grilling == [at : {"grill"}, run : Nat, forced : BOOLEAN, tolerance : {0, 1}]
Stages == {"plan", "write", "commit", "put", "wiki", "emit"}
Carrying == [at : Stages, file : Paths, doc : Docs, sha : Nat]
InRepo == [version : Nat, doc : Docs \union {Nothing}, ticked : BOOLEAN]
Reading == [version : Nat, run : Nat]

PlannerTyped == planner \in [Planners -> {NotRunning} \union Grilling \union Carrying]
FilesTyped ==
  /\ docs \in [Paths -> Docs \union {Nothing}]
  /\ repo \in [Paths -> InRepo]
ReadingTyped == reading \in {NotReading} \union Reading

PlanTypeInv == PlannerTyped /\ FilesTyped /\ ReadingTyped /\ started \in Nat

\* Where a run is tells what it carries.
LEMMA CarryingAfterGate ==
  ASSUME PlannerTyped, NEW p \in Planners
  PROVE  /\ \A s \in Stages : At(p, s) => planner[p] \in Carrying
         /\ At(p, "grill") => planner[p] \in Grilling
  BY DEF PlannerTyped, At, NotRunning, Grilling, Carrying, Stages

LEMMA GoOn ==
  ASSUME PlannerTyped, NEW p \in Planners, NEW s \in Stages, planner[p] \in Carrying, Go(p, s)
  PROVE  PlannerTyped'
<1>1. [planner[p] EXCEPT !.at = s] \in Carrying
  BY DEF Carrying
<1>2. QED
  BY <1>1 DEF PlannerTyped, Go

LEMMA EndsTyped ==
  ASSUME PlannerTyped, NEW p \in Planners, Ends(p)
  PROVE  PlannerTyped'
  BY DEF PlannerTyped, Ends

LEMMA ReplaceTyped ==
  ASSUME FilesTyped, NEW f \in Paths, NEW d \in Docs \union {Nothing}, NEW t \in BOOLEAN,
         Replace(f, d, t)
  PROVE  /\ repo' = [repo EXCEPT ![f] = [version |-> repo[f].version + 1, doc |-> d, ticked |-> t]]
         /\ repo[f].version \in Nat
         /\ repo' \in [Paths -> InRepo]
<1>1. repo[f].version \in Nat
  BY DEF FilesTyped, InRepo
<1>2. [version |-> repo[f].version + 1, doc |-> d, ticked |-> t] \in InRepo
  BY <1>1 DEF InRepo
<1>3. QED
  BY <1>1, <1>2 DEF Replace, FilesTyped

LEMMA InitPlanTypes == PlanInit => PlanTypeInv
<1> SUFFICES ASSUME PlanInit PROVE PlanTypeInv
  OBVIOUS
<1>1. [version |-> 0, doc |-> Nothing, ticked |-> FALSE] \in InRepo
  BY DEF InRepo
<1>2. QED
  BY <1>1 DEF PlanInit, PlanTypeInv, PlannerTyped, FilesTyped, ReadingTyped

LEMMA NextPlanTypes == PlanTypeInv /\ [PlanNext]_planVars => PlanTypeInv'
<1> SUFFICES ASSUME PlanTypeInv, [PlanNext]_planVars PROVE PlanTypeInv'
  OBVIOUS
<1>0. PlannerTyped /\ FilesTyped /\ ReadingTyped /\ started \in Nat
  BY DEF PlanTypeInv
<1>1. ASSUME NEW p \in Planners, NEW forced \in BOOLEAN, NEW tolerance \in {0, 1},
             StartPlanning(p, forced, tolerance)
      PROVE  PlanTypeInv'
  <2>1. [at |-> "grill", run |-> started', forced |-> forced, tolerance |-> tolerance] \in Grilling
    BY <1>0, <1>1 DEF StartPlanning, Grilling
  <2>2. PlannerTyped'
    BY <1>0, <1>1, <2>1 DEF StartPlanning, PlannerTyped
  <2>3. QED
    BY <1>0, <1>1, <2>2 DEF StartPlanning, PlanTypeInv, FilesTyped, ReadingTyped
<1>2. ASSUME NEW p \in Planners, NEW declared \in {"yes", "no", "absent"},
             NEW b \in 0..MaxBlocking, Grilled(p, declared, b)
      PROVE  PlanTypeInv'
  <2> DEFINE ready == Ready(declared, b, planner[p].tolerance)
             forced == planner[p].forced
             carried == [at |-> IF ready \/ forced THEN "plan" ELSE "write",
                         file |-> IF ready \/ forced THEN "plan" ELSE "questions",
                         doc |-> Rendered(planner[p], b), sha |-> 0]
  <2>1. planner[p] \in Grilling /\ b \in Nat
    BY <1>0, <1>2, CarryingAfterGate, PlanAssumption DEF Grilled
  <2>2. Rendered(planner[p], b) \in Docs
    BY <2>1 DEF Grilling, Rendered, Docs
  <2>3. carried \in Carrying
    BY <2>2 DEF Carrying, Stages, Paths
  <2>4. planner' = [planner EXCEPT ![p] = carried]
    BY <1>2 DEF Grilled
  <2> HIDE DEF carried
  <2>5. PlannerTyped'
    BY <1>0, <2>3, <2>4 DEF PlannerTyped
  <2>6. QED
    BY <1>0, <1>2, <2>5 DEF Grilled, PlanTypeInv, FilesTyped, ReadingTyped
<1>3. ASSUME NEW p \in Planners, Planned(p) PROVE PlanTypeInv'
  <2>1. PlannerTyped'
    BY <1>0, <1>3, CarryingAfterGate, GoOn DEF Planned, Stages
  <2>2. QED
    BY <1>0, <1>3, <2>1 DEF Planned, PlanTypeInv, FilesTyped, ReadingTyped
<1>4. ASSUME NEW p \in Planners, NoAnswer(p) PROVE PlanTypeInv'
  BY <1>0, <1>4, EndsTyped DEF NoAnswer, PlanTypeInv, FilesTyped, ReadingTyped
<1>5. ASSUME NEW p \in Planners, NEW ok \in BOOLEAN, WriteArtifact(p, ok) PROVE PlanTypeInv'
  <2>1. planner[p] \in Carrying
    BY <1>0, <1>5, CarryingAfterGate DEF WriteArtifact, Stages
  <2>2. PlannerTyped'
    BY <1>0, <1>5, <2>1, GoOn DEF WriteArtifact, Stages
  <2>3. docs' \in [Paths -> Docs \union {Nothing}]
    BY <1>0, <1>5, <2>1 DEF WriteArtifact, FilesTyped, Carrying
  <2>4. QED
    BY <1>0, <1>5, <2>2, <2>3 DEF WriteArtifact, PlanTypeInv, FilesTyped, ReadingTyped
<1>6. ASSUME NEW p \in Planners, NEW connected \in BOOLEAN, NEW said \in BOOLEAN,
             CommitReads(p, connected, said)
      PROVE  PlanTypeInv'
  <2>1. planner[p] \in Carrying
    BY <1>0, <1>6, CarryingAfterGate DEF CommitReads, Stages
  <2>2. repo[planner[p].file].version \in Nat
    BY <1>0, <2>1 DEF Carrying, FilesTyped, InRepo
  <2>3. \A s \in {"put", "wiki"}, n \in Nat :
          [planner[p] EXCEPT !.at = s, !.sha = n] \in Carrying
    BY <2>1 DEF Carrying, Stages
  <2>4. PlannerTyped'
    BY <1>0, <1>6, <2>2, <2>3 DEF CommitReads, PlannerTyped
  <2>5. QED
    BY <1>0, <1>6, <2>4 DEF CommitReads, PlanTypeInv, FilesTyped, ReadingTyped
<1>7. ASSUME NEW p \in Planners, CommitPuts(p) PROVE PlanTypeInv'
  <2>1. planner[p] \in Carrying
    BY <1>0, <1>7, CarryingAfterGate DEF CommitPuts, Stages
  <2>2. PlannerTyped'
    BY <1>0, <1>7, <2>1, GoOn DEF CommitPuts, Stages
  <2>3. \/ Replace(planner[p].file, planner[p].doc, FALSE)
        \/ repo' = repo
    BY <1>7 DEF CommitPuts
  <2>4. repo' \in [Paths -> InRepo]
    BY <1>0, <2>1, <2>3, ReplaceTyped DEF FilesTyped, Carrying
  <2>5. QED
    BY <1>0, <1>7, <2>2, <2>4 DEF CommitPuts, PlanTypeInv, FilesTyped, ReadingTyped
<1>8. ASSUME NEW p \in Planners, NEW raises \in BOOLEAN, PutPlanInWiki(p, raises)
      PROVE  PlanTypeInv'
  <2>1. PlannerTyped'
    BY <1>0, <1>8, CarryingAfterGate, GoOn, EndsTyped DEF PutPlanInWiki, Stages
  <2>2. QED
    BY <1>0, <1>8, <2>1 DEF PutPlanInWiki, PlanTypeInv, FilesTyped, ReadingTyped
<1>9. ASSUME NEW p \in Planners, EmitPlan(p) PROVE PlanTypeInv'
  BY <1>0, <1>9, EndsTyped DEF EmitPlan, PlanTypeInv, FilesTyped, ReadingTyped
<1>10. CASE OpensPlan
  <2>1. repo["plan"].version \in Nat /\ repo["plan"].doc \in Docs
    BY <1>0, <1>10 DEF OpensPlan, FilesTyped, InRepo, Paths
  <2>2. ReadingTyped'
    BY <1>10, <2>1 DEF OpensPlan, ReadingTyped, Reading, Docs
  <2>3. QED
    BY <1>0, <1>10, <2>2 DEF OpensPlan, PlanTypeInv, FilesTyped, PlannerTyped
<1>11. CASE AcceptsPlan
  <2>1. Replace("plan", repo["plan"].doc, TRUE) \/ repo' = repo
    BY <1>11 DEF AcceptsPlan
  <2>2. repo["plan"].doc \in Docs \union {Nothing} /\ "plan" \in Paths
    BY <1>0 DEF FilesTyped, InRepo, Paths
  <2>3. repo' \in [Paths -> InRepo]
    BY <1>0, <2>1, <2>2, ReplaceTyped DEF FilesTyped
  <2>4. QED
    BY <1>0, <1>11, <2>3 DEF AcceptsPlan, PlanTypeInv, FilesTyped, PlannerTyped, ReadingTyped
<1>12. CASE UNCHANGED planVars
  BY <1>0, <1>12 DEF planVars, PlanTypeInv, PlannerTyped, FilesTyped, ReadingTyped
<1>13. QED
  BY <1>1, <1>2, <1>3, <1>4, <1>5, <1>6, <1>7, <1>8, <1>9, <1>10, <1>11, <1>12 DEF PlanNext

LEMMA PlanTypes == PlanSpec => []PlanTypeInv
  BY InitPlanTypes, NextPlanTypes, PTL DEF PlanSpec

-----------------------------------------------------------------------------
(* The gate.                                                                  *)

\* The plan carries its warning or rests on no more than its caller tolerates.
Sound(d) == d.warned \/ d.blocking <= d.tolerance

GateInv ==
  /\ \A p \in Planners :
       planner[p].at \in Stages /\ planner[p].file = "plan" => Sound(planner[p].doc)
  /\ docs["plan"] # Nothing => Sound(docs["plan"])
  /\ repo["plan"].doc # Nothing => Sound(repo["plan"].doc)

LEMMA NextGate == PlanTypeInv /\ GateInv /\ [PlanNext]_planVars => GateInv'
<1> SUFFICES ASSUME PlanTypeInv, GateInv, [PlanNext]_planVars PROVE GateInv'
  OBVIOUS
<1>0. PlannerTyped /\ FilesTyped
  BY DEF PlanTypeInv
<1>1. ASSUME NEW p \in Planners, NEW s, s \notin Stages \/ planner[p] \in Carrying, Go(p, s),
             UNCHANGED <<docs, repo>>
      PROVE  GateInv'
  <2>1. planner'[p] = [planner[p] EXCEPT !.at = s]
        /\ \A q \in Planners \ {p} : planner'[q] = planner[q]
    BY <1>0, <1>1 DEF Go, PlannerTyped
  <2>2. planner[p] \in {NotRunning} \union Grilling \union Carrying
    BY <1>0 DEF PlannerTyped
  <2>3. planner'[p].at = s
    BY <2>1, <2>2 DEF NotRunning, Grilling, Carrying
  <2>4. planner[p] \in Carrying =>
          planner[p].at \in Stages /\ planner'[p].file = planner[p].file
          /\ planner'[p].doc = planner[p].doc
    BY <2>1 DEF Carrying
  <2>5. QED
    BY <1>1, <2>1, <2>3, <2>4 DEF GateInv
<1>2. ASSUME NEW p \in Planners, Ends(p), UNCHANGED <<docs, repo>> PROVE GateInv'
  BY <1>0, <1>2 DEF Ends, GateInv, PlannerTyped, NotRunning, Stages
<1>3. ASSUME NEW p \in Planners, NEW forced \in BOOLEAN, NEW tolerance \in {0, 1},
             StartPlanning(p, forced, tolerance)
      PROVE  GateInv'
  BY <1>0, <1>3 DEF StartPlanning, GateInv, PlannerTyped, Stages
<1>4. ASSUME NEW p \in Planners, NEW declared \in {"yes", "no", "absent"},
             NEW b \in 0..MaxBlocking, Grilled(p, declared, b)
      PROVE  GateInv'
  <2> DEFINE ready == Ready(declared, b, planner[p].tolerance)
             forced == planner[p].forced
             carried == [at |-> IF ready \/ forced THEN "plan" ELSE "write",
                         file |-> IF ready \/ forced THEN "plan" ELSE "questions",
                         doc |-> Rendered(planner[p], b), sha |-> 0]
  <2>1. planner' = [planner EXCEPT ![p] = carried] /\ UNCHANGED <<docs, repo>>
    BY <1>4 DEF Grilled
  <2>2. /\ carried.file = "plan" => ready \/ forced
        /\ carried.doc = Rendered(planner[p], b)
    OBVIOUS
  <2>3. ready => b <= planner[p].tolerance
    BY DEF Ready
  <2>4. carried.file = "plan" => Sound(carried.doc)
    BY <2>2, <2>3 DEF Rendered, Sound
  <2> HIDE DEF carried
  <2>5. QED
    BY <1>0, <2>1, <2>4 DEF GateInv, PlannerTyped
<1>5. ASSUME NEW p \in Planners, NEW ok \in BOOLEAN, WriteArtifact(p, ok) PROVE GateInv'
  <2>1. planner[p] \in Carrying /\ planner[p].at \in Stages
    BY <1>0, <1>5, CarryingAfterGate DEF WriteArtifact, Stages, Carrying
  <2>2. repo' = repo /\ (docs' = docs \/ docs' = [docs EXCEPT ![planner[p].file] = planner[p].doc])
    BY <1>5 DEF WriteArtifact
  <2>3. docs'["plan"] = docs["plan"] \/ Sound(docs'["plan"])
    BY <1>0, <2>1, <2>2 DEF GateInv, FilesTyped, Paths, Carrying
  <2>4. planner' = [planner EXCEPT ![p].at = "commit"]
    BY <1>5 DEF WriteArtifact, Go
  <2>5. \A q \in Planners :
          planner'[q].at \in Stages /\ planner'[q].file = "plan" => Sound(planner'[q].doc)
    BY <1>0, <2>1, <2>4 DEF GateInv, PlannerTyped, Carrying
  <2>6. QED
    BY <2>2, <2>3, <2>5 DEF GateInv
<1>6. ASSUME NEW p \in Planners, NEW connected \in BOOLEAN, NEW said \in BOOLEAN,
             CommitReads(p, connected, said)
      PROVE  GateInv'
  <2>1. planner[p] \in Carrying /\ planner[p].at \in Stages
    BY <1>0, <1>6, CarryingAfterGate DEF CommitReads, Stages, Carrying
  <2>2. PICK s \in {"put", "wiki"} : \E n :
          planner' = [planner EXCEPT ![p].at = s, ![p].sha = n]
    BY <1>6 DEF CommitReads
  <2>3. /\ planner'[p].file = planner[p].file /\ planner'[p].doc = planner[p].doc
        /\ \A q \in Planners \ {p} : planner'[q] = planner[q]
    BY <1>0, <2>1, <2>2 DEF PlannerTyped, Carrying
  <2>4. UNCHANGED <<docs, repo>>
    BY <1>6 DEF CommitReads
  <2>5. QED
    BY <2>1, <2>3, <2>4 DEF GateInv
<1>7. ASSUME NEW p \in Planners, CommitPuts(p) PROVE GateInv'
  <2>1. planner[p] \in Carrying /\ planner[p].at \in Stages
    BY <1>0, <1>7, CarryingAfterGate DEF CommitPuts, Stages, Carrying
  <2>2. Replace(planner[p].file, planner[p].doc, FALSE) \/ repo' = repo
    BY <1>7 DEF CommitPuts
  <2>3. repo'["plan"].doc = repo["plan"].doc \/ Sound(repo'["plan"].doc)
    <3>1. CASE repo' = repo
      BY <3>1
    <3>2. CASE Replace(planner[p].file, planner[p].doc, FALSE)
      <4>1. repo' = [repo EXCEPT ![planner[p].file] =
              [version |-> repo[planner[p].file].version + 1, doc |-> planner[p].doc,
               ticked |-> FALSE]]
        BY <1>0, <2>1, <3>2, ReplaceTyped DEF Carrying
      <4>2. planner[p].file = "plan" => Sound(planner[p].doc)
        BY <2>1 DEF GateInv
      <4>3. planner[p].file \in Paths /\ DOMAIN repo = Paths
        BY <1>0, <2>1 DEF Carrying, FilesTyped
      <4>4. QED
        BY <4>1, <4>2, <4>3 DEF Paths
    <3>3. QED
      BY <2>2, <3>1, <3>2
  <2>4. planner' = [planner EXCEPT ![p].at = "wiki"] /\ docs' = docs
    BY <1>7 DEF CommitPuts, Go
  <2>5. \A q \in Planners :
          planner'[q].at \in Stages /\ planner'[q].file = "plan" => Sound(planner'[q].doc)
    BY <1>0, <2>1, <2>4 DEF GateInv, PlannerTyped, Carrying
  <2>6. QED
    BY <2>3, <2>4, <2>5 DEF GateInv
<1>8. CASE AcceptsPlan
  <2>1. Replace("plan", repo["plan"].doc, TRUE) \/ repo' = repo
    BY <1>8 DEF AcceptsPlan
  <2>2. repo'["plan"].doc = repo["plan"].doc
    <3>1. "plan" \in Paths /\ DOMAIN repo = Paths
      BY <1>0 DEF FilesTyped, Paths
    <3>2. QED
      BY <2>1, <3>1 DEF Replace
  <2>3. UNCHANGED <<planner, docs>>
    BY <1>8 DEF AcceptsPlan
  <2>4. QED
    BY <2>2, <2>3 DEF GateInv
<1>9. ASSUME UNCHANGED <<planner, docs, repo>> PROVE GateInv'
  BY <1>9 DEF GateInv
<1>10. ASSUME NEW p \in Planners, Planned(p) PROVE GateInv'
  BY <1>0, <1>1, <1>10, CarryingAfterGate DEF Planned, Stages
<1>11. ASSUME NEW p \in Planners, NoAnswer(p) \/ EmitPlan(p) PROVE GateInv'
  BY <1>2, <1>11 DEF NoAnswer, EmitPlan
<1>12. ASSUME NEW p \in Planners, NEW raises \in BOOLEAN, PutPlanInWiki(p, raises) PROVE GateInv'
  BY <1>0, <1>1, <1>2, <1>12, CarryingAfterGate DEF PutPlanInWiki, Stages
<1>13. QED
  BY <1>3, <1>4, <1>5, <1>6, <1>7, <1>8, <1>9, <1>10, <1>11, <1>12
     DEF PlanNext, OpensPlan, planVars

\* No plan in the working tree or the repository rests on more blocking
\* questions than its caller tolerates, but for the ones that say so: for any
\* number of runs and whatever the model answers (NoPlanOnGuess).
THEOREM PlansPassGate == PlanSpec => []NoPlanOnGuess
<1>1. PlanInit => GateInv
  BY DEF PlanInit, GateInv, NotRunning, Stages, Paths
<1>2. GateInv => NoPlanOnGuess
  BY DEF GateInv, NoPlanOnGuess, Sound
<1>3. QED
  BY <1>1, <1>2, NextGate, PlanTypes, PTL DEF PlanSpec

-----------------------------------------------------------------------------
(* The tick.                                                                  *)

\* What a reviewer has open is the plan of the repository or an older one; the
\* tick is on a plan that was read.
TickInv ==
  /\ reading # NotReading =>
       /\ reading.version <= repo["plan"].version
       /\ reading.version = repo["plan"].version => reading.run = repo["plan"].doc.run
  /\ AcceptedAsRead

LEMMA NextTick == PlanTypeInv /\ TickInv /\ [PlanNext]_planVars => TickInv'
<1> SUFFICES ASSUME PlanTypeInv, TickInv, [PlanNext]_planVars PROVE TickInv'
  OBVIOUS
<1>0. /\ PlannerTyped /\ FilesTyped /\ ReadingTyped /\ "plan" \in Paths
      /\ repo["plan"].version \in Nat /\ DOMAIN repo = Paths
      /\ repo["plan"].doc \in Docs \union {Nothing}
      /\ reading # NotReading => reading.version \in Nat
  BY DEF PlanTypeInv, FilesTyped, ReadingTyped, Reading, InRepo, Paths
<1>1. ASSUME UNCHANGED <<repo, reading, accepted>> PROVE TickInv'
  BY <1>1 DEF TickInv, AcceptedAsRead
<1>2. ASSUME NEW p \in Planners, CommitPuts(p) PROVE TickInv'
  <2>1. planner[p].file \in Paths /\ planner[p].doc \in Docs
    BY <1>0, <1>2, CarryingAfterGate DEF CommitPuts, Stages, Carrying
  <2>2. UNCHANGED <<reading, accepted>>
    BY <1>2 DEF CommitPuts
  <2>3. repo' = repo \/ Replace(planner[p].file, planner[p].doc, FALSE)
    BY <1>2 DEF CommitPuts
  <2>4. CASE planner[p].file = "plan" /\ Replace(planner[p].file, planner[p].doc, FALSE)
    <3>1. repo'["plan"] = [version |-> repo["plan"].version + 1, doc |-> planner[p].doc,
                           ticked |-> FALSE]
      BY <1>0, <2>1, <2>4 DEF Replace
    <3>2. repo'["plan"].version = repo["plan"].version + 1 /\ ~repo'["plan"].ticked
      BY <3>1
    <3>3. reading # NotReading =>
            reading.version <= repo'["plan"].version /\ reading.version # repo'["plan"].version
      BY <1>0, <3>2 DEF TickInv
    <3>4. QED
      BY <2>2, <3>2, <3>3 DEF TickInv, AcceptedAsRead
  <2>5. CASE planner[p].file # "plan" /\ Replace(planner[p].file, planner[p].doc, FALSE)
    <3>1. repo'["plan"] = repo["plan"]
      BY <1>0, <2>5 DEF Replace
    <3>2. QED
      BY <2>2, <3>1 DEF TickInv, AcceptedAsRead
  <2>6. QED
    BY <1>1, <2>2, <2>3, <2>4, <2>5
<1>3. CASE OpensPlan
  BY <1>0, <1>3 DEF OpensPlan, TickInv, AcceptedAsRead, NotReading
<1>4. CASE AcceptsPlan
  <2>1. reading' = NotReading
    BY <1>4 DEF AcceptsPlan
  <2>2. CASE UNCHANGED <<repo, accepted>>
    BY <2>1, <2>2 DEF TickInv, AcceptedAsRead
  <2>3. CASE /\ reading.version = repo["plan"].version
             /\ Replace("plan", repo["plan"].doc, TRUE)
             /\ accepted' = accepted \union {reading.run}
    <3>1. reading.run = repo["plan"].doc.run
      BY <1>4, <2>3 DEF AcceptsPlan, TickInv
    <3>2. repo'["plan"].doc = repo["plan"].doc
      BY <1>0, <2>3 DEF Replace
    <3>3. QED
      BY <2>1, <2>3, <3>1, <3>2 DEF TickInv, AcceptedAsRead
  <2>4. QED
    BY <1>4, <2>2, <2>3 DEF AcceptsPlan
<1>5. QED
  BY <1>1, <1>2, <1>3, <1>4 DEF PlanNext, StartPlanning, Grilled, Planned, NoAnswer,
     WriteArtifact, CommitReads, PutPlanInWiki, EmitPlan, planVars

\* The box is ticked only on a plan that a reviewer read and accepted, however
\* runs that plan the spec again and reviewers interleave (AcceptedAsRead).
THEOREM TickStaysWithText == PlanSpec => []AcceptedAsRead
<1>1. PlanInit => TickInv
  BY DEF PlanInit, TickInv, AcceptedAsRead, Paths
<1>2. TickInv => AcceptedAsRead
  BY DEF TickInv
<1>3. QED
  BY <1>1, <1>2, NextTick, PlanTypes, PTL DEF PlanSpec

-------------------------------------------------------------------------------
(* The review of tests. *)

Ons == {<<"suite">>, <<"mocked">>, <<"file">>, <<"none">>} \union {<<"test", i>> : i \in Nat}
Categories ==
  {"NO_ASSERTION", "MOCK_ONLY_ASSERTION", "TAUTOLOGY", "WEAK_ASSERTION", "SUPPRESSED_FAILURE",
   "MISSING_SAD_PATH", "GAMED_COVERAGE", "MISSING_HAPPY_PATH", "OVER_MOCKING"}
Statics == [category : Categories, on : Ons, severity : Severities, by : {"static_analysis"}]

LEMMA WhenIsList ==
  ASSUME NEW S, NEW f \in S, NEW c
  PROVE  /\ When(c, f) \in Seq(S)
         /\ c => When(c, f) # <<>>
<1>1. <<f>> \in Seq(S) /\ <<f>> # <<>>
  OBVIOUS
<1>2. QED
  BY <1>1 DEF When

LEMMA NoneInConcat ==
  ASSUME NEW S, NEW s \in Seq(S), NEW t \in Seq(S)
  PROVE  /\ s \o t \in Seq(S)
         /\ s \o t = <<>> => s = <<>> /\ t = <<>>
  BY ConcatProperties, ConcatEqualIffEmpty

LEMMA StaticIsFinding ==
  ASSUME NEW c \in Categories, NEW on \in Ons, NEW severity \in Severities
  PROVE  Static(c, on, severity) \in Statics
  BY DEF Static, Finding, Statics

\* A test without a finding asserts on a real value, runs and lets failures through.
LEMMA TestFindingsNone ==
  ASSUME NEW t \in TestShape, NEW name \in Ons
  PROVE  /\ TestFindings(name, t) \in Seq(Statics)
         /\ TestFindings(name, t) = <<>> => t.real > 0 /\ ~ t.skipped /\ ~ t.swallows
<1> DEFINE a == When(NoAssertion(t), Static("NO_ASSERTION", name, "high"))
           b == When(MockOnly(t), Static("MOCK_ONLY_ASSERTION", name, "high"))
           c == When(t.tautology, Static("TAUTOLOGY", name, "high"))
           d == When(t.real = 0 /\ t.weak, Static("WEAK_ASSERTION", name, "medium"))
           e == When(t.skipped, Static("SUPPRESSED_FAILURE", name, "high"))
           f == When(t.swallows, Static("SUPPRESSED_FAILURE", name, "high"))
<1>1. a \in Seq(Statics) /\ (NoAssertion(t) => a # <<>>)
  BY StaticIsFinding, WhenIsList DEF Categories, Severities
<1>2. b \in Seq(Statics) /\ (MockOnly(t) => b # <<>>)
  BY StaticIsFinding, WhenIsList DEF Categories, Severities
<1>3. c \in Seq(Statics) /\ (t.tautology => c # <<>>)
  BY StaticIsFinding, WhenIsList DEF Categories, Severities
<1>4. d \in Seq(Statics) /\ (t.real = 0 /\ t.weak => d # <<>>)
  BY StaticIsFinding, WhenIsList DEF Categories, Severities
<1>5. e \in Seq(Statics) /\ (t.skipped => e # <<>>)
  BY StaticIsFinding, WhenIsList DEF Categories, Severities
<1>6. f \in Seq(Statics) /\ (t.swallows => f # <<>>)
  BY StaticIsFinding, WhenIsList DEF Categories, Severities
<1>7. TestFindings(name, t) = a \o b \o c \o d \o e \o f
  BY DEF TestFindings
<1> HIDE DEF a, b, c, d, e, f
<1>8. a \o b \in Seq(Statics) /\ (a \o b = <<>> => a = <<>> /\ b = <<>>)
  BY <1>1, <1>2, NoneInConcat
<1>9. a \o b \o c \in Seq(Statics) /\ (a \o b \o c = <<>> => a \o b = <<>> /\ c = <<>>)
  BY <1>3, <1>8, NoneInConcat
<1>10. a \o b \o c \o d \in Seq(Statics)
       /\ (a \o b \o c \o d = <<>> => a \o b \o c = <<>> /\ d = <<>>)
  BY <1>4, <1>9, NoneInConcat
<1>11. a \o b \o c \o d \o e \in Seq(Statics)
       /\ (a \o b \o c \o d \o e = <<>> => a \o b \o c \o d = <<>> /\ e = <<>>)
  BY <1>5, <1>10, NoneInConcat
<1>12. a \o b \o c \o d \o e \o f \in Seq(Statics)
       /\ (a \o b \o c \o d \o e \o f = <<>> => a \o b \o c \o d \o e = <<>> /\ f = <<>>)
  BY <1>6, <1>11, NoneInConcat
<1>13. t.real \in Nat /\ t.mock \in Nat
       /\ (t.real = 0 => NoAssertion(t) \/ MockOnly(t) \/ t.tautology \/ (t.real = 0 /\ t.weak))
  BY DEF TestShape, NoAssertion, MockOnly
<1>14. ASSUME a \o b \o c \o d \o e \o f = <<>>
       PROVE  t.real > 0 /\ ~ t.skipped /\ ~ t.swallows
  <2>1. a = <<>> /\ b = <<>> /\ c = <<>> /\ d = <<>> /\ e = <<>> /\ f = <<>>
    BY <1>14, <1>8, <1>9, <1>10, <1>11, <1>12
  <2>2. ~ NoAssertion(t) /\ ~ MockOnly(t) /\ ~ t.tautology /\ ~ (t.real = 0 /\ t.weak)
        /\ ~ t.skipped /\ ~ t.swallows
    BY <2>1, <1>1, <1>2, <1>3, <1>4, <1>5, <1>6
  <2>3. t.real # 0
    BY <1>13, <2>2
  <2>4. QED
    BY <1>13, <2>2, <2>3
<1>15. QED
  BY <1>7, <1>12, <1>14

\* A suite without a finding of its own has a sad path and no low coverage.
LEMMA SuiteFindingsNone ==
  ASSUME tests \in Seq(TestShape), coverage \in Nat
  PROVE  /\ SuiteFindings \in Seq(Statics)
         /\ SuiteFindings = <<>> /\ Total > 0 =>
              /\ \E i \in DOMAIN tests : tests[i].sad
              /\ coverage # Unknown => coverage >= 60
<1> DEFINE a == When(Sad = 0, Static("MISSING_SAD_PATH", <<"suite">>, "high"))
           b == When(Sad > 0 /\ 5 * Sad < Total, Static("MISSING_SAD_PATH", <<"suite">>, "medium"))
           c == When(coverage < 60, Static("MISSING_HAPPY_PATH", <<"suite">>, "medium"))
           g == <<Static("GAMED_COVERAGE", <<"suite">>, "high")>>
           cov == IF coverage = Unknown THEN <<>>
                  ELSE IF coverage >= 80 /\ 4 * Unasserted > Total THEN g ELSE c
           d == When(Assertions < Total /\ Total > 2, Static("WEAK_ASSERTION", <<"suite">>, "medium"))
           e == When(HeavilyMocked > 0, Static("OVER_MOCKING", <<"mocked">>, "medium"))
<1>0. <<"suite">> \in Ons /\ <<"mocked">> \in Ons
  BY DEF Ons
<1>1. a \in Seq(Statics) /\ (Sad = 0 => a # <<>>)
  BY <1>0, StaticIsFinding, WhenIsList DEF Categories, Severities
<1>2. b \in Seq(Statics)
  BY <1>0, StaticIsFinding, WhenIsList DEF Categories, Severities
<1>3. c \in Seq(Statics) /\ (coverage < 60 => c # <<>>)
  BY <1>0, StaticIsFinding, WhenIsList DEF Categories, Severities
<1>4. g \in Seq(Statics) /\ g # <<>>
  <2> DEFINE gamed == Static("GAMED_COVERAGE", <<"suite">>, "high")
  <2>1. gamed \in Statics
    BY <1>0, StaticIsFinding DEF Categories, Severities
  <2> HIDE DEF gamed
  <2>2. <<gamed>> \in Seq(Statics) /\ <<gamed>> # <<>>
    BY <2>1
  <2>3. QED
    BY <2>2 DEF gamed
<1>5. d \in Seq(Statics)
  <2>1. Static("WEAK_ASSERTION", <<"suite">>, "medium") \in Statics
    BY <1>0, StaticIsFinding DEF Categories, Severities
  <2>2. QED
    BY <2>1, WhenIsList, Zenon
<1>6. e \in Seq(Statics)
  <2>1. Static("OVER_MOCKING", <<"mocked">>, "medium") \in Statics
    BY <1>0, StaticIsFinding DEF Categories, Severities
  <2>2. QED
    BY <2>1, WhenIsList, Zenon
<1>7. SuiteFindings = IF Total = 0 THEN <<>> ELSE a \o b \o cov \o d \o e
  BY DEF SuiteFindings
<1> HIDE DEF a, b, c, g, d, e
<1>8. cov \in Seq(Statics) /\ (coverage # Unknown /\ coverage < 60 => cov # <<>>)
  BY <1>3, <1>4
<1> HIDE DEF cov
<1>9. a \o b \in Seq(Statics) /\ (a \o b = <<>> => a = <<>> /\ b = <<>>)
  BY <1>1, <1>2, NoneInConcat
<1>10. a \o b \o cov \in Seq(Statics)
       /\ (a \o b \o cov = <<>> => a \o b = <<>> /\ cov = <<>>)
  BY <1>8, <1>9, NoneInConcat
<1>11. a \o b \o cov \o d \in Seq(Statics)
       /\ (a \o b \o cov \o d = <<>> => a \o b \o cov = <<>> /\ d = <<>>)
  BY <1>5, <1>10, NoneInConcat
<1>12. a \o b \o cov \o d \o e \in Seq(Statics)
       /\ (a \o b \o cov \o d \o e = <<>> => a \o b \o cov \o d = <<>> /\ e = <<>>)
  BY <1>6, <1>11, NoneInConcat
<1>13. ASSUME SuiteFindings = <<>>, Total > 0
       PROVE  /\ \E i \in DOMAIN tests : tests[i].sad
              /\ coverage # Unknown => coverage >= 60
  <2>0. Total # 0
    BY <1>13 DEF Total
  <2>1. a = <<>> /\ cov = <<>>
    BY <1>13, <2>0, <1>7, <1>9, <1>10, <1>11, <1>12
  <2>2. Sad # 0
    BY <1>1, <2>1
  <2>3. {i \in DOMAIN tests : tests[i].sad} # {}
    BY <2>2, FS_EmptySet DEF Sad, Count
  <2>4. QED
    BY <1>8, <2>1, <2>3
<1>14. SuiteFindings \in Seq(Statics)
  <2>1. <<>> \in Seq(Statics)
    OBVIOUS
  <2>2. QED
    BY <1>7, <1>12, <2>1
<1>15. QED
  BY <1>13, <1>14

\* When the static analysis finds nothing, every test asserts and some test is sad.
LEMMA StaticFindingsNone ==
  ASSUME tests \in Seq(TestShape), coverage \in Nat
  PROVE  /\ StaticFindings \in Seq(Statics)
         /\ StaticFindings = <<>> =>
              /\ \A i \in DOMAIN tests : tests[i].real > 0 /\ ~tests[i].skipped /\ ~tests[i].swallows
              /\ Total > 0 => \E i \in DOMAIN tests : tests[i].sad
              /\ Total > 0 /\ coverage # Unknown => coverage >= 60
<1> DEFINE a == When(broken, Static("SUPPRESSED_FAILURE", <<"file">>, "high"))
           each == [i \in DOMAIN tests |-> TestFindings(<<"test", i>>, tests[i])]
           b == FlattenSeq(each)
           c == SuiteFindings
           d == When(untested, Static("MISSING_HAPPY_PATH", <<"none">>, "high"))
<1>1. Len(tests) \in Nat /\ DOMAIN tests = 1..Len(tests)
      /\ \A i \in 1..Len(tests) : tests[i] \in TestShape /\ <<"test", i>> \in Ons
  <2>1. \A i \in 1..Len(tests) : tests[i] \in TestShape
    BY ElementOfSeq
  <2>2. QED
    BY <2>1, LenProperties DEF Ons
<1>2. each \in Seq(Seq(Statics)) /\ Len(each) = Len(tests)
  <2>1. \A i \in 1..Len(tests) : TestFindings(<<"test", i>>, tests[i]) \in Seq(Statics)
    BY <1>1, TestFindingsNone
  <2>2. QED
    BY <1>1, <2>1
<1>3. <<"file">> \in Ons /\ <<"none">> \in Ons
  BY DEF Ons
<1>4. a \in Seq(Statics)
  <2>1. Static("SUPPRESSED_FAILURE", <<"file">>, "high") \in Statics
    BY <1>3, StaticIsFinding DEF Categories, Severities
  <2>2. QED
    BY <2>1, WhenIsList
<1>5. d \in Seq(Statics)
  <2>1. Static("MISSING_HAPPY_PATH", <<"none">>, "high") \in Statics
    BY <1>3, StaticIsFinding DEF Categories, Severities
  <2>2. QED
    BY <2>1, WhenIsList
<1>6. b \in Seq(Statics) /\ ToSet(b) = UNION {ToSet(each[i]) : i \in 1..Len(tests)}
  <2> HIDE DEF each
  <2>1. QED
    BY <1>2, FlattenSeqFacts
<1>7. c \in Seq(Statics)
  BY SuiteFindingsNone
<1>8. StaticFindings = a \o b \o c \o d
  BY DEF StaticFindings
<1>9. ASSUME b = <<>>, NEW i \in 1..Len(tests)
      PROVE  TestFindings(<<"test", i>>, tests[i]) = <<>>
  <2>1. ToSet(each[i]) = {}
    <3>1. ToSet(b) = {}
      BY <1>9 DEF ToSet
    <3> HIDE DEF each, b
    <3>2. QED
      BY <1>6, <3>1
  <2>2. each[i] = TestFindings(<<"test", i>>, tests[i]) /\ each[i] \in Seq(Statics)
    BY <1>1, TestFindingsNone
  <2>3. DOMAIN each[i] = {}
    BY <2>1 DEF ToSet
  <2> HIDE DEF each
  <2>4. Len(each[i]) = 0 \/ 1 \in DOMAIN each[i]
    BY <2>2, LenProperties
  <2>5. QED
    BY <2>2, <2>3, <2>4, EmptySeq
<1> HIDE DEF a, b, c, d, each
<1>10. a \o b \in Seq(Statics) /\ (a \o b = <<>> => a = <<>> /\ b = <<>>)
  BY <1>4, <1>6, NoneInConcat
<1>11. a \o b \o c \in Seq(Statics) /\ (a \o b \o c = <<>> => a \o b = <<>> /\ c = <<>>)
  BY <1>7, <1>10, NoneInConcat
<1>12. a \o b \o c \o d \in Seq(Statics)
       /\ (a \o b \o c \o d = <<>> => a \o b \o c = <<>> /\ d = <<>>)
  BY <1>5, <1>11, NoneInConcat
<1>13. ASSUME StaticFindings = <<>>
       PROVE  /\ \A i \in DOMAIN tests : tests[i].real > 0 /\ ~tests[i].skipped /\ ~tests[i].swallows
              /\ Total > 0 => \E i \in DOMAIN tests : tests[i].sad
              /\ Total > 0 /\ coverage # Unknown => coverage >= 60
  <2>1. b = <<>> /\ c = <<>>
    BY <1>13, <1>8, <1>10, <1>11, <1>12
  <2>2. \A i \in 1..Len(tests) : TestFindings(<<"test", i>>, tests[i]) = <<>>
    BY <1>9, <2>1
  <2>3. \A i \in DOMAIN tests : tests[i].real > 0 /\ ~tests[i].skipped /\ ~tests[i].swallows
    BY <1>1, <2>2, TestFindingsNone
  <2>4. SuiteFindings = <<>>
    BY <2>1 DEF c
  <2>5. QED
    BY <2>3, <2>4, SuiteFindingsNone
<1>14. QED
  BY <1>8, <1>12, <1>13

\* The first findings of a list stay the first when more are put after them.
LEMMA FirstOfKeysGrows ==
  ASSUME NEW S, NEW s \in Seq(S), NEW t \in Seq(S)
  PROVE  /\ FirstOfKeys(s) \subseteq FirstOfKeys(s \o t)
         /\ FirstOfKeys(s) = {} => s = <<>>
<1>1. Len(s) \in Nat /\ DOMAIN s = 1..Len(s) /\ Len(t) \in Nat
  BY LenProperties
<1>2. /\ s \o t \in Seq(S) /\ Len(s \o t) = Len(s) + Len(t)
      /\ \A i \in 1..(Len(s) + Len(t)) :
           (s \o t)[i] = IF i <= Len(s) THEN s[i] ELSE t[i - Len(s)]
  BY ConcatProperties
<1>3. DOMAIN (s \o t) = 1..(Len(s) + Len(t))
  BY <1>2, LenProperties
<1>4. \A i \in 1..Len(s) : i \in DOMAIN (s \o t) /\ (s \o t)[i] = s[i]
  BY <1>1, <1>2, <1>3
<1>5. ASSUME NEW i \in DOMAIN s, \A k \in 1..(i - 1) : ~SameKey(s[k], s[i])
      PROVE  s[i] \in FirstOfKeys(s \o t)
  <2>1. \A k \in 1..(i - 1) : k \in 1..Len(s)
    BY <1>1
  <2>2. \A k \in 1..(i - 1) : ~SameKey((s \o t)[k], (s \o t)[i])
    BY <1>1, <1>4, <1>5, <2>1
  <2>3. i \in DOMAIN (s \o t) /\ (s \o t)[i] = s[i]
    BY <1>1, <1>4
  <2>4. QED
    BY <2>2, <2>3 DEF FirstOfKeys
<1>6. FirstOfKeys(s) \subseteq FirstOfKeys(s \o t)
  BY <1>5 DEF FirstOfKeys
<1>7. ASSUME s # <<>> PROVE FirstOfKeys(s) # {}
  <2>1. 1 \in DOMAIN s /\ 1..(1 - 1) = {}
    BY <1>1, <1>7, EmptySeq
  <2>2. s[1] \in FirstOfKeys(s)
    BY <2>1 DEF FirstOfKeys
  <2>3. QED
    BY <2>2
<1>8. QED
  BY <1>6, <1>7

\* More findings and the model's word only make a verdict worse.
LEMMA VerdictOnlyWorsens ==
  ASSUME NEW fewer, NEW more, fewer \subseteq more, NEW says
  PROVE  /\ WorseOf(Verdict(more), says) \in DOMAIN VerdictOrder
         /\ VerdictOrder[WorseOf(Verdict(more), says)] >= VerdictOrder[Verdict(fewer)]
         /\ WorseOf(Verdict(more), says) = "MEANINGFUL" => more = {}
<1>1. /\ DOMAIN VerdictOrder = {"MEANINGFUL", "GAPS_FOUND", "COVERAGE_MISLEADING"}
      /\ VerdictOrder["MEANINGFUL"] = 0 /\ VerdictOrder["GAPS_FOUND"] = 1
      /\ VerdictOrder["COVERAGE_MISLEADING"] = 2
  BY DEF VerdictOrder
<1> DEFINE low == coverage # Unknown /\ coverage >= 80 /\ Total > 0 /\ 4 * WeakTests > Total
           gamed(f) == \E x \in f : x.category = "GAMED_COVERAGE"
<1>2. \A f : Verdict(f) = IF gamed(f) THEN "COVERAGE_MISLEADING"
                          ELSE IF low THEN "COVERAGE_MISLEADING"
                          ELSE IF f # {} THEN "GAPS_FOUND" ELSE "MEANINGFUL"
  BY DEF Verdict
<1>3. gamed(fewer) => gamed(more)
  OBVIOUS
<1>4. gamed(more) => more # {}
  OBVIOUS
<1> HIDE DEF low, gamed, VerdictOrder
<1>5. Verdict(more) \in DOMAIN VerdictOrder /\ Verdict(fewer) \in DOMAIN VerdictOrder
  BY <1>1, <1>2
<1>6. VerdictOrder[Verdict(more)] >= VerdictOrder[Verdict(fewer)]
  BY <1>1, <1>2, <1>3
<1>7. WorseOf(Verdict(more), says) \in DOMAIN VerdictOrder
      /\ VerdictOrder[WorseOf(Verdict(more), says)] >= VerdictOrder[Verdict(more)]
  BY <1>1, <1>5 DEF WorseOf
<1>8. Verdict(more) = "MEANINGFUL" => more = {}
  BY <1>2
<1>9. WorseOf(Verdict(more), says) = "MEANINGFUL" => Verdict(more) = "MEANINGFUL"
  BY <1>1, <1>5, <1>7
<1>10. \A v \in DOMAIN VerdictOrder : VerdictOrder[v] \in Nat
  BY <1>1
<1>11. QED
  BY <1>5, <1>6, <1>7, <1>8, <1>9, <1>10

ReviewInv ==
  /\ stage \in {"idle", "static", "model", "done"}
  /\ tests \in Seq(TestShape)
  /\ coverage \in Nat
  /\ stage \in {"model", "done"} => detected = StaticFindings
  /\ VerdictStands

LEMMA InitReview == ReviewInit => ReviewInv
  BY DEF ReviewInit, ReviewInv, VerdictStands, ModelOnlyWorsens, MeaningfulMeansAsserted,
         Reviewed, Unknown

LEMMA SubmitReads ==
  ASSUME NEW given \in Submissions, NEW unparsed, NEW gap, NEW report \in Coverages,
         Submit(given, unparsed, gap, report)
  PROVE  ReviewInv'
<1>1. PICK n \in 0..MaxTests : given \in [1..n -> Shapes]
  BY DEF Submissions
<1>2. n \in Nat /\ \A i \in 1..n : given[i] \in TestShape
  BY <1>1, ReviewAssumption
<1>3. given \in Seq(TestShape)
  BY <1>1, <1>2
<1>4. Parsed(report) \in Nat
  <2>1. report[2] \in Nat
    BY ReviewAssumption
  <2>2. QED
    BY <2>1 DEF Parsed, Unknown
<1>5. tests' = given /\ coverage' = Parsed(report) /\ stage' = "static"
  BY DEF Submit
<1>6. VerdictStands'
  BY <1>5 DEF VerdictStands, ModelOnlyWorsens, MeaningfulMeansAsserted, Reviewed
<1>7. QED
  BY <1>3, <1>4, <1>5, <1>6 DEF ReviewInv

LEMMA SameStaticFindings ==
  ASSUME UNCHANGED <<tests, broken, untested, coverage>>
  PROVE  /\ StaticFindings' = StaticFindings /\ Total' = Total
         /\ \A f : Verdict(f)' = Verdict(f)
<1>1. Total' = Total
  BY DEF Total
<1>2. SuiteFindings' = SuiteFindings
  <2>1. Sad' = Sad
    BY DEF Sad, Count
  <2>2. Unasserted' = Unasserted
    BY DEF Unasserted, Count
  <2>3. Assertions' = Assertions
    BY DEF Assertions
  <2>4. HeavilyMocked' = HeavilyMocked
    BY DEF HeavilyMocked, Count
  <2>5. QED
    BY <1>1, <2>1, <2>2, <2>3, <2>4 DEF SuiteFindings
<1>3. WeakTests' = WeakTests
  BY DEF WeakTests, Count
<1>4. StaticFindings' = StaticFindings
  BY <1>2 DEF StaticFindings
<1>5. \A f : Verdict(f)' = Verdict(f)
  BY <1>1, <1>3 DEF Verdict
<1>6. QED
  BY <1>1, <1>4, <1>5

LEMMA AnalyzeKeeps ==
  ASSUME ReviewInv, Analyze
  PROVE  ReviewInv'
<1>1. UNCHANGED <<tests, broken, untested, coverage>> /\ detected' = StaticFindings
      /\ stage' = "model"
  BY DEF Analyze
<1>2. StaticFindings' = StaticFindings
  BY <1>1, SameStaticFindings
<1>3. VerdictStands'
  BY <1>1 DEF VerdictStands, ModelOnlyWorsens, MeaningfulMeansAsserted, Reviewed
<1>4. QED
  BY <1>1, <1>2, <1>3 DEF ReviewInv

LEMMA ReviewStandsOnFindings ==
  ASSUME ReviewInv, NEW answer \in Answers, NEW written, Review(answer, written)
  PROVE  ReviewInv'
<1> DEFINE findings == Merged(detected, answer.findings)
           alone == Merged(detected, <<>>)
           verdict == WorseOf(Verdict(findings), answer.verdict)
<1>1. /\ review' = [findings |-> findings, verdict |-> verdict]
      /\ stage' = "done" /\ stage = "model"
      /\ UNCHANGED <<tests, broken, untested, coverage, detected>>
  BY DEF Review
<1>2. detected = StaticFindings /\ tests \in Seq(TestShape) /\ coverage \in Nat
  BY <1>1 DEF ReviewInv
<1> DEFINE S == Statics \union ModelFindings
<1>3. detected \in Seq(S) /\ answer.findings \in Seq(S)
  <2>1. detected \in Seq(Statics)
    BY <1>2, StaticFindingsNone
  <2>2. answer.findings = <<>> \/ \E f \in ModelFindings : answer.findings = <<f>>
    <3>1. CASE answer = NoModelAnswer
      BY <3>1 DEF NoModelAnswer
    <3>2. CASE answer # NoModelAnswer
      <4> DEFINE Given == {<<>>} \union {<<f>> : f \in ModelFindings}
                 Called == DOMAIN VerdictOrder \union {"FINE"}
      <4>1. answer \in [findings : Given, verdict : Called]
        BY <3>2 DEF Answers
      <4>2. answer.findings \in Given
        <5> HIDE DEF Given, Called
        <5>1. QED
          BY <4>1
      <4>3. QED
        BY <4>2
    <3>3. QED
      BY <3>1, <3>2
  <2>3. \A f \in ModelFindings : <<f>> \in Seq(S)
    OBVIOUS
  <2>4. <<>> \in Seq(S)
    OBVIOUS
  <2>5. QED
    BY <2>1, <2>2, <2>3, <2>4, SeqMonotonic
<1>4. alone = FirstOfKeys(detected) /\ findings = FirstOfKeys(detected \o answer.findings)
  <2>1. detected \o <<>> = detected
    BY <1>3, ConcatEmptySeq
  <2>2. QED
    BY <2>1 DEF Merged
<1>5. alone \subseteq findings /\ (alone = {} => detected = <<>>)
  <2> HIDE DEF alone, findings, S
  <2>1. QED
    BY <1>3, <1>4, FirstOfKeysGrows
<1> HIDE DEF findings, alone
<1>6. /\ VerdictOrder[verdict] >= VerdictOrder[Verdict(alone)]
      /\ verdict = "MEANINGFUL" => findings = {}
  BY <1>5, VerdictOnlyWorsens
<1> HIDE DEF verdict
<1>7. review'.findings = findings /\ review'.verdict = verdict
  BY <1>1
<1>8. alone' = alone
  BY <1>1 DEF alone, Merged, FirstOfKeys, SameKey
<1>9. StaticFindings' = StaticFindings /\ Total' = Total /\ Verdict(alone)' = Verdict(alone)
  <2>1. \A f : Verdict(f)' = Verdict(f)
    BY <1>1, SameStaticFindings
  <2>2. QED
    BY <1>1, <1>8, <2>1, SameStaticFindings
<1>10. ModelOnlyWorsens'
  BY <1>5, <1>6, <1>7, <1>8, <1>9 DEF ModelOnlyWorsens, alone
<1>11. verdict = "MEANINGFUL" => StaticFindings = <<>>
  BY <1>2, <1>5, <1>6
<1>12. MeaningfulMeansAsserted'
  BY <1>1, <1>2, <1>7, <1>9, <1>11, StaticFindingsNone DEF MeaningfulMeansAsserted
<1>13. QED
  BY <1>1, <1>2, <1>9, <1>10, <1>12 DEF ReviewInv, VerdictStands

LEMMA StutterReview ==
  ASSUME ReviewInv, UNCHANGED reviewVars
  PROVE  ReviewInv'
<1>1. UNCHANGED <<tests, broken, untested, coverage, stage, detected, review>>
  BY DEF reviewVars
<1>2. StaticFindings' = StaticFindings /\ Total' = Total /\ \A f : Verdict(f)' = Verdict(f)
  BY <1>1, SameStaticFindings
<1>3. Merged(detected, <<>>)' = Merged(detected, <<>>)
  BY <1>1 DEF Merged, FirstOfKeys, SameKey
<1>4. VerdictStands'
  BY <1>1, <1>2, <1>3
     DEF ReviewInv, VerdictStands, ModelOnlyWorsens, MeaningfulMeansAsserted, Reviewed
<1>5. QED
  BY <1>1, <1>2, <1>4 DEF ReviewInv

LEMMA NextReview == ReviewInv /\ [ReviewNext]_reviewVars => ReviewInv'
  BY SubmitReads, AnalyzeKeeps, ReviewStandsOnFindings, StutterReview DEF ReviewNext

\* A verdict stands on what was found, for any tests and any findings of a model
\* (VerdictStands).
THEOREM VerdictsStand == ReviewSpec => []VerdictStands
<1>1. ReviewInit => ReviewInv
  BY InitReview
<1>2. ReviewInv /\ [ReviewNext]_reviewVars => ReviewInv'
  BY NextReview
<1>3. ReviewInv => VerdictStands
  BY DEF ReviewInv
<1>4. QED
  BY <1>1, <1>2, <1>3, PTL DEF ReviewSpec

-------------------------------------------------------------------------------
(* The review of code. *)

WindowSet == [file : ToSet(Files), line : Nat, text : Seq(STRING)]
Blocks == [at : SUBSET WindowSet, file : ToSet(Files), many : BOOLEAN]
SmellKinds ==
  {"LONG_FUNCTION", "DEAD_CODE", "NAMING", "COHESION", "MISPLACED_RESPONSIBILITY",
   "DUPLICATION", "STRUCTURE"}
LinePlaces == {"lines", "line", "import", "name", "class"} \X Nat
CopyPlaces == {<<"copies", at>> : at \in SUBSET WindowSet}
SmellPlaces == LinePlaces \union CopyPlaces \union {<<"file">>, <<"error">>}
Smells ==
  [category : SmellKinds, file : ToSet(Files), place : SmellPlaces,
   severity : {"high", "medium", "low"}, by : {"static"}]

LEMMA FindIsSmell ==
  ASSUME NEW c \in SmellKinds, NEW f \in ToSet(Files), NEW p \in SmellPlaces,
         NEW severity \in {"high", "medium", "low"}
  PROVE  Find(c, f, p, severity, "static") \in Smells
  BY DEF Find, Smells

LEMMA LinePlaceIsPlace ==
  ASSUME NEW k \in {"lines", "line", "import", "name", "class"}, NEW n \in Nat
  PROVE  <<k, n>> \in SmellPlaces
  BY DEF SmellPlaces, LinePlaces

LEMMA IfIsList ==
  ASSUME NEW S, NEW f \in S, NEW c
  PROVE  If(c, f) \in Seq(S)
<1>1. <<f>> \in Seq(S) /\ <<>> \in Seq(S)
  OBVIOUS
<1>2. QED
  BY <1>1 DEF If

LEMMA FlattenIsList ==
  ASSUME NEW S, NEW n \in Nat, NEW ss \in [1..n -> Seq(S)]
  PROVE  FlattenSeq(ss) \in Seq(S)
<1>1. ss \in Seq(Seq(S))
  OBVIOUS
<1>2. QED
  BY <1>1, FlattenSeqFacts

\* What the heuristics find in a file that parses are findings.
LEMMA FileFindingsAreSmells ==
  ASSUME NEW f \in ToSet(Files), NEW source \in Source
  PROVE  FileFindings(f, source) \in Seq(Smells)
<1> DEFINE nodes == source.nodes
           n == Len(nodes)
           Long(i) == LongAndOverloaded(f, i, nodes[i])
           Dead(i) == If("unused" \in nodes[i],
                         Find("DEAD_CODE", f, <<"line", i>>, "medium", "static"))
           Unused == [i \in 1..source.unused |-> Find("DEAD_CODE", f, <<"import", 1>>, "low", "static")]
           Unclear(i) == UnclearNames(f, i, nodes[i])
           Method(i) == Misplaced(f, i, nodes[i])
           Module == If(source.long, Find("STRUCTURE", f, <<"file">>, "medium", "static"))
<1>1. nodes \in Seq(SUBSET STRING) /\ source.unused \in Nat
  BY DEF Source
<1>2. n \in Nat /\ DOMAIN nodes = 1..n
  BY <1>1, LenProperties
<1>3. \A i \in 1..n : Long(i) \in Seq(Smells)
  <2> TAKE i \in 1..n
  <2>1. i \in Nat
    BY <1>2
  <2>2. /\ Find("LONG_FUNCTION", f, <<"lines", i>>, "high", "static") \in Smells
        /\ Find("LONG_FUNCTION", f, <<"lines", i>>, "medium", "static") \in Smells
        /\ Find("LONG_FUNCTION", f, <<"line", i>>, "medium", "static") \in Smells
    BY <2>1, FindIsSmell, LinePlaceIsPlace DEF SmellKinds
  <2>3. /\ If("very long" \in nodes[i],
              Find("LONG_FUNCTION", f, <<"lines", i>>, "high", "static")) \in Seq(Smells)
        /\ If("long" \in nodes[i],
              Find("LONG_FUNCTION", f, <<"lines", i>>, "medium", "static")) \in Seq(Smells)
        /\ If("many parameters" \in nodes[i],
              Find("LONG_FUNCTION", f, <<"line", i>>, "medium", "static")) \in Seq(Smells)
        /\ If("deep" \in nodes[i],
              Find("LONG_FUNCTION", f, <<"line", i>>, "medium", "static")) \in Seq(Smells)
    BY <2>2, IfIsList
  <2>4. QED
    BY <2>3, ConcatProperties DEF LongAndOverloaded
<1>4. \A i \in 1..n : Dead(i) \in Seq(Smells)
  <2> TAKE i \in 1..n
  <2>1. Find("DEAD_CODE", f, <<"line", i>>, "medium", "static") \in Smells
    BY <1>2, FindIsSmell, LinePlaceIsPlace DEF SmellKinds
  <2>2. QED
    BY <2>1, IfIsList
<1>5. Unused \in Seq(Smells)
  <2>1. Find("DEAD_CODE", f, <<"import", 1>>, "low", "static") \in Smells
    BY FindIsSmell, LinePlaceIsPlace DEF SmellKinds
  <2>2. QED
    BY <1>1, <2>1
<1>6. \A i \in 1..n : Unclear(i) \in Seq(Smells)
  <2> TAKE i \in 1..n
  <2>1. /\ Find("NAMING", f, <<"name", i>>, "medium", "static") \in Smells
        /\ Find("NAMING", f, <<"line", i>>, "low", "static") \in Smells
    BY <1>2, FindIsSmell, LinePlaceIsPlace DEF SmellKinds
  <2>2. /\ If("vague name" \in nodes[i],
              Find("NAMING", f, <<"name", i>>, "medium", "static")) \in Seq(Smells)
        /\ If("vague parameters" \in nodes[i],
              Find("NAMING", f, <<"line", i>>, "low", "static")) \in Seq(Smells)
    BY <2>1, IfIsList
  <2>3. QED
    BY <2>2, ConcatProperties DEF UnclearNames
<1>7. \A i \in 1..n : Method(i) \in Seq(Smells)
  <2> TAKE i \in 1..n
  <2>1. /\ Find("COHESION", f, <<"class", i>>, "medium", "static") \in Smells
        /\ Find("MISPLACED_RESPONSIBILITY", f, <<"line", i>>, "low", "static") \in Smells
    BY <1>2, FindIsSmell, LinePlaceIsPlace DEF SmellKinds
  <2>2. /\ If("many methods" \in nodes[i],
              Find("COHESION", f, <<"class", i>>, "medium", "static")) \in Seq(Smells)
        /\ If("no self" \in nodes[i],
              Find("MISPLACED_RESPONSIBILITY", f, <<"line", i>>, "low", "static")) \in Seq(Smells)
    BY <2>1, IfIsList
  <2>3. QED
    BY <2>2, ConcatProperties DEF Misplaced
<1>8. Module \in Seq(Smells)
  <2>1. <<"file">> \in SmellPlaces
    BY DEF SmellPlaces
  <2>2. Find("STRUCTURE", f, <<"file">>, "medium", "static") \in Smells
    BY <2>1, FindIsSmell DEF SmellKinds
  <2>3. QED
    BY <2>2, IfIsList
<1>9. FileFindings(f, source) =
        FlattenSeq([i \in 1..n |-> Long(i)])
        \o (FlattenSeq([i \in 1..n |-> Dead(i)]) \o Unused)
        \o FlattenSeq([i \in 1..n |-> Unclear(i)])
        \o (Module \o FlattenSeq([i \in 1..n |-> Method(i)]))
  BY <1>2 DEF FileFindings, DeadCode, CohesionProblems
<1> HIDE DEF Long, Dead, Unused, Unclear, Method, Module, n
<1>10. /\ FlattenSeq([i \in 1..n |-> Long(i)]) \in Seq(Smells)
      /\ FlattenSeq([i \in 1..n |-> Dead(i)]) \in Seq(Smells)
      /\ FlattenSeq([i \in 1..n |-> Unclear(i)]) \in Seq(Smells)
      /\ FlattenSeq([i \in 1..n |-> Method(i)]) \in Seq(Smells)
  <2>1. /\ [i \in 1..n |-> Long(i)] \in [1..n -> Seq(Smells)]
        /\ [i \in 1..n |-> Dead(i)] \in [1..n -> Seq(Smells)]
        /\ [i \in 1..n |-> Unclear(i)] \in [1..n -> Seq(Smells)]
        /\ [i \in 1..n |-> Method(i)] \in [1..n -> Seq(Smells)]
    BY <1>3, <1>4, <1>6, <1>7
  <2>2. QED
    BY <1>2, <2>1, FlattenIsList
<1>11. QED
  BY <1>5, <1>8, <1>9, <1>10, ConcatProperties

\* What _collect_files kept.
Collected(given) == DOMAIN given \subseteq ToSet(Files) /\ \A f \in DOMAIN given : given[f] \in Sources

LEMMA FilesFacts == Len(Files) \in Nat /\ DOMAIN Files = 1..Len(Files)
                    /\ \A i \in 1..Len(Files) : Files[i] \in ToSet(Files)
<1>1. Len(Files) \in Nat /\ DOMAIN Files = 1..Len(Files)
  BY RefAssumption, LenProperties
<1>2. QED
  BY <1>1 DEF ToSet

\* The windows of a submission are windows of its files.
LEMMA StartsAreWindows ==
  ASSUME NEW given, Collected(given)
  PROVE  Starts(given) \in Seq(WindowSet)
<1> DEFINE n == Len(Files)
           Of(i) == IF Files[i] \in DOMAIN given
                    THEN WindowsOf(Files[i], given[Files[i]].code) ELSE <<>>
<1>1. \A i \in 1..n : Of(i) \in Seq(WindowSet)
  <2> TAKE i \in 1..n
  <2>1. CASE Files[i] \notin DOMAIN given
    BY <2>1
  <2>2. CASE Files[i] \in DOMAIN given
    <3> DEFINE f == Files[i]
               code == given[f].code
               m == IF Len(code) >= Window THEN Len(code) - Window + 1 ELSE 0
               text(k) == [x \in 1..Window |-> code[k + x - 1].text]
    <3>1. f \in ToSet(Files)
      BY FilesFacts
    <3>2. given[f] \in Source
      BY <2>2, RefAssumption DEF Collected
    <3>3. code \in Seq([at : Nat, text : STRING])
      BY <3>2 DEF Source
    <3>4. Len(code) \in Nat /\ \A j \in 1..Len(code) : code[j] \in [at : Nat, text : STRING]
      BY <3>3, LenProperties, ElementOfSeq
    <3>5. m \in Nat
      BY <3>4, RefAssumption
    <3> HIDE DEF f, code
    <3>6. \A k \in 1..m : code[k].at \in Nat /\ text(k) \in Seq(STRING)
      <4> TAKE k \in 1..m
      <4>1. k \in 1..Len(code) /\ \A x \in 1..Window : k + x - 1 \in 1..Len(code)
        BY <3>4, <3>5, RefAssumption
      <4>2. code[k].at \in Nat /\ \A x \in 1..Window : code[k + x - 1].text \in STRING
        BY <3>4, <4>1
      <4>3. QED
        BY <4>2, RefAssumption
    <3> HIDE DEF text
    <3>7. \A k \in 1..m : [file |-> f, line |-> code[k].at, text |-> text(k)] \in WindowSet
      BY <3>1, <3>5, <3>6 DEF WindowSet
    <3>8. WindowsOf(f, code) =
            [k \in 1..m |-> [file |-> f, line |-> code[k].at, text |-> text(k)]]
      BY DEF WindowsOf, text
    <3>9. WindowsOf(f, code) \in Seq(WindowSet)
      <4> HIDE DEF m
      <4>1. QED
        BY <3>5, <3>7, <3>8
    <3>10. QED
      BY <2>2, <3>9 DEF f, code
  <2>3. QED
    BY <2>1, <2>2
<1>2. Starts(given) = FlattenSeq([i \in 1..n |-> Of(i)])
  BY FilesFacts DEF Starts
<1> HIDE DEF Of
<1>3. [i \in 1..n |-> Of(i)] \in [1..n -> Seq(WindowSet)]
  BY <1>1
<1>4. QED
  BY <1>2, <1>3, FilesFacts, FlattenIsList

\* The blocks found up to each window, as Duplicates has them.
Scans(u, starts, n) ==
  u = [i \in 0..n |-> IF i = 0 THEN <<>> ELSE AfterWindow(starts, i, u[i - 1])]

LEMMA ScanExists ==
  ASSUME NEW starts, NEW n \in Nat
  PROVE  \E u : Scans(u, starts, n)
<1> DEFINE P == {m \in Nat : \E u : Scans(u, starts, m)}
<1>1. 0 \in P
  <2> DEFINE none == [i \in 0..0 |-> <<>>]
  <2>1. Scans(none, starts, 0)
    BY DEF Scans
  <2>2. QED
    BY <2>1
<1>2. ASSUME NEW m \in P PROVE m + 1 \in P
  <2>1. PICK u : Scans(u, starts, m)
    OBVIOUS
  <2>2. m \in Nat
    OBVIOUS
  <2> DEFINE g == [i \in 0..(m + 1) |->
                     IF i = m + 1 THEN AfterWindow(starts, i, u[m]) ELSE u[i]]
  <2>3. \A i \in 0..m : u[i] = IF i = 0 THEN <<>> ELSE AfterWindow(starts, i, u[i - 1])
    BY <2>1 DEF Scans
  <2>4. \A i \in 0..(m + 1) : i # 0 => i - 1 \in 0..m /\ g[i - 1] = u[i - 1]
    BY <2>2
  <2>5. \A i \in 0..(m + 1) : g[i] = IF i = 0 THEN <<>> ELSE AfterWindow(starts, i, g[i - 1])
    <3> TAKE i \in 0..(m + 1)
    <3>1. CASE i = m + 1
      BY <2>2, <2>4, <3>1
    <3>2. CASE i \in 0..m
      BY <2>2, <2>3, <2>4, <3>2
    <3>3. QED
      BY <2>2, <3>1, <3>2
  <2>6. Scans(g, starts, m + 1)
    <3>1. g = [i \in 0..(m + 1) |-> g[i]]
      OBVIOUS
    <3> HIDE DEF g
    <3>2. [i \in 0..(m + 1) |-> g[i]] =
          [i \in 0..(m + 1) |-> IF i = 0 THEN <<>> ELSE AfterWindow(starts, i, g[i - 1])]
      BY <2>5
    <3>3. QED
      BY <3>1, <3>2 DEF Scans
  <2>7. QED
    BY <2>2, <2>6
<1>3. P = Nat
  <2>1. P \in SUBSET Nat
    OBVIOUS
  <2> HIDE DEF P
  <2>2. QED
    BY <1>1, <1>2, <2>1, SetInduction
<1>4. n \in P
  <2> HIDE DEF P
  <2>1. QED
    BY <1>3
<1>5. QED
  BY <1>4

LEMMA DuplicatesScan ==
  ASSUME NEW given, Len(Starts(given)) \in Nat
  PROVE  \E u : /\ Scans(u, Starts(given), Len(Starts(given)))
                /\ Duplicates(given) = u[Len(Starts(given))]
<1> DEFINE u == CHOOSE v : Scans(v, Starts(given), Len(Starts(given)))
<1>1. Scans(u, Starts(given), Len(Starts(given)))
  BY ScanExists
<1>2. Duplicates(given) = u[Len(Starts(given))]
  BY DEF Duplicates, Scans
<1>3. QED
  BY <1>1, <1>2

\* Some copy of the i-th window is claimed by what is reported.
Noticed(starts, i, reported) ==
  \E j \in Copies(starts, i), r \in reported :
    r.file = starts[j].file /\ starts[j].line - r.line \in 0..(2 * Window - 1)

\* A turn of the loop keeps what was reported.
LEMMA ReportsGrow ==
  ASSUME NEW starts \in Seq(WindowSet), NEW i \in 1..Len(starts), NEW blocks \in Seq(Blocks)
  PROVE  /\ AfterWindow(starts, i, blocks) \in Seq(Blocks)
         /\ Reported(blocks) \subseteq Reported(AfterWindow(starts, i, blocks))
<1> DEFINE at == {starts[j] : j \in Copies(starts, i)}
           many == \/ Cardinality(Copies(starts, i)) > 2
                   \/ Cardinality({place.file : place \in at}) > 1
           block == [at |-> at, file |-> starts[i].file, many |-> many]
<1>1. Len(starts) \in Nat /\ DOMAIN starts = 1..Len(starts)
      /\ \A j \in 1..Len(starts) : starts[j] \in WindowSet
  BY LenProperties, ElementOfSeq
<1>2. at \in SUBSET WindowSet /\ starts[i].file \in ToSet(Files)
  <2>1. Copies(starts, i) \subseteq 1..Len(starts)
    BY <1>1 DEF Copies
  <2>2. starts[i] \in WindowSet
    BY <1>1
  <2>3. QED
    BY <1>1, <2>1, <2>2 DEF WindowSet
<1>3. many \in BOOLEAN
  OBVIOUS
<1>4. block \in Blocks
  <2> HIDE DEF at, many
  <2>1. QED
    BY <1>2, <1>3 DEF Blocks
<1>5. AfterWindow(starts, i, blocks) = blocks \/ AfterWindow(starts, i, blocks) = Append(blocks, block)
  BY DEF AfterWindow
<1> HIDE DEF block
<1>6. /\ Append(blocks, block) \in Seq(Blocks)
      /\ Len(Append(blocks, block)) = Len(blocks) + 1
      /\ \A k \in 1..Len(blocks) : Append(blocks, block)[k] = blocks[k]
  BY <1>4, AppendProperties
<1>7. Reported(blocks) \subseteq Reported(Append(blocks, block))
  <2>1. Len(blocks) \in Nat /\ DOMAIN blocks = 1..Len(blocks)
        /\ DOMAIN Append(blocks, block) = 1..(Len(blocks) + 1)
    BY <1>6, LenProperties
  <2>2. QED
    BY <1>6, <2>1 DEF Reported
<1>8. QED
  BY <1>5, <1>6, <1>7

\* A turn of the loop leaves the window it is at noticed, if it has copies and those
\* before it are.
LEMMA WindowIsNoticed ==
  ASSUME NEW starts \in Seq(WindowSet), NEW i \in 1..Len(starts), NEW blocks \in Seq(Blocks),
         \A j \in 1..(i - 1) : Copies(starts, j) # {j} => Noticed(starts, j, Reported(blocks)),
         Copies(starts, i) # {i}
  PROVE  Noticed(starts, i, Reported(AfterWindow(starts, i, blocks)))
<1> DEFINE at == {starts[j] : j \in Copies(starts, i)}
<1>1. Len(starts) \in Nat /\ DOMAIN starts = 1..Len(starts)
      /\ \A j \in 1..Len(starts) : starts[j] \in WindowSet
  BY LenProperties, ElementOfSeq
<1>2. i \in Copies(starts, i) /\ Copies(starts, i) \subseteq 1..Len(starts)
  BY <1>1 DEF Copies
<1>3. CASE \E j \in Copies(starts, i) : j < i
  <2>1. PICK j \in Copies(starts, i) : j < i
    BY <1>3
  <2>2. j \in 1..(i - 1)
    BY <1>1, <1>2, <2>1
  <2>3. Copies(starts, j) = Copies(starts, i)
    BY DEF Copies
  <2>4. Noticed(starts, j, Reported(blocks))
    BY <1>2, <2>1, <2>2, <2>3
  <2>5. Noticed(starts, i, Reported(blocks))
    BY <2>3, <2>4 DEF Noticed
  <2>6. QED
    BY <2>5, ReportsGrow DEF Noticed
<1>4. CASE \E place \in at : Near(place, Reported(blocks))
  <2>1. PICK j \in Copies(starts, i) : Near(starts[j], Reported(blocks))
    BY <1>4
  <2>2. PICK r \in Reported(blocks) :
          r.file = starts[j].file /\ starts[j].line \in r.line..(r.line + 2 * Window - 1)
    BY <2>1 DEF Near
  <2>3. r \in WindowSet
    <3>1. \A k \in DOMAIN blocks : blocks[k] \in Blocks
      BY LenProperties, ElementOfSeq
    <3>2. QED
      BY <3>1 DEF Reported, Blocks
  <2>4. r.line \in Nat /\ starts[j].line \in Nat
    BY <1>1, <1>2, <2>3 DEF WindowSet
  <2>5. starts[j].line - r.line \in 0..(2 * Window - 1)
    BY <2>2, <2>4, RefAssumption
  <2>6. Noticed(starts, i, Reported(blocks))
    BY <2>2, <2>5 DEF Noticed
  <2>7. QED
    BY <2>6, ReportsGrow DEF Noticed
<1>5. CASE ~ (\/ \E j \in Copies(starts, i) : j < i
              \/ Copies(starts, i) = {i}
              \/ \E place \in at : Near(place, Reported(blocks)))
  <2> DEFINE many == \/ Cardinality(Copies(starts, i)) > 2
                     \/ Cardinality({place.file : place \in at}) > 1
             block == [at |-> at, file |-> starts[i].file, many |-> many]
  <2>1. AfterWindow(starts, i, blocks) = Append(blocks, block)
    BY <1>5 DEF AfterWindow
  <2>2. block.at = at
    OBVIOUS
  <2> HIDE DEF block
  <2>3. Append(blocks, block)[Len(blocks) + 1] = block
        /\ Len(blocks) + 1 \in DOMAIN Append(blocks, block)
    <3>1. Append(blocks, block) \in Seq(Blocks \union {block})
          /\ Len(Append(blocks, block)) = Len(blocks) + 1
          /\ Append(blocks, block)[Len(blocks) + 1] = block
      <4>1. blocks \in Seq(Blocks \union {block})
        BY SeqMonotonic
      <4>2. QED
        BY <4>1, AppendProperties
    <3>2. Len(blocks) \in Nat
      BY LenProperties
    <3>3. QED
      BY <3>1, <3>2, LenProperties
  <2>4. starts[i] \in at
    BY <1>2
  <2>5. starts[i] \in Reported(AfterWindow(starts, i, blocks))
    BY <2>1, <2>2, <2>3, <2>4 DEF Reported
  <2>6. starts[i].line - starts[i].line \in 0..(2 * Window - 1)
    <3>1. starts[i].line \in Nat
      BY <1>1 DEF WindowSet
    <3>2. QED
      BY <3>1, RefAssumption
  <2>7. QED
    BY <1>2, <2>5, <2>6 DEF Noticed
<1>6. QED
  BY <1>3, <1>4, <1>5

\* The scan gives blocks, and notices every window that has copies.
LEMMA DuplicatesAreNoticed ==
  ASSUME NEW given, Collected(given)
  PROVE  /\ Duplicates(given) \in Seq(Blocks)
         /\ \A i \in DOMAIN Starts(given) :
              Copies(Starts(given), i) # {i} =>
                Noticed(Starts(given), i, Reported(Duplicates(given)))
<1> DEFINE starts == Starts(given)
           final == Len(starts)
<1>1. starts \in Seq(WindowSet)
  BY StartsAreWindows
<1>2. final \in Nat /\ DOMAIN starts = 1..final
  BY <1>1, LenProperties
<1> HIDE DEF final, starts
<1>3. PICK u : Scans(u, starts, final) /\ Duplicates(given) = u[final]
  BY <1>2, DuplicatesScan DEF starts, final
<1>4. \A i \in 0..final : u[i] = IF i = 0 THEN <<>> ELSE AfterWindow(starts, i, u[i - 1])
  BY <1>3 DEF Scans
<1> DEFINE Right(n) ==
             /\ u[n] \in Seq(Blocks)
             /\ \A i \in 1..n :
                  Copies(starts, i) # {i} => Noticed(starts, i, Reported(u[n]))
           P == {n \in Nat : n \in 0..final => Right(n)}
<1>5. 0 \in P
  <2>1. u[0] = <<>> /\ <<>> \in Seq(Blocks)
    BY <1>2, <1>4
  <2>2. 1..0 = {}
    OBVIOUS
  <2>3. Right(0)
    BY <2>1, <2>2
  <2>4. QED
    BY <2>3
<1>6. ASSUME NEW n \in P PROVE n + 1 \in P
  <2>1. SUFFICES ASSUME n + 1 \in 0..final PROVE Right(n + 1)
    OBVIOUS
  <2> DEFINE m == n + 1
  <2>2. n \in Nat /\ n \in 0..final /\ m \in 1..final /\ m \in 0..final /\ m # 0 /\ m - 1 = n
    BY <1>2, <2>1
  <2>3. Right(n)
    BY <2>2
  <2> HIDE DEF m
  <2>4. u[m] = AfterWindow(starts, m, u[n])
    BY <1>4, <2>2
  <2>5. u[m] \in Seq(Blocks) /\ Reported(u[n]) \subseteq Reported(u[m])
    BY <1>1, <2>2, <2>3, <2>4, ReportsGrow DEF final
  <2>6. Copies(starts, m) # {m} => Noticed(starts, m, Reported(u[m]))
    BY <1>1, <2>2, <2>3, <2>4, WindowIsNoticed DEF final
  <2>7. \A i \in 1..n : Copies(starts, i) # {i} => Noticed(starts, i, Reported(u[m]))
    BY <2>3, <2>5 DEF Noticed
  <2>8. \A i \in 1..m : i = m \/ i \in 1..n
    BY <2>2
  <2>9. Right(m)
    BY <2>5, <2>6, <2>7, <2>8
  <2>10. QED
    BY <2>9 DEF m
<1>7. P = Nat
  <2>1. P \in SUBSET Nat
    OBVIOUS
  <2> HIDE DEF P
  <2>2. QED
    BY <1>5, <1>6, <2>1, SetInduction
<1>8. Right(final)
  <2>1. final \in P
    <3> HIDE DEF P
    <3>1. QED
      BY <1>2, <1>7
  <2>2. QED
    BY <1>2, <2>1
<1>9. QED
  BY <1>2, <1>3, <1>8 DEF starts

LEMMA StaticIsSmells ==
  ASSUME NEW given, Collected(given)
  PROVE  StaticOf(given) \in Seq(Smells)
<1> DEFINE n == Len(Files)
           Unparsed(i) == If(Files[i] \in DOMAIN given /\ ~given[Files[i]].parses,
                             Find("STRUCTURE", Files[i], <<"error">>, "high", "static"))
           Of(i) == IF Files[i] \in DOMAIN given /\ given[Files[i]].parses
                    THEN FileFindings(Files[i], given[Files[i]]) ELSE <<>>
<1>1. \A i \in 1..n : Unparsed(i) \in Seq(Smells)
  <2> TAKE i \in 1..n
  <2>1. <<"error">> \in SmellPlaces
    BY DEF SmellPlaces
  <2>2. Find("STRUCTURE", Files[i], <<"error">>, "high", "static") \in Smells
    BY <2>1, FilesFacts, FindIsSmell DEF SmellKinds
  <2>3. QED
    BY <2>2, IfIsList
<1>2. \A i \in 1..n : Of(i) \in Seq(Smells)
  <2> TAKE i \in 1..n
  <2>1. CASE Files[i] \in DOMAIN given /\ given[Files[i]].parses
    <3>1. given[Files[i]] \in Source
      BY <2>1, RefAssumption DEF Collected
    <3>2. QED
      BY <2>1, <3>1, FilesFacts, FileFindingsAreSmells
  <2>2. CASE ~ (Files[i] \in DOMAIN given /\ given[Files[i]].parses)
    BY <2>2
  <2>3. QED
    BY <2>1, <2>2
<1>3. DuplicateFindings(given) \in Seq(Smells)
  <2> DEFINE blocks == Duplicates(given)
             F(i) == Find("DUPLICATION", blocks[i].file, <<"copies", blocks[i].at>>,
                          IF blocks[i].many THEN "high" ELSE "medium", "static")
  <2>1. blocks \in Seq(Blocks)
    BY DuplicatesAreNoticed
  <2>2. Len(blocks) \in Nat /\ DOMAIN blocks = 1..Len(blocks)
        /\ \A i \in 1..Len(blocks) : blocks[i] \in Blocks
    BY <2>1, LenProperties, ElementOfSeq
  <2> HIDE DEF blocks
  <2>3. \A i \in 1..Len(blocks) : F(i) \in Smells
    <3> TAKE i \in 1..Len(blocks)
    <3>1. blocks[i].file \in ToSet(Files) /\ blocks[i].at \in SUBSET WindowSet
      BY <2>2 DEF Blocks
    <3>2. <<"copies", blocks[i].at>> \in SmellPlaces
      BY <3>1 DEF SmellPlaces, CopyPlaces
    <3>3. QED
      BY <3>1, <3>2, FindIsSmell DEF SmellKinds
  <2>4. DuplicateFindings(given) = [i \in 1..Len(blocks) |-> F(i)]
    BY <2>2 DEF DuplicateFindings, blocks
  <2> HIDE DEF F
  <2>5. QED
    BY <2>2, <2>3, <2>4
<1>4. StaticOf(given) = FlattenSeq([i \in 1..n |-> Unparsed(i)])
                        \o FlattenSeq([i \in 1..n |-> Of(i)]) \o DuplicateFindings(given)
  BY FilesFacts DEF StaticOf
<1> HIDE DEF Unparsed, Of
<1>5. /\ [i \in 1..n |-> Unparsed(i)] \in [1..n -> Seq(Smells)]
      /\ [i \in 1..n |-> Of(i)] \in [1..n -> Seq(Smells)]
  BY <1>1, <1>2
<1>6. /\ FlattenSeq([i \in 1..n |-> Unparsed(i)]) \in Seq(Smells)
      /\ FlattenSeq([i \in 1..n |-> Of(i)]) \in Seq(Smells)
  BY <1>5, FilesFacts, FlattenIsList
<1>7. QED
  BY <1>3, <1>4, <1>6, ConcatProperties

RefInv ==
  /\ Collected(files)
  /\ found \in Seq(Smells)
  /\ step \in {"idle", "static"} => found = <<>>
  /\ FindingsStand

LEMMA InitRef == RefInit => RefInv
<1> SUFFICES ASSUME RefInit PROVE RefInv
  OBVIOUS
<1>1. Collected(files)
  BY DEF RefInit, Collected
<1>2. found = <<>> /\ step = "idle"
  BY DEF RefInit
<1>3. QED
  BY <1>1, <1>2 DEF RefInv, FindingsStand, SmellsAreProposed, CopiesAreNoticed

LEMMA SubmitCollects ==
  ASSUME RefInv, NEW given \in Submitted, NEW works \in BOOLEAN, SubmitCode(given, works)
  PROVE  RefInv'
<1>1. PICK fs \in SUBSET {Files[i] : i \in DOMAIN Files} : given \in [fs -> Sources]
  BY DEF Submitted
<1>2. found = <<>> /\ found' = <<>> /\ step' \in {"done", "static"}
  BY DEF SubmitCode, RefInv
<1>3. files' = [f \in {x \in DOMAIN given : ~IsTest(x)} |-> given[f]]
  BY DEF SubmitCode
<1>4. Collected(files')
  <2>1. DOMAIN files' \subseteq fs /\ \A f \in DOMAIN files' : files'[f] \in Sources
    BY <1>1, <1>3
  <2>2. QED
    BY <1>1, <2>1 DEF Collected, ToSet
<1>5. FindingsStand'
  BY <1>2 DEF FindingsStand, SmellsAreProposed, CopiesAreNoticed
<1>6. QED
  BY <1>2, <1>4, <1>5 DEF RefInv, Collected

LEMMA AnalyzeNotices ==
  ASSUME RefInv, AnalyzeStatic
  PROVE  RefInv'
<1>1. found' = StaticOf(files) /\ step' = "model" /\ files' = files /\ Collected(files)
  BY DEF AnalyzeStatic, RefInv
<1>2. found' \in Seq(Smells)
  BY <1>1, StaticIsSmells
<1>3. CopiesAreNoticed'
  <2>1. \A i \in DOMAIN Starts(files) :
          Copies(Starts(files), i) # {i} => Noticed(Starts(files), i, Reported(Duplicates(files)))
    BY <1>1, DuplicatesAreNoticed
  <2>2. Starts(files)' = Starts(files) /\ Duplicates(files)' = Duplicates(files)
    BY <1>1
  <2>3. QED
    BY <2>1, <2>2 DEF CopiesAreNoticed, Noticed
<1>4. SmellsAreProposed'
  BY <1>1 DEF SmellsAreProposed
<1>5. QED
  BY <1>1, <1>2, <1>3, <1>4 DEF RefInv, FindingsStand, Collected

LEMMA ProposeKeepsSmells ==
  ASSUME RefInv, NEW model \in RefModelSays, Propose(model)
  PROVE  RefInv'
<1> DEFINE all == found \o model
           S == Smells \union ToSet(model)
<1>1. found \in Seq(Smells) /\ found' = found /\ files' = files /\ step' = "done"
      /\ proposal' = FirstOfPlaces(all)
  BY DEF RefInv, Propose, Proposed
<1>2. found \in Seq(S) /\ model \in Seq(S)
  BY <1>1, RefAssumption, SeqMonotonic
<1> HIDE DEF S
<1>3. /\ Len(found) \in Nat /\ DOMAIN found = 1..Len(found) /\ Len(model) \in Nat
      /\ all \in Seq(S) /\ Len(all) = Len(found) + Len(model)
      /\ \A i \in 1..(Len(found) + Len(model)) :
           all[i] = IF i <= Len(found) THEN found[i] ELSE model[i - Len(found)]
  BY <1>2, LenProperties, ConcatProperties
<1>4. DOMAIN all = 1..(Len(found) + Len(model))
  BY <1>3, LenProperties
<1>5. \A i \in DOMAIN found : i \in DOMAIN all /\ all[i] = found[i]
  BY <1>3, <1>4
<1> HIDE DEF all
<1>6. ASSUME NEW i \in DOMAIN found
      PROVE  \E j \in 1..i : found[j] \in FirstOfPlaces(all) /\ PlaceKey(found[j]) = PlaceKey(found[i])
  <2> DEFINE T == {j \in 1..i : PlaceKey(found[j]) = PlaceKey(found[i])}
  <2>1. T \in SUBSET Nat /\ T # {}
    BY <1>3
  <2>2. PICK j \in T : \A k \in T : j <= k
    <3> HIDE DEF T
    <3>1. QED
      BY <2>1, Least
  <2>3. j \in 1..i /\ j \in DOMAIN found /\ PlaceKey(found[j]) = PlaceKey(found[i])
    BY <1>3, <2>2
  <2>4. \A k \in 1..(j - 1) : PlaceKey(all[k]) # PlaceKey(all[j])
    <3> TAKE k \in 1..(j - 1)
    <3>1. k \in 1..i /\ k \in DOMAIN found /\ ~ (j <= k)
      BY <1>3, <2>3
    <3>2. PlaceKey(found[k]) # PlaceKey(found[i])
      BY <2>2, <3>1
    <3>3. all[k] = found[k] /\ all[j] = found[j]
      BY <1>5, <2>3, <3>1
    <3>4. QED
      BY <2>3, <3>2, <3>3
  <2>5. j \in DOMAIN all /\ all[j] = found[j]
    BY <1>5, <2>3
  <2>6. found[j] \in FirstOfPlaces(all)
    BY <2>4, <2>5 DEF FirstOfPlaces
  <2>7. QED
    BY <2>3, <2>6
<1>7. SmellsAreProposed'
  BY <1>1, <1>6 DEF SmellsAreProposed, PlaceKey
<1>8. QED
  BY <1>1, <1>7 DEF RefInv, FindingsStand, CopiesAreNoticed, Collected

LEMMA StutterRef ==
  ASSUME RefInv, UNCHANGED refVars
  PROVE  RefInv'
<1>1. UNCHANGED <<step, files, found, proposal>>
  BY DEF refVars
<1>2. Starts(files)' = Starts(files) /\ Duplicates(files)' = Duplicates(files)
  BY <1>1
<1>3. CopiesAreNoticed'
  BY <1>1, <1>2 DEF RefInv, FindingsStand, CopiesAreNoticed
<1>4. SmellsAreProposed'
  BY <1>1 DEF RefInv, FindingsStand, SmellsAreProposed, PlaceKey
<1>5. QED
  BY <1>1, <1>3, <1>4 DEF RefInv, FindingsStand, Collected

LEMMA NextRef == RefInv /\ [RefNext]_refVars => RefInv'
<1> SUFFICES ASSUME RefInv, [RefNext]_refVars PROVE RefInv'
  OBVIOUS
<1>1. CASE \E given \in Submitted, works \in BOOLEAN : SubmitCode(given, works)
  BY <1>1, SubmitCollects
<1>2. CASE AnalyzeStatic
  BY <1>2, AnalyzeNotices
<1>3. CASE \E model \in RefModelSays : Propose(model)
  BY <1>3, ProposeKeepsSmells
<1>4. CASE UNCHANGED refVars
  BY <1>4, StutterRef
<1>5. QED
  BY <1>1, <1>2, <1>3, <1>4 DEF RefNext

\* A smell the heuristics found is proposed as they found it, and of every block that
\* occurs twice some copy is noticed (RefactorAgent.run with _find_duplicate_blocks).
THEOREM SmellsAreKept == RefSpec => []FindingsStand
<1>1. RefInv => FindingsStand
  BY DEF RefInv
<1>2. QED
  BY <1>1, InitRef, NextRef, PTL DEF RefSpec

-------------------------------------------------------------------------------
(* The evaluations and their baseline. *)

Recorded == [score : Scores \union {NoScore}, live : BOOLEAN]

\* The baseline holds what the last update recorded and nothing besides, and what was
\* recorded by a run that tested it was had.
EvalInv ==
  /\ score \in [Scenarios -> Scores] /\ had \in [Scenarios -> Scores]
  /\ \A s \in Scenarios : score[s] <= had[s]
  /\ recorded \in [Scenarios -> Recorded] /\ updated \subseteq Scenarios
  /\ \A s \in Scenarios :
       /\ baseline[s] = IF s \in updated THEN recorded[s].score ELSE NoScore
       /\ recorded[s].score # NoScore /\ (s \notin NeedsModel \/ recorded[s].live) =>
            recorded[s].score <= had[s]
  /\ DOMAIN last.of \subseteq Scenarios /\ last.regressions \subseteq DOMAIN last.of
  /\ \A s \in DOMAIN last.of : last.of[s] \in Scores
  /\ RegressionsAreExplained

\* A scenario that is evaluated and not skipped has a score, and one that is tested
\* has no more than it would score in full.
LEMMA EvaluatedHasScore ==
  ASSUME EvalInv, NEW s \in Scenarios, NEW live \in BOOLEAN, NEW key \in BOOLEAN
  PROVE  /\ Evaluated(s, live, key) \in Scores \union {NoScore}
         /\ Evaluated(s, live, key) # NoScore /\ (s \notin NeedsModel \/ live) =>
              Evaluated(s, live, key) <= had[s]
<1>1. /\ score[s] \in {0, 1, 2} /\ had[s] \in {0, 1, 2} /\ score[s] <= had[s]
  BY DEF EvalInv, Scores, Full
<1>2. {0, 1, 2} = Scores
  BY DEF Scores, Full
<1>3. QED
  BY <1>1, <1>2 DEF Evaluated, SkillScore, Full, NoScore

LEMMA OutcomesAreScores ==
  ASSUME EvalInv, NEW suites, NEW live \in BOOLEAN, NEW key \in BOOLEAN
  PROVE  LET of == Outcomes(suites, live, key) IN
         /\ DOMAIN of \subseteq Scenarios
         /\ \A s \in DOMAIN of :
              of[s] \in Scores /\ (s \notin NeedsModel \/ live => of[s] <= had[s])
  BY EvaluatedHasScore DEF Outcomes

\* The report of a run over the baseline of the last update is explained.
LEMMA ReportIsExplained ==
  ASSUME EvalInv, NEW of, NEW exit, DOMAIN of \subseteq Scenarios,
         \A s \in DOMAIN of : of[s] \in Scores,
         last' = Report(of, exit), had' = had
  PROVE  /\ DOMAIN last'.of \subseteq Scenarios /\ last'.regressions \subseteq DOMAIN last'.of
         /\ \A s \in DOMAIN last'.of : last'.of[s] \in Scores
         /\ RegressionsAreExplained'
<1>1. /\ last'.of = of /\ last'.known = recorded /\ last'.updated = updated
      /\ last'.regressions = {s \in DOMAIN of : baseline[s] # NoScore /\ of[s] < baseline[s]}
  BY DEF Report, Regressions
<1>2. ASSUME NEW s \in DOMAIN of
      PROVE  /\ Dropped(s)' /\ s \notin last'.regressions => s \notin last'.updated
             /\ s \in last'.regressions => Dropped(s)' /\ (Tested(s)' => of[s] < had'[s])
  <2>1. /\ of[s] \in {0, 1, 2} /\ had[s] \in {0, 1, 2} /\ recorded[s].score \in {0, 1, 2, NoScore}
        /\ baseline[s] = IF s \in updated THEN recorded[s].score ELSE NoScore
        /\ recorded[s].score # NoScore /\ (s \notin NeedsModel \/ recorded[s].live) =>
             recorded[s].score <= had[s]
    BY DEF EvalInv, Recorded, Scores, Full
  <2>2. /\ Dropped(s)' <=> recorded[s].score # NoScore /\ of[s] < recorded[s].score
        /\ Tested(s)' <=> s \notin NeedsModel \/ recorded[s].live
    BY <1>1 DEF Dropped, Tested
  <2>3. s \in last'.regressions <=> baseline[s] # NoScore /\ of[s] < baseline[s]
    BY <1>1
  <2>4. QED
    BY <1>1, <2>1, <2>2, <2>3 DEF NoScore
<1>3. RegressionsAreExplained'
  BY <1>1, <1>2 DEF RegressionsAreExplained
<1>4. QED
  BY <1>1, <1>3

LEMMA ChangeKeepsEvals ==
  ASSUME EvalInv, NEW s \in Scenarios, NEW n \in Scores, SystemChanges(s, n)
  PROVE  EvalInv'
<1>1. /\ score' = [score EXCEPT ![s] = n]
      /\ had' = [had EXCEPT ![s] = IF n > @ THEN n ELSE @]
      /\ UNCHANGED <<baseline, last, recorded, updated>>
  BY DEF SystemChanges
<1>2. score' \in [Scenarios -> Scores] /\ had' \in [Scenarios -> Scores]
  BY <1>1 DEF EvalInv
<1>3. \A t \in Scenarios : score'[t] <= had'[t] /\ had[t] <= had'[t]
  BY <1>1 DEF EvalInv, Scores, Full
<1>4. \A t \in Scenarios : had[t] \in 0..2 /\ had'[t] \in 0..2
  BY <1>2 DEF EvalInv, Scores, Full
<1>5. \A t \in Scenarios :
        recorded[t].score # NoScore /\ (t \notin NeedsModel \/ recorded[t].live) =>
          recorded[t].score <= had'[t]
  <2>1. \A t \in Scenarios : recorded[t].score \in 0..2 \/ recorded[t].score = NoScore
    BY DEF EvalInv, Recorded, Scores, Full
  <2>2. QED
    BY <1>3, <1>4, <2>1 DEF EvalInv
<1>6. RegressionsAreExplained'
  <2>1. ASSUME NEW t \in DOMAIN last.of
        PROVE  /\ Dropped(t)' <=> Dropped(t)
               /\ Tested(t)' <=> Tested(t)
               /\ last.of[t] < had[t] => last.of[t] < had'[t]
    <3>1. last.of[t] \in 0..2 /\ t \in Scenarios
      BY DEF EvalInv, Scores, Full
    <3>2. QED
      BY <1>1, <1>3, <1>4, <3>1 DEF Dropped, Tested
  <2>2. QED
    BY <1>1, <2>1 DEF EvalInv, RegressionsAreExplained
<1>7. QED
  BY <1>1, <1>2, <1>3, <1>5, <1>6 DEF EvalInv

LEMMA SameEvals ==
  ASSUME EvalInv, UNCHANGED <<score, had, baseline, last, recorded, updated>>
  PROVE  EvalInv'
<1>1. RegressionsAreExplained'
  BY DEF EvalInv, RegressionsAreExplained, Dropped, Tested
<1>2. QED
  BY <1>1 DEF EvalInv

LEMMA RunKeepsEvals ==
  ASSUME EvalInv, NEW suites, NEW live \in BOOLEAN, NEW key \in BOOLEAN, NEW update \in BOOLEAN,
         RunEvals(suites, live, key, update)
  PROVE  EvalInv'
<1> DEFINE of == Outcomes(suites, live, key)
<1>1. /\ DOMAIN of \subseteq Scenarios
      /\ \A s \in DOMAIN of : of[s] \in Scores /\ (s \notin NeedsModel \/ live => of[s] <= had[s])
  BY OutcomesAreScores
<1>2. /\ last' = Report(of, ExitCode(of)) /\ UNCHANGED <<score, had>>
      /\ baseline' = IF update THEN Saved(of) ELSE baseline
      /\ recorded' = IF update
                     THEN [s \in Scenarios |-> IF s \in DOMAIN of
                                               THEN [score |-> of[s], live |-> live] ELSE recorded[s]]
                     ELSE recorded
      /\ updated' = IF update THEN DOMAIN of ELSE updated
  BY DEF RunEvals
<1> HIDE DEF of
<1>3. /\ DOMAIN last'.of \subseteq Scenarios /\ last'.regressions \subseteq DOMAIN last'.of
      /\ \A s \in DOMAIN last'.of : last'.of[s] \in Scores
      /\ RegressionsAreExplained'
  BY <1>1, <1>2, ReportIsExplained
<1>4. recorded' \in [Scenarios -> Recorded] /\ updated' \subseteq Scenarios
  BY <1>1, <1>2 DEF EvalInv, Recorded
<1>5. ASSUME NEW s \in Scenarios
      PROVE  /\ baseline'[s] = IF s \in updated' THEN recorded'[s].score ELSE NoScore
             /\ recorded'[s].score # NoScore /\ (s \notin NeedsModel \/ recorded'[s].live) =>
                  recorded'[s].score <= had'[s]
  BY <1>1, <1>2 DEF EvalInv, Saved
<1>6. QED
  BY <1>2, <1>3, <1>4, <1>5 DEF EvalInv

LEMMA DeathKeepsEvals ==
  ASSUME EvalInv, NEW suites, NEW live \in BOOLEAN, NEW key \in BOOLEAN,
         UpdateDies(suites, live, key)
  PROVE  EvalInv'
<1> DEFINE of == Outcomes(suites, live, key)
<1>1. DOMAIN of \subseteq Scenarios /\ \A s \in DOMAIN of : of[s] \in Scores
  BY OutcomesAreScores
<1>2. /\ last' = Report(of, 1) /\ UNCHANGED <<score, had, recorded>>
      /\ baseline' = [s \in Scenarios |-> NoScore] /\ updated' = {}
  BY DEF UpdateDies
<1> HIDE DEF of
<1>3. /\ DOMAIN last'.of \subseteq Scenarios /\ last'.regressions \subseteq DOMAIN last'.of
      /\ \A s \in DOMAIN last'.of : last'.of[s] \in Scores
      /\ RegressionsAreExplained'
  BY <1>1, <1>2, ReportIsExplained
<1>4. QED
  BY <1>2, <1>3 DEF EvalInv

LEMMA EvalKeeps == EvalInv /\ [EvalNext]_evalVars => EvalInv'
<1> SUFFICES ASSUME EvalInv, [EvalNext]_evalVars PROVE EvalInv'
  OBVIOUS
<1>1. ASSUME NEW s \in Scenarios, NEW n \in Scores, SystemChanges(s, n) PROVE EvalInv'
  BY <1>1, ChangeKeepsEvals
<1>2. ASSUME NEW s \in Scenarios, ContractBreaks(s) PROVE EvalInv'
  BY <1>2, SameEvals DEF ContractBreaks
<1>3. ASSUME NEW suites, NEW live \in BOOLEAN, NEW key \in BOOLEAN, NEW update \in BOOLEAN,
             RunEvals(suites, live, key, update)
      PROVE  EvalInv'
  BY <1>3, RunKeepsEvals
<1>4. ASSUME NEW suites, NEW live \in BOOLEAN, NEW key \in BOOLEAN, UpdateDies(suites, live, key)
      PROVE  EvalInv'
  BY <1>4, DeathKeepsEvals
<1>5. CASE UNCHANGED evalVars
  BY <1>5, SameEvals DEF evalVars
<1>6. QED
  BY <1>1, <1>2, <1>3, <1>4, <1>5 DEF EvalNext

\* A scenario that scores less than when it was last recorded goes unnamed only if the
\* last update left it out or died, and one that is named scores less than it was
\* recorded with and, if it was tested then, than it once did (main, save_baselines
\* and find_regressions of evals/runner.py).
THEOREM RegressionsExplained == EvalSpec => []RegressionsAreExplained
<1>1. EvalInit => EvalInv
  <2> SUFFICES ASSUME EvalInit PROVE EvalInv
    OBVIOUS
  <2>1. /\ last.of = [s \in {} |-> 0] /\ last.regressions = {}
        /\ recorded = Unrecorded /\ updated = {} /\ had = score
        /\ score \in [Scenarios -> Scores] /\ baseline = [s \in Scenarios |-> NoScore]
    BY DEF EvalInit, NoRun
  <2>2. RegressionsAreExplained
    BY <2>1 DEF RegressionsAreExplained
  <2>3. \A s \in Scenarios : score[s] <= score[s]
    BY <2>1 DEF Scores, Full
  <2>4. recorded \in [Scenarios -> Recorded] /\ \A s \in Scenarios : recorded[s].score = NoScore
    BY <2>1 DEF Unrecorded, NoRecord, Recorded
  <2>5. QED
    BY <2>1, <2>2, <2>3, <2>4 DEF EvalInv
<1>2. EvalInv => RegressionsAreExplained
  BY DEF EvalInv
<1>3. QED
  BY <1>1, <1>2, EvalKeeps, PTL DEF EvalSpec
===============================================================================
