-------------------------- MODULE AgentRuntimeProofs --------------------------
(***************************************************************************)
(* What AgentRuntime promises when no two threads execute one object and   *)
(* the agents that open a database when they are made run on the thread    *)
(* that made them, for any threads, agents and bounds.                     *)
(***************************************************************************)
EXTENDS AgentRuntime, TLAPS

\* The eager agents are executed by the thread that makes them.
EagerOnCreator == \A a \in Eager, t \in Threads : a \in Uses[t] => t = Creator

\* A connection in use was opened by the only thread that executes its agent.
Served(home) ==
  \A a \in Agents : home[a] # NoThread => \A t \in Threads : a \in Uses[t] => t = home[a]

Homes == Served(metricsHome) /\ Served(wikiHome)

\* The entries among some rows.
Under(S, table, id) == {r \in S : r.table = table /\ r.id = id}

\* The tables know only run ids that have been issued.
Issued ==
  /\ \A r \in Attempted : r.id <= issued
  /\ \A d \in done : d.id <= issued

\* No run has two rows in agent_runs, wherever they are.
Single ==
  \A r, s \in Attempted :
    {r.table, s.table} = {"agent_runs"} /\ r.id = s.id => r = s

\* Rows are missing only after a refusal.
Faultless == faults = 0 => lost = {} /\ locking = {} /\ \A a \in Agents : held[a] = {}

\* The rows of an execution with so many answers, and whether its row is written.
CallRows(id, n) == {CallRow(id, id, k) : k \in 1 .. n}
RunRows(id, n, v) == {RunRow(id, id, n, v = "ok")}

\* During an execution the object's fields are the execution's own.
Running(t) ==
  /\ agent[t] \in Uses[t]
  /\ own[t] \in 1 .. issued
  /\ verdict[t] # "foreign"
  /\ runId[agent[t]] = own[t]
  /\ runCalls[agent[t]] = made[t]
  /\ \A d \in done : d.id # own[t]
  /\ Entries("llm_calls", own[t]) = CallRows(own[t], made[t])
  /\ pc[t] = "log" => Entries("agent_runs", own[t]) = RunRows(own[t], made[t], verdict[t])
  /\ pc[t] # "log" => Entries("agent_runs", own[t]) = {}

\* An ended execution has left its rows, its line and no foreign failure.
Ended(d) ==
  /\ Entries("llm_calls", d.id) = CallRows(d.id, d.calls)
  /\ Entries("agent_runs", d.id) = RunRows(d.id, d.calls, d.verdict)
  /\ d.logged \subseteq {d.calls}
  /\ d.verdict # "foreign"

EndedInv == \A d \in done : Ended(d)

Distinct ==
  \A s, t \in Threads : s # t /\ pc[s] # "idle" /\ pc[t] # "idle" => own[s] # own[t]

RunsInv == \A t \in Threads : pc[t] # "idle" => Running(t)

\* An execution has an agent and a run id.
Started ==
  \A t \in Threads : pc[t] # "idle" =>
    agent[t] \in Agents /\ runId[agent[t]] \in RunId /\ own[t] \in RunId

TypeInv == TypeOK /\ Started

\* A thread that executes nothing has no locals.
Rested == \A t \in Threads : pc[t] = "idle" => made[t] = 0 /\ verdict[t] = "ok"

IInv ==
  /\ TypeInv /\ Rested /\ Homes /\ Issued /\ Single /\ Faultless
  /\ RunsInv /\ Distinct /\ EndedInv

\* What the properties say follows.
LEMMA Consequences == IInv => RunsRecorded /\ CallsMetered /\ NoForeignFailure
<1> SUFFICES ASSUME IInv, NEW d \in done
             PROVE  /\ Entries("agent_runs", d.id) = {RunRow(d.id, d.id, d.calls, d.verdict = "ok")}
                    /\ Entries("llm_calls", d.id) = {CallRow(d.id, d.id, n) : n \in 1 .. d.calls}
                    /\ d.logged \subseteq {d.calls}
                    /\ d.verdict # "foreign"
                    /\ faults = 0 => \A table : Entries(table, d.id) \subseteq rows
  BY DEF RunsRecorded, CallsMetered, NoForeignFailure
<1>1. Ended(d)
  BY DEF IInv, EndedInv
<1>2. ASSUME faults = 0 PROVE Attempted \subseteq rows
  BY <1>2 DEF IInv, Faultless, Attempted
<1> QED
  BY <1>1, <1>2 DEF Ended, CallRows, RunRows, Entries

-----------------------------------------------------------------------------
(* Type correctness needs no assumption on who executes what.              *)

LEMMA InitTypes == Init => TypeOK
<1> SUFFICES ASSUME Init PROVE TypeOK
  OBVIOUS
<1> USE RuntimeAssumption
<1>1. /\ pc \in [Threads -> {"idle", "run", "attempt", "record", "log"}]
      /\ agent \in [Threads -> Agents \cup {NoAgent}]
      /\ attempt \in [Threads -> 0 .. MaxRetries]
      /\ verdict \in [Threads -> Verdicts]
  BY DEF Init, Verdicts
<1>2. /\ runId \in [Agents -> 0 .. MaxRuns]
      /\ runCalls \in [Agents -> Nat]
      /\ metricsHome \in [Agents -> Threads \cup {NoThread}]
      /\ wikiHome \in [Agents -> Threads \cup {NoThread}]
  BY DEF Init
<1>3. /\ rows = {} /\ lost = {} /\ locking = {} /\ faults \in 0 .. MaxFaults
      /\ held \in [Agents -> SUBSET Row]
  BY DEF Init
<1>4. /\ issued \in 0 .. MaxRuns
      /\ own \in [Threads -> 0 .. MaxRuns]
      /\ tried \in [Threads -> 0 .. MaxCalls]
      /\ made \in [Threads -> Nat]
      /\ done = {}
  BY DEF Init
<1> QED
  BY <1>1, <1>2, <1>3, <1>4 DEF TypeOK

MetricsTypes ==
  /\ metricsHome \in [Agents -> Threads \cup {NoThread}]
  /\ rows \subseteq Row
  /\ held \in [Agents -> SUBSET Row]
  /\ locking \subseteq Agents
  /\ lost \subseteq Row
  /\ faults \in 0 .. MaxFaults

LEMMA RowTypes ==
  ASSUME NEW id \in RunId, NEW by \in RunId, NEW n \in Nat
  PROVE  CallRow(id, by, n) \in Row /\ \A b \in BOOLEAN : RunRow(id, by, n, b) \in Row
  BY DEF CallRow, RunRow, Row

LEMMA OverTypes == ASSUME NEW old, NEW new PROVE Over(old, new) \subseteq old \cup new
  BY DEF Over

LEMMA WriteTypes ==
  ASSUME MetricsTypes, NEW t \in Threads, NEW a \in Agents, NEW row \in Row, Written(t, a, row)
  PROVE  MetricsTypes'
<1> USE RuntimeAssumption DEF MetricsTypes
<1>1. CASE RowCommitted(t, a, row)
  <2>1. Over(rows, Over(held[a], {row})) \subseteq Row
    <3>1. Over(held[a], {row}) \subseteq Row
      BY OverTypes
    <3> QED
      BY <3>1, OverTypes
  <2>2. faults' \in 0 .. MaxFaults /\ locking' \subseteq Agents
    BY <1>1 DEF RowCommitted, Refused
  <2> QED
    BY <1>1, <2>1, <2>2 DEF RowCommitted
<1>2. CASE CommitRefused(t, a, row)
  <2>1. Over(held[a], {row}) \subseteq Row
    BY OverTypes
  <2>2. held' \in [Agents -> SUBSET Row]
    BY <1>2, <2>1 DEF CommitRefused
  <2>3. faults' \in 0 .. MaxFaults /\ metricsHome' \in [Agents -> Threads \cup {NoThread}]
    BY <1>2 DEF CommitRefused, Refused
  <2> QED
    BY <1>2, <2>2, <2>3 DEF CommitRefused
<1>3. CASE InsertRefused(t, a, row)
  <2>1. faults' \in 0 .. MaxFaults /\ metricsHome' \in [Agents -> Threads \cup {NoThread}]
    BY <1>3 DEF InsertRefused, Refused
  <2>2. held' \in [Agents -> SUBSET Row] /\ lost' \subseteq Row /\ locking' \subseteq Agents
    BY <1>3 DEF InsertRefused
  <2> QED
    BY <1>3, <2>1, <2>2 DEF InsertRefused
<1>4. CASE UNCHANGED metrics
  BY <1>4 DEF metrics
<1> QED
  BY <1>1, <1>2, <1>3, <1>4 DEF Written

LEMMA StepTypes == TypeInv /\ [Next]_vars => TypeOK'
<1> SUFFICES ASSUME TypeInv, [Next]_vars PROVE TypeOK'
  OBVIOUS
<1> USE RuntimeAssumption DEF TypeInv, TypeOK, metrics
<1>1. CASE UNCHANGED vars
  BY <1>1 DEF vars, metrics
<1>2. ASSUME NEW t \in Threads, NEW a \in Agents, Execute(t, a) PROVE TypeOK'
  <2>1. /\ pc' \in [Threads -> {"idle", "run", "attempt", "record", "log"}]
        /\ agent' \in [Threads -> Agents \cup {NoAgent}]
    BY <1>2 DEF Execute, Goto
  <2>2. issued' \in 0 .. MaxRuns
    BY <1>2 DEF Execute
  <2>3. /\ runId' \in [Agents -> 0 .. MaxRuns]
        /\ runCalls' \in [Agents -> Nat]
        /\ own' \in [Threads -> 0 .. MaxRuns]
    BY <1>2, <2>2 DEF Execute
  <2>4. UNCHANGED <<attempt, verdict, metrics, wikiHome, tried, made, done>>
    BY <1>2 DEF Execute
  <2> QED
    BY <2>1, <2>2, <2>3, <2>4 DEF metrics
<1>3. ASSUME NEW t \in Threads, CallModel(t) PROVE TypeOK'
  <2>1. pc' \in [Threads -> {"idle", "run", "attempt", "record", "log"}]
    BY <1>3 DEF CallModel, Goto
  <2>2. /\ tried' \in [Threads -> 0 .. MaxCalls]
        /\ attempt' \in [Threads -> 0 .. MaxRetries]
    BY <1>3 DEF CallModel
  <2> QED
    BY <1>3, <2>1, <2>2 DEF CallModel
<1>4. ASSUME NEW t \in Threads, ReturnsOrRaises(t)
      PROVE  /\ pc' \in [Threads -> {"idle", "run", "attempt", "record", "log"}]
             /\ attempt' \in [Threads -> 0 .. MaxRetries]
             /\ verdict' \in [Threads -> Verdicts]
  BY <1>4 DEF ReturnsOrRaises, Goto, Verdicts
<1>5. ASSUME NEW t \in Threads, AttemptAnswers(t) PROVE TypeOK'
  <2>1. ReturnsOrRaises(t)
    BY <1>5 DEF AttemptAnswers
  <2>2. pc[t] # "idle"
    BY <2>1 DEF ReturnsOrRaises, Goto
  <2>3. agent[t] \in Agents /\ runId[agent[t]] \in RunId
    BY <2>2 DEF Started
  <2>4. /\ runCalls' \in [Agents -> Nat]
        /\ made' \in [Threads -> Nat]
    BY <1>5, <2>3 DEF AttemptAnswers
  <2>5. CallRow(runId[agent[t]], own[t], made[t] + 1) \in Row
    BY <2>2, <2>3, RowTypes DEF Started
  <2>6. MetricsTypes'
    <3>1. MetricsTypes
      BY DEF MetricsTypes
    <3>2. Written(t, agent[t], CallRow(runId[agent[t]], own[t], made[t] + 1))
      BY <1>5 DEF AttemptAnswers, Meter
    <3> QED
      BY <2>3, <2>5, <3>1, <3>2, WriteTypes
  <2>7. UNCHANGED <<agent, runId, wikiHome, issued, own, tried, done>>
    BY <1>5 DEF AttemptAnswers
  <2> QED
    BY <1>4, <2>1, <2>4, <2>6, <2>7 DEF MetricsTypes
<1>6. ASSUME NEW t \in Threads, AttemptFails(t) PROVE TypeOK'
  <2>1. attempt' \in [Threads -> 0 .. MaxRetries]
    BY <1>6 DEF AttemptFails
  <2> QED
    BY <1>6, <2>1 DEF AttemptFails
<1>7. ASSUME NEW t \in Threads, CallRaises(t) PROVE TypeOK'
  BY <1>4, <1>7 DEF CallRaises
<1>8. ASSUME NEW t \in Threads, UseWiki(t) PROVE TypeOK'
  <2>1. /\ pc' \in [Threads -> {"idle", "run", "attempt", "record", "log"}]
        /\ verdict' \in [Threads -> Verdicts]
    BY <1>8 DEF UseWiki, Verdicts
  <2>2. wikiHome' \in [Agents -> Threads \cup {NoThread}]
    BY <1>8 DEF UseWiki
  <2>3. UNCHANGED <<agent, attempt, runId, runCalls, metrics, issued, own, tried, made,
                    done>>
    BY <1>8 DEF UseWiki
  <2> QED
    BY <2>1, <2>2, <2>3 DEF metrics
<1>9. ASSUME NEW t \in Threads, RunEnds(t) PROVE TypeOK'
  <2>1. /\ pc' \in [Threads -> {"idle", "run", "attempt", "record", "log"}]
        /\ verdict' \in [Threads -> Verdicts]
    BY <1>9 DEF RunEnds, Goto, Verdicts
  <2> QED
    BY <1>9, <2>1 DEF RunEnds
<1>10. ASSUME NEW t \in Threads, RecordRun(t) PROVE TypeOK'
  <2>1. pc' \in [Threads -> {"idle", "run", "attempt", "record", "log"}]
    BY <1>10 DEF RecordRun, Goto
  <2>2. pc[t] # "idle"
    BY <1>10 DEF RecordRun, Goto
  <2>3. agent[t] \in Agents /\ runId[agent[t]] \in RunId
    BY <2>2 DEF Started
  <2>4. RunRow(runId[agent[t]], own[t], runCalls[agent[t]], verdict[t] = "ok") \in Row
    <3>1. own[t] \in RunId /\ runCalls[agent[t]] \in Nat
      BY <2>2, <2>3 DEF Started
    <3>2. (verdict[t] = "ok") \in BOOLEAN
      OBVIOUS
    <3> QED
      BY <2>3, <3>1, <3>2, RowTypes
  <2>5. MetricsTypes'
    <3>1. MetricsTypes
      BY DEF MetricsTypes
    <3>2. Written(t, agent[t], RunRow(runId[agent[t]], own[t], runCalls[agent[t]],
                                      verdict[t] = "ok"))
      BY <1>10 DEF RecordRun
    <3> QED
      BY <2>3, <2>4, <3>1, <3>2, WriteTypes
  <2>6. UNCHANGED <<agent, attempt, verdict, runId, runCalls, wikiHome, issued, own, tried,
                    made, done>>
    BY <1>10 DEF RecordRun
  <2> QED
    BY <2>1, <2>5, <2>6 DEF MetricsTypes
<1>11. ASSUME NEW t \in Threads, LogRun(t) PROVE TypeOK'
  <2>1. /\ pc' \in [Threads -> {"idle", "run", "attempt", "record", "log"}]
        /\ agent' \in [Threads -> Agents \cup {NoAgent}]
        /\ verdict' \in [Threads -> Verdicts]
    BY <1>11 DEF LogRun, Goto, Verdicts
  <2>2. /\ own' \in [Threads -> 0 .. MaxRuns]
        /\ tried' \in [Threads -> 0 .. MaxCalls]
        /\ made' \in [Threads -> Nat]
    BY <1>11 DEF LogRun
  <2>3. pc[t] # "idle"
    BY <1>11 DEF LogRun, Goto
  <2>4. own[t] \in RunId /\ agent[t] \in Agents
    BY <2>3 DEF Started
  <2>5. ASSUME NEW line \in {{}, {runCalls[agent[t]]}}
        PROVE  [id |-> own[t], calls |-> made[t], verdict |-> verdict[t], logged |-> line]
                 \in [id : RunId, calls : Nat, verdict : Verdicts, logged : SUBSET Nat]
    BY <2>4
  <2>6. done' \subseteq [id : RunId, calls : Nat, verdict : Verdicts, logged : SUBSET Nat]
    BY <1>11, <2>5 DEF LogRun
  <2>7. UNCHANGED <<attempt, runId, runCalls, metrics, wikiHome, issued>>
    BY <1>11 DEF LogRun
  <2> QED
    BY <2>1, <2>2, <2>6, <2>7 DEF metrics
<1> QED
  BY <1>1, <1>2, <1>3, <1>5, <1>6, <1>7, <1>8, <1>9, <1>10, <1>11 DEF Next, ExecuteStep

LEMMA StepStarted == TypeInv /\ [Next]_vars => Started'
<1> SUFFICES ASSUME TypeInv, [Next]_vars, NEW s \in Threads, pc'[s] # "idle"
             PROVE  /\ agent'[s] \in Agents
                    /\ runId'[agent'[s]] \in RunId
                    /\ own'[s] \in RunId
  BY DEF Started
<1> USE RuntimeAssumption DEF TypeInv, TypeOK, Started
<1>1. CASE UNCHANGED vars
  BY <1>1 DEF vars
<1>2. ASSUME NEW t \in Threads, NEW a \in Agents, Execute(t, a)
      PROVE  agent'[s] \in Agents /\ runId'[agent'[s]] \in RunId /\ own'[s] \in RunId
  <2>1. issued' \in RunId
    BY <1>2 DEF Execute, RunId
  <2>2. CASE s = t
    BY <1>2, <2>1, <2>2 DEF Execute
  <2>3. CASE s # t
    BY <1>2, <2>1, <2>3 DEF Execute, Goto
  <2> QED
    BY <2>2, <2>3
<1>3. ASSUME NEW t \in Threads, ExecuteStep(t), ~LogRun(t)
      PROVE  /\ UNCHANGED <<agent, runId, own>>
             /\ pc[s] # "idle"
  <2>1. pc[t] # "idle"
    BY <1>3 DEF ExecuteStep, CallModel, AttemptAnswers, ReturnsOrRaises, AttemptFails,
                CallRaises, UseWiki, RunEnds, RecordRun, Goto
  <2>2. UNCHANGED <<agent, runId, own>>
    BY <1>3 DEF ExecuteStep, CallModel, AttemptAnswers, AttemptFails, CallRaises, UseWiki,
                RunEnds, RecordRun
  <2>3. pc[s] = pc'[s] \/ s = t
    BY <1>3 DEF ExecuteStep, CallModel, AttemptAnswers, ReturnsOrRaises, AttemptFails,
                CallRaises, UseWiki, RunEnds, RecordRun, Goto
  <2> QED
    BY <2>1, <2>2, <2>3
<1>4. ASSUME NEW t \in Threads, LogRun(t)
      PROVE  agent'[s] \in Agents /\ runId'[agent'[s]] \in RunId /\ own'[s] \in RunId
  <2>1. s # t
    BY <1>4 DEF LogRun, Goto
  <2> QED
    BY <1>4, <2>1 DEF LogRun, Goto
<1> QED
  BY <1>1, <1>2, <1>3, <1>4 DEF Next

\* Every variable keeps its type: whatever the agents, the threads and the
\* sharing between them, a run's row and its log carry an issued run id.
THEOREM RuntimeTypes == Spec => []TypeOK
<1>1. Init => TypeInv
  <2>1. Init => Started
    BY DEF Init, Started
  <2> QED
    BY <2>1, InitTypes DEF TypeInv
<1>2. TypeInv /\ [Next]_vars => TypeInv'
  BY StepTypes, StepStarted DEF TypeInv
<1>3. TypeInv => TypeOK
  BY DEF TypeInv
<1> QED
  BY <1>1, <1>2, <1>3, PTL DEF Spec

-----------------------------------------------------------------------------
(* Executions that do not share an object do not disturb each other.       *)

\* A step of t's execution touches its own object, its own rows and itself.
OnlyOwn(t) ==
  /\ \A s \in Threads \ {t} : /\ pc'[s] = pc[s] /\ agent'[s] = agent[s]
                              /\ own'[s] = own[s] /\ made'[s] = made[s]
                              /\ verdict'[s] = verdict[s]
  /\ \A a \in Agents \ {agent[t]} : runId'[a] = runId[a] /\ runCalls'[a] = runCalls[a]
  /\ Attempted \subseteq Attempted'
  /\ \A r \in Attempted' : r \in Attempted \/ r.id = own[t]
  /\ \A d \in done' : d \in done \/ d.id = own[t]
  /\ issued' = issued

LEMMA OtherEntries ==
  ASSUME NEW t \in Threads, OnlyOwn(t)
  PROVE  \A table, id : id # own[t] => Under(Attempted', table, id) = Entries(table, id)
  BY DEF OnlyOwn, Entries, Under

LEMMA OthersUndisturbed ==
  ASSUME Unshared, IInv, NEW t \in Threads, pc[t] # "idle", OnlyOwn(t),
         NEW s \in Threads, s # t, pc[s] # "idle"
  PROVE  Running(s)'
<1> USE RuntimeAssumption
<1>1. Running(s) /\ Running(t) /\ own[s] # own[t]
  BY DEF IInv, RunsInv, Distinct
<1>2. agent[s] \in Agents /\ agent[s] # agent[t]
  BY <1>1 DEF Running, Unshared, IInv, TypeInv, Started
<1>3. /\ pc'[s] = pc[s] /\ agent'[s] = agent[s] /\ own'[s] = own[s]
      /\ made'[s] = made[s] /\ verdict'[s] = verdict[s]
  BY DEF OnlyOwn
<1>4. runId'[agent[s]] = runId[agent[s]] /\ runCalls'[agent[s]] = runCalls[agent[s]]
  BY <1>2 DEF OnlyOwn
<1>5. \A table : Under(Attempted', table, own[s]) = Entries(table, own[s])
  BY <1>1, OtherEntries
<1>6. \A table : Entries(table, own[s])' = Entries(table, own[s])
  BY <1>3, <1>5 DEF Entries, Under
<1>7. \A d \in done' : d.id # own[s]
  BY <1>1 DEF OnlyOwn, Running
<1> QED
  BY <1>1, <1>3, <1>4, <1>5, <1>6, <1>7 DEF OnlyOwn, Running

LEMMA EndedUndisturbed ==
  ASSUME IInv, NEW t \in Threads, pc[t] # "idle", OnlyOwn(t), NEW d \in done
  PROVE  Ended(d)' /\ d.id <= issued'
<1>1. Ended(d) /\ d.id # own[t] /\ d.id <= issued
  BY DEF IInv, EndedInv, RunsInv, Running, Issued
<1>2. \A table : Entries(table, d.id)' = Entries(table, d.id)
  BY <1>1, OtherEntries DEF Entries, Under
<1> QED
  BY <1>1, <1>2 DEF Ended, OnlyOwn

\* A connection serves the thread that executes the agent, and none else.
LEMMA OwnConnection ==
  ASSUME Unshared, NEW home, NEW t \in Threads, NEW a \in Agents, a \in Uses[t],
         Served(home)
  PROVE  /\ Usable(home[a], t)
         /\ \A h : (h = [home EXCEPT ![a] = t]) /\ (home \in [Agents -> Threads \cup {NoThread}])
                     => Served(h)
  BY DEF Unshared, Usable, Served

LEMMA RestedStep == ASSUME TypeInv, Rested, [Next]_vars PROVE Rested'
<1> USE RuntimeAssumption DEF TypeInv, TypeOK, Rested
<1>1. CASE UNCHANGED vars
  BY <1>1 DEF vars
<1>2. ASSUME NEW t \in Threads, NEW a \in Agents, Execute(t, a) PROVE Rested'
  BY <1>2 DEF Execute, Goto
<1>3. ASSUME NEW t \in Threads, ExecuteStep(t), ~LogRun(t) PROVE Rested'
  <2>1. /\ pc'[t] # "idle"
        /\ \A s \in Threads \ {t} : pc'[s] = pc[s] /\ made'[s] = made[s] /\ verdict'[s] = verdict[s]
    BY <1>3 DEF ExecuteStep, CallModel, AttemptAnswers, ReturnsOrRaises, AttemptFails,
                CallRaises, UseWiki, RunEnds, RecordRun, Goto
  <2> QED
    BY <2>1
<1>4. ASSUME NEW t \in Threads, LogRun(t) PROVE Rested'
  BY <1>4 DEF LogRun, Goto
<1> QED
  BY <1>1, <1>2, <1>3, <1>4 DEF Next

-----------------------------------------------------------------------------
(* Whatever becomes of a write, it adds one row to those attempted.        *)

\* Rows that do not collide are only added.
LEMMA OverAdds ==
  ASSUME NEW old, NEW new,
         \A r \in old, n \in new : {r.table, n.table} = {"agent_runs"} => r.id # n.id \/ r = n
  PROVE  Over(old, new) = old \cup new
  BY DEF Over

LEMMA WriteAdds ==
  ASSUME MetricsTypes, Single, Faultless, NEW t \in Threads, NEW a \in Agents, NEW row,
         row.table = "agent_runs" => Entries("agent_runs", row.id) = {},
         Usable(metricsHome[a], t), Written(t, a, row)
  PROVE  /\ Attempted' = Attempted \cup {row}
         /\ Faultless'
         /\ metricsHome' = metricsHome \/ metricsHome' = [metricsHome EXCEPT ![a] = t]
<1> USE RuntimeAssumption DEF MetricsTypes
<1>1. \A r \in Attempted : {r.table, row.table} = {"agent_runs"} => r.id # row.id
  BY DEF Entries
<1>2. Over(held[a], {row}) = held[a] \cup {row}
  <2>1. held[a] \subseteq Attempted
    BY DEF Attempted
  <2> QED
    BY <1>1, <2>1, OverAdds
<1>3. Over(rows, held[a] \cup {row}) = rows \cup held[a] \cup {row}
  <2>1. rows \subseteq Attempted /\ held[a] \subseteq Attempted
    BY DEF Attempted
  <2>2. \A r \in rows, n \in held[a] \cup {row} :
          {r.table, n.table} = {"agent_runs"} => r.id # n.id \/ r = n
    BY <1>1, <2>1 DEF Single
  <2> QED
    BY <2>2, OverAdds, SMTT(30)
<1>4. faults \in Nat /\ (faults' = faults + 1 => faults' # 0)
  OBVIOUS
<1>5. CASE RowCommitted(t, a, row)
  <2>1. /\ rows' = rows \cup held[a] \cup {row}
        /\ held' = [held EXCEPT ![a] = {}]
        /\ UNCHANGED lost
        /\ (faults' = faults /\ locking' = {}) \/ faults' = faults + 1
        /\ metricsHome' = [metricsHome EXCEPT ![a] = t]
    BY <1>2, <1>3, <1>5 DEF RowCommitted, Refused
  <2>2. /\ held'[a] = {} /\ \A b \in Agents \ {a} : held'[b] = held[b]
    BY <2>1
  <2>3. Attempted' = Attempted \cup {row}
    BY <2>1, <2>2 DEF Attempted
  <2>4. Faultless'
    BY <1>4, <2>1, <2>2 DEF Faultless
  <2> QED
    BY <2>1, <2>3, <2>4
<1>6. CASE CommitRefused(t, a, row)
  <2>1. /\ held' = [held EXCEPT ![a] = held[a] \cup {row}]
        /\ UNCHANGED <<rows, lost>>
        /\ faults' = faults + 1
        /\ metricsHome' = [metricsHome EXCEPT ![a] = t]
    BY <1>2, <1>6 DEF CommitRefused, Refused
  <2>2. held'[a] = held[a] \cup {row} /\ \A b \in Agents \ {a} : held'[b] = held[b]
    BY <2>1
  <2>3. Attempted' = Attempted \cup {row}
    BY <2>1, <2>2 DEF Attempted
  <2> QED
    BY <1>4, <2>1, <2>3 DEF Faultless
<1>7. CASE InsertRefused(t, a, row)
  <2>1. metricsHome' = metricsHome \/ metricsHome' = [metricsHome EXCEPT ![a] = t]
    BY <1>7 DEF InsertRefused
  <2>2. CASE LockedOut(a) /\ UNCHANGED <<held, locking, faults>> /\ lost' = lost \cup {row}
    <3>1. faults # 0
      BY <2>2 DEF LockedOut, Faultless
    <3>2. Attempted' = Attempted \cup {row}
      BY <1>7, <2>2 DEF InsertRefused, Attempted
    <3> QED
      BY <2>1, <2>2, <3>1, <3>2 DEF Faultless
  <2>3. CASE faults' = faults + 1 /\ UNCHANGED held /\ lost' = lost \cup {row}
    <3>1. Attempted' = Attempted \cup {row}
      BY <1>7, <2>3 DEF InsertRefused, Attempted
    <3> QED
      BY <1>4, <2>1, <2>3, <3>1 DEF Faultless
  <2>4. CASE /\ faults' = faults + 1
             /\ held' = [held EXCEPT ![a] = {}] /\ lost' = lost \cup {row} \cup held[a]
    <3>1. held'[a] = {} /\ \A b \in Agents \ {a} : held'[b] = held[b]
      BY <2>4
    <3>2. Attempted' = Attempted \cup {row}
      BY <1>7, <2>4, <3>1 DEF InsertRefused, Attempted
    <3> QED
      BY <1>4, <2>1, <2>4, <3>2 DEF Faultless
  <2> QED
    BY <1>7, <2>2, <2>3, <2>4 DEF InsertRefused, Refused
<1> QED
  BY <1>5, <1>6, <1>7 DEF Written

\* A row under an id adds itself to the entries of its table under that id.
LEMMA EntriesAfter ==
  ASSUME NEW row, Attempted' = Attempted \cup {row}
  PROVE  /\ Under(Attempted', row.table, row.id) = Entries(row.table, row.id) \cup {row}
         /\ \A table : table # row.table =>
              Under(Attempted', table, row.id) = Entries(table, row.id)
  BY DEF Entries, Under

-----------------------------------------------------------------------------
\* What every step of an execution keeps of the execution itself.
Own(t) ==
  /\ OnlyOwn(t) /\ Homes' /\ Single' /\ Faultless'
  /\ pc'[t] # "idle" => Running(t)'

\* A row is new to agent_runs: no two rows of a run.
LEMMA StillSingle ==
  ASSUME Single, NEW row, Attempted' = Attempted \cup {row},
         row.table = "agent_runs" => Entries("agent_runs", row.id) = {}
  PROVE  Single'
  BY DEF Single, Entries

LEMMA StepOwn ==
  ASSUME Unshared, IInv, NEW t \in Threads, ExecuteStep(t), ~LogRun(t)
  PROVE  Own(t) /\ pc[t] # "idle" /\ pc'[t] # "idle" /\ done' = done
<1> USE RuntimeAssumption
<1>0. pc[t] # "idle"
  BY DEF ExecuteStep, CallModel, AttemptAnswers, ReturnsOrRaises, AttemptFails,
         CallRaises, UseWiki, RunEnds, RecordRun, Goto
<1>1. /\ TypeOK /\ Homes /\ Running(t) /\ Single /\ Faultless
      /\ agent[t] \in Agents /\ agent[t] \in Uses[t] /\ own[t] \in RunId
  BY <1>0 DEF IInv, TypeInv, Started, RunsInv, Running
<1>2. /\ pc \in [Threads -> {"idle", "run", "attempt", "record", "log"}]
      /\ verdict \in [Threads -> Verdicts]
      /\ made \in [Threads -> Nat]
      /\ runCalls \in [Agents -> Nat]
      /\ wikiHome \in [Agents -> Threads \cup {NoThread}]
      /\ MetricsTypes
  BY <1>1 DEF TypeOK, MetricsTypes
<1>3. Usable(metricsHome[agent[t]], t) /\ Usable(wikiHome[agent[t]], t)
  BY <1>1, OwnConnection DEF Homes
<1>4. ASSUME metricsHome' = metricsHome \/ metricsHome' = [metricsHome EXCEPT ![agent[t]] = t],
             wikiHome' = wikiHome \/ wikiHome' = [wikiHome EXCEPT ![agent[t]] = t]
      PROVE  Homes'
  <2>1. Served(metricsHome')
    BY <1>1, <1>2, <1>4, OwnConnection DEF Homes, MetricsTypes
  <2>2. Served(wikiHome')
    BY <1>1, <1>2, <1>4, OwnConnection DEF Homes
  <2> QED
    BY <2>1, <2>2 DEF Homes, Served
<1>5. ASSUME UNCHANGED metrics
      PROVE  /\ Attempted' = Attempted /\ Single' /\ Faultless'
             /\ UNCHANGED metricsHome
             /\ \A table : Under(Attempted', table, own[t]) = Entries(table, own[t])
  BY <1>1, <1>5 DEF metrics, Attempted, Single, Faultless, Entries, Under
<1>6. CASE CallModel(t) \/ AttemptFails(t) \/ CallRaises(t) \/ RunEnds(t)
  <2>1. /\ UNCHANGED <<agent, runId, runCalls, metrics, wikiHome, issued, own, made, done>>
        /\ \A s \in Threads \ {t} : pc'[s] = pc[s] /\ verdict'[s] = verdict[s]
        /\ pc[t] # "log" /\ pc'[t] \in {"run", "attempt", "record"}
        /\ verdict'[t] # "foreign"
    BY <1>1, <1>2, <1>6 DEF CallModel, AttemptFails, CallRaises, RunEnds, ReturnsOrRaises,
                            Goto, Running
  <2>2. OnlyOwn(t)
    BY <1>5, <2>1 DEF OnlyOwn
  <2>3. Running(t)'
    BY <1>1, <1>5, <2>1 DEF Running, Entries, Under
  <2> QED
    BY <1>0, <1>4, <1>5, <2>1, <2>2, <2>3 DEF Own
<1>7. CASE AttemptAnswers(t)
  <2> DEFINE row == CallRow(own[t], own[t], made[t] + 1)
  <2>1. /\ UNCHANGED <<agent, runId, wikiHome, issued, own, done>>
        /\ runCalls' = [runCalls EXCEPT ![agent[t]] = @ + 1]
        /\ made' = [made EXCEPT ![t] = @ + 1]
        /\ \A s \in Threads \ {t} : pc'[s] = pc[s] /\ verdict'[s] = verdict[s]
        /\ pc[t] = "attempt" /\ pc'[t] \in {"run", "record"}
        /\ verdict'[t] # "foreign"
    BY <1>1, <1>2, <1>7 DEF AttemptAnswers, ReturnsOrRaises, Goto, Running
  <2>2. Written(t, agent[t], row)
    BY <1>1, <1>7 DEF AttemptAnswers, Meter, Running
  <2>3. row.table = "llm_calls" /\ row.id = own[t]
    BY DEF CallRow
  <2> HIDE DEF row
  <2>4. /\ Attempted' = Attempted \cup {row} /\ Faultless'
        /\ metricsHome' = metricsHome \/ metricsHome' = [metricsHome EXCEPT ![agent[t]] = t]
    BY <1>1, <1>2, <1>3, <2>2, <2>3, WriteAdds
  <2>5. Single'
    BY <1>1, <2>3, <2>4, StillSingle
  <2>6. OnlyOwn(t)
    BY <1>1, <1>2, <2>1, <2>3, <2>4 DEF OnlyOwn
  <2>7. /\ Under(Attempted', "llm_calls", own[t]) = CallRows(own[t], made[t] + 1)
        /\ Under(Attempted', "agent_runs", own[t]) = {}
    <3>0. /\ Under(Attempted', row.table, row.id) = Entries(row.table, row.id) \cup {row}
          /\ \A table : table # row.table =>
               Under(Attempted', table, row.id) = Entries(table, row.id)
      BY <2>4, EntriesAfter
    <3>1. /\ Under(Attempted', "llm_calls", own[t]) = CallRows(own[t], made[t]) \cup {row}
          /\ Under(Attempted', "agent_runs", own[t]) = {}
      BY <1>1, <2>1, <2>3, <3>0 DEF Running
    <3>2. CallRows(own[t], made[t]) \cup {row} = CallRows(own[t], made[t] + 1)
      <4>1. made[t] \in Nat /\ 1 .. made[t] + 1 = (1 .. made[t]) \cup {made[t] + 1}
        BY <1>2
      <4> QED
        BY <4>1 DEF CallRows, row
    <3> QED
      BY <3>1, <3>2
  <2>8. Running(t)'
    <3>1. made'[t] = made[t] + 1 /\ runCalls'[agent[t]] = runCalls[agent[t]] + 1
      BY <1>1, <1>2, <2>1
    <3>2. /\ Entries("llm_calls", own[t])' = CallRows(own[t], made[t])'
          /\ Entries("agent_runs", own[t])' = {}
      BY <2>1, <2>7, <3>1 DEF Entries, Under, CallRows
    <3> QED
      BY <1>1, <2>1, <3>1, <3>2 DEF Running
  <2> QED
    BY <1>0, <1>4, <2>1, <2>4, <2>5, <2>6, <2>8 DEF Own
<1>8. CASE UseWiki(t)
  <2>1. /\ UNCHANGED <<pc, verdict, agent, runId, runCalls, metrics, issued, own, made, done>>
        /\ wikiHome' = [wikiHome EXCEPT ![agent[t]] = t]
        /\ pc[t] = "run"
    BY <1>3, <1>8 DEF UseWiki
  <2>2. OnlyOwn(t)
    BY <1>5, <2>1 DEF OnlyOwn
  <2>3. Running(t)'
    BY <1>1, <1>5, <2>1 DEF Running, Entries, Under
  <2> QED
    BY <1>0, <1>4, <1>5, <2>1, <2>2, <2>3 DEF Own
<1>9. CASE RecordRun(t)
  <2> DEFINE row == RunRow(own[t], own[t], made[t], verdict[t] = "ok")
  <2>1. /\ UNCHANGED <<agent, verdict, runId, runCalls, wikiHome, issued, own, made, done>>
        /\ \A s \in Threads \ {t} : pc'[s] = pc[s]
        /\ pc[t] = "record" /\ pc'[t] = "log"
    BY <1>2, <1>9 DEF RecordRun, Goto
  <2>2. Written(t, agent[t], row)
    BY <1>1, <1>9 DEF RecordRun, Running
  <2>3. /\ row.table = "agent_runs" /\ row.id = own[t]
        /\ {row} = RunRows(own[t], made[t], verdict[t])
    BY DEF RunRow, RunRows
  <2>4. Entries("agent_runs", own[t]) = {}
    BY <1>1, <2>1 DEF Running
  <2> HIDE DEF row
  <2>5. /\ Attempted' = Attempted \cup {row} /\ Faultless'
        /\ metricsHome' = metricsHome \/ metricsHome' = [metricsHome EXCEPT ![agent[t]] = t]
    BY <1>1, <1>2, <1>3, <2>2, <2>3, <2>4, WriteAdds
  <2>6. Single'
    BY <1>1, <2>3, <2>4, <2>5, StillSingle
  <2>7. OnlyOwn(t)
    BY <2>1, <2>3, <2>5 DEF OnlyOwn
  <2>8. /\ Under(Attempted', "agent_runs", own[t]) = RunRows(own[t], made[t], verdict[t])
        /\ Under(Attempted', "llm_calls", own[t]) = Entries("llm_calls", own[t])
    <3>1. /\ Under(Attempted', row.table, row.id) = Entries(row.table, row.id) \cup {row}
          /\ \A table : table # row.table =>
               Under(Attempted', table, row.id) = Entries(table, row.id)
      BY <2>5, EntriesAfter
    <3>2. Under(Attempted', "llm_calls", own[t]) = Entries("llm_calls", own[t])
      BY <2>3, <3>1
    <3>3. Under(Attempted', "agent_runs", own[t]) = {row}
      BY <2>3, <2>4, <3>1
    <3> QED
      BY <2>3, <3>2, <3>3
  <2>9. Running(t)'
    <3>1. /\ Entries("agent_runs", own[t])' = RunRows(own[t], made[t], verdict[t])'
          /\ Entries("llm_calls", own[t])' = Entries("llm_calls", own[t])
      BY <2>1, <2>8 DEF Entries, Under, RunRows
    <3>2. CallRows(own[t], made[t])' = CallRows(own[t], made[t])
      BY <2>1 DEF CallRows
    <3> QED
      BY <1>1, <2>1, <3>1, <3>2 DEF Running
  <2> QED
    BY <1>0, <1>4, <2>1, <2>5, <2>6, <2>7, <2>9 DEF Own
<1> QED
  BY <1>6, <1>7, <1>8, <1>9 DEF ExecuteStep

-----------------------------------------------------------------------------
(* The inductive invariant.                                                *)

\* What is left of IInv beside the types and idle threads.
Rest == Homes /\ Issued /\ Single /\ Faultless /\ RunsInv /\ Distinct /\ EndedInv

LEMMA InitHolds == ASSUME EagerOnCreator, Init PROVE IInv
<1> USE RuntimeAssumption
<1>1. TypeInv
  BY InitTypes DEF TypeInv, Started, Init
<1>2. Homes
  BY DEF Homes, Served, Init, EagerOnCreator
<1>3. Attempted = {} /\ done = {}
  BY DEF Init, Attempted
<1>4. Issued /\ Single /\ EndedInv
  BY <1>3 DEF Issued, Single, EndedInv
<1>5. Rested /\ Faultless /\ RunsInv /\ Distinct
  BY DEF Init, Rested, Faultless, RunsInv, Distinct
<1> QED
  BY <1>1, <1>2, <1>4, <1>5 DEF IInv

\* A new execution has a fresh run id and an object with counters at zero.
LEMMA ExecuteKeeps ==
  ASSUME Unshared, IInv, NEW t \in Threads, NEW a \in Agents, Execute(t, a)
  PROVE  Rest'
<1> USE RuntimeAssumption
<1>1. /\ issued \in Nat /\ issued < MaxRuns
      /\ issued' = issued + 1
      /\ a \in Uses[t]
      /\ pc[t] = "idle"
      /\ UNCHANGED <<verdict, metrics, wikiHome, made, done>>
  BY DEF Execute, Goto, IInv, TypeInv, TypeOK
<1>2. /\ pc'[t] = "run" /\ agent'[t] = a /\ own'[t] = issued + 1
      /\ runId'[a] = issued + 1 /\ runCalls'[a] = 0
      /\ \A s \in Threads \ {t} : pc'[s] = pc[s] /\ agent'[s] = agent[s] /\ own'[s] = own[s]
      /\ \A b \in Agents \ {a} : runId'[b] = runId[b] /\ runCalls'[b] = runCalls[b]
  BY DEF Execute, Goto, IInv, TypeInv, TypeOK
<1>3. made[t] = 0 /\ verdict[t] = "ok"
  BY <1>1 DEF IInv, Rested
<1>4. /\ UNCHANGED Attempted
      /\ \A table, id : Under(Attempted', table, id) = Entries(table, id)
      /\ Single' /\ Faultless'
  <2>1. UNCHANGED metrics /\ Single /\ Faultless
    BY <1>1 DEF IInv
  <2>2. UNCHANGED Attempted
    BY <2>1 DEF metrics, Attempted
  <2>3. Single' /\ Faultless'
    BY <2>1, <2>2 DEF metrics, Single, Faultless
  <2> QED
    BY <2>2, <2>3 DEF Entries, Under
<1>5. /\ \A table : Entries(table, issued + 1) = {}
      /\ \A d \in done : d.id # issued + 1 /\ d.id <= issued'
      /\ \A r \in Attempted : r.id <= issued'
  <2>1. /\ \A d \in done : d.id \in Nat /\ d.id <= issued
        /\ \A r \in Attempted : r.id \in Nat /\ r.id <= issued
    BY DEF IInv, TypeInv, TypeOK, Issued, Attempted, Row, RunId
  <2> QED
    BY <1>1, <2>1 DEF Entries
<1>6. Running(t)'
  <2>1. \A table : Entries(table, own[t])' = {}
    BY <1>2, <1>4, <1>5 DEF Entries, Under
  <2>2. CallRows(own[t], made[t])' = {}
    <3>1. made'[t] = 0 /\ 1 .. 0 = {}
      BY <1>1, <1>3
    <3> QED
      BY <3>1 DEF CallRows
  <2>3. /\ verdict'[t] # "foreign" /\ own'[t] \in 1 .. issued'
        /\ runId'[a] = own'[t] /\ runCalls'[a] = made'[t]
        /\ \A d \in done' : d.id # own'[t]
    BY <1>1, <1>2, <1>3, <1>5
  <2> QED
    BY <1>1, <1>2, <2>1, <2>2, <2>3 DEF Running
<1>7. ASSUME NEW s \in Threads, s # t, pc[s] # "idle" PROVE Running(s)' /\ own'[s] # own'[t]
  <2>1. Running(s) /\ agent[s] \in Agents /\ agent[s] # a
    BY <1>1, <1>7 DEF IInv, RunsInv, Running, Unshared, TypeInv, Started
  <2>2. own[s] \in 1 .. issued /\ own'[s] = own[s]
    BY <1>2, <1>7, <2>1 DEF Running
  <2>3. \A table : Entries(table, own[s])' = Entries(table, own[s])
    BY <1>4, <2>2 DEF Entries, Under
  <2> QED
    BY <1>1, <1>2, <1>7, <2>1, <2>2, <2>3 DEF Running
<1>8. RunsInv' /\ Distinct'
  BY <1>2, <1>6, <1>7 DEF RunsInv, Distinct, IInv
<1>9. Issued'
  BY <1>1, <1>4, <1>5 DEF Issued
<1>10. EndedInv'
  <2>1. \A d \in done : \A table : Entries(table, d.id)' = Entries(table, d.id)
    BY <1>4 DEF Entries, Under
  <2> QED
    BY <1>1, <2>1 DEF EndedInv, Ended, IInv
<1>11. Homes'
  BY <1>1 DEF metrics, Homes, Served, IInv
<1> QED
  BY <1>4, <1>8, <1>9, <1>10, <1>11 DEF Rest

\* A step before the last: the rows of the ended executions stay.
LEMMA StepKeeps ==
  ASSUME Unshared, IInv, NEW t \in Threads, ExecuteStep(t), ~LogRun(t)
  PROVE  Rest'
<1> USE RuntimeAssumption
<1>1. /\ OnlyOwn(t) /\ Homes' /\ Single' /\ Faultless' /\ Running(t)'
      /\ pc[t] # "idle" /\ pc'[t] # "idle" /\ done' = done
  BY StepOwn DEF Own
<1>2. RunsInv'
  BY <1>1, OthersUndisturbed DEF RunsInv, OnlyOwn
<1>3. EndedInv' /\ \A d \in done' : d.id <= issued'
  BY <1>1, EndedUndisturbed DEF EndedInv
<1>4. own[t] <= issued /\ issued' = issued
  BY <1>1 DEF IInv, RunsInv, Running, OnlyOwn, TypeInv, TypeOK
<1>5. Issued'
  BY <1>1, <1>3, <1>4 DEF OnlyOwn, IInv, Issued
<1>6. own'[t] = own[t]
  BY <1>1 DEF ExecuteStep, CallModel, AttemptAnswers, AttemptFails, CallRaises, UseWiki,
              RunEnds, RecordRun
<1>7. Distinct'
  BY <1>1, <1>6 DEF Distinct, IInv, OnlyOwn
<1> QED
  BY <1>1, <1>2, <1>3, <1>5, <1>7 DEF Rest

\* The last step: the execution joins those that have ended, recorded.
LEMMA LogRunKeeps ==
  ASSUME Unshared, IInv, NEW t \in Threads, LogRun(t)
  PROVE  Rest'
<1> USE RuntimeAssumption
<1>0. PICK line \in {{}, {runCalls[agent[t]]}} :
        done' = done \cup {[id |-> own[t], calls |-> made[t], verdict |-> verdict[t],
                            logged |-> line]}
  BY DEF LogRun
<1> DEFINE e == [id |-> own[t], calls |-> made[t], verdict |-> verdict[t], logged |-> line]
<1>1. /\ pc[t] = "log"
      /\ done' = done \cup {e}
      /\ UNCHANGED <<runId, runCalls, metrics, wikiHome, issued>>
  BY <1>0 DEF LogRun, Goto
<1>2. /\ pc'[t] = "idle"
      /\ \A s \in Threads \ {t} : /\ pc'[s] = pc[s] /\ agent'[s] = agent[s]
                                  /\ own'[s] = own[s] /\ made'[s] = made[s]
                                  /\ verdict'[s] = verdict[s]
  BY DEF LogRun, Goto, IInv, TypeInv, TypeOK
<1>3. Running(t) /\ own[t] \in RunId
  BY <1>1 DEF IInv, RunsInv, TypeInv, Started
<1>4. /\ UNCHANGED Attempted /\ Single' /\ Faultless' /\ Homes'
      /\ \A table, id : Under(Attempted', table, id) = Entries(table, id)
  BY <1>1 DEF metrics, Attempted, Entries, Under, IInv, Single, Faultless, Homes, Served
<1>5. OnlyOwn(t)
  BY <1>1, <1>2, <1>4 DEF OnlyOwn
<1>6. RunsInv'
  BY <1>1, <1>2, <1>5, OthersUndisturbed DEF RunsInv
<1>7. Distinct'
  BY <1>2 DEF Distinct, IInv
<1>8. ASSUME NEW d \in done' PROVE Ended(d)' /\ d.id <= issued'
  <2>1. CASE d \in done
    BY <1>1, <1>5, <2>1, EndedUndisturbed
  <2>2. CASE d = e
    <3>1. own[t] <= issued
      BY <1>3 DEF Running, IInv, TypeInv, TypeOK
    <3>2. /\ d.id = own[t] /\ d.calls = made[t] /\ d.verdict = verdict[t]
          /\ d.logged \subseteq {runCalls[agent[t]]}
      BY <1>0, <2>2
    <3>3. \A table : Entries(table, d.id)' = Entries(table, own[t])
      BY <1>4, <3>2 DEF Entries, Under
    <3> QED
      BY <1>1, <1>3, <3>1, <3>2, <3>3 DEF Running, Ended
  <2> QED
    BY <1>1, <2>1, <2>2
<1>9. Issued' /\ EndedInv'
  BY <1>1, <1>4, <1>8 DEF Issued, EndedInv, IInv
<1> QED
  BY <1>4, <1>6, <1>7, <1>9 DEF Rest

LEMMA NextKeeps == ASSUME Unshared, IInv, [Next]_vars PROVE IInv'
<1>1. TypeInv'
  BY StepTypes, StepStarted DEF IInv, TypeInv
<1>2. Rested'
  BY RestedStep DEF IInv
<1>3. Rest'
  <2>1. CASE UNCHANGED vars
    <3>1. UNCHANGED Attempted
      BY <2>1 DEF vars, metrics, Attempted
    <3>2. RunsInv' /\ EndedInv'
      BY <2>1, <3>1 DEF vars, IInv, RunsInv, Running, EndedInv, Ended, Entries
    <3> QED
      BY <2>1, <3>2 DEF vars, metrics, IInv, Rest, Homes, Served, Issued, Single, Faultless,
                        Distinct, Attempted
  <2>2. ASSUME NEW t \in Threads, NEW a \in Agents, Execute(t, a) PROVE Rest'
    BY <2>2, ExecuteKeeps
  <2>3. ASSUME NEW t \in Threads, ExecuteStep(t) PROVE Rest'
    BY <2>3, StepKeeps, LogRunKeeps
  <2> QED
    BY <2>1, <2>2, <2>3 DEF Next
<1> QED
  BY <1>1, <1>2, <1>3 DEF IInv, Rest

LEMMA IInvHolds == ASSUME Unshared, EagerOnCreator PROVE Spec => []IInv
<1>1. Init => IInv
  BY InitHolds
<1>2. IInv /\ [Next]_vars => IInv'
  BY NextKeeps
<1> QED
  BY <1>1, <1>2, PTL DEF Spec

\* If no two threads execute one object, and eager agents stay on the thread
\* that made them, every execution that has ended has its own row, which only
\* a refusal of metrics.db keeps out of agent_runs, and its own log line.
THEOREM EveryRunRecorded ==
  ASSUME Unshared, EagerOnCreator PROVE Spec => []RunsRecorded
<1>1. IInv => RunsRecorded
  BY Consequences
<1> QED
  BY <1>1, IInvHolds, PTL

\* Under the same conditions each answer of a run is metered under its id,
\* once, and only a refusal of metrics.db keeps its row out of llm_calls.
THEOREM EveryCallMetered ==
  ASSUME Unshared, EagerOnCreator PROVE Spec => []CallsMetered
<1>1. IInv => CallsMetered
  BY Consequences
<1> QED
  BY <1>1, IInvHolds, PTL

\* Under the same conditions no run fails because of the thread it is on.
THEOREM NoRunFailsByThread ==
  ASSUME Unshared, EagerOnCreator PROVE Spec => []NoForeignFailure
<1>1. IInv => NoForeignFailure
  BY Consequences
<1> QED
  BY <1>1, IInvHolds, PTL
=============================================================================
