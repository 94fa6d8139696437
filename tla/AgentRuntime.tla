----------------------------- MODULE AgentRuntime -----------------------------
(***************************************************************************)
(* agents/base.py: BaseAgent.execute, its model calls and their metering,  *)
(* with pipeline/metrics.py.                                               *)
(*                                                                         *)
(* There is one object per agent, made at start-up.  The queue's worker    *)
(* thread executes it for webhooks, and the event-loop thread executes the *)
(* same object for a pipeline; the run id and the counters of a run are    *)
(* fields of the object.  Its SQLite connections are opened when they are  *)
(* first needed and refuse every thread but the one that opened them: the  *)
(* metrics code swallows that error, other code does not.  Some agents open *)
(* a database when they are made, on the event loop (registry.py).          *)
(*                                                                         *)
(* A write to metrics.db may be refused for reasons of its own (another    *)
(* program's lock, a full disk), and that error is swallowed as well.  A    *)
(* refused INSERT loses its row.  A refused COMMIT leaves the row in the    *)
(* open transaction of the object's connection, which refuses the writes of *)
(* all other objects until this object's next write commits it.             *)
(*                                                                         *)
(* An execution is known by the number of its run id, in order of issue.   *)
(***************************************************************************)
EXTENDS Naturals, FiniteSets

CONSTANTS
  Threads,     \* the threads that execute agents
  Agents,      \* the agent objects
  Uses,        \* Uses[t]: the agents that thread t executes
  Creator,     \* the thread that makes the agents: the event loop
  Eager,       \* the agents whose __init__ opens a database
  MaxRuns,     \* bound: executions
  MaxCalls,    \* the model calls of one run: agents make finitely many
  MaxRetries,  \* MAX_RETRIES: attempts of one model call
  MaxFaults    \* bound: writes that metrics.db refuses for reasons of its own

NoThread == "none"
NoAgent == "none"

ASSUME RuntimeAssumption ==
  /\ Uses \in [Threads -> SUBSET Agents]
  /\ NoThread \notin Threads
  /\ Creator \in Threads
  /\ Eager \subseteq Agents
  /\ MaxRuns \in Nat /\ MaxCalls \in Nat /\ MaxRetries \in Nat \ {0}
  /\ MaxFaults \in Nat

RunId == 1 .. MaxRuns
Verdicts == {"ok", "failed", "foreign"}

\* A row of table agent_runs or llm_calls.  by, and calls in llm_calls, are
\* history: the execution that wrote the row, and which of its answers.
Row == [table : {"agent_runs", "llm_calls"}, id : RunId, by : RunId, calls : Nat,
        success : BOOLEAN]
RunRow(id, by, calls, success) ==
  [table |-> "agent_runs", id |-> id, by |-> by, calls |-> calls, success |-> success]
CallRow(id, by, nth) ==
  [table |-> "llm_calls", id |-> id, by |-> by, calls |-> nth, success |-> TRUE]

VARIABLES
  pc,           \* each thread: idle, or where it is in execute
  agent,        \* the object each thread executes
  attempt,      \* attempt of the current model call
  verdict,      \* how run ended: ok, failed by itself, or foreign connection
  runId,        \* _run_id of each object, 0 before its first run
  runCalls,     \* _run_llm_calls of each object
  metricsHome,  \* the thread that opened the object's metrics connection
  wikiHome,     \* the thread that opened the object's other connections
  rows,         \* the committed rows of metrics.db
  held,         \* the rows in the open transaction of each object's connection
  locking,      \* the objects whose connection is in a transaction that writes
  lost,         \* history: the rows whose INSERT was refused or rolled back
  faults,       \* writes refused so far for reasons of metrics.db's own
  issued,       \* run ids issued
  own,          \* history: the run id of each thread's execution
  tried,        \* history: the model calls of that execution
  made,         \* history: the answered ones
  done          \* history: the executions that have ended

metrics == <<metricsHome, rows, held, locking, lost, faults>>
vars == <<pc, agent, attempt, verdict, runId, runCalls, metrics, wikiHome, issued, own,
          tried, made, done>>

Init ==
  /\ pc = [t \in Threads |-> "idle"]
  /\ agent = [t \in Threads |-> NoAgent]
  /\ attempt = [t \in Threads |-> 0]
  /\ verdict = [t \in Threads |-> "ok"]
  /\ runId = [a \in Agents |-> 0]
  /\ runCalls = [a \in Agents |-> 0]
  /\ metricsHome = [a \in Agents |-> NoThread]
  /\ wikiHome = [a \in Agents |-> IF a \in Eager THEN Creator ELSE NoThread]
  /\ rows = {} /\ held = [a \in Agents |-> {}] /\ locking = {}
  /\ lost = {} /\ faults = 0
  /\ issued = 0
  /\ own = [t \in Threads |-> 0]
  /\ tried = [t \in Threads |-> 0]
  /\ made = [t \in Threads |-> 0]
  /\ done = {}

Goto(t, from, to) == pc[t] = from /\ pc' = [pc EXCEPT ![t] = to]

\* check_same_thread: a connection serves the thread that opens it.
Usable(home, t) == home \in {NoThread, t}

-----------------------------------------------------------------------------
\* Variant: execute does not reset the counters.
ExecuteKeepingCounters(t, a) ==
  /\ a \in Uses[t] /\ issued < MaxRuns
  /\ Goto(t, "idle", "run")
  /\ issued' = issued + 1
  /\ agent' = [agent EXCEPT ![t] = a]
  /\ runId' = [runId EXCEPT ![a] = issued']
  /\ own' = [own EXCEPT ![t] = issued']
  /\ UNCHANGED <<attempt, verdict, runCalls, metrics, wikiHome, tried, made, done>>

\* The head of execute: a new run id, and the counters of the object to zero.
Execute(t, a) ==
  /\ a \in Uses[t] /\ issued < MaxRuns
  /\ Goto(t, "idle", "run")
  /\ issued' = issued + 1
  /\ agent' = [agent EXCEPT ![t] = a]
  /\ runId' = [runId EXCEPT ![a] = issued']
  /\ runCalls' = [runCalls EXCEPT ![a] = 0]
  /\ own' = [own EXCEPT ![t] = issued']
  /\ UNCHANGED <<attempt, verdict, metrics, wikiHome, tried, made, done>>

\* call_claude, called by the agent's run.
CallModel(t) ==
  /\ Goto(t, "run", "attempt")
  /\ tried[t] < MaxCalls
  /\ tried' = [tried EXCEPT ![t] = @ + 1]
  /\ attempt' = [attempt EXCEPT ![t] = 1]
  /\ UNCHANGED <<agent, verdict, runId, runCalls, metrics, wikiHome, issued, own, made,
                 done>>

\* The call ends, and run goes on, or an exception that it does not catch
\* takes the thread to the except clause of execute.
ReturnsOrRaises(t) ==
  /\ \/ Goto(t, "attempt", "run") /\ UNCHANGED verdict
     \/ Goto(t, "attempt", "record") /\ verdict' = [verdict EXCEPT ![t] = "failed"]
  /\ attempt' = [attempt EXCEPT ![t] = 0]

-----------------------------------------------------------------------------
\* The rows of a table after some are written: run_id is UNIQUE in agent_runs,
\* and INSERT OR REPLACE removes the row that is in the way.
Over(old, new) ==
  {r \in old : \A n \in new : {r.table, n.table} = {"agent_runs"} => r.id # n.id} \cup new

\* Another object's connection is in a transaction: its lock refuses a's writes.
LockedOut(a) == locking \ {a} # {}

Refused == faults < MaxFaults /\ faults' = faults + 1

\* execute and commit both succeed, and take along what the connection held.
\* (track_prompt_version, after a call's row, may then be refused its commit.)
RowCommitted(t, a, row) ==
  /\ ~LockedOut(a)
  /\ metricsHome' = [metricsHome EXCEPT ![a] = t]
  /\ rows' = Over(rows, Over(held[a], {row}))
  /\ held' = [held EXCEPT ![a] = {}]
  /\ \/ locking' = {} /\ UNCHANGED faults
     \/ row.table = "llm_calls" /\ locking' = {a} /\ Refused
  /\ UNCHANGED lost

\* execute succeeds and commit is refused.
CommitRefused(t, a, row) ==
  /\ ~LockedOut(a) /\ Refused
  /\ metricsHome' = [metricsHome EXCEPT ![a] = t]
  /\ held' = [held EXCEPT ![a] = Over(@, {row})]
  /\ locking' = {a}
  /\ UNCHANGED <<rows, lost>>

\* execute is refused, or the connection cannot be opened; some errors roll
\* the connection's transaction back.
InsertRefused(t, a, row) ==
  /\ \/ LockedOut(a) /\ UNCHANGED <<held, locking, faults>> /\ lost' = lost \cup {row}
     \/ Refused /\ UNCHANGED <<held, locking>> /\ lost' = lost \cup {row}
     \/ /\ Refused /\ lost' = lost \cup {row} \cup held[a]
        /\ held' = [held EXCEPT ![a] = {}] /\ locking' = locking \ {a}
  /\ \/ metricsHome' = [metricsHome EXCEPT ![a] = t]
     \/ metricsHome[a] = NoThread /\ UNCHANGED metricsHome
  /\ UNCHANGED rows

\* A write through the object's metrics connection; its caller swallows every
\* error, also the one of a connection of another thread.
Written(t, a, row) ==
  \/ /\ Usable(metricsHome[a], t)
     /\ \/ RowCommitted(t, a, row) \/ CommitRefused(t, a, row) \/ InsertRefused(t, a, row)
  \/ ~Usable(metricsHome[a], t) /\ UNCHANGED metrics

\* record_llm_call, under the object's run id.
Meter(t, a) == Written(t, a, CallRow(runId[a], own[t], made[t] + 1))

\* Variant: an answer after a retry is counted and not metered.
AttemptAnswersFirstMetered(t) ==
  /\ ReturnsOrRaises(t)
  /\ runCalls' = [runCalls EXCEPT ![agent[t]] = @ + 1]
  /\ made' = [made EXCEPT ![t] = @ + 1]
  /\ IF attempt[t] = 1 THEN Meter(t, agent[t]) ELSE UNCHANGED metrics
  /\ UNCHANGED <<agent, runId, wikiHome, issued, own, tried, done>>

\* The provider answers: count the call in the object, meter it and return;
\* an answer without content raises after that, outside the retries.
AttemptAnswers(t) ==
  /\ ReturnsOrRaises(t)
  /\ runCalls' = [runCalls EXCEPT ![agent[t]] = @ + 1]
  /\ made' = [made EXCEPT ![t] = @ + 1]
  /\ Meter(t, agent[t])
  /\ UNCHANGED <<agent, runId, wikiHome, issued, own, tried, done>>

\* Variant: retries with no limit.
AttemptFailsForever(t) ==
  /\ pc[t] = "attempt"
  /\ attempt' = [attempt EXCEPT ![t] = IF @ = MaxRetries THEN 1 ELSE @ + 1]
  /\ UNCHANGED <<pc, agent, verdict, runId, runCalls, metrics, wikiHome, issued, own,
                 tried, made, done>>

\* A transient error: back off and try again, MaxRetries attempts in all.
AttemptFails(t) ==
  /\ pc[t] = "attempt" /\ attempt[t] < MaxRetries
  /\ attempt' = [attempt EXCEPT ![t] = @ + 1]
  /\ UNCHANGED <<pc, agent, verdict, runId, runCalls, metrics, wikiHome, issued, own,
                 tried, made, done>>

\* The last attempt fails, or an error is not worth a retry: call_claude
\* raises, and run goes on without an answer or lets the exception through.
CallRaises(t) ==
  /\ ReturnsOrRaises(t)
  /\ UNCHANGED <<agent, runId, runCalls, metrics, wikiHome, issued, own, tried, made,
                 done>>

\* run reads or writes the wiki, the event bus or a database of the agent: a
\* foreign connection raises, which ends the run (an agent that catches the
\* error goes on: a stutter).
UseWiki(t) ==
  LET a == agent[t] IN
  /\ pc[t] = "run"
  /\ \/ /\ Usable(wikiHome[a], t)
        /\ wikiHome' = [wikiHome EXCEPT ![a] = t]
        /\ UNCHANGED <<pc, verdict>>
     \/ /\ ~Usable(wikiHome[a], t)
        /\ pc' = [pc EXCEPT ![t] = "record"]
        /\ verdict' = [verdict EXCEPT ![t] = "foreign"]
        /\ UNCHANGED wikiHome
  /\ UNCHANGED <<agent, attempt, runId, runCalls, metrics, issued, own, tried, made,
                 done>>

\* run returns its result, or fails by an exception of its own: execute
\* makes a failed result of it.
RunEnds(t) ==
  /\ Goto(t, "run", "record")
  /\ \E v \in {"ok", "failed"} : verdict' = [verdict EXCEPT ![t] = v]
  /\ UNCHANGED <<agent, attempt, runId, runCalls, metrics, wikiHome, issued, own, tried,
                 made, done>>

\* _record_run_metrics writes the row of the run, from the object's fields.
RecordRun(t) ==
  LET a == agent[t] IN
  /\ Goto(t, "record", "log")
  /\ Written(t, a, RunRow(runId[a], own[t], runCalls[a], verdict[t] = "ok"))
  /\ UNCHANGED <<agent, attempt, verdict, runId, runCalls, wikiHome, issued, own, tried,
                 made, done>>

\* log_run appends a line with the object's counters and execute returns; or
\* the append raises, which execute lets through to its caller.
LogRun(t) ==
  /\ Goto(t, "log", "idle")
  /\ \E line \in {{}, {runCalls[agent[t]]}} :
       done' = done \cup {[id |-> own[t], calls |-> made[t], verdict |-> verdict[t],
                           logged |-> line]}
  /\ agent' = [agent EXCEPT ![t] = NoAgent]
  /\ verdict' = [verdict EXCEPT ![t] = "ok"]
  /\ own' = [own EXCEPT ![t] = 0]
  /\ tried' = [tried EXCEPT ![t] = 0]
  /\ made' = [made EXCEPT ![t] = 0]
  /\ UNCHANGED <<attempt, runId, runCalls, metrics, wikiHome, issued>>

-----------------------------------------------------------------------------
ExecuteStep(t) ==
  \/ CallModel(t) \/ AttemptAnswers(t) \/ AttemptFails(t) \/ CallRaises(t)
  \/ UseWiki(t) \/ RunEnds(t) \/ RecordRun(t) \/ LogRun(t)

Next == \E t \in Threads : ExecuteStep(t) \/ \E a \in Agents : Execute(t, a)

Spec == Init /\ [][Next]_vars

\* The threads are scheduled, and an attempt ends (the clients time out).
FairSpec == Spec /\ \A t \in Threads : WF_vars(ExecuteStep(t))

-----------------------------------------------------------------------------
(* Properties.                                                             *)

TypeOK ==
  /\ pc \in [Threads -> {"idle", "run", "attempt", "record", "log"}]
  /\ agent \in [Threads -> Agents \cup {NoAgent}]
  /\ attempt \in [Threads -> 0 .. MaxRetries]
  /\ verdict \in [Threads -> Verdicts]
  /\ runId \in [Agents -> 0 .. MaxRuns]
  /\ runCalls \in [Agents -> Nat]
  /\ metricsHome \in [Agents -> Threads \cup {NoThread}]
  /\ wikiHome \in [Agents -> Threads \cup {NoThread}]
  /\ rows \subseteq Row
  /\ held \in [Agents -> SUBSET Row]
  /\ locking \subseteq Agents
  /\ lost \subseteq Row
  /\ faults \in 0 .. MaxFaults
  /\ issued \in 0 .. MaxRuns
  /\ own \in [Threads -> 0 .. MaxRuns]
  /\ tried \in [Threads -> 0 .. MaxCalls]
  /\ made \in [Threads -> Nat]
  /\ done \subseteq [id : RunId, calls : Nat, verdict : Verdicts, logged : SUBSET Nat]

\* No two threads execute one object: what the metering relies on.
Unshared == \A s, t \in Threads : s # t => Uses[s] \cap Uses[t] = {}

\* The rows that were ever written: committed, in an open transaction, refused.
Attempted == rows \cup lost \cup UNION {held[a] : a \in Agents}
Entries(table, id) == {r \in Attempted : r.table = table /\ r.id = id}

\* Every execution that has ended wrote one row under its id, with its own
\* outcome and its own number of calls, which agent_runs has unless metrics.db
\* refused a write; and a log line, when the append did not raise, with that
\* number.
RunsRecorded ==
  \A d \in done :
    /\ Entries("agent_runs", d.id) = {RunRow(d.id, d.id, d.calls, d.verdict = "ok")}
    /\ faults = 0 => Entries("agent_runs", d.id) \subseteq rows
    /\ d.logged \subseteq {d.calls}

\* Each answer that a run has had is metered under its id, and nothing else is,
\* whatever was retried, given up or shared: llm_calls has these rows unless
\* metrics.db refused a write.
CallsMetered ==
  \A d \in done :
    /\ Entries("llm_calls", d.id) = {CallRow(d.id, d.id, n) : n \in 1 .. d.calls}
    /\ faults = 0 => Entries("llm_calls", d.id) \subseteq rows

\* A run fails for reasons of its own, never because of the thread it is on.
NoForeignFailure == \A d \in done : d.verdict # "foreign"

\* An execution ends, whatever fails: what TaskQueue assumes of handlers.
ExecutionEnds == \A t \in Threads : (pc[t] # "idle") ~> (pc[t] = "idle")
=============================================================================
