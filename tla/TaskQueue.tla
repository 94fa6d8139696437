------------------------------ MODULE TaskQueue ------------------------------
(***************************************************************************)
(* orchestrator/queue.py: the TaskQueue and its worker thread(s).          *)
(*                                                                         *)
(* Two kinds of thread touch the object.  The event-loop thread of the     *)
(* FastAPI application calls register_agent, start, enqueue, get_result    *)
(* and stop, one call at a time.  Every start that finds the queue stopped *)
(* creates a daemon thread that runs _process_loop; the loop is cut into   *)
(* the steps between which the other threads can be scheduled: the test of *)
(* _running, the blocking get, the registry lookup, the handler (which     *)
(* runs outside the lock) and the write of the result under the lock.      *)
(*                                                                         *)
(* A task is named by its position in the order of submission; what the    *)
(* code knows it by is the task_id, made of the agent's name and a time    *)
(* stamp.                                                                  *)
(***************************************************************************)
EXTENDS Naturals, Sequences

CONSTANTS
  Agents,        \* agent names a caller can submit a task for
  MaxTasks,      \* bound: tasks submitted
  MaxStarts,     \* bound: worker threads created; 1 = one lifespan of main.py
  SlowHandlers,  \* whether a handler may outlast the 5 s that stop waits
  MinClockStep   \* least advance of the time stamp between two submissions:
                 \* 1 = always distinct, 0 = a coarse clock may repeat

ASSUME QueueAssumption == /\ MaxTasks \in Nat
                          /\ MaxStarts \in Nat
                          /\ SlowHandlers \in BOOLEAN
                          /\ MinClockStep \in {0, 1}

Workers == 1 .. MaxStarts
TaskNo  == 1 .. MaxTasks
Outcomes == {"ok", "failed", "raised", "unknown_agent"}

VARIABLES
  registry,   \* _agent_registry: the agents that have a handler
  queue,      \* _queue: task numbers, oldest first
  running,    \* _running
  worker,     \* _worker: the last thread created, 0 for None
  results,    \* _results: from a task_id to the stored result
  main,       \* the event-loop thread: "idle", or "joining" inside stop
  pc,         \* where each worker thread is in _process_loop
  cur,        \* the local variable task of each worker, 0 for none
  outcome,    \* the handler's outcome on its way to _results
  clock,      \* the time stamp of the last submission
  submitted,  \* history: the agent and the task_id of every task
  finished    \* history: the tasks in the order of their answers

vars == <<registry, queue, running, worker, results, main, pc, cur, outcome,
          clock, submitted, finished>>

callerVars == <<registry, running, worker, main, clock, submitted>>

TaskIds == Agents \X Nat
Task == [agent : Agents, id : TaskIds]
Result == [task : TaskNo, outcome : Outcomes]

NoResults == [i \in {} |-> 0]

Init ==
  /\ registry = {}
  /\ queue = <<>>
  /\ running = FALSE
  /\ worker = 0
  /\ results = NoResults
  /\ main = "idle"
  /\ pc = [w \in Workers |-> "none"]
  /\ cur = [w \in Workers |-> 0]
  /\ outcome = [w \in Workers |-> "ok"]
  /\ clock = 0
  /\ submitted = <<>>
  /\ finished = <<>>

-----------------------------------------------------------------------------
(* Calls made by the event-loop thread.                                    *)

\* register_agent: register_all_agents makes these calls before the start.
RegisterAgent(a) ==
  /\ main = "idle" /\ ~running
  /\ a \notin registry
  /\ registry' = registry \cup {a}
  /\ UNCHANGED <<queue, running, worker, results, main, pc, cur, outcome,
                 clock, submitted, finished>>

\* AgentTask.__post_init__: the id is the agent's name and the time stamp.
TaskId(a, now) == <<a, now>>

\* enqueue: accepted whether or not a worker runs or the agent is known.
Enqueue(a, now) ==
  /\ main = "idle"
  /\ Len(submitted) < MaxTasks
  /\ clock' = now
  /\ submitted' = Append(submitted, [agent |-> a, id |-> TaskId(a, now)])
  /\ queue' = Append(queue, Len(submitted) + 1)
  /\ UNCHANGED <<registry, running, worker, results, main, pc, cur, outcome,
                 finished>>

\* Variant (not the code): start does not look at _running.
StartAgain ==
  /\ main = "idle"
  /\ worker < MaxStarts
  /\ running' = TRUE
  /\ worker' = worker + 1
  /\ pc' = [pc EXCEPT ![worker + 1] = "top"]
  /\ UNCHANGED <<registry, queue, results, main, cur, outcome, clock,
                 submitted, finished>>

\* start: returns at once when _running is set, else creates a new thread.
Start ==
  /\ main = "idle" /\ ~running
  /\ worker < MaxStarts
  /\ running' = TRUE
  /\ worker' = worker + 1
  /\ pc' = [pc EXCEPT ![worker + 1] = "top"]
  /\ UNCHANGED <<registry, queue, results, main, cur, outcome, clock,
                 submitted, finished>>

\* stop, first half: clear the flag and, if there is a thread, wait for it.
Stop ==
  /\ main = "idle"
  /\ worker # 0
  /\ running' = FALSE
  /\ main' = "joining"
  /\ UNCHANGED <<registry, queue, worker, results, pc, cur, outcome, clock,
                 submitted, finished>>

\* Variants (not the code): stop does not join; stop joins with no time-out.
JoinReturnsAtOnce ==
  /\ main = "joining"
  /\ main' = "idle"
  /\ UNCHANGED <<registry, queue, running, worker, results, pc, cur, outcome,
                 clock, submitted, finished>>
JoinReturnsAtExit == JoinReturnsAtOnce /\ pc[worker] = "exited"

\* stop, second half: join(timeout=5) returns because the thread has ended,
\* or because 5 s have passed, which only a handler can take: the get waits
\* at most 1 s and the other steps do not wait.
JoinReturns ==
  /\ main = "joining"
  /\ \/ pc[worker] = "exited"
     \/ SlowHandlers /\ pc[worker] = "handler"
  /\ main' = "idle"
  /\ UNCHANGED <<registry, queue, running, worker, results, pc, cur, outcome,
                 clock, submitted, finished>>

\* get_result: None until a result is stored under the task_id.
Found(id) == id \in DOMAIN results
GetResult(id) == IF Found(id) THEN results[id] ELSE [task |-> 0, outcome |-> "none"]

\* pending_count: does not count the task a worker holds.
PendingCount == Len(queue)

-----------------------------------------------------------------------------
(* _process_loop, run by worker w.                                         *)

Goto(w, from, to) == pc[w] = from /\ pc' = [pc EXCEPT ![w] = to]

\* Variant (not the code): the loop drains the queue before it obeys a stop.
LoopTestDraining(w) ==
  /\ Goto(w, "top", IF running \/ queue # <<>> THEN "get" ELSE "exited")
  /\ UNCHANGED <<callerVars, queue, results, cur, outcome, finished>>

\* while self._running
LoopTest(w) ==
  /\ Goto(w, "top", IF running THEN "get" ELSE "exited")
  /\ UNCHANGED <<callerVars, queue, results, cur, outcome, finished>>

\* Variant (not the code): a task that arrives after the stop is dropped.
TakeUnlessStopped(w) ==
  /\ Goto(w, "get", IF running THEN "lookup" ELSE "top")
  /\ queue # <<>>
  /\ cur' = [cur EXCEPT ![w] = IF running THEN Head(queue) ELSE 0]
  /\ queue' = Tail(queue)
  /\ UNCHANGED <<callerVars, results, outcome, finished>>

\* get: the wait for a task does not look at _running again.
Take(w) ==
  /\ Goto(w, "get", "lookup")
  /\ queue # <<>>
  /\ cur' = [cur EXCEPT ![w] = Head(queue)]
  /\ queue' = Tail(queue)
  /\ UNCHANGED <<callerVars, results, outcome, finished>>

\* queue.Empty after 1 s: continue.
TakeTimesOut(w) ==
  /\ Goto(w, "get", "top")
  /\ queue = <<>>
  /\ UNCHANGED <<callerVars, queue, results, cur, outcome, finished>>

Lookup(w) ==
  /\ \/ /\ Goto(w, "lookup", "handler")
        /\ submitted[cur[w]].agent \in registry
        /\ UNCHANGED outcome
     \/ /\ Goto(w, "lookup", "store")
        /\ submitted[cur[w]].agent \notin registry
        /\ outcome' = [outcome EXCEPT ![w] = "unknown_agent"]
  /\ UNCHANGED <<callerVars, queue, results, cur, finished>>

\* Variant (not the code): an exception of the handler ends the thread.
HandlerEndsUncaught(w) ==
  /\ \E o \in {"ok", "failed", "raised"} :
       /\ Goto(w, "handler", IF o = "raised" THEN "exited" ELSE "store")
       /\ outcome' = [outcome EXCEPT ![w] = o]
  /\ UNCHANGED <<callerVars, queue, results, cur, finished>>

\* handler(task) returns a result dict or raises; nothing bounds its run time.
HandlerEnds(w) ==
  /\ Goto(w, "handler", "store")
  /\ \E o \in {"ok", "failed", "raised"} : outcome' = [outcome EXCEPT ![w] = o]
  /\ UNCHANGED <<callerVars, queue, results, cur, finished>>

\* _results[task.task_id] = ..., under the lock: a write, or an overwrite.
StoredResults(id, r) ==
  [i \in DOMAIN results \cup {id} |-> IF i = id THEN r ELSE results[i]]

Store(w) ==
  /\ Goto(w, "store", "top")
  /\ results' = StoredResults(submitted[cur[w]].id,
                              [task |-> cur[w], outcome |-> outcome[w]])
  /\ finished' = Append(finished, cur[w])
  /\ cur' = [cur EXCEPT ![w] = 0]
  /\ outcome' = [outcome EXCEPT ![w] = "ok"]
  /\ UNCHANGED <<callerVars, queue>>

-----------------------------------------------------------------------------
LoopStep(w) == LoopTest(w) \/ Take(w) \/ TakeTimesOut(w) \/ Lookup(w) \/ Store(w)

Next ==
  \/ \E a \in Agents : RegisterAgent(a)
  \/ \E a \in Agents, step \in MinClockStep .. 1 : Enqueue(a, clock + step)
  \/ Start
  \/ Stop
  \/ JoinReturns
  \/ \E w \in Workers : LoopStep(w) \/ HandlerEnds(w)

Spec == Init /\ [][Next]_vars

\* The threads are scheduled, and a join returns when it may.
Fairness == /\ \A w \in Workers : WF_vars(LoopStep(w))
            /\ WF_vars(JoinReturns)

\* Agents end: base.py bounds the retries of a model call, and the clients
\* of the outside services have time-outs; the queue itself bounds nothing.
HandlersEnd == \A w \in Workers : WF_vars(HandlerEnds(w))

\* Handlers may hang for ever: the properties that need HandlersEnd say so.
HangSpec == Spec /\ Fairness

-----------------------------------------------------------------------------
(* Properties.                                                             *)

TypeOK ==
  /\ registry \in SUBSET Agents
  /\ queue \in Seq(TaskNo)
  /\ running \in BOOLEAN
  /\ worker \in 0 .. MaxStarts
  /\ main \in {"idle", "joining"}
  /\ pc \in [Workers -> {"none", "top", "get", "lookup", "handler", "store", "exited"}]
  /\ cur \in [Workers -> 0 .. MaxTasks]
  /\ outcome \in [Workers -> Outcomes]
  /\ clock \in Nat
  /\ submitted \in Seq(Task)
  /\ Len(submitted) <= MaxTasks
  /\ finished \in Seq(TaskNo)
  /\ DOMAIN results \in SUBSET TaskIds
  /\ \A i \in DOMAIN results : results[i] \in Result

Busy(w) == pc[w] \in {"lookup", "handler", "store"}
Queued(n) == \E i \in 1 .. Len(queue) : queue[i] = n
Held(n) == \E w \in Workers : cur[w] = n
Finished(n) == \E i \in 1 .. Len(finished) : finished[i] = n

\* Every accepted task is waiting, held by one worker or answered, and only
\* one of the three: no interleaving of the workers, of start and of stop
\* loses a task or has it processed twice.
EveryTaskOnce ==
  /\ \A n \in 1 .. Len(submitted) : Queued(n) \/ Held(n) \/ Finished(n)
  /\ \A n \in TaskNo : /\ ~(Queued(n) /\ Held(n))
                       /\ ~(Queued(n) /\ Finished(n))
                       /\ ~(Held(n) /\ Finished(n))
  /\ \A v, w \in Workers : cur[v] = cur[w] /\ cur[v] # 0 => v = w
  /\ \A i, j \in 1 .. Len(finished) : finished[i] = finished[j] => i = j

\* The header of queue.py: "Agents run one at a time".
OneAtATime == \A v, w \in Workers : Busy(v) /\ Busy(w) => v = w

\* The header again: "processes them FIFO"; the answers come in the order
\* of the submissions, with none left out.
AnswersInOrder == \A i \in 1 .. Len(finished) : finished[i] = i

\* What a caller reads under the id it was given is the answer to its own
\* task; it needs ids that differ (MinClockStep = 1).
AnswerIsOwn ==
  \A n \in TaskNo :
    Finished(n) => /\ Found(submitted[n].id)
                   /\ GetResult(submitted[n].id).task = n

\* A result, once a caller can read it, is never withdrawn or changed.
AnswerIsFinal ==
  [][\A id \in DOMAIN results : Found(id)' /\ GetResult(id)' = GetResult(id)]_vars

\* A stop is obeyed: whatever the number of tasks still queued, each worker
\* answers at most the one task it is taking or holds after the flag has been
\* cleared for the last time.
AtMostOneAnswerAfterStop ==
  \A k \in 0 .. MaxTasks :
    [](worker = MaxStarts /\ ~running /\ Len(finished) = k
         => [](Len(finished) <= k + worker))

\* While the queue runs, every task it accepted gets an answer, provided the
\* handlers end; a stop is the only excuse.
ServedUnlessStopped ==
  HandlersEnd => \A n \in TaskNo :
    (running /\ n <= Len(submitted)) ~> (Finished(n) \/ ~running)

\* stop returns to the event loop even when a handler hangs.
StopReturns == (main = "joining") ~> (main = "idle")

-----------------------------------------------------------------------------
(* While no handler outlasts a stop the queue implements the serial         *)
(* executor, across restarts too: a task is active from the moment a worker *)
(* takes it until its result is stored.                                     *)

Serial == INSTANCE SerialExecutor
            WITH accepted <- Len(submitted),
                 active   <- {cur[w] : w \in {v \in Workers : Busy(v)}},
                 answered <- finished

ImplementsSerial == Serial!Spec
=============================================================================
