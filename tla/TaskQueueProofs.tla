--------------------------- MODULE TaskQueueProofs ---------------------------
(***************************************************************************)
(* Theorems about TaskQueue, for every set of agents and every number of   *)
(* tasks and of starts.  The inductive invariant comes in three layers:    *)
(* types with the discipline of a worker's local variable, the queue as    *)
(* the suffix of the submissions, and the whereabouts of every task taken. *)
(***************************************************************************)
EXTENDS TaskQueue, FiniteSetTheorems, TLAPS

\* A worker has a task in its hands exactly in the three steps after the get.
CurBusy == \A w \in Workers : (cur[w] # 0) <=> Busy(w)

\* Threads are created in order.
ThreadsInOrder == \A w \in Workers : w > worker => pc[w] = "none"

\* A task number in the queue or in a worker's hands is that of a submission.
Submissions == /\ \A i \in 1 .. Len(queue) : queue[i] <= Len(submitted)
               /\ \A w \in Workers : cur[w] <= Len(submitted)

TypeInv == TypeOK /\ CurBusy /\ ThreadsInOrder /\ Submissions

\* How many tasks the workers have taken from the queue.
Taken == Len(submitted) - Len(queue)

\* The queue holds the tasks that were submitted last, oldest first.
QueueIsSuffix == /\ Len(queue) <= Len(submitted)
                 /\ \A i \in 1 .. Len(queue) : queue[i] = Taken + i

\* A task that was taken is in one place only.
Whereabouts ==
  /\ \A w \in Workers : cur[w] <= Taken
  /\ \A i \in 1 .. Len(finished) : finished[i] <= Taken
  /\ \A n \in 1 .. Taken : Held(n) \/ Finished(n)
  /\ \A v, w \in Workers : cur[v] = cur[w] /\ cur[v] # 0 => v = w
  /\ \A i, j \in 1 .. Len(finished) : finished[i] = finished[j] => i = j
  /\ \A w \in Workers, i \in 1 .. Len(finished) : cur[w] # finished[i]

IInv == TypeInv /\ QueueIsSuffix /\ Whereabouts

-----------------------------------------------------------------------------
LEMMA InitTypeInv == Init => TypeInv
<1> SUFFICES ASSUME Init PROVE TypeInv
  OBVIOUS
<1> USE QueueAssumption DEF Init
<1>1. DOMAIN results = {}
  BY DEF NoResults
<1>2. queue \in Seq(TaskNo) /\ submitted \in Seq(Task) /\ finished \in Seq(TaskNo)
  OBVIOUS
<1>3. outcome \in [Workers -> Outcomes]
  BY DEF Outcomes
<1>4. Len(submitted) <= MaxTasks
  OBVIOUS
<1>5. DOMAIN results \in SUBSET TaskIds /\ \A i \in DOMAIN results : results[i] \in Result
  BY <1>1
<1>6. /\ pc \in [Workers -> {"none", "top", "get", "lookup", "handler", "store", "exited"}]
      /\ cur \in [Workers -> 0 .. MaxTasks]
  OBVIOUS
<1>7. TypeOK
  <2>1. /\ registry \in SUBSET Agents
        /\ worker \in 0 .. MaxStarts
        /\ main \in {"idle", "joining"}
        /\ clock \in Nat
    OBVIOUS
  <2>2. running \in BOOLEAN
    BY Zenon
  <2>3. QED
    BY <1>2, <1>3, <1>4, <1>5, <1>6, <2>1, <2>2 DEF TypeOK
<1>8. CurBusy /\ ThreadsInOrder /\ Submissions
  BY DEF CurBusy, Busy, ThreadsInOrder, Submissions
<1>9. QED
  BY <1>7, <1>8 DEF TypeInv

\* One step of every operation keeps the types and the discipline of cur.
LEMMA NextTypeInv == TypeInv /\ [Next]_vars => TypeInv'
<1> SUFFICES ASSUME TypeInv, [Next]_vars PROVE TypeInv'
  OBVIOUS
<1> USE QueueAssumption DEF TypeInv, TypeOK, CurBusy, Busy, ThreadsInOrder, Submissions
<1>1. ASSUME NEW a \in Agents, RegisterAgent(a) PROVE TypeInv'
  BY <1>1 DEF RegisterAgent
<1>2. ASSUME NEW a \in Agents, NEW step \in MinClockStep .. 1, Enqueue(a, clock + step)
      PROVE TypeInv'
  <2>1. clock + step \in Nat
    OBVIOUS
  <2>2. [agent |-> a, id |-> TaskId(a, clock + step)] \in Task
    BY <2>1 DEF TaskId, Task, TaskIds
  <2>3. Len(submitted) + 1 \in TaskNo
    BY <1>2 DEF Enqueue, TaskNo
  <2>4. TypeOK'
    BY <1>2, <2>1, <2>2, <2>3 DEF Enqueue
  <2>5. (CurBusy /\ ThreadsInOrder)'
    BY <1>2 DEF Enqueue
  <2>6. Submissions'
    <3>1. /\ queue' = Append(queue, Len(submitted) + 1)
          /\ Len(submitted') = Len(submitted) + 1
          /\ cur' = cur
      BY <1>2 DEF Enqueue
    <3>2. /\ Len(queue') = Len(queue) + 1
          /\ queue'[Len(queue) + 1] = Len(submitted) + 1
          /\ \A i \in 1 .. Len(queue) : queue'[i] = queue[i]
      BY <3>1
    <3>3. ASSUME NEW i \in 1 .. Len(queue') PROVE queue'[i] <= Len(submitted')
      <4>1. i \in 1 .. Len(queue) \/ i = Len(queue) + 1
        BY <3>2
      <4>2. CASE i = Len(queue) + 1
        BY <4>2, <3>1, <3>2
      <4>3. CASE i \in 1 .. Len(queue)
        <5>1. queue[i] \in Nat /\ queue[i] <= Len(submitted)
          BY <4>3 DEF TaskNo
        <5>2. QED
          BY <5>1, <4>3, <3>1, <3>2
      <4>4. QED
        BY <4>1, <4>2, <4>3
    <3>4. \A w \in Workers : cur'[w] <= Len(submitted')
      BY <3>1
    <3>5. QED
      BY <3>3, <3>4
  <2>7. QED
    BY <2>4, <2>5, <2>6
<1>3. CASE Start
  <2>1. TypeOK'
    BY <1>3 DEF Start, Workers
  <2>2. (CurBusy /\ ThreadsInOrder /\ Submissions)'
    BY <1>3 DEF Start, Workers
  <2>3. QED
    BY <2>1, <2>2
<1>4. CASE Stop
  BY <1>4 DEF Stop
<1>5. CASE JoinReturns
  BY <1>5 DEF JoinReturns
<1>6. ASSUME NEW w \in Workers, LoopTest(w) PROVE TypeInv'
  BY <1>6 DEF LoopTest, Goto, callerVars
<1>7. ASSUME NEW w \in Workers, Take(w) PROVE TypeInv'
  BY <1>7 DEF Take, Goto, callerVars, TaskNo
<1>8. ASSUME NEW w \in Workers, TakeTimesOut(w) PROVE TypeInv'
  BY <1>8 DEF TakeTimesOut, Goto, callerVars
<1>9. ASSUME NEW w \in Workers, Lookup(w) PROVE TypeInv'
  BY <1>9 DEF Lookup, Goto, callerVars, Outcomes
<1>10. ASSUME NEW w \in Workers, HandlerEnds(w) PROVE TypeInv'
  BY <1>10 DEF HandlerEnds, Goto, callerVars, Outcomes
<1>11. ASSUME NEW w \in Workers, Store(w) PROVE TypeInv'
  <2> DEFINE r == [task |-> cur[w], outcome |-> outcome[w]]
             id == submitted[cur[w]].id
  <2>1. cur[w] \in TaskNo
    BY <1>11 DEF Store, Goto, TaskNo
  <2>2. r \in Result
    BY <2>1 DEF Result
  <2>3. id \in TaskIds
    <3>1. submitted[cur[w]] \in Task
      BY <2>1 DEF TaskNo
    <3>2. QED
      BY <3>1 DEF Task
  <2>4. results' = StoredResults(id, r)
    BY <1>11 DEF Store
  <2>5. DOMAIN results' \in SUBSET TaskIds /\ \A i \in DOMAIN results' : results'[i] \in Result
    BY <2>2, <2>3, <2>4 DEF StoredResults
  <2>6. finished' \in Seq(TaskNo)
    BY <1>11, <2>1 DEF Store
  <2>7. QED
    BY <1>11, <2>5, <2>6 DEF Store, Goto, callerVars, Outcomes
<1>12. CASE UNCHANGED vars
  BY <1>12 DEF vars
<1>13. QED
  BY <1>1, <1>2, <1>3, <1>4, <1>5, <1>6, <1>7, <1>8, <1>9, <1>10, <1>11, <1>12
     DEF Next, LoopStep

\* Every state is well typed.
THEOREM TypeCorrect == Spec => []TypeOK
<1>1. TypeInv => TypeOK
  BY DEF TypeInv
<1>2. QED
  BY <1>1, InitTypeInv, NextTypeInv, PTL DEF Spec

-----------------------------------------------------------------------------
(* The queue and the whereabouts of the tasks taken from it.               *)

LEMMA InitPlaces == Init => QueueIsSuffix /\ Whereabouts
  BY QueueAssumption DEF Init, QueueIsSuffix, Whereabouts, Taken, Held, Finished

\* Steps that touch neither the queue nor a worker's task nor the answers.
LEMMA PlacesUnchanged ==
  ASSUME QueueIsSuffix, Whereabouts,
         UNCHANGED <<queue, cur, finished, submitted>>
  PROVE  QueueIsSuffix' /\ Whereabouts'
  BY DEF QueueIsSuffix, Whereabouts, Taken, Held, Finished

LEMMA EnqueuePlaces ==
  ASSUME TypeInv, QueueIsSuffix, Whereabouts,
         NEW a \in Agents, NEW now \in Nat, Enqueue(a, now)
  PROVE  QueueIsSuffix' /\ Whereabouts'
<1>1. /\ queue \in Seq(TaskNo) /\ submitted \in Seq(Task)
      /\ queue' = Append(queue, Len(submitted) + 1)
      /\ submitted' = Append(submitted, [agent |-> a, id |-> TaskId(a, now)])
      /\ UNCHANGED <<cur, finished>>
  BY DEF TypeInv, TypeOK, Enqueue
<1>2. /\ Len(queue') = Len(queue) + 1 /\ Len(submitted') = Len(submitted) + 1
      /\ Len(queue) \in Nat /\ Len(submitted) \in Nat
  BY <1>1
<1>3. Taken' = Taken
  BY <1>2 DEF Taken
<1>4. ASSUME NEW i \in 1 .. Len(queue') PROVE queue'[i] = Taken' + i
  <2>1. CASE i = Len(queue) + 1
    BY <2>1, <1>1, <1>2, <1>3 DEF Taken
  <2>2. CASE i \in 1 .. Len(queue)
    BY <2>2, <1>1, <1>2, <1>3 DEF QueueIsSuffix
  <2>3. QED
    BY <2>1, <2>2, <1>2
<1>5. QueueIsSuffix'
  BY <1>2, <1>4 DEF QueueIsSuffix
<1>6. Whereabouts'
  BY <1>1, <1>3 DEF Whereabouts, Held, Finished
<1>7. QED
  BY <1>5, <1>6

\* The task taken is the oldest one that nobody has taken before.
LEMMA TakeNext ==
  ASSUME TypeInv, QueueIsSuffix, NEW w \in Workers, Take(w)
  PROVE  /\ Taken \in Nat
         /\ Taken' = Taken + 1
         /\ cur' = [cur EXCEPT ![w] = Taken + 1]
         /\ cur[w] = 0
         /\ QueueIsSuffix'
<1>1. /\ queue \in Seq(TaskNo) /\ submitted \in Seq(Task) /\ queue # <<>>
      /\ queue' = Tail(queue) /\ submitted' = submitted
      /\ cur' = [cur EXCEPT ![w] = Head(queue)]
  BY DEF TypeInv, TypeOK, Take, callerVars
<1>2. /\ Len(queue) \in Nat \ {0} /\ Len(submitted) \in Nat
      /\ Len(queue') = Len(queue) - 1
      /\ \A i \in 1 .. Len(queue') : queue'[i] = queue[i + 1]
      /\ Head(queue) = queue[1]
  BY <1>1
<1>3. Taken \in Nat /\ Taken' = Taken + 1
  BY <1>1, <1>2 DEF Taken, QueueIsSuffix
<1>4. Head(queue) = Taken + 1
  BY <1>2, <1>3 DEF QueueIsSuffix
<1>5. cur[w] = 0
  BY DEF TypeInv, CurBusy, Busy, Take, Goto
<1>6. QueueIsSuffix'
  BY <1>1, <1>2, <1>3 DEF QueueIsSuffix
<1>7. QED
  BY <1>1, <1>3, <1>4, <1>5, <1>6

LEMMA TakePlaces ==
  ASSUME TypeInv, QueueIsSuffix, Whereabouts, NEW w \in Workers, Take(w)
  PROVE  Whereabouts'
<1>1. /\ Taken \in Nat /\ Taken' = Taken + 1 /\ cur[w] = 0
      /\ cur' = [cur EXCEPT ![w] = Taken + 1]
  BY TakeNext
<1>2. /\ finished' = finished /\ finished \in Seq(TaskNo)
      /\ cur \in [Workers -> 0 .. MaxTasks]
  BY DEF TypeInv, TypeOK, Take
<1>3. cur'[w] = Taken + 1 /\ \A v \in Workers : v # w => cur'[v] = cur[v]
  BY <1>1, <1>2
<1>4. \A v \in Workers : cur[v] \in Nat /\ cur[v] <= Taken
  BY <1>2, QueueAssumption DEF Whereabouts
<1>5. \A i \in 1 .. Len(finished) : finished[i] \in Nat /\ finished[i] <= Taken
  <2>1. \A i \in 1 .. Len(finished) : finished[i] \in TaskNo
    BY <1>2
  <2>2. QED
    BY <2>1 DEF Whereabouts, TaskNo
<1>6. \A v \in Workers : cur'[v] <= Taken'
  BY <1>1, <1>3, <1>4
<1>7. \A n \in 1 .. Taken' : Held(n)' \/ Finished(n)'
  <2> SUFFICES ASSUME NEW n \in 1 .. Taken' PROVE Held(n)' \/ Finished(n)'
    OBVIOUS
  <2>1. CASE n = Taken + 1
    BY <2>1, <1>3 DEF Held
  <2>2. CASE n \in 1 .. Taken
    <3>1. CASE Finished(n)
      BY <3>1, <1>2 DEF Finished
    <3>2. CASE Held(n)
      <4>1. PICK v \in Workers : cur[v] = n
        BY <3>2 DEF Held
      <4>2. v # w
        BY <4>1, <2>2, <1>1
      <4>3. cur'[v] = n
        BY <4>1, <4>2, <1>3
      <4>4. QED
        BY <4>3 DEF Held
    <3>3. QED
      BY <2>2, <3>1, <3>2 DEF Whereabouts
  <2>3. QED
    BY <2>1, <2>2, <1>1
<1>8. \A v, u \in Workers : cur'[v] = cur'[u] /\ cur'[v] # 0 => v = u
  BY <1>1, <1>3, <1>4 DEF Whereabouts
<1>9. \A v \in Workers, i \in 1 .. Len(finished') : cur'[v] # finished'[i]
  BY <1>1, <1>2, <1>3, <1>5 DEF Whereabouts
<1>10. \A i \in 1 .. Len(finished') : finished'[i] <= Taken'
  BY <1>1, <1>2, <1>5
<1>11. \A i, j \in 1 .. Len(finished') : finished'[i] = finished'[j] => i = j
  BY <1>2 DEF Whereabouts
<1>12. QED
  BY <1>6, <1>7, <1>8, <1>9, <1>10, <1>11 DEF Whereabouts

LEMMA StorePlaces ==
  ASSUME TypeInv, QueueIsSuffix, Whereabouts, NEW w \in Workers, Store(w)
  PROVE  QueueIsSuffix' /\ Whereabouts'
<1>1. /\ finished' = Append(finished, cur[w]) /\ finished \in Seq(TaskNo)
      /\ cur' = [cur EXCEPT ![w] = 0] /\ cur \in [Workers -> 0 .. MaxTasks]
      /\ queue' = queue /\ submitted' = submitted
  BY DEF TypeInv, TypeOK, Store, callerVars
<1>2. cur[w] \in TaskNo
  BY <1>1, QueueAssumption DEF TypeInv, CurBusy, Busy, Store, Goto, TaskNo
<1>3. /\ Len(finished') = Len(finished) + 1 /\ Len(finished) \in Nat
      /\ finished'[Len(finished) + 1] = cur[w]
      /\ \A i \in 1 .. Len(finished) : finished'[i] = finished[i]
  BY <1>1, <1>2
<1>4. cur'[w] = 0 /\ \A v \in Workers : v # w => cur'[v] = cur[v]
  BY <1>1
<1>5. Taken' = Taken /\ Taken \in Nat
  <2>1. Len(queue) \in Nat /\ Len(submitted) \in Nat
    BY DEF TypeInv, TypeOK
  <2>2. QED
    BY <1>1, <2>1 DEF Taken, QueueIsSuffix
<1>6. QueueIsSuffix'
  BY <1>1, <1>5 DEF QueueIsSuffix
<1>7. \A v \in Workers : cur'[v] <= Taken'
  BY <1>4, <1>5 DEF Whereabouts
<1>8. \A i \in 1 .. Len(finished') : finished'[i] <= Taken'
  BY <1>3, <1>5 DEF Whereabouts
<1>9. \A n \in 1 .. Taken' : Held(n)' \/ Finished(n)'
  <2> SUFFICES ASSUME NEW n \in 1 .. Taken' PROVE Held(n)' \/ Finished(n)'
    OBVIOUS
  <2>1. CASE Finished(n)
    BY <2>1, <1>3 DEF Finished
  <2>2. CASE Held(n)
    <3>1. PICK v \in Workers : cur[v] = n
      BY <2>2 DEF Held
    <3>2. CASE v = w
      <4>1. finished'[Len(finished) + 1] = n /\ Len(finished) + 1 \in 1 .. Len(finished')
        BY <3>1, <3>2, <1>3
      <4>2. QED
        BY <4>1 DEF Finished
    <3>3. CASE v # w
      BY <3>1, <3>3, <1>4 DEF Held
    <3>4. QED
      BY <3>2, <3>3
  <2>3. QED
    BY <2>1, <2>2, <1>5 DEF Whereabouts
<1>10. \A v, u \in Workers : cur'[v] = cur'[u] /\ cur'[v] # 0 => v = u
  BY <1>4 DEF Whereabouts
<1>11. \A i, j \in 1 .. Len(finished') : finished'[i] = finished'[j] => i = j
  BY <1>3 DEF Whereabouts
<1>12. \A v \in Workers, i \in 1 .. Len(finished') : cur'[v] # finished'[i]
  <2> SUFFICES ASSUME NEW v \in Workers, NEW i \in 1 .. Len(finished')
               PROVE  cur'[v] # finished'[i]
    OBVIOUS
  <2>1. finished'[i] # 0
    <3>1. finished' \in Seq(TaskNo)
      BY <1>1, <1>2
    <3>2. finished'[i] \in TaskNo
      BY <3>1
    <3>3. QED
      BY <3>2 DEF TaskNo
  <2>2. CASE v = w
    BY <2>1, <2>2, <1>4
  <2>3. CASE v # w
    <3>1. cur'[v] = cur[v]
      BY <2>3, <1>4
    <3>2. CASE i = Len(finished) + 1
      BY <3>1, <3>2, <2>1, <2>3, <1>3 DEF Whereabouts
    <3>3. CASE i \in 1 .. Len(finished)
      BY <3>1, <3>3, <1>3 DEF Whereabouts
    <3>4. QED
      BY <3>2, <3>3, <1>3
  <2>4. QED
    BY <2>2, <2>3
<1>13. QED
  BY <1>6, <1>7, <1>8, <1>9, <1>10, <1>11, <1>12 DEF Whereabouts

LEMMA NextPlaces ==
  TypeInv /\ QueueIsSuffix /\ Whereabouts /\ [Next]_vars
    => QueueIsSuffix' /\ Whereabouts'
<1> SUFFICES ASSUME TypeInv, QueueIsSuffix, Whereabouts, [Next]_vars
             PROVE  QueueIsSuffix' /\ Whereabouts'
  OBVIOUS
<1>1. ASSUME NEW a \in Agents, RegisterAgent(a) PROVE QueueIsSuffix' /\ Whereabouts'
  BY <1>1, PlacesUnchanged DEF RegisterAgent
<1>2. ASSUME NEW a \in Agents, NEW step \in MinClockStep .. 1, Enqueue(a, clock + step)
      PROVE QueueIsSuffix' /\ Whereabouts'
  <2>1. clock + step \in Nat
    BY QueueAssumption DEF TypeInv, TypeOK
  <2>2. QED
    BY <1>2, <2>1, EnqueuePlaces
<1>3. CASE Start
  BY <1>3, PlacesUnchanged DEF Start
<1>4. CASE Stop
  BY <1>4, PlacesUnchanged DEF Stop
<1>5. CASE JoinReturns
  BY <1>5, PlacesUnchanged DEF JoinReturns
<1>6. ASSUME NEW w \in Workers, LoopTest(w) PROVE QueueIsSuffix' /\ Whereabouts'
  BY <1>6, PlacesUnchanged DEF LoopTest, callerVars
<1>7. ASSUME NEW w \in Workers, Take(w) PROVE QueueIsSuffix' /\ Whereabouts'
  BY <1>7, TakeNext, TakePlaces
<1>8. ASSUME NEW w \in Workers, TakeTimesOut(w) PROVE QueueIsSuffix' /\ Whereabouts'
  BY <1>8, PlacesUnchanged DEF TakeTimesOut, callerVars
<1>9. ASSUME NEW w \in Workers, Lookup(w) PROVE QueueIsSuffix' /\ Whereabouts'
  BY <1>9, PlacesUnchanged DEF Lookup, callerVars
<1>10. ASSUME NEW w \in Workers, HandlerEnds(w) PROVE QueueIsSuffix' /\ Whereabouts'
  BY <1>10, PlacesUnchanged DEF HandlerEnds, callerVars
<1>11. ASSUME NEW w \in Workers, Store(w) PROVE QueueIsSuffix' /\ Whereabouts'
  BY <1>11, StorePlaces
<1>12. CASE UNCHANGED vars
  BY <1>12, PlacesUnchanged DEF vars
<1>13. QED
  BY <1>1, <1>2, <1>3, <1>4, <1>5, <1>6, <1>7, <1>8, <1>9, <1>10, <1>11, <1>12
     DEF Next, LoopStep

LEMMA Inductive == Spec => []IInv
<1>1. Init => IInv
  BY InitTypeInv, InitPlaces DEF IInv
<1>2. IInv /\ [Next]_vars => IInv'
  BY NextTypeInv, NextPlaces DEF IInv
<1>3. QED
  BY <1>1, <1>2, PTL DEF Spec

\* Every accepted task is in exactly one place: waiting, held by one worker,
\* or answered once (stop, restart and any number of workers included).
THEOREM EachTaskProcessedOnce == Spec => []EveryTaskOnce
<1>1. IInv => EveryTaskOnce
  <2> SUFFICES ASSUME IInv PROVE EveryTaskOnce
    OBVIOUS
  <2>1. /\ Len(queue) \in Nat /\ Len(submitted) \in Nat /\ Taken \in Nat
        /\ Taken + Len(queue) = Len(submitted)
    BY DEF IInv, TypeInv, TypeOK, QueueIsSuffix, Taken
  <2>2. \A n \in Nat : Queued(n) <=> n \in Taken + 1 .. Len(submitted)
    <3> SUFFICES ASSUME NEW n \in Nat
                 PROVE  Queued(n) <=> n \in Taken + 1 .. Len(submitted)
      OBVIOUS
    <3>1. ASSUME NEW i \in 1 .. Len(queue), queue[i] = n
          PROVE  n \in Taken + 1 .. Len(submitted)
      BY <3>1, <2>1 DEF IInv, QueueIsSuffix
    <3>2. ASSUME n \in Taken + 1 .. Len(submitted) PROVE Queued(n)
      <4>1. n - Taken \in 1 .. Len(queue) /\ Taken + (n - Taken) = n
        BY <3>2, <2>1
      <4>2. queue[n - Taken] = Taken + (n - Taken)
        BY <4>1 DEF IInv, QueueIsSuffix
      <4>3. QED
        BY <4>1, <4>2 DEF Queued
    <3>3. QED
      BY <3>1, <3>2 DEF Queued
  <2>3. \A n \in Nat : Held(n) \/ Finished(n) => n <= Taken
    BY DEF IInv, Whereabouts, Held, Finished
  <2>4. ASSUME NEW n \in 1 .. Len(submitted) PROVE Queued(n) \/ Held(n) \/ Finished(n)
    BY <2>1, <2>2 DEF IInv, Whereabouts
  <2>5. ASSUME NEW n \in TaskNo
        PROVE  ~(Queued(n) /\ Held(n)) /\ ~(Queued(n) /\ Finished(n))
    <3>1. n \in Nat
      BY QueueAssumption DEF TaskNo
    <3>2. QED
      BY <3>1, <2>1, <2>2, <2>3
  <2>6. ASSUME NEW n \in TaskNo PROVE ~(Held(n) /\ Finished(n))
    BY DEF IInv, Whereabouts, Held, Finished
  <2>7. QED
    BY <2>4, <2>5, <2>6 DEF EveryTaskOnce, IInv, Whereabouts
<1>2. QED
  BY <1>1, Inductive, PTL

-----------------------------------------------------------------------------
(* The serial executor.  When no handler outlasts a stop, the thread that a *)
(* stop waited for has ended before the next one can be created.            *)

OneThread ==
  /\ \A w \in Workers : w < worker => pc[w] \in {"none", "exited"}
  /\ main = "idle" /\ ~running => \A w \in Workers : pc[w] \in {"none", "exited"}

\* With one thread at work, the answers are the tasks taken, in order.
InOrder ==
  /\ \A i \in 1 .. Len(finished) : finished[i] = i
  /\ \A w \in Workers : IF Busy(w) THEN Len(finished) + 1 = Taken /\ cur[w] = Taken
                                   ELSE cur[w] = 0
  /\ (\A w \in Workers : ~Busy(w)) => Len(finished) = Taken

SerialInv == OneThread /\ InOrder

LEMMA OneThreadAtWork ==
  ASSUME TypeInv, OneThread
  PROVE  \A w \in Workers : pc[w] \notin {"none", "exited"} => w = worker
  BY QueueAssumption DEF TypeInv, TypeOK, ThreadsInOrder, OneThread, Workers

LEMMA InitSerial == Init => SerialInv
  BY QueueAssumption DEF Init, SerialInv, OneThread, InOrder, Busy, Taken

LEMMA NextOneThread ==
  ASSUME SlowHandlers = FALSE, TypeInv, OneThread, [Next]_vars
  PROVE  OneThread'
<1> USE QueueAssumption DEF TypeInv, TypeOK, ThreadsInOrder, OneThread
<1>1. ASSUME NEW a \in Agents, RegisterAgent(a) PROVE OneThread'
  BY <1>1 DEF RegisterAgent
<1>2. ASSUME NEW a \in Agents, NEW step \in MinClockStep .. 1, Enqueue(a, clock + step)
      PROVE OneThread'
  BY <1>2 DEF Enqueue
<1>3. CASE Start
  BY <1>3 DEF Start, Workers
<1>4. CASE Stop
  BY <1>4 DEF Stop
<1>5. CASE JoinReturns
  <2>1. worker \in Workers => pc[worker] = "exited"
    BY <1>5 DEF JoinReturns
  <2>2. \A w \in Workers : pc'[w] \in {"none", "exited"}
    BY <1>5, <2>1 DEF JoinReturns, Workers
  <2>3. QED
    BY <1>5, <2>2 DEF JoinReturns
<1>6. ASSUME NEW w \in Workers, LoopStep(w) \/ HandlerEnds(w) PROVE OneThread'
  <2>1. pc[w] \notin {"none", "exited"} /\ UNCHANGED <<running, worker, main>>
    BY <1>6 DEF LoopStep, LoopTest, Take, TakeTimesOut, Lookup, Store, HandlerEnds,
                Goto, callerVars
  <2>2. \A v \in Workers : v # w => pc'[v] = pc[v]
    BY <1>6 DEF LoopStep, LoopTest, Take, TakeTimesOut, Lookup, Store, HandlerEnds, Goto
  <2>3. w = worker
    BY <2>1, OneThreadAtWork
  <2>4. QED
    BY <2>1, <2>2, <2>3 DEF Workers
<1>7. CASE UNCHANGED vars
  BY <1>7 DEF vars
<1>8. QED
  BY <1>1, <1>2, <1>3, <1>4, <1>5, <1>6, <1>7 DEF Next

\* Steps that leave the queue, the answers and the workers' hands alone.
LEMMA InOrderUnchanged ==
  ASSUME InOrder, UNCHANGED <<queue, cur, finished, submitted>>,
         \A w \in Workers : Busy(w)' = Busy(w)
  PROVE  InOrder'
  BY DEF InOrder, Taken

LEMMA NextInOrder ==
  ASSUME TypeInv, QueueIsSuffix, OneThread, InOrder, [Next]_vars
  PROVE  InOrder'
<1>1. ASSUME NEW a \in Agents, RegisterAgent(a) PROVE InOrder'
  BY <1>1, InOrderUnchanged DEF RegisterAgent, Busy
<1>2. ASSUME NEW a \in Agents, NEW step \in MinClockStep .. 1, Enqueue(a, clock + step)
      PROVE InOrder'
  <2>1. Taken' = Taken
    BY <1>2 DEF Enqueue, Taken, TypeInv, TypeOK
  <2>2. UNCHANGED <<cur, pc, finished>>
    BY <1>2 DEF Enqueue
  <2>3. QED
    BY <2>1, <2>2 DEF InOrder, Busy
<1>3. CASE Start
  <2>1. UNCHANGED <<queue, cur, finished, submitted>>
    BY <1>3 DEF Start
  <2>2. \A w \in Workers : Busy(w)' = Busy(w)
    BY <1>3, QueueAssumption
       DEF Start, Busy, TypeInv, TypeOK, ThreadsInOrder, Workers
  <2>3. QED
    BY <2>1, <2>2, InOrderUnchanged
<1>4. CASE Stop
  BY <1>4, InOrderUnchanged DEF Stop, Busy
<1>5. CASE JoinReturns
  BY <1>5, InOrderUnchanged DEF JoinReturns, Busy
<1>6. ASSUME NEW w \in Workers,
             LoopTest(w) \/ TakeTimesOut(w) \/ Lookup(w) \/ HandlerEnds(w)
      PROVE  InOrder'
  <2>1. UNCHANGED <<queue, cur, finished, submitted>>
    BY <1>6 DEF LoopTest, TakeTimesOut, Lookup, HandlerEnds, callerVars
  <2>2. Busy(w)' = Busy(w)
    BY <1>6 DEF LoopTest, TakeTimesOut, Lookup, HandlerEnds, Goto, Busy, TypeInv, TypeOK
  <2>3. \A v \in Workers : v # w => pc'[v] = pc[v]
    BY <1>6 DEF LoopTest, TakeTimesOut, Lookup, HandlerEnds, Goto, TypeInv, TypeOK
  <2>4. \A v \in Workers : Busy(v)' = Busy(v)
    BY <2>2, <2>3 DEF Busy
  <2>5. QED
    BY <2>1, <2>4, InOrderUnchanged
<1>7. ASSUME NEW w \in Workers, Take(w) PROVE InOrder'
  <2>1. /\ Taken \in Nat /\ Taken' = Taken + 1
        /\ cur' = [cur EXCEPT ![w] = Taken + 1]
    BY <1>7, TakeNext
  <2>2. finished' = finished
    BY <1>7 DEF Take
  <2>3. \A v \in Workers : Busy(v) => v = w
    BY <1>7, OneThreadAtWork DEF Take, Goto, Busy
  <2>4. ~Busy(w)
    BY <1>7 DEF Take, Goto, Busy
  <2>5. Len(finished) = Taken /\ \A v \in Workers : cur[v] = 0
    BY <2>3, <2>4 DEF InOrder
  <2>6. \A v \in Workers : IF v = w THEN Busy(v)' /\ cur'[v] = Taken'
                                    ELSE ~Busy(v)' /\ cur'[v] = 0
    BY <1>7, <2>1, <2>3, <2>5 DEF Take, Goto, Busy, TypeInv, TypeOK
  <2>7. QED
    BY <2>1, <2>2, <2>5, <2>6 DEF InOrder
<1>8. ASSUME NEW w \in Workers, Store(w) PROVE InOrder'
  <2>1. Busy(w) /\ Len(finished) + 1 = Taken /\ cur[w] = Taken
    BY <1>8 DEF Store, Goto, Busy, InOrder
  <2>2. /\ finished' = Append(finished, cur[w]) /\ finished \in Seq(TaskNo)
        /\ cur[w] \in TaskNo
    BY <1>8, QueueAssumption
       DEF Store, Goto, Busy, TypeInv, TypeOK, CurBusy, TaskNo
  <2>3. /\ Len(finished') = Taken
        /\ \A i \in 1 .. Len(finished') : finished'[i] = i
    <3>1. /\ Len(finished') = Len(finished) + 1 /\ Len(finished) \in Nat
          /\ finished'[Len(finished) + 1] = cur[w]
          /\ \A i \in 1 .. Len(finished) : finished'[i] = finished[i]
      BY <2>2
    <3>2. QED
      BY <3>1, <2>1 DEF InOrder
  <2>4. Taken' = Taken
    BY <1>8 DEF Store, callerVars, Taken
  <2>5. \A v \in Workers : Busy(v) => v = w
    BY <1>8, OneThreadAtWork DEF Store, Goto, Busy
  <2>6. \A v \in Workers : ~Busy(v)' /\ cur'[v] = 0
    BY <1>8, <2>5 DEF Store, Goto, Busy, TypeInv, TypeOK, InOrder
  <2>7. QED
    BY <2>3, <2>4, <2>6 DEF InOrder
<1>9. CASE UNCHANGED vars
  BY <1>9, InOrderUnchanged DEF vars, Busy
<1>10. QED
  BY <1>1, <1>2, <1>3, <1>4, <1>5, <1>6, <1>7, <1>8, <1>9 DEF Next, LoopStep

LEMMA InductiveSerial ==
  ASSUME SlowHandlers = FALSE
  PROVE  Spec => [](IInv /\ SerialInv)
<1>1. Init => SerialInv
  BY InitSerial
<1>2. IInv /\ SerialInv /\ [Next]_vars => SerialInv'
  BY NextOneThread, NextInOrder DEF IInv, SerialInv
<1>3. QED
  BY <1>1, <1>2, Inductive, PTL DEF Spec

\* Agents run one at a time as long as no handler outlasts a stop.
THEOREM RunsOneAtATime ==
  ASSUME SlowHandlers = FALSE
  PROVE  Spec => []OneAtATime
<1>1. IInv /\ SerialInv => OneAtATime
  BY OneThreadAtWork DEF IInv, SerialInv, OneAtATime, Busy
<1>2. QED
  BY <1>1, InductiveSerial, PTL

\* Under the same condition the answers come in the order of submission.
THEOREM AnswersFIFO ==
  ASSUME SlowHandlers = FALSE
  PROVE  Spec => []AnswersInOrder
<1>1. SerialInv => AnswersInOrder
  BY DEF SerialInv, InOrder, AnswersInOrder
<1>2. QED
  BY <1>1, InductiveSerial, PTL

\* Under the same condition every behaviour of the queue is one of the serial
\* executor: take begins a task, store answers it, enqueue accepts one, and
\* the other steps are invisible.
THEOREM QueueImplementsSerial ==
  ASSUME SlowHandlers = FALSE
  PROVE  Spec => ImplementsSerial
<1> DEFINE act == {cur[w] : w \in {v \in Workers : Busy(v)}}
<1>1. Init => Serial!Init
  BY DEF Init, Serial!Init, Busy
<1>2. IInv /\ SerialInv /\ IInv' /\ SerialInv' /\ [Next]_vars => [Serial!Next]_Serial!vars
  <2> SUFFICES ASSUME IInv, SerialInv, IInv', SerialInv', [Next]_vars
               PROVE  Serial!Next \/ UNCHANGED Serial!vars
    BY DEF Serial!vars
  <2> USE DEF IInv, SerialInv
  <2>1. \A w \in Workers : Busy(w) => w = worker
    BY OneThreadAtWork DEF Busy
  <2>2. ASSUME UNCHANGED <<submitted, cur, finished>>,
               \A w \in Workers : Busy(w)' = Busy(w)
        PROVE  UNCHANGED Serial!vars
    BY <2>2 DEF Serial!vars
  <2>3. ASSUME NEW a \in Agents, RegisterAgent(a) PROVE UNCHANGED Serial!vars
    BY <2>2, <2>3 DEF RegisterAgent, Busy
  <2>4. ASSUME NEW a \in Agents, NEW step \in MinClockStep .. 1, Enqueue(a, clock + step)
        PROVE  Serial!Accept
    <3>1. Len(submitted') = Len(submitted) + 1
      BY <2>4 DEF Enqueue, TypeInv, TypeOK
    <3>2. finished' = finished /\ act' = act
      BY <2>4 DEF Enqueue, Busy
    <3>3. QED
      BY <3>1, <3>2 DEF Serial!Accept
  <2>5. CASE Start
    <3>1. \A w \in Workers : Busy(w)' = Busy(w)
      BY <2>5, QueueAssumption
         DEF Start, Busy, TypeInv, TypeOK, ThreadsInOrder, Workers
    <3>2. QED
      BY <2>5, <3>1, <2>2 DEF Start
  <2>6. CASE Stop
    BY <2>2, <2>6 DEF Stop, Busy
  <2>7. CASE JoinReturns
    BY <2>2, <2>7 DEF JoinReturns, Busy
  <2>8. ASSUME NEW w \in Workers,
               LoopTest(w) \/ TakeTimesOut(w) \/ Lookup(w) \/ HandlerEnds(w)
        PROVE  UNCHANGED Serial!vars
    <3>1. UNCHANGED <<cur, finished, submitted>>
      BY <2>8 DEF LoopTest, TakeTimesOut, Lookup, HandlerEnds, callerVars
    <3>2. \A v \in Workers : Busy(v)' = Busy(v)
      BY <2>8 DEF LoopTest, TakeTimesOut, Lookup, HandlerEnds, Goto, Busy, TypeInv, TypeOK
    <3>3. QED
      BY <3>1, <3>2, <2>2
  <2>9. ASSUME NEW w \in Workers, Take(w) PROVE Serial!Begin
    <3>1. /\ Taken \in Nat /\ Taken' = Taken + 1
          /\ cur' = [cur EXCEPT ![w] = Taken + 1]
      BY <2>9, TakeNext
    <3>2. ~Busy(w) /\ Busy(w)' /\ \A v \in Workers : v # w => Busy(v)' = Busy(v)
      BY <2>9 DEF Take, Goto, Busy, TypeInv, TypeOK
    <3>3. \A v \in Workers : ~Busy(v)
      BY <2>9, <2>1, <3>2, OneThreadAtWork DEF Take, Goto
    <3>4. act = {} /\ Len(finished) = Taken
      BY <3>3 DEF InOrder
    <3>5. act' = {Taken + 1}
      <4>1. \A v \in Workers : Busy(v)' <=> v = w
        BY <3>2, <3>3
      <4>2. cur'[w] = Taken + 1
        BY <3>1 DEF TypeInv, TypeOK
      <4>3. QED
        BY <4>1, <4>2
    <3>6. Len(finished) < Len(submitted)
      <4>1. Len(queue) \in Nat \ {0} /\ Len(submitted) \in Nat
        BY <2>9 DEF Take, TypeInv, TypeOK
      <4>2. QED
        BY <3>4, <4>1 DEF Taken
    <3>7. finished' = finished /\ submitted' = submitted
      BY <2>9 DEF Take, callerVars
    <3>8. QED
      BY <3>4, <3>5, <3>6, <3>7 DEF Serial!Begin
  <2>10. ASSUME NEW w \in Workers, Store(w) PROVE Serial!Answer
    <3>1. Busy(w) /\ ~Busy(w)' /\ \A v \in Workers : v # w => Busy(v)' = Busy(v)
      BY <2>10 DEF Store, Goto, Busy, TypeInv, TypeOK
    <3>2. \A v \in Workers : Busy(v) <=> v = w
      BY <2>1, <3>1
    <3>3. act = {cur[w]}
      BY <3>2
    <3>4. act' = {}
      BY <3>1, <3>2
    <3>5. finished' = Append(finished, cur[w]) /\ submitted' = submitted
      BY <2>10 DEF Store, callerVars
    <3>6. QED
      BY <3>3, <3>4, <3>5 DEF Serial!Answer
  <2>11. CASE UNCHANGED vars
    BY <2>2, <2>11 DEF vars, Busy
  <2>12. QED
    BY <2>3, <2>4, <2>5, <2>6, <2>7, <2>8, <2>9, <2>10, <2>11
       DEF Next, LoopStep, Serial!Next
<1>3. QED
  BY <1>1, <1>2, InductiveSerial, PTL DEF Spec, ImplementsSerial, Serial!Spec

-----------------------------------------------------------------------------
(* The answers.  With a clock that advances between two submissions the     *)
(* task_ids differ, and a stored result is its own task's for good.         *)

\* No time stamp is ahead of the clock, and no two tasks share a task_id.
Stamped ==
  /\ \A n \in 1 .. Len(submitted) : submitted[n].id[2] <= clock
  /\ \A m, n \in 1 .. Len(submitted) : submitted[m].id = submitted[n].id => m = n

\* Results and answered tasks correspond, each under the task's own id.
Filed ==
  /\ \A id \in DOMAIN results : /\ results[id].task \in 1 .. Len(submitted)
                                /\ submitted[results[id].task].id = id
                                /\ Finished(results[id].task)
  /\ \A i \in 1 .. Len(finished) : /\ finished[i] \in 1 .. Len(submitted)
                                   /\ submitted[finished[i]].id \in DOMAIN results
                                   /\ results[submitted[finished[i]].id].task = finished[i]

LEMMA InitFiled == Init => Stamped /\ Filed
  BY DEF Init, Stamped, Filed, NoResults

LEMMA NextStamped ==
  ASSUME MinClockStep = 1, TypeInv, Stamped, [Next]_vars
  PROVE  Stamped'
<1>1. ASSUME NEW a \in Agents, NEW step \in MinClockStep .. 1, Enqueue(a, clock + step)
      PROVE Stamped'
  <2>1. /\ clock \in Nat /\ clock' = clock + 1 /\ submitted \in Seq(Task)
        /\ submitted' = Append(submitted, [agent |-> a, id |-> <<a, clock + 1>>])
    BY <1>1 DEF TypeInv, TypeOK, Enqueue, TaskId
  <2>2. /\ Len(submitted) \in Nat /\ Len(submitted') = Len(submitted) + 1
        /\ submitted'[Len(submitted) + 1].id = <<a, clock + 1>>
        /\ \A n \in 1 .. Len(submitted) : submitted'[n] = submitted[n]
    BY <2>1
  <2>3. \A n \in 1 .. Len(submitted) : submitted[n].id \in Agents \X Nat
    <3>1. \A n \in 1 .. Len(submitted) : submitted[n] \in Task
      BY <2>1
    <3>2. QED
      BY <3>1 DEF Task, TaskIds
  <2>4. \A n \in 1 .. Len(submitted) : /\ submitted[n].id[2] \in Nat
                                       /\ submitted[n].id[2] <= clock
    BY <2>3 DEF Stamped
  <2>5. \A n \in 1 .. Len(submitted) : submitted[n].id # <<a, clock + 1>>
    BY <2>1, <2>4
  <2>6. \A n \in 1 .. Len(submitted') : n \in 1 .. Len(submitted) \/ n = Len(submitted) + 1
    BY <2>2
  <2>7. \A n \in 1 .. Len(submitted') : submitted'[n].id[2] <= clock'
    BY <2>1, <2>2, <2>4, <2>6
  <2>8. \A m, n \in 1 .. Len(submitted') : submitted'[m].id = submitted'[n].id => m = n
    BY <2>2, <2>5, <2>6 DEF Stamped
  <2>9. QED
    BY <2>7, <2>8 DEF Stamped
<1>2. ASSUME UNCHANGED <<submitted, clock>> PROVE Stamped'
  BY <1>2 DEF Stamped
<1>3. QED
  BY <1>1, <1>2 DEF Next, LoopStep, RegisterAgent, Start, Stop, JoinReturns, LoopTest, Take,
     TakeTimesOut, Lookup, HandlerEnds, Store, callerVars, vars

\* A worker stores its result under an id that has none yet.
LEMMA StoreIsFirst ==
  ASSUME IInv, Stamped, Filed, NEW w \in Workers, Store(w)
  PROVE  /\ cur[w] \in 1 .. Len(submitted)
         /\ submitted[cur[w]].id \notin DOMAIN results
         /\ results' = StoredResults(submitted[cur[w]].id,
                                     [task |-> cur[w], outcome |-> outcome[w]])
         /\ finished' = Append(finished, cur[w])
         /\ UNCHANGED submitted
<1>1. cur[w] \in Nat /\ cur[w] # 0 /\ cur[w] <= Len(submitted) /\ Len(submitted) \in Nat
  BY QueueAssumption
     DEF IInv, TypeInv, TypeOK, CurBusy, Busy, Submissions, Store, Goto
<1>2. cur[w] \in 1 .. Len(submitted)
  BY <1>1
<1>3. \A i \in 1 .. Len(finished) : finished[i] # cur[w]
  BY DEF IInv, Whereabouts
<1>4. ASSUME submitted[cur[w]].id \in DOMAIN results PROVE FALSE
  <2> DEFINE n == results[submitted[cur[w]].id].task
  <2>1. n \in 1 .. Len(submitted) /\ submitted[n].id = submitted[cur[w]].id /\ Finished(n)
    BY <1>4 DEF Filed
  <2>2. n = cur[w]
    BY <1>2, <2>1 DEF Stamped
  <2>3. QED
    BY <1>3, <2>1, <2>2 DEF Finished
<1>5. QED
  BY <1>2, <1>4 DEF Store, callerVars

LEMMA NextFiled ==
  ASSUME IInv, Stamped, Filed, [Next]_vars
  PROVE  Filed'
<1>1. ASSUME NEW w \in Workers, Store(w) PROVE Filed'
  <2> DEFINE id == submitted[cur[w]].id
             r == [task |-> cur[w], outcome |-> outcome[w]]
  <2>1. /\ cur[w] \in 1 .. Len(submitted) /\ id \notin DOMAIN results
        /\ results' = StoredResults(id, r)
        /\ finished' = Append(finished, cur[w]) /\ submitted' = submitted
    BY <1>1, StoreIsFirst
  <2>2. r.task = cur[w] /\ id = submitted[cur[w]].id
    OBVIOUS
  <2> HIDE DEF id, r
  <2>3. /\ DOMAIN results' = DOMAIN results \cup {id} /\ results'[id] = r
        /\ \A i \in DOMAIN results : results'[i] = results[i]
    BY <2>1 DEF StoredResults
  <2>4. /\ Len(finished') = Len(finished) + 1 /\ Len(finished) \in Nat
        /\ finished'[Len(finished) + 1] = cur[w]
        /\ \A i \in 1 .. Len(finished) : finished'[i] = finished[i]
    BY <2>1 DEF IInv, TypeInv, TypeOK
  <2>5. \A n : Finished(n) => \E k \in 1 .. Len(finished') : finished'[k] = n
    BY <2>4 DEF Finished
  <2>6. \E k \in 1 .. Len(finished') : finished'[k] = cur[w]
    <3>1. Len(finished) + 1 \in 1 .. Len(finished')
      BY <2>4
    <3>2. QED
      BY <2>4, <3>1
  <2>7. \A i \in DOMAIN results' : /\ results'[i].task \in 1 .. Len(submitted')
                                   /\ submitted'[results'[i].task].id = i
                                   /\ \E k \in 1 .. Len(finished') : finished'[k] = results'[i].task
    <3> SUFFICES ASSUME NEW i \in DOMAIN results'
                 PROVE  /\ results'[i].task \in 1 .. Len(submitted)
                        /\ submitted[results'[i].task].id = i
                        /\ \E k \in 1 .. Len(finished') : finished'[k] = results'[i].task
      BY <2>1
    <3>1. CASE i = id
      BY <2>1, <2>2, <2>3, <2>6, <3>1
    <3>2. CASE i \in DOMAIN results
      BY <2>3, <2>5, <3>2 DEF Filed
    <3>3. QED
      BY <2>3, <3>1, <3>2
  <2>8. \A i \in 1 .. Len(finished') :
          /\ finished'[i] \in 1 .. Len(submitted')
          /\ submitted'[finished'[i]].id \in DOMAIN results'
          /\ results'[submitted'[finished'[i]].id].task = finished'[i]
    <3>1. \A i \in 1 .. Len(finished') : i \in 1 .. Len(finished) \/ i = Len(finished) + 1
      BY <2>4
    <3>2. QED
      BY <2>1, <2>2, <2>3, <2>4, <3>1 DEF Filed
  <2>9. QED
    BY <2>7, <2>8 DEF Filed, Finished
<1>2. ASSUME NEW a \in Agents, NEW step \in MinClockStep .. 1, Enqueue(a, clock + step)
      PROVE Filed'
  <2>1. /\ Len(submitted) \in Nat /\ Len(submitted') = Len(submitted) + 1
        /\ \A n \in 1 .. Len(submitted) : submitted'[n] = submitted[n]
        /\ UNCHANGED <<results, finished>>
    BY <1>2 DEF Enqueue, IInv, TypeInv, TypeOK
  <2>2. \A n \in 1 .. Len(submitted) : n \in 1 .. Len(submitted')
    BY <2>1
  <2>3. QED
    BY <2>1, <2>2 DEF Filed, Finished
<1>3. ASSUME UNCHANGED <<submitted, results, finished>> PROVE Filed'
  BY <1>3 DEF Filed, Finished
<1>4. QED
  BY <1>1, <1>2, <1>3 DEF Next, LoopStep, RegisterAgent, Start, Stop, JoinReturns, LoopTest, Take,
     TakeTimesOut, Lookup, HandlerEnds, callerVars, vars

LEMMA InductiveFiled ==
  ASSUME MinClockStep = 1
  PROVE  Spec => [](IInv /\ Stamped /\ Filed)
<1>1. IInv /\ Stamped /\ Filed /\ [Next]_vars => (Stamped /\ Filed)'
  BY NextStamped, NextFiled DEF IInv
<1>2. QED
  BY <1>1, InitFiled, Inductive, PTL DEF Spec

\* What get_result returns under the id of an answered task is the answer to
\* that task, whatever the workers do, as long as no two submissions share a
\* time stamp (AnswerIsOwn).
THEOREM OwnAnswer ==
  ASSUME MinClockStep = 1
  PROVE  Spec => []AnswerIsOwn
<1>1. IInv /\ Filed => AnswerIsOwn
  BY DEF Filed, AnswerIsOwn, Finished, Found, GetResult
<1>2. QED
  BY <1>1, InductiveFiled, PTL

\* Under the same condition a result that a caller could read is never
\* withdrawn or changed (AnswerIsFinal).
THEOREM FinalAnswer ==
  ASSUME MinClockStep = 1
  PROVE  Spec => AnswerIsFinal
<1> DEFINE Kept == \A id \in DOMAIN results : Found(id)' /\ GetResult(id)' = GetResult(id)
<1>1. IInv /\ Stamped /\ Filed /\ [Next]_vars => Kept
  <2> SUFFICES ASSUME IInv, Stamped, Filed, [Next]_vars PROVE Kept
    OBVIOUS
  <2>1. ASSUME NEW w \in Workers, Store(w) PROVE Kept
    BY <2>1, StoreIsFirst DEF StoredResults, Found, GetResult
  <2>2. ASSUME UNCHANGED results PROVE Kept
    BY <2>2 DEF Found, GetResult
  <2>3. QED
    BY <2>1, <2>2 DEF Next, LoopStep, RegisterAgent, Enqueue, Start, Stop, JoinReturns,
       LoopTest, Take, TakeTimesOut, Lookup, HandlerEnds, callerVars, vars
<1>2. QED
  BY <1>1, InductiveFiled, PTL DEF Spec, AnswerIsFinal

-----------------------------------------------------------------------------
(* Stopping.                                                                *)

\* The workers that may still answer a task before they look at the flag again.
Serving == {w \in Workers : pc[w] \in {"get", "lookup", "handler", "store"}}

StoppedAt(k) == worker = MaxStarts /\ ~running /\ Len(finished) = k

\* After a stop, every worker that may still answer has not done so.
StopInv(k) == worker = MaxStarts /\ ~running /\ Len(finished) + Cardinality(Serving) <= k + worker

\* How many workers serve, and what a worker that leaves does to their number.
LEMMA ServingFinite ==
  /\ IsFiniteSet(Serving)
  /\ Cardinality(Serving) \in Nat
  /\ Cardinality(Serving) <= MaxStarts
<1>1. IsFiniteSet(Workers) /\ Cardinality(Workers) = MaxStarts
  BY QueueAssumption, FS_Interval DEF Workers
<1>2. Serving \subseteq Workers
  BY DEF Serving
<1>3. QED
  BY <1>1, <1>2, FS_Subset, FS_CardinalityType

LEMMA StopBegins ==
  ASSUME NEW k \in Nat, StoppedAt(k)
  PROVE  StopInv(k)
  BY ServingFinite, QueueAssumption DEF StoppedAt, StopInv

LEMMA StopStays ==
  ASSUME NEW k \in Nat, IInv, StopInv(k), [Next]_vars
  PROVE  StopInv(k)'
<1> DEFINE n == Cardinality(Serving)
<1>0. /\ n \in Nat /\ IsFiniteSet(Serving) /\ n' \in Nat /\ IsFiniteSet(Serving)'
      /\ worker \in Nat /\ worker = MaxStarts /\ ~running
      /\ Len(finished) \in Nat /\ Len(finished) + n <= k + worker
      /\ DOMAIN pc = Workers /\ finished \in Seq(TaskNo)
  <2>1. n' \in Nat /\ IsFiniteSet(Serving)'
    <3>1. Serving' \subseteq Workers
      BY DEF Serving
    <3>2. IsFiniteSet(Workers)
      BY QueueAssumption, FS_Interval DEF Workers
    <3>3. QED
      BY <3>1, <3>2, FS_Subset, FS_CardinalityType
  <2>2. QED
    BY <2>1, ServingFinite, QueueAssumption DEF StopInv, IInv, TypeInv, TypeOK
<1> HIDE DEF n
<1>1. ASSUME UNCHANGED <<worker, running, pc, finished>> PROVE StopInv(k)'
  BY <1>0, <1>1 DEF StopInv, Serving, n
<1>2. ASSUME NEW w \in Workers, UNCHANGED <<worker, running, finished>>,
             pc' = [pc EXCEPT ![w] = pc'[w]],
             w \in Serving \/ pc'[w] \notin {"get", "lookup", "handler", "store"}
      PROVE  StopInv(k)'
  <2>1. Serving' \subseteq Serving
    BY <1>0, <1>2 DEF Serving
  <2>2. n' <= n
    BY <1>0, <2>1, FS_Subset DEF n
  <2>3. QED
    BY <1>0, <1>2, <2>2 DEF StopInv, n
<1>3. ASSUME NEW w \in Workers, LoopTest(w) PROVE StopInv(k)'
  <2>1. pc' = [pc EXCEPT ![w] = "exited"]
    BY <1>0, <1>3 DEF LoopTest, Goto
  <2>2. UNCHANGED <<worker, running, finished>>
    BY <1>3 DEF LoopTest, callerVars
  <2>3. pc'[w] = "exited" /\ pc' = [pc EXCEPT ![w] = pc'[w]]
    BY <1>0, <2>1
  <2>4. QED
    BY <1>2, <2>2, <2>3
<1>4. ASSUME NEW w \in Workers, Take(w) \/ TakeTimesOut(w) \/ Lookup(w) \/ HandlerEnds(w)
      PROVE  StopInv(k)'
  <2>1. w \in Serving
    BY <1>4 DEF Take, TakeTimesOut, Lookup, HandlerEnds, Goto, Serving
  <2>2. UNCHANGED <<worker, running, finished>>
    BY <1>4 DEF Take, TakeTimesOut, Lookup, HandlerEnds, callerVars
  <2>3. PICK to : pc' = [pc EXCEPT ![w] = to]
    BY <1>4 DEF Take, TakeTimesOut, Lookup, HandlerEnds, Goto
  <2>4. pc' = [pc EXCEPT ![w] = pc'[w]]
    BY <1>0, <2>3
  <2>5. QED
    BY <1>2, <2>1, <2>2, <2>4
<1>5. ASSUME NEW w \in Workers, Store(w) PROVE StopInv(k)'
  <2>1. pc[w] = "store" /\ pc' = [pc EXCEPT ![w] = "top"]
        /\ UNCHANGED <<worker, running>> /\ finished' = Append(finished, cur[w])
    BY <1>5 DEF Store, Goto, callerVars
  <2>2. w \in Serving /\ Serving' = Serving \ {w}
    BY <1>0, <2>1 DEF Serving
  <2>3. n' = n - 1
    BY <1>0, <2>2, FS_RemoveElement DEF n
  <2>4. Len(finished') = Len(finished) + 1
    BY <1>0, <2>1
  <2>5. QED
    BY <1>0, <2>1, <2>3, <2>4 DEF StopInv, n
<1>6. ASSUME NEW a \in Agents, RegisterAgent(a) PROVE StopInv(k)'
  BY <1>1, <1>6 DEF RegisterAgent
<1>7. ASSUME NEW a \in Agents, NEW now, Enqueue(a, now) PROVE StopInv(k)'
  BY <1>1, <1>7 DEF Enqueue
<1>8. ~Start
  BY <1>0 DEF Start
<1>9. CASE Stop
  <2>1. UNCHANGED <<worker, pc, finished>> /\ running' = FALSE
    BY <1>9 DEF Stop
  <2>2. QED
    BY <1>0, <2>1 DEF StopInv, Serving, n
<1>10. CASE JoinReturns
  BY <1>1, <1>10 DEF JoinReturns
<1>11. CASE UNCHANGED vars
  BY <1>1, <1>11 DEF vars
<1>12. QED
  BY <1>3, <1>4, <1>5, <1>6, <1>7, <1>8, <1>9, <1>10, <1>11 DEF Next, LoopStep

\* A stop is obeyed, for any number of workers and of queued tasks: each worker
\* answers at most one task after it (AtMostOneAnswerAfterStop).
THEOREM StopIsObeyed == Spec => AtMostOneAnswerAfterStop
<1>1. ASSUME NEW k \in 0 .. MaxTasks
      PROVE  Spec => [](worker = MaxStarts /\ ~running /\ Len(finished) = k
                          => [](Len(finished) <= k + worker))
  <2>0. k \in Nat
    BY QueueAssumption
  <2>1. worker = MaxStarts /\ ~running /\ Len(finished) = k => StopInv(k)
    BY <2>0, StopBegins DEF StoppedAt
  <2>2. IInv /\ StopInv(k) /\ [Next]_vars => StopInv(k)'
    BY <2>0, StopStays
  <2>3. IInv /\ StopInv(k) => Len(finished) <= k + worker
    BY <2>0, ServingFinite, QueueAssumption DEF StopInv, IInv, TypeInv, TypeOK
  <2>4. QED
    BY <2>1, <2>2, <2>3, Inductive, PTL DEF Spec
<1>2. QED
  BY <1>1 DEF AtMostOneAnswerAfterStop
=============================================================================
