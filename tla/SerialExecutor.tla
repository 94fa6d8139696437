--------------------------- MODULE SerialExecutor ---------------------------
(***************************************************************************)
(* What orchestrator/queue.py promises in its header comment, as a         *)
(* specification of its own: tasks are accepted in some order, they are    *)
(* executed one at a time and in that order, and each execution leaves     *)
(* exactly one answer.  Threads, the running flag, joins and time-outs     *)
(* are not visible here; TaskQueue shows that a queue which is started     *)
(* once implements this module.                                            *)
(***************************************************************************)
EXTENDS Naturals, Sequences

VARIABLES accepted,  \* how many tasks have been accepted; they are named 1, 2, ...
          active,    \* the set of tasks being executed
          answered   \* the tasks answered so far, in the order of their answers

vars == <<accepted, active, answered>>

TypeOK == /\ accepted \in Nat
          /\ active \in SUBSET Nat
          /\ answered \in Seq(Nat)

Init == accepted = 0 /\ active = {} /\ answered = <<>>

Accept == accepted' = accepted + 1 /\ UNCHANGED <<active, answered>>

\* Nothing else is being executed, and the task is the oldest unanswered one.
Begin == /\ active = {}
         /\ Len(answered) < accepted
         /\ active' = {Len(answered) + 1}
         /\ UNCHANGED <<accepted, answered>>

Answer == \E n \in active :
             /\ answered' = Append(answered, n)
             /\ active' = active \ {n}
             /\ UNCHANGED accepted

Next == Accept \/ Begin \/ Answer

Spec == Init /\ [][Next]_vars
=============================================================================
