---------------------------- MODULE MCAgentRuntime ----------------------------
(* TLC instances of AgentRuntime: the queue's worker and the event loop.     *)
EXTENDS AgentRuntime

\* Webhooks and pipelines execute different agents.
OwnAgents == [t \in Threads |-> IF t = "worker" THEN {"parser"} ELSE {"coach"}]

\* The application as it is: both threads execute the same objects.
SameAgents == [t \in Threads |-> Agents]
=============================================================================
