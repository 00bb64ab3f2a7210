---- MODULE MCAgentSpend ----
EXTENDS AgentSpend

CONSTANTS r1, r2, w1, i1, d1, d2

OneWorkspace == [r \in Runs |-> w1]
Three == [i \in Intents |-> 3]
====
