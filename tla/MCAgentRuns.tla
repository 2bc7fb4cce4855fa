---------------------------- MODULE MCAgentRuns ----------------------------
(* Instances of AgentRuns: one call is a single agent, a batch of one task  *)
(* that is verified, or a batch of two tasks, which may have been given one *)
(* key; the other call is a single agent.                                   *)
EXTENDS AgentRuns
CONSTANTS c1, c2, s1
OneBatch == [c \in Calls |-> IF c = c1 THEN {<<>>, <<1>>, <<1, 2>>, <<1, 1>>} ELSE {<<>>}]
OneTask  == {<<1>>}
=============================================================================
