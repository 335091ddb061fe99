---------------------------- MODULE MCAgentChat ----------------------------
(* Small instances of AgentChat for TLC.                                   *)
EXTENDS AgentChat, TLC

Symmetric == Permutations(Roots) \cup Permutations(Clients)
=============================================================================
