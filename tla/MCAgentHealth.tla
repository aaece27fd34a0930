---------------------------- MODULE MCAgentHealth -----------------------------
(* Instance of AgentHealth for TLC.                                        *)
EXTENDS AgentHealth

===============================================================================
