------------------------------ MODULE MCJobStore ------------------------------
(* Instance of JobStore for TLC.                                           *)
EXTENDS JobStore, TLC

(* Jobs and agents are interchangeable in every definition checked.        *)
JobsAndAgents == Permutations(JobIDs) \cup Permutations(AgentIDs)

===============================================================================
