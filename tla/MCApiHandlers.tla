---------------------------- MODULE MCApiHandlers -----------------------------
(* Instance of ApiHandlers for TLC.                                        *)
EXTENDS ApiHandlers, TLC

(* Handlers are interchangeable; jobs are, but for the unknown one.        *)
HandlersAndJobs == Permutations(Handlers) \cup Permutations(JobIDs)

===============================================================================
