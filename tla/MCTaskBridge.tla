----------------------------- MODULE MCTaskBridge -----------------------------
(* Instances of TaskBridge for TLC.                                        *)
EXTENDS TaskBridge, TLC

CONSTANTS j1, j2, w1, w2, a1, a2, copy, wait

(* Two agents; the second declares one type only.                          *)
TwoAgents == (w1 :> a1) @@ (w2 :> a2)

(* Two processes started with the default -id.                             *)
SharedId == (w1 :> a1) @@ (w2 :> a1)

OnlyWait == (w1 :> {wait}) @@ (w2 :> {wait})

AllAndWait == (w1 :> {copy, wait}) @@ (w2 :> {wait})

(* With a shared id and one type, processes are interchangeable as well.   *)
JobAndWorkerSymmetry == Permutations(JobIDs) \cup Permutations(Workers)

(* Behaviours that create j1 first, and after it either j2, which any agent*)
(* can run, or a signal.                                                   *)
Small ==
    /\ j2 \in DOMAIN jobs => j1 \in DOMAIN jobs \cup lost /\ jobs[j2].Type = wait
    /\ Cardinality(DOMAIN jobs) + Cardinality(lost) + stops <= 2

SmallFairSpec == Init /\ [][Next /\ Small']_vars /\ Fairness

===============================================================================
