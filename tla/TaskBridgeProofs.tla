--------------------------- MODULE TaskBridgeProofs ---------------------------
(***************************************************************************)
(* That no two agents ever work on one job, for any number of agents, jobs *)
(* and faults.  OneAttemptAtATime is not inductive by itself: a poll could *)
(* hand out a job somebody holds if that job were queued.  It is inductive *)
(* together with ReportsCurrentAttempt, which says that a held job is      *)
(* RUNNING or CANCELED, or of an earlier run of the server, hence never    *)
(* PENDING.  From there: who holds a job is its assignee, a fault orphans  *)
(* one job at most, and the system implements JobLease.                    *)
(***************************************************************************)
EXTENDS TaskBridge, JobStoreProofs, FiniteSetTheorems

USE TaskBridgeAssumption, NoJobAssumption DEF TaskBridgeAssumption, NoJobAssumption

Inv == TypeOK /\ OneAttemptAtATime /\ ReportsCurrentAttempt

(* Every step of the system is a step of the store, a restart, or none.    *)
LEMMA StepOfStore ==
    ASSUME TypeOK, [Next]_vars
    PROVE  [StoreNext \/ RestartStore]_storeVars
<1> USE DEF StoreNext
<1>1. CASE ClientStep
  BY <1>1 DEF ClientStep, Create, Cancel
<1>2. ASSUME NEW w \in Workers, Start(w)
      PROVE  [StoreNext]_storeVars
  BY <1>2 DEF Start
<1>3. ASSUME NEW w \in Workers, WorkerStep(w) \/ FaultStep(w) \/ StopStep(w)
      PROVE  UNCHANGED storeVars
  BY <1>3 DEF WorkerStep, FaultStep, StopStep, Poll, ReceiveJob, FinishExecution,
              EndSubmit, GiveUpPoll, LoseOffer, Crash, Signal, Quit
<1>4. ASSUME NEW w \in Workers, ServePoll(w)
      PROVE  [StoreNext]_storeVars
  BY <1>4 DEF ServePoll
<1>5. ASSUME NEW p \in late, ServeLatePoll(p)
      PROVE  [StoreNext]_storeVars
  <2>1. p[1] \in Workers
    BY DEF TypeOK
  <2> QED BY <2>1, <1>5 DEF ServeLatePoll
<1>6. ASSUME NEW m \in results, ServeResult(m)
      PROVE  [StoreNext]_storeVars
  <2>1. m.job \in JobIDs /\ m.outcome \in Outcomes
    BY DEF TypeOK, ResultRequest
  <2> QED BY <2>1, <1>6 DEF ServeResult
<1>7. ASSUME NEW m \in results, LoseResult(m)
      PROVE  UNCHANGED storeVars
  BY <1>7 DEF LoseResult
<1>8. CASE UNCHANGED vars
  BY <1>8 DEF vars, storeVars
<1>9. CASE Restart
  BY <1>9 DEF Restart
<1> HIDE DEF StoreNext
<1> QED BY <1>1, <1>2, <1>3, <1>4, <1>5, <1>6, <1>7, <1>8, <1>9 DEF Next

-------------------------------------------------------------------------------
(* Types.                                                                  *)

(* A fault is counted within the bound.                                    *)
LEMMA FaultCounted ==
    ASSUME TypeOK, Fault
    PROVE  faults' \in 0 .. MaxFaults /\ faults + 1 \in 1 .. MaxFaults
  BY DEF TypeOK, Fault

(* Going on keeps the types of a worker's state.                           *)
LEMMA GoTypes ==
    ASSUME TypeOK, NEW w \in Workers, NEW from, NEW to \in Places,
           NEW g \in Offer \cup {NoJob},
           to \in {"offered", "running"} => g \in Offer,
           Go(w, from, to, g)
    PROVE  /\ pc' \in [Workers -> Places]
           /\ got' \in [Workers -> Offer \cup {NoJob}]
           /\ \A v \in Workers : Holds(v)' => got'[v] \in Offer
  BY DEF TypeOK, Go, Holds

LEMMA TypeInvariant == Init => TypeOK
<1>1. ASSUME Init PROVE TypeOK
  <2>1. StoreTypeOK
    BY <1>1, StoreTypeInvariant DEF Init
  <2>2. pc \in [Workers -> Places] /\ got \in [Workers -> Offer \cup {NoJob}]
    BY <1>1 DEF Init, Places
  <2>3. \A w \in Workers : ~ Holds(w)
    BY <1>1 DEF Init, Holds
  <2>4. /\ late = {} /\ results = {} /\ stopping = {} /\ lost = {}
        /\ faults \in 0 .. MaxFaults /\ stops \in 0 .. MaxStops
    BY <1>1 DEF Init
  <2> QED BY <2>1, <2>2, <2>3, <2>4 DEF TypeOK
<1> QED BY <1>1

LEMMA StoreTyped ==
    ASSUME TypeOK, [Next]_vars
    PROVE  StoreTypeOK'
<1>1. CASE [StoreNext]_storeVars
  BY <1>1, StoreTypeInvariant DEF TypeOK
<1>2. CASE RestartStore
  BY <1>2 DEF RestartStore, StoreTypeOK
<1> QED BY <1>1, <1>2, StepOfStore

(* Only processes that run are stopping, and no job of this run of the     *)
(* server is one of an earlier run.                                        *)
LEMMA LifeTyped ==
    ASSUME TypeOK, [Next]_vars
    PROVE  /\ stopping' \subseteq {w \in Workers : pc'[w] # "down"}
           /\ stops' \in 0 .. MaxStops
           /\ lost' \subseteq JobIDs \ DOMAIN jobs'
<1> DEFINE Done == /\ stopping' \subseteq {w \in Workers : pc'[w] # "down"}
                   /\ stops' \in 0 .. MaxStops
                   /\ lost' \subseteq JobIDs \ DOMAIN jobs'
<1>a. /\ stopping \subseteq {w \in Workers : pc[w] # "down"}
      /\ stops \in 0 .. MaxStops
      /\ lost \subseteq JobIDs \ DOMAIN jobs
      /\ pc \in [Workers -> Places]
      /\ DOMAIN jobs \subseteq JobIDs
  BY DEF TypeOK, StoreTypeOK
<1>b. ASSUME NEW w \in Workers, NEW from, NEW to, NEW g, Go(w, from, to, g),
             to # "down" \/ w \notin stopping, UNCHANGED lifeVars,
             DOMAIN jobs' = DOMAIN jobs
      PROVE  Done
  BY <1>a, <1>b DEF Go, lifeVars
<1>c. ASSUME UNCHANGED <<pc, lifeVars>>, DOMAIN jobs' = DOMAIN jobs
      PROVE  Done
  BY <1>a, <1>c DEF lifeVars
<1>1. ASSUME NEW id \in JobIDs, NEW type \in JobTypes, NEW limit \in RetryLimits,
             Create(id, type, limit)
      PROVE  Done
  BY <1>1, <1>a DEF Create, CreateJob, agentVars, lifeVars
<1>2. ASSUME NEW id \in JobIDs, Cancel(id)
      PROVE  Done
  BY <1>2, <1>c DEF Cancel, CancelJob, agentVars
<1>3. ASSUME NEW w \in Workers, Start(w)
      PROVE  Done
  <2>1. DOMAIN jobs' = DOMAIN jobs /\ UNCHANGED lifeVars /\ w \notin stopping
    BY <1>3, <1>a DEF Start, RegisterAgent, Go
  <2> QED BY <1>3, <1>b, <2>1 DEF Start
<1>4. ASSUME NEW w \in Workers, WorkerStep(w)
      PROVE  Done
  <2>1. DOMAIN jobs' = DOMAIN jobs /\ UNCHANGED lifeVars
    BY <1>4 DEF WorkerStep, Poll, ReceiveJob, FinishExecution, EndSubmit, storeVars
  <2> HIDE DEF Done
  <2> QED BY <1>4, <1>b, <2>1 DEF WorkerStep, Poll, ReceiveJob, FinishExecution, EndSubmit
<1>5. ASSUME NEW w \in Workers, ServePoll(w)
      PROVE  Done
  <2>1. DOMAIN jobs' = DOMAIN jobs /\ UNCHANGED lifeVars
    BY <1>5 DEF ServePoll, AssignNextJob, storeVars
  <2>2. ASSUME NEW to, NEW g, Go(w, "polling", to, g), to # "down"
        PROVE  Done
    BY <1>b, <2>1, <2>2
  <2> HIDE DEF Done
  <2>3. CASE Go(w, "polling", "idle", NoJob)
    BY <2>2, <2>3
  <2>4. ASSUME NEW id \in JobIDs,
               Go(w, "polling", "offered",
                  [job |-> id, attempt |-> jobs'[id].AttemptCount])
        PROVE  Done
    BY <2>2, <2>4
  <2> QED BY <1>5, <2>3, <2>4 DEF ServePoll
<1>6. ASSUME NEW p \in late, ServeLatePoll(p)
      PROVE  Done
  BY <1>6, <1>c DEF ServeLatePoll, AssignNextJob, storeVars
<1>7. ASSUME NEW w \in Workers, GiveUpPoll(w) \/ LoseOffer(w)
      PROVE  Done
  <2>1. DOMAIN jobs' = DOMAIN jobs /\ UNCHANGED lifeVars
    BY <1>7 DEF GiveUpPoll, LoseOffer, storeVars
  <2> HIDE DEF Done
  <2> QED BY <1>7, <1>b, <2>1 DEF GiveUpPoll, LoseOffer
<1>8. ASSUME NEW w \in Workers, Crash(w) \/ Quit(w)
      PROVE  Done
  BY <1>8, <1>a DEF Crash, Quit, Go, storeVars
<1>9. ASSUME NEW w \in Workers, Signal(w)
      PROVE  Done
  BY <1>9, <1>a DEF Signal, storeVars
<1>10. ASSUME NEW m \in results, ServeResult(m) \/ LoseResult(m)
       PROVE  Done
  BY <1>10, <1>c DEF ServeResult, LoseResult, CompleteJob, storeVars
<1>11. ASSUME Restart
       PROVE  Done
  BY <1>11, <1>a DEF Restart, RestartStore
<1>12. ASSUME UNCHANGED vars
       PROVE  Done
  BY <1>12, <1>c DEF vars, storeVars, agentVars
<1> HIDE DEF Done
<1>13. Done
  BY <1>1, <1>2, <1>3, <1>4, <1>5, <1>6, <1>7, <1>8, <1>9, <1>10, <1>11, <1>12
     DEF Next, ClientStep, FaultStep, StopStep
<1> QED BY <1>13 DEF Done

LEMMA TypeStep ==
    ASSUME TypeOK, [Next]_vars
    PROVE  TypeOK'
<1>0. StoreTypeOK'
  BY StoreTyped
<1> DEFINE AgentsTyped ==
        /\ pc' \in [Workers -> Places]
        /\ got' \in [Workers -> Offer \cup {NoJob}]
        /\ \A w \in Workers : Holds(w)' => got'[w] \in Offer
<1> DEFINE TypedThen ==
        /\ AgentsTyped
        /\ late' \subseteq Workers \X (1 .. MaxFaults)
        /\ results' \subseteq ResultRequest
        /\ faults' \in 0 .. MaxFaults
<1>a. /\ late \subseteq Workers \X (1 .. MaxFaults)
      /\ results \subseteq ResultRequest
      /\ faults \in 0 .. MaxFaults
      /\ pc \in [Workers -> Places]
      /\ got \in [Workers -> Offer \cup {NoJob}]
      /\ \A w \in Workers : Holds(w) => got[w] \in Offer
  BY DEF TypeOK
<1>b. ASSUME pc' = pc, got' = got
      PROVE  AgentsTyped
  BY <1>a, <1>b DEF Holds
<1>c. ASSUME NEW w \in Workers, NEW from \in Places, NEW to \in Places,
             to \notin {"offered", "running"}, Go(w, from, to, NoJob)
      PROVE  AgentsTyped
  BY <1>c, GoTypes
<1>1. ASSUME ClientStep
      PROVE  TypedThen
  BY <1>1, <1>a, <1>b DEF ClientStep, Create, Cancel, agentVars
<1>2. ASSUME NEW w \in Workers, Start(w)
      PROVE  TypedThen
  <2>1. "down" \in Places /\ "idle" \in Places
    BY DEF Places
  <2>2. AgentsTyped
    BY <1>2, <1>c, <2>1 DEF Start
  <2> HIDE DEF AgentsTyped
  <2> QED BY <1>2, <1>a, <2>2, FaultCounted DEF Start
<1>3. ASSUME NEW w \in Workers, WorkerStep(w)
      PROVE  TypedThen
  <2>1. CASE Poll(w)
    <3>1. AgentsTyped
      BY <2>1, <1>c DEF Poll, Places
    <3> HIDE DEF AgentsTyped
    <3> QED BY <2>1, <3>1, <1>a DEF Poll
  <2>2. CASE ReceiveJob(w)
    <3>1. got[w] \in Offer
      BY <2>2, <1>a DEF ReceiveJob, Go, Holds
    <3>2. AgentsTyped
      BY <2>2, <3>1, GoTypes DEF ReceiveJob, Places
    <3> HIDE DEF AgentsTyped
    <3> QED BY <2>2, <3>2, <1>a DEF ReceiveJob
  <2>3. ASSUME NEW outcome \in Outcomes, FinishExecution(w, outcome)
        PROVE  TypedThen
    <3>1. got[w] \in Offer
      BY <2>3, <1>a DEF FinishExecution, Go, Holds
    <3>2. [job |-> got[w].job, attempt |-> got[w].attempt, outcome |-> outcome]
              \in ResultRequest
      BY <3>1 DEF Offer, ResultRequest
    <3>3. AgentsTyped
      BY <2>3, <1>c DEF FinishExecution, Places
    <3> HIDE DEF AgentsTyped
    <3> QED BY <2>3, <3>2, <3>3, <1>a DEF FinishExecution
  <2>4. CASE EndSubmit(w)
    <3>1. AgentsTyped
      BY <2>4, <1>c DEF EndSubmit, Places
    <3> HIDE DEF AgentsTyped
    <3> QED BY <2>4, <3>1, <1>a DEF EndSubmit
  <2> QED BY <1>3, <2>1, <2>2, <2>3, <2>4 DEF WorkerStep
<1>4. ASSUME NEW w \in Workers, ServePoll(w)
      PROVE  TypedThen
  <2>1. ASSUME NEW id \in JobIDs,
               AssignNextJob(AgentOf[w], Capabilities[w], id),
               Go(w, "polling", "offered",
                  [job |-> id, attempt |-> jobs'[id].AttemptCount])
        PROVE  AgentsTyped
    <3>1. id \in DOMAIN jobs'
      BY <2>1 DEF AssignNextJob, FirstEligible, Eligible
    <3>2. jobs'[id].AttemptCount \in Nat
      BY <3>1, <1>0 DEF StoreTypeOK, Job
    <3>3. [job |-> id, attempt |-> jobs'[id].AttemptCount] \in Offer
      BY <3>2 DEF Offer
    <3> QED BY <2>1, <3>3, GoTypes DEF Places
  <2>2. ASSUME Go(w, "polling", "idle", NoJob)
        PROVE  AgentsTyped
    BY <2>2, <1>c DEF Places
  <2>3. AgentsTyped
    BY <1>4, <2>1, <2>2 DEF ServePoll
  <2> HIDE DEF AgentsTyped
  <2> QED BY <1>4, <2>3, <1>a DEF ServePoll
<1>5. ASSUME NEW p \in late, ServeLatePoll(p)
      PROVE  TypedThen
  BY <1>5, <1>a, <1>b DEF ServeLatePoll
<1>6. ASSUME NEW w \in Workers, FaultStep(w)
      PROVE  TypedThen
  <2>1. AgentsTyped
    <3>1. pc[w] \in Places
      BY <1>a
    <3> QED BY <1>6, <3>1, <1>c DEF FaultStep, GiveUpPoll, LoseOffer, Crash, Places
  <2>2. Fault
    BY <1>6 DEF FaultStep, GiveUpPoll, LoseOffer, Crash
  <2>3. late' \subseteq late \cup {Abandoned(w)} /\ results' = results
    BY <1>6 DEF FaultStep, GiveUpPoll, LoseOffer, Crash
  <2>4. Abandoned(w) \in Workers \X (1 .. MaxFaults)
    BY <2>2, FaultCounted DEF Abandoned
  <2> HIDE DEF AgentsTyped
  <2> QED BY <1>a, <2>1, <2>2, <2>3, <2>4, FaultCounted
<1>7. ASSUME NEW m \in results, ServeResult(m)
      PROVE  TypedThen
  BY <1>7, <1>a, <1>b DEF ServeResult
<1>8. ASSUME NEW m \in results, LoseResult(m)
      PROVE  TypedThen
  <2>1. AgentsTyped
    BY <1>8, <1>b DEF LoseResult
  <2> HIDE DEF AgentsTyped
  <2> QED BY <1>8, <1>a, <2>1, FaultCounted DEF LoseResult
<1>9. ASSUME UNCHANGED vars
      PROVE  TypedThen
  BY <1>9, <1>a, <1>b DEF vars, agentVars
<1>10. ASSUME NEW w \in Workers, StopStep(w)
       PROVE  TypedThen
  <2>1. AgentsTyped
    BY <1>10, <1>b, <1>c DEF StopStep, Signal, Quit, Places
  <2> HIDE DEF AgentsTyped
  <2> QED BY <1>10, <2>1, <1>a DEF StopStep, Signal, Quit
<1>11. ASSUME Restart
       PROVE  TypedThen
  <2>1. AgentsTyped
    BY <1>11, <1>b DEF Restart
  <2> HIDE DEF AgentsTyped
  <2> QED BY <1>11, <2>1, <1>a, FaultCounted DEF Restart
<1>12. TypedThen
  <2> HIDE DEF TypedThen
  <2> QED BY <1>1, <1>9, <1>2, <1>3, <1>4, <1>5, <1>6, <1>7, <1>8, <1>10, <1>11 DEF Next
<1> QED BY <1>0, <1>12, LifeTyped DEF TypeOK

(* The state of server and agents is typed in every reachable state.       *)
THEOREM TypeCorrect == Spec => []TypeOK
  BY TypeInvariant, TypeStep, PTL DEF Spec

(* The agents are callers the store was specified for: whatever JobStore   *)
(* promises in each run of the server holds in the whole system.           *)
THEOREM ImplementsStore == Spec => LifeSpec
<1>1. Init => StoreInit
  BY DEF Init
<1>2. TypeOK /\ [Next]_vars => [StoreNext \/ RestartStore]_storeVars
  BY StepOfStore
<1> QED BY <1>1, <1>2, TypeCorrect, PTL DEF Spec, LifeSpec

-------------------------------------------------------------------------------
(* What a step does to jobs and to those who hold them: one of ten kinds.  *)

SameHolder(v) == (Holds(v)' <=> Holds(v)) /\ (Holds(v) => got'[v] = got[v])

SameHolders == \A v \in Workers : SameHolder(v)

OthersHold(w) == \A v \in Workers \ {w} : SameHolder(v)

NoFault == late' = late /\ faults' = faults

CountedFault == late' = late /\ faults' = faults + 1

Silent ==
    /\ UNCHANGED <<jobs, lost, results>>
    /\ SameHolders
    /\ \/ late' \subseteq late /\ faults' \in {faults, faults + 1}
       \/ \E p : late' = late \cup {p} /\ faults' = faults + 1

Creates(id, type, limit) ==
    /\ CreateJob(id, type, limit)
    /\ id \notin lost
    /\ UNCHANGED <<lost, results>>
    /\ SameHolders
    /\ NoFault

Cancels(id) ==
    /\ CancelJob(id)
    /\ UNCHANGED <<lost, results>>
    /\ SameHolders
    /\ NoFault

Offers(w, id) ==
    /\ AssignNextJob(AgentOf[w], Capabilities[w], id)
    /\ UNCHANGED <<lost, results>>
    /\ ~ Holds(w) /\ Holds(w)'
    /\ got'[w] = [job |-> id, attempt |-> jobs'[id].AttemptCount]
    /\ OthersHold(w)
    /\ NoFault

OffersInVain(w, id) ==
    /\ AssignNextJob(AgentOf[w], Capabilities[w], id)
    /\ UNCHANGED <<lost, results>>
    /\ SameHolders
    /\ \E p \in late : late' = late \ {p} /\ faults' = faults

Reports(w, m) ==
    /\ UNCHANGED <<jobs, lost>>
    /\ Holds(w) /\ ~ Holds(w)'
    /\ OthersHold(w)
    /\ m.job = got[w].job /\ m.attempt = got[w].attempt
    /\ results' = results \cup {m}
    /\ NoFault

Drops(w) ==
    /\ UNCHANGED <<jobs, lost, results>>
    /\ Holds(w) /\ ~ Holds(w)'
    /\ OthersHold(w)
    /\ CountedFault

DropsResult(m) ==
    /\ UNCHANGED <<jobs, lost>>
    /\ results' = results \ {m}
    /\ SameHolders
    /\ CountedFault \/ (m.job \notin DOMAIN jobs /\ NoFault)

Delivers(m) ==
    /\ CompleteJob(m.job, m.outcome)
    /\ UNCHANGED lost
    /\ results' = results \ {m}
    /\ SameHolders
    /\ NoFault

Erases ==
    /\ RestartStore
    /\ lost' = lost \cup DOMAIN jobs
    /\ UNCHANGED results
    /\ SameHolders
    /\ late' = {} /\ faults' = faults + 1

LEMMA StepKind ==
    ASSUME TypeOK, [Next]_vars
    PROVE  \/ Silent
           \/ \E id \in JobIDs, type \in JobTypes, limit \in RetryLimits :
                  Creates(id, type, limit)
           \/ \E id \in JobIDs : Cancels(id)
           \/ \E w \in Workers, id \in JobIDs : Offers(w, id) \/ OffersInVain(w, id)
           \/ \E w \in Workers, m \in ResultRequest : Reports(w, m)
           \/ \E w \in Workers : Drops(w)
           \/ \E m \in results : DropsResult(m) \/ Delivers(m)
           \/ Erases
<1> DEFINE Kind ==
           \/ Silent
           \/ \E id \in JobIDs, type \in JobTypes, limit \in RetryLimits :
                  Creates(id, type, limit)
           \/ \E id \in JobIDs : Cancels(id)
           \/ \E w \in Workers, id \in JobIDs : Offers(w, id) \/ OffersInVain(w, id)
           \/ \E w \in Workers, m \in ResultRequest : Reports(w, m)
           \/ \E w \in Workers : Drops(w)
           \/ \E m \in results : DropsResult(m) \/ Delivers(m)
           \/ Erases
<1>a. /\ pc \in [Workers -> Places]
      /\ got \in [Workers -> Offer \cup {NoJob}]
      /\ late \subseteq Workers \X (1 .. MaxFaults)
      /\ results \subseteq ResultRequest
      /\ \A w \in Workers : Holds(w) => got[w] \in Offer
  BY DEF TypeOK
<1>b. ASSUME UNCHANGED <<pc, got>>
      PROVE  SameHolders
  BY <1>b DEF SameHolders, SameHolder, Holds
<1>c. ASSUME NEW w \in Workers, NEW from, NEW to, NEW g, Go(w, from, to, g)
      PROVE  /\ Holds(w) <=> from \in {"offered", "running"}
             /\ Holds(w)' <=> to \in {"offered", "running"}
             /\ got'[w] = g
             /\ OthersHold(w)
             /\ ~ Holds(w) /\ ~ Holds(w)' => SameHolders
  BY <1>a, <1>c DEF Go, Holds, OthersHold, SameHolders, SameHolder
<1>1. ASSUME NEW id \in JobIDs, NEW type \in JobTypes, NEW limit \in RetryLimits,
             Create(id, type, limit)
      PROVE  Creates(id, type, limit)
  BY <1>1, <1>b DEF Create, Creates, agentVars, lifeVars, NoFault
<1>2. ASSUME NEW id \in JobIDs, Cancel(id)
      PROVE  Cancels(id)
  BY <1>2, <1>b DEF Cancel, Cancels, agentVars, lifeVars, NoFault
<1>3. ASSUME NEW w \in Workers, Start(w)
      PROVE  Silent
  <2>1. UNCHANGED <<jobs, lost, results, late>> /\ faults' \in {faults, faults + 1}
    BY <1>3 DEF Start, RegisterAgent, lifeVars, Fault
  <2>2. SameHolders
    BY <1>3, <1>c DEF Start
  <2> QED BY <2>1, <2>2 DEF Silent
<1>4. ASSUME NEW w \in Workers, Poll(w) \/ EndSubmit(w) \/ Quit(w)
      PROVE  Silent
  <2>1. UNCHANGED <<jobs, lost, results, late, faults>>
    BY <1>4 DEF Poll, EndSubmit, Quit, storeVars, lifeVars
  <2>2. SameHolders
    BY <1>4, <1>c DEF Poll, EndSubmit, Quit
  <2> QED BY <2>1, <2>2 DEF Silent
<1>5. ASSUME NEW w \in Workers, Signal(w)
      PROVE  Silent
  BY <1>5, <1>b DEF Signal, Silent, storeVars
<1>6. ASSUME NEW w \in Workers, ReceiveJob(w)
      PROVE  Silent
  <2>1. UNCHANGED <<jobs, lost, results, late, faults>>
    BY <1>6 DEF ReceiveJob, storeVars, lifeVars
  <2>2. SameHolders
    BY <1>6, <1>c DEF ReceiveJob, SameHolders, SameHolder, OthersHold
  <2> QED BY <2>1, <2>2 DEF Silent
<1>7. ASSUME NEW w \in Workers, NEW outcome \in Outcomes, FinishExecution(w, outcome)
      PROVE  Kind
  <2>1. PICK m : m = [job |-> got[w].job, attempt |-> got[w].attempt, outcome |-> outcome]
    OBVIOUS
  <2>2. Holds(w) /\ ~ Holds(w)' /\ OthersHold(w)
    BY <1>7, <1>c DEF FinishExecution
  <2>3. m.job = got[w].job /\ m.attempt = got[w].attempt /\ m \in ResultRequest
    BY <1>a, <2>1, <2>2 DEF Offer, ResultRequest
  <2>4. /\ UNCHANGED <<jobs, lost>>
        /\ results' = results \cup {m}
        /\ NoFault
    BY <1>7, <2>1 DEF FinishExecution, storeVars, lifeVars, NoFault
  <2>5. Reports(w, m)
    BY <2>2, <2>3, <2>4 DEF Reports
  <2> QED BY <2>3, <2>5
<1>8. ASSUME NEW w \in Workers, ServePoll(w)
      PROVE  Kind
  <2>1. UNCHANGED <<lost, results>> /\ NoFault
    BY <1>8 DEF ServePoll, lifeVars, NoFault
  <2>2. CASE Go(w, "polling", "idle", NoJob) /\ UNCHANGED storeVars
    BY <2>1, <2>2, <1>c DEF Silent, storeVars, NoFault
  <2>3. ASSUME NEW id \in JobIDs, AssignNextJob(AgentOf[w], Capabilities[w], id),
               Go(w, "polling", "offered",
                  [job |-> id, attempt |-> jobs'[id].AttemptCount])
        PROVE  Offers(w, id)
    BY <2>1, <2>3, <1>c DEF Offers
  <2> QED BY <1>8, <2>2, <2>3 DEF ServePoll
<1>9. ASSUME NEW p \in late, ServeLatePoll(p)
      PROVE  Kind
  <2>1. p[1] \in Workers
    BY <1>a
  <2>2. /\ UNCHANGED <<lost, results, faults>> /\ SameHolders
        /\ late' = late \ {p}
    BY <1>9, <1>b DEF ServeLatePoll, lifeVars
  <2>3. CASE UNCHANGED storeVars
    BY <2>2, <2>3 DEF Silent, storeVars
  <2>4. ASSUME NEW id \in JobIDs,
               AssignNextJob(AgentOf[p[1]], Capabilities[p[1]], id)
        PROVE  OffersInVain(p[1], id)
    BY <2>2, <2>4 DEF OffersInVain
  <2> HIDE DEF Kind
  <2>5. CASE \E id \in JobIDs : AssignNextJob(AgentOf[p[1]], Capabilities[p[1]], id)
    BY <2>1, <2>4, <2>5 DEF Kind
  <2> QED BY <1>9, <2>3, <2>5 DEF ServeLatePoll, Kind
<1>10. ASSUME NEW w \in Workers, GiveUpPoll(w)
       PROVE  Silent
  <2>1. /\ UNCHANGED <<jobs, lost, results>> /\ faults' = faults + 1
        /\ late' \in {late, late \cup {Abandoned(w)}}
    BY <1>10 DEF GiveUpPoll, storeVars, lifeVars, Fault
  <2>2. SameHolders
    BY <1>10, <1>c DEF GiveUpPoll
  <2> QED BY <2>1, <2>2 DEF Silent
<1>11. ASSUME NEW w \in Workers, LoseOffer(w)
       PROVE  Drops(w)
  <2>1. UNCHANGED <<jobs, lost, results>> /\ CountedFault
    BY <1>11 DEF LoseOffer, storeVars, lifeVars, Fault, CountedFault
  <2> QED BY <1>11, <2>1, <1>c DEF LoseOffer, Drops
<1>12. ASSUME NEW w \in Workers, Crash(w)
       PROVE  Kind
  <2>1. /\ UNCHANGED <<jobs, lost, results>> /\ faults' = faults + 1
        /\ \/ late' = late
           \/ pc[w] = "polling" /\ late' = late \cup {Abandoned(w)}
    BY <1>12 DEF Crash, storeVars, Fault
  <2>2. /\ ~ Holds(w)' /\ OthersHold(w)
        /\ ~ Holds(w) => SameHolders
    BY <1>12, <1>c DEF Crash
  <2>3. CASE Holds(w)
    <3>1. late' = late
      BY <2>1, <2>3 DEF Holds
    <3>2. Drops(w)
      BY <2>1, <2>2, <2>3, <3>1 DEF Drops, CountedFault
    <3> QED BY <3>2
  <2>4. CASE ~ Holds(w)
    <3>1. Silent
      BY <2>1, <2>2, <2>4 DEF Silent
    <3> QED BY <3>1
  <2> QED BY <2>3, <2>4
<1>13. ASSUME NEW m \in results, ServeResult(m)
       PROVE  DropsResult(m) \/ Delivers(m)
  <2>1. /\ UNCHANGED lost /\ results' = results \ {m} /\ NoFault /\ SameHolders
    BY <1>13, <1>b DEF ServeResult, lifeVars, NoFault
  <2> QED BY <1>13, <2>1 DEF ServeResult, DropsResult, Delivers, storeVars
<1>14. ASSUME NEW m \in results, LoseResult(m)
       PROVE  DropsResult(m)
  BY <1>14, <1>b DEF LoseResult, DropsResult, CountedFault, Fault, storeVars, lifeVars
<1>15. ASSUME Restart
       PROVE  Erases
  BY <1>15, <1>b DEF Restart, Erases, Fault
<1>16. ASSUME UNCHANGED vars
       PROVE  Silent
  BY <1>16, <1>b DEF vars, agentVars, lifeVars, storeVars, Silent
<1>17. ASSUME ClientStep
       PROVE  Kind
  BY <1>1, <1>2, <1>17 DEF ClientStep
<1>18. ASSUME NEW w \in Workers, WorkerStep(w) \/ FaultStep(w) \/ StopStep(w)
       PROVE  Kind
  BY <1>4, <1>5, <1>6, <1>7, <1>10, <1>11, <1>12, <1>18
     DEF WorkerStep, FaultStep, StopStep
<1> HIDE DEF Kind
<1>19. (\E m \in results : DropsResult(m) \/ Delivers(m)) \/ Silent \/ Erases => Kind
  BY DEF Kind
<1>20. Kind
  BY <1>3, <1>8, <1>9, <1>13, <1>14, <1>15, <1>16, <1>17, <1>18, <1>19 DEF Next
<1> QED BY <1>20 DEF Kind

-------------------------------------------------------------------------------
(* One attempt at a time.                                                  *)

(* News of a job stay current while the job stays as it is, is cancelled,  *)
(* or is erased.                                                           *)
LEMMA CurrentKept ==
    ASSUME NEW o, Current(o), lost \subseteq lost',
           \/ o.job \notin DOMAIN jobs
           \/ o.job \in lost'
           \/ o.job \in DOMAIN jobs' /\ jobs'[o.job] = jobs[o.job]
    PROVE  Current(o)'
  BY DEF Current

LEMMA CurrentCancelled ==
    ASSUME StoreTypeOK, NEW id \in JobIDs, CancelJob(id), lost \subseteq lost',
           NEW o, Current(o)
    PROVE  Current(o)'
<1>1. id \in DOMAIN jobs /\ jobs[id] \in Job
  BY DEF StoreTypeOK, CancelJob, Cancellable
<1>2. CASE o.job = id
  <2>1. id \in DOMAIN jobs' /\ jobs'[id] = Finished(jobs[id], "CANCELED")
    BY <1>1 DEF CancelJob, Cancellable
  <2>2. /\ Finished(jobs[id], "CANCELED").Status = "CANCELED"
        /\ Finished(jobs[id], "CANCELED").AttemptCount = jobs[id].AttemptCount
    BY <1>1, FinishedRecord DEF Terminal
  <2> QED BY <1>2, <2>1, <2>2 DEF Current
<1>3. CASE o.job # id
  BY <1>1, <1>3, CurrentKept DEF CancelJob, Cancellable
<1> QED BY <1>2, <1>3

(* A job that is handed out was held by nobody, its new attempt is the one *)
(* counted, and every other job stays as it is.                            *)
LEMMA HandedOut ==
    ASSUME TypeOK, ReportsCurrentAttempt, UNCHANGED lost,
           NEW agent \in AgentIDs, NEW caps, NEW id \in JobIDs,
           AssignNextJob(agent, caps, id)
    PROVE  /\ id \in DOMAIN jobs /\ jobs[id] \in Job /\ jobs[id].Status = "PENDING"
           /\ DOMAIN jobs' = DOMAIN jobs /\ jobs'[id] = Assigned(jobs[id], agent)
           /\ \A x \in DOMAIN jobs : x # id => jobs'[x] = jobs[x]
           /\ ~ Outstanding(id)
           /\ Current([job |-> id, attempt |-> jobs[id].AttemptCount])'
           /\ \A o : Current(o) => Current(o)'
<1>1. id \in DOMAIN jobs /\ jobs[id] \in Job /\ jobs[id].Status = "PENDING"
  BY DEF AssignNextJob, FirstEligible, Eligible, TypeOK, StoreTypeOK
<1>2. id \notin lost
  BY <1>1 DEF TypeOK
<1>3. \A o : Current(o) => o.job # id
  BY <1>1, <1>2 DEF Current
<1>4. ~ Outstanding(id)
  BY <1>3 DEF Outstanding, HeldByWorker, Reported, ReportsCurrentAttempt
<1>5. DOMAIN jobs' = DOMAIN jobs /\ jobs'[id] = Assigned(jobs[id], agent)
  BY <1>1 DEF AssignNextJob
<1>6. jobs'[id].Status = "RUNNING"
  BY <1>1, <1>5, AssignedRecord
<1>7. Current([job |-> id, attempt |-> jobs[id].AttemptCount])'
  BY <1>1, <1>5, <1>6 DEF Current
<1>8. \A x \in DOMAIN jobs : x # id => jobs'[x] = jobs[x]
  BY DEF AssignNextJob
<1>9. ASSUME NEW o, Current(o)
      PROVE  Current(o)'
  BY <1>3, <1>5, <1>8, <1>9, CurrentKept
<1> QED BY <1>1, <1>4, <1>5, <1>7, <1>8, <1>9

(* A job that is completed is no longer held by anybody.                   *)
LEMMA DeliveredAlone ==
    ASSUME OneAttemptAtATime, NEW m \in results, Delivers(m)
    PROVE  /\ \A v \in Workers : Holds(v) => got[v].job # m.job
           /\ \A n \in results' : n.job # m.job
           /\ DOMAIN jobs' = DOMAIN jobs
           /\ \A x \in DOMAIN jobs : x # m.job => jobs'[x] = jobs[x]
<1>1. results' = results \ {m}
  BY DEF Delivers
<1>2. /\ DOMAIN jobs' = DOMAIN jobs
      /\ \A x \in DOMAIN jobs : x # m.job => jobs'[x] = jobs[x]
  BY DEF Delivers, CompleteJob
<1> QED BY <1>1, <1>2 DEF OneAttemptAtATime

(* Nobody holds more than before, and what is held stays current: the two  *)
(* invariants are kept.                                                    *)
LEMMA NothingNewHeld ==
    ASSUME OneAttemptAtATime, results' \subseteq results,
           \A v \in Workers : Holds(v)' => Holds(v) /\ got'[v] = got[v],
           \A v \in Workers : Holds(v)' => Current(got[v])',
           \A m \in results' : Current(m)'
    PROVE  OneAttemptAtATime' /\ ReportsCurrentAttempt'
<1>1. OneAttemptAtATime'
  BY DEF OneAttemptAtATime
<1>2. ReportsCurrentAttempt'
  BY DEF ReportsCurrentAttempt
<1> QED BY <1>1, <1>2

LEMMA LeaseStep ==
    ASSUME Inv, [Next]_vars
    PROVE  OneAttemptAtATime' /\ ReportsCurrentAttempt'
<1> DEFINE Kept == OneAttemptAtATime' /\ ReportsCurrentAttempt'
<1>a. /\ TypeOK /\ StoreTypeOK /\ OneAttemptAtATime /\ ReportsCurrentAttempt
      /\ \A w \in Workers : Holds(w) => Current(got[w])
      /\ \A m \in results : Current(m)
  BY DEF Inv, TypeOK, ReportsCurrentAttempt
<1> HIDE DEF Kept
<1>b. ASSUME \A o : Current(o) => Current(o)',
             results' \subseteq results,
             \A v \in Workers : Holds(v)' => Holds(v) /\ got'[v] = got[v]
      PROVE  Kept
  BY <1>a, <1>b, NothingNewHeld DEF Kept
<1>c. ASSUME UNCHANGED <<jobs, lost>>, NEW o, Current(o)
      PROVE  Current(o)'
  BY <1>c DEF Current
<1>1. ASSUME Silent
      PROVE  Kept
  BY <1>1, <1>b, <1>c DEF Silent, SameHolders, SameHolder
<1>2. ASSUME NEW id \in JobIDs, NEW type \in JobTypes, NEW limit \in RetryLimits,
             Creates(id, type, limit)
      PROVE  Kept
  <2>1. ASSUME NEW o, Current(o)
        PROVE  Current(o)'
    BY <1>2, <2>1, CurrentKept DEF Creates, CreateJob
  <2> QED BY <1>2, <1>b, <2>1 DEF Creates, SameHolders, SameHolder
<1>3. ASSUME NEW id \in JobIDs, Cancels(id)
      PROVE  Kept
  <2>1. ASSUME NEW o, Current(o)
        PROVE  Current(o)'
    BY <1>a, <1>3, <2>1, CurrentCancelled DEF Cancels
  <2> QED BY <1>3, <1>b, <2>1 DEF Cancels, SameHolders, SameHolder
<1>4. ASSUME NEW w \in Workers, NEW id \in JobIDs, Offers(w, id)
      PROVE  Kept
  <2>1. /\ ~ Outstanding(id)
        /\ Current([job |-> id, attempt |-> jobs[id].AttemptCount])'
        /\ \A o : Current(o) => Current(o)'
    BY <1>a, <1>4, HandedOut DEF Offers
  <2>2. /\ results' = results
        /\ got'[w] = [job |-> id, attempt |-> jobs'[id].AttemptCount]
        /\ \A v \in Workers : Holds(v)' /\ v # w => Holds(v) /\ got'[v] = got[v]
    BY <1>4 DEF Offers, OthersHold, SameHolder
  <2>3. got'[w].job = id /\ Current(got[w])'
    BY <2>1, <2>2
  <2>4. /\ \A v \in Workers : Holds(v) => got[v].job # id
        /\ \A m \in results : m.job # id
    BY <2>1 DEF Outstanding, HeldByWorker, Reported
  <2>5. OneAttemptAtATime'
    BY <1>a, <2>2, <2>3, <2>4 DEF OneAttemptAtATime
  <2>6. ReportsCurrentAttempt'
    BY <1>a, <2>1, <2>2, <2>3 DEF ReportsCurrentAttempt
  <2> QED BY <2>5, <2>6 DEF Kept
<1>5. ASSUME NEW w \in Workers, NEW id \in JobIDs, OffersInVain(w, id)
      PROVE  Kept
  <2>1. ASSUME NEW o, Current(o)
        PROVE  Current(o)'
    BY <1>a, <1>5, <2>1, HandedOut DEF OffersInVain
  <2> QED BY <1>5, <1>b, <2>1 DEF OffersInVain, SameHolders, SameHolder
<1>6. ASSUME NEW w \in Workers, NEW new \in ResultRequest, Reports(w, new)
      PROVE  Kept
  <2>1. /\ UNCHANGED <<jobs, lost>>
        /\ results' = results \cup {new}
        /\ new.job = got[w].job /\ new.attempt = got[w].attempt
    BY <1>6 DEF Reports
  <2>2. /\ Holds(w)
        /\ ~ Holds(w)'
        /\ \A v \in Workers : Holds(v)' => Holds(v) /\ got'[v] = got[v] /\ v # w
    BY <1>6 DEF Reports, OthersHold, SameHolder
  <2>3. Current(new)'
    BY <1>a, <2>1, <2>2 DEF Current
  <2>4. \A m \in results : m.job # new.job
    BY <1>a, <2>1, <2>2 DEF OneAttemptAtATime
  <2>5. \A v \in Workers : Holds(v)' => got'[v].job # new.job
    BY <1>a, <2>1, <2>2 DEF OneAttemptAtATime
  <2>6. OneAttemptAtATime'
    <3>1. \A v, u \in Workers :
              Holds(v)' /\ Holds(u)' /\ got'[v].job = got'[u].job => v = u
      BY <1>a, <2>2 DEF OneAttemptAtATime
    <3>2. \A m, n \in results' : m.job = n.job => m = n
      BY <1>a, <2>1, <2>4 DEF OneAttemptAtATime
    <3>3. \A v \in Workers, m \in results' : Holds(v)' => got'[v].job # m.job
      BY <1>a, <2>1, <2>2, <2>5 DEF OneAttemptAtATime
    <3> QED BY <3>1, <3>2, <3>3 DEF OneAttemptAtATime
  <2>7. ReportsCurrentAttempt'
    BY <1>a, <1>c, <2>1, <2>2, <2>3 DEF ReportsCurrentAttempt
  <2> QED BY <2>6, <2>7 DEF Kept
<1>7. ASSUME NEW w \in Workers, Drops(w)
      PROVE  Kept
  BY <1>7, <1>b, <1>c DEF Drops, OthersHold, SameHolder
<1>8. ASSUME NEW m \in results, DropsResult(m)
      PROVE  Kept
  BY <1>8, <1>b, <1>c DEF DropsResult, SameHolders, SameHolder
<1>9. ASSUME NEW m \in results, Delivers(m)
      PROVE  Kept
  <2>1. UNCHANGED lost /\ results' \subseteq results
    BY <1>9 DEF Delivers
  <2>2. ASSUME NEW o, Current(o), o.job # m.job
        PROVE  Current(o)'
    BY <1>a, <1>9, <2>1, <2>2, DeliveredAlone, CurrentKept
  <2>3. /\ \A v \in Workers : Holds(v)' => Holds(v) /\ got'[v] = got[v]
        /\ \A v \in Workers : Holds(v)' => got'[v].job # m.job
    BY <1>a, <1>9, DeliveredAlone DEF Delivers, SameHolders, SameHolder
  <2>4. \A v \in Workers : Holds(v)' => Current(got[v])'
    BY <1>a, <2>2, <2>3
  <2>5. \A n \in results' : Current(n)'
    BY <1>a, <1>9, <2>1, <2>2, DeliveredAlone
  <2> QED BY <1>a, <2>1, <2>3, <2>4, <2>5, NothingNewHeld DEF Kept
<1>10. ASSUME Erases
       PROVE  Kept
  <2>1. ASSUME NEW o, Current(o)
        PROVE  Current(o)'
    BY <1>10, <2>1 DEF Erases, Current
  <2> QED BY <1>10, <1>b, <2>1 DEF Erases, SameHolders, SameHolder
<1> QED BY <1>a, <1>1, <1>2, <1>3, <1>4, <1>5, <1>6, <1>7, <1>8, <1>9, <1>10, StepKind
        DEF Kept

THEOREM InvCorrect == Spec => []Inv
<1>1. Init => Inv
  <2>1. Init => (\A w \in Workers : ~ Holds(w)) /\ results = {}
    BY DEF Init, Holds
  <2> QED BY <2>1, TypeInvariant DEF Inv, OneAttemptAtATime, ReportsCurrentAttempt
<1>2. Inv /\ [Next]_vars => Inv'
  <2>1. Inv => TypeOK
    BY DEF Inv
  <2> QED BY <2>1, LeaseStep, TypeStep DEF Inv
<1> QED BY <1>1, <1>2, PTL DEF Spec

(* Whatever is lost, late or retried, no two agents work on one job.       *)
THEOREM OneAttemptCorrect == Spec => []OneAttemptAtATime
<1>1. Inv => OneAttemptAtATime
  BY DEF Inv
<1> QED BY <1>1, InvCorrect, PTL

(* The result the server takes is that of the attempt it last counted.     *)
THEOREM ReportsCorrect == Spec => []ReportsCurrentAttempt
<1>1. Inv => ReportsCurrentAttempt
  BY DEF Inv
<1> QED BY <1>1, InvCorrect, PTL

-------------------------------------------------------------------------------
(* Settled jobs.                                                           *)

(* A finished job is never touched again, nor a cancelled one that nobody  *)
(* holds: the results that could do it do not exist.                       *)
THEOREM SettledCorrect == Spec => SettledStays
<1> DEFINE Settled(id) ==
        \/ jobs[id].Status \in {"SUCCESS", "FAILED"}
        \/ jobs[id].Status = "CANCELED" /\ ~ Outstanding(id)
<1>1. ASSUME Inv, [Next]_vars, NEW id \in DOMAIN jobs, Settled(id)
      PROVE  id \in lost' \/ jobs'[id] = jobs[id]
  <2>1. /\ jobs[id].Status \in Terminal /\ jobs[id].Status # "PENDING"
        /\ TypeOK /\ StoreTypeOK /\ ReportsCurrentAttempt
    BY <1>1 DEF Terminal, Inv, TypeOK
  <2>2. id \notin lost
    BY <2>1 DEF TypeOK
  <2>3. ~ Reported(id)
    BY <1>1, <2>1, <2>2 DEF ReportsCurrentAttempt, Current, Outstanding, Reported
  <2> HIDE DEF Settled
  <2>4. CASE Silent
    BY <2>4 DEF Silent
  <2>5. ASSUME NEW x, NEW type, NEW limit, Creates(x, type, limit)
        PROVE  jobs'[id] = jobs[id]
    BY <1>1, <2>5 DEF Creates, CreateJob
  <2>6. ASSUME NEW x, Cancels(x)
        PROVE  jobs'[id] = jobs[id]
    BY <2>1, <2>6 DEF Cancels, CancelJob, Cancellable, StoreTypeOK
  <2>7. ASSUME NEW w \in Workers, NEW x \in JobIDs, Offers(w, x) \/ OffersInVain(w, x)
        PROVE  jobs'[id] = jobs[id]
    <3>1. jobs[x].Status = "PENDING" /\ \A y \in DOMAIN jobs : y # x => jobs'[y] = jobs[y]
      BY <2>1, <2>7, HandedOut DEF Offers, OffersInVain
    <3> QED BY <2>1, <3>1
  <2>8. ASSUME NEW w, NEW m, Reports(w, m) \/ Drops(w) \/ DropsResult(m)
        PROVE  jobs'[id] = jobs[id]
    BY <2>8 DEF Reports, Drops, DropsResult
  <2>9. ASSUME NEW m \in results, Delivers(m)
        PROVE  jobs'[id] = jobs[id]
    <3>1. m.job # id
      BY <2>3 DEF Reported
    <3> QED BY <1>1, <2>9, <3>1, DeliveredAlone DEF Inv
  <2>10. CASE Erases
    BY <2>10 DEF Erases
  <2> QED BY <1>1, <2>1, <2>4, <2>5, <2>6, <2>7, <2>8, <2>9, <2>10, StepKind
<1>2. Inv /\ [Next]_vars =>
          [\A id \in DOMAIN jobs :
               \/ jobs[id].Status \in {"SUCCESS", "FAILED"}
               \/ jobs[id].Status = "CANCELED" /\ ~ Outstanding(id)
               => id \in lost' \/ jobs'[id] = jobs[id]]_vars
  BY <1>1
<1> QED BY <1>2, InvCorrect, PTL DEF Spec, SettledStays

-------------------------------------------------------------------------------
(* Failed jobs.  The store keeps a job from failing before its limit and   *)
(* from being started beyond it.  That it was started at all is the        *)
(* agents' doing: what they report on was counted.                         *)
Attempted ==
    /\ \A w \in Workers : Holds(w) => got[w].attempt >= 1
    /\ \A m \in results : m.attempt >= 1
    /\ \A id \in DOMAIN jobs : jobs[id].Status = "FAILED" => jobs[id].AttemptCount >= 1

(* A step that makes no job FAILED and hands out nothing.                  *)
LEMMA AttemptedKept ==
    ASSUME Attempted,
           \A v \in Workers : Holds(v)' => Holds(v) /\ got'[v] = got[v],
           \A m \in results' : m.attempt >= 1,
           \A id \in DOMAIN jobs' : jobs'[id].Status = "FAILED" =>
               id \in DOMAIN jobs /\ jobs'[id] = jobs[id]
    PROVE  Attempted'
  BY DEF Attempted

LEMMA AttemptedStep ==
    ASSUME Inv, Attempted, [Next]_vars
    PROVE  Attempted'
<1>a. /\ TypeOK /\ StoreTypeOK /\ OneAttemptAtATime /\ ReportsCurrentAttempt
      /\ [StoreNext \/ RestartStore]_storeVars
  BY StepOfStore DEF Inv, TypeOK
<1>b. ASSUME SameHolders
      PROVE  \A v \in Workers : Holds(v)' => Holds(v) /\ got'[v] = got[v]
  BY <1>b DEF SameHolders, SameHolder
<1>c. ASSUME NEW w \in Workers, OthersHold(w), ~ Holds(w)'
      PROVE  \A v \in Workers : Holds(v)' => Holds(v) /\ got'[v] = got[v]
  BY <1>c DEF OthersHold, SameHolder
<1>d. \A id \in DOMAIN jobs : jobs[id] \in Job
  BY <1>a DEF StoreTypeOK
<1>1. ASSUME \/ Silent
             \/ \E m \in results : DropsResult(m)
             \/ \E w \in Workers : Drops(w)
      PROVE  Attempted'
  BY <1>1, <1>b, <1>c, AttemptedKept DEF Silent, DropsResult, Drops, Attempted
<1>2. ASSUME NEW w \in Workers, NEW m \in ResultRequest, Reports(w, m)
      PROVE  Attempted'
  BY <1>2, <1>c, AttemptedKept DEF Reports, Attempted
<1>3. ASSUME NEW x, NEW type, NEW limit, Creates(x, type, limit)
      PROVE  Attempted'
  <2>1. \A id \in DOMAIN jobs' : jobs'[id].Status = "FAILED" =>
            id \in DOMAIN jobs /\ jobs'[id] = jobs[id]
    BY <1>3 DEF Creates, CreateJob, NewJob
  <2> QED BY <1>3, <1>b, <2>1, AttemptedKept DEF Creates, Attempted
<1>4. ASSUME NEW x \in JobIDs, Cancels(x)
      PROVE  Attempted'
  <2>1. /\ x \in DOMAIN jobs /\ jobs[x] \in Job
        /\ DOMAIN jobs' = DOMAIN jobs /\ jobs'[x] = Finished(jobs[x], "CANCELED")
        /\ \A y \in DOMAIN jobs : y # x => jobs'[y] = jobs[y]
    BY <1>4, <1>d DEF Cancels, CancelJob, Cancellable
  <2>2. jobs'[x].Status = "CANCELED"
    BY <2>1, FinishedRecord DEF Terminal
  <2> QED BY <1>4, <1>b, <2>1, <2>2, AttemptedKept DEF Cancels, Attempted
<1>5. ASSUME NEW w \in Workers, NEW x \in JobIDs, Offers(w, x) \/ OffersInVain(w, x)
      PROVE  /\ \A id \in DOMAIN jobs' : jobs'[id].Status = "FAILED" =>
                    id \in DOMAIN jobs /\ jobs'[id] = jobs[id]
             /\ jobs'[x].AttemptCount >= 1
  <2>1. AgentOf[w] \in AgentIDs /\ UNCHANGED lost
    BY <1>5 DEF Offers, OffersInVain
  <2>2. AssignNextJob(AgentOf[w], Capabilities[w], x)
    BY <1>5 DEF Offers, OffersInVain
  <2>3. /\ x \in DOMAIN jobs /\ jobs[x] \in Job
        /\ DOMAIN jobs' = DOMAIN jobs /\ jobs'[x] = Assigned(jobs[x], AgentOf[w])
        /\ \A y \in DOMAIN jobs : y # x => jobs'[y] = jobs[y]
    BY <1>a, <2>1, <2>2, HandedOut
  <2>4. jobs'[x].Status = "RUNNING" /\ jobs'[x].AttemptCount = jobs[x].AttemptCount + 1
    BY <2>1, <2>3, AssignedRecord
  <2>5. jobs[x].AttemptCount \in Nat
    BY <2>3 DEF Job
  <2> QED BY <2>3, <2>4, <2>5
<1>6. ASSUME NEW w \in Workers, NEW x \in JobIDs, OffersInVain(w, x)
      PROVE  Attempted'
  BY <1>5, <1>6, <1>b, AttemptedKept DEF OffersInVain, Attempted
<1>7. ASSUME NEW w \in Workers, NEW x \in JobIDs, Offers(w, x)
      PROVE  Attempted'
  <2>1. /\ got'[w] = [job |-> x, attempt |-> jobs'[x].AttemptCount]
        /\ results' = results /\ OthersHold(w)
    BY <1>7 DEF Offers
  <2>2. got'[w].attempt >= 1
    BY <1>5, <1>7, <2>1
  <2>3. \A v \in Workers : Holds(v)' => got'[v].attempt >= 1
    BY <2>1, <2>2 DEF OthersHold, SameHolder, Attempted
  <2> QED BY <1>5, <1>7, <2>1, <2>3 DEF Attempted
<1>8. ASSUME NEW m \in results, Delivers(m)
      PROVE  Attempted'
  <2>1. m.job \in DOMAIN jobs /\ m.job \in JobIDs /\ m.outcome \in Outcomes
        /\ jobs[m.job] \in Job /\ m.job \notin lost
    BY <1>8, <1>a DEF Delivers, CompleteJob, TypeOK, StoreTypeOK, ResultRequest
  <2>2. jobs[m.job].AttemptCount = m.attempt
    BY <1>a, <2>1 DEF ReportsCurrentAttempt, Current
  <2>3. \/ jobs'[m.job] = Requeued(jobs[m.job])
        \/ jobs'[m.job] = Finished(jobs[m.job], m.outcome)
    BY <1>8, <2>1 DEF Delivers, CompleteJob
  <2>4. jobs'[m.job].AttemptCount = jobs[m.job].AttemptCount
    BY <2>1, <2>3, RequeuedRecord, FinishedRecord DEF Outcomes, Terminal
  <2>5. /\ DOMAIN jobs' = DOMAIN jobs
        /\ \A x \in DOMAIN jobs : x # m.job => jobs'[x] = jobs[x]
    BY <1>8, <1>a, DeliveredAlone
  <2>6. m.attempt >= 1
    BY DEF Attempted
  <2>7. \A id \in DOMAIN jobs' : jobs'[id].Status = "FAILED" => jobs'[id].AttemptCount >= 1
    BY <2>2, <2>4, <2>5, <2>6 DEF Attempted
  <2>8. \A n \in results' : n.attempt >= 1
    BY <1>8 DEF Delivers, Attempted
  <2>9. \A v \in Workers : Holds(v)' => got'[v].attempt >= 1
    BY <1>8, <1>b DEF Delivers, Attempted
  <2> QED BY <2>7, <2>8, <2>9 DEF Attempted
<1>9. ASSUME Erases
      PROVE  Attempted'
  BY <1>9, <1>b, AttemptedKept DEF Erases, RestartStore, Attempted
<1> QED BY <1>a, <1>1, <1>2, <1>3, <1>4, <1>6, <1>7, <1>8, <1>9, StepKind

(* A FAILED job has used exactly the attempts it was given.                *)
THEOREM FailedAfterLastAttemptCorrect == Spec => []FailedAfterLastAttempt
<1>1. Init => Attempted
  BY DEF Init, StoreInit, Holds, Attempted
<1>2. Inv /\ Attempted /\ [Next]_vars => Attempted'
  BY AttemptedStep
<1>3. Inv /\ Attempted /\ AttemptsBounded /\ NotFailedEarly => FailedAfterLastAttempt
  <2> SUFFICES ASSUME Inv, Attempted, AttemptsBounded, NotFailedEarly,
                      NEW id \in DOMAIN jobs, jobs[id].Status = "FAILED"
               PROVE  jobs[id].AttemptCount =
                          IF jobs[id].MaxRetries > 1 THEN jobs[id].MaxRetries ELSE 1
    BY DEF FailedAfterLastAttempt
  <2>1. jobs[id] \in Job
    BY DEF Inv, TypeOK, StoreTypeOK
  <2>2. jobs[id].AttemptCount \in Nat /\ jobs[id].MaxRetries \in Nat
    BY <2>1 DEF Job
  <2>3. /\ jobs[id].AttemptCount >= 1 /\ jobs[id].AttemptCount >= jobs[id].MaxRetries
        /\ jobs[id].AttemptCount <= 1 \/ jobs[id].AttemptCount <= jobs[id].MaxRetries
    BY DEF Attempted, AttemptsBounded, NotFailedEarly
  <2> QED BY <2>2, <2>3
<1>4. Spec => [](AttemptsBounded /\ NotFailedEarly)
  <2>1. JobOrderComplete /\ AttemptsBounded /\ NotFailedEarly /\ OwnerConsistency
            => AttemptsBounded /\ NotFailedEarly
    OBVIOUS
  <2> QED BY <2>1, ImplementsStore, ConsistentAcrossRestarts, PTL
<1> QED BY <1>1, <1>2, <1>3, <1>4, InvCorrect, PTL DEF Spec

-------------------------------------------------------------------------------
(* Holders and orphans.                                                    *)

LEMMA HolderStep ==
    ASSUME Inv, HolderIsAssignee, [Next]_vars
    PROVE  HolderIsAssignee'
<1> DEFINE Fits(v, job) == job.AssignedAgentID = AgentOf[v] /\ job.Type \in Capabilities[v]
<1> SUFFICES ASSUME NEW v \in Workers, Holds(v)', got'[v].job \notin lost'
             PROVE  Fits(v, jobs'[got'[v].job])
  BY DEF HolderIsAssignee
<1>a. TypeOK /\ StoreTypeOK /\ OneAttemptAtATime /\ ReportsCurrentAttempt
  BY DEF Inv, TypeOK
<1> DEFINE Before == Holds(v) /\ got'[v] = got[v] /\ got[v].job \notin lost
<1>b. ASSUME Before
      PROVE  /\ got[v].job \in DOMAIN jobs /\ jobs[got[v].job] \in Job
             /\ Fits(v, jobs[got[v].job])
             /\ \A id : jobs[id].Status = "PENDING" => got[v].job # id
  BY <1>a, <1>b DEF HolderIsAssignee, ReportsCurrentAttempt, Current, StoreTypeOK
<1>1. ASSUME Before, jobs'[got[v].job] = jobs[got[v].job]
      PROVE  Fits(v, jobs'[got'[v].job])
  BY <1>1, <1>b
<1>2. CASE Silent
  BY <1>1, <1>2 DEF Silent, SameHolders, SameHolder
<1>3. ASSUME NEW id \in JobIDs, NEW type \in JobTypes, NEW limit \in RetryLimits,
             Creates(id, type, limit)
      PROVE  Fits(v, jobs'[got'[v].job])
  <2>1. Before
    BY <1>3 DEF Creates, SameHolders, SameHolder
  <2> QED BY <1>1, <1>3, <1>b, <2>1 DEF Creates, CreateJob
<1>4. ASSUME NEW id \in JobIDs, Cancels(id)
      PROVE  Fits(v, jobs'[got'[v].job])
  <2>1. Before
    BY <1>4 DEF Cancels, SameHolders, SameHolder
  <2>2. CASE got[v].job = id
    <3>1. jobs'[id] = Finished(jobs[id], "CANCELED")
      BY <1>4, <1>a DEF Cancels, CancelJob, Cancellable, StoreTypeOK
    <3>2. /\ Finished(jobs[id], "CANCELED").AssignedAgentID = jobs[id].AssignedAgentID
          /\ Finished(jobs[id], "CANCELED").Type = jobs[id].Type
      BY <1>b, <2>1, <2>2, FinishedRecord DEF Terminal
    <3> QED BY <1>b, <2>1, <2>2, <3>1, <3>2
  <2>3. CASE got[v].job # id
    BY <1>1, <1>4, <1>b, <2>1, <2>3 DEF Cancels, CancelJob
  <2> QED BY <2>2, <2>3
<1>5. ASSUME NEW w \in Workers, NEW id \in JobIDs, Offers(w, id)
      PROVE  Fits(v, jobs'[got'[v].job])
  <2>1. /\ jobs[id] \in Job /\ jobs[id].Status = "PENDING"
        /\ jobs'[id] = Assigned(jobs[id], AgentOf[w])
        /\ \A x \in DOMAIN jobs : x # id => jobs'[x] = jobs[x]
    BY <1>5, <1>a, HandedOut DEF Offers
  <2>2. CASE v = w
    <3>1. got'[v].job = id
      BY <1>5, <2>2 DEF Offers
    <3>2. jobs[id].Type \in Capabilities[v]
      BY <1>5, <2>2 DEF Offers, AssignNextJob, FirstEligible, Eligible
    <3> QED BY <2>1, <2>2, <3>1, <3>2, AssignedRecord
  <2>3. CASE v # w
    <3>1. Before
      BY <1>5, <2>3 DEF Offers, OthersHold, SameHolder
    <3> QED BY <1>1, <1>b, <2>1, <3>1
  <2> QED BY <2>2, <2>3
<1>6. ASSUME NEW w \in Workers, NEW id \in JobIDs, OffersInVain(w, id)
      PROVE  Fits(v, jobs'[got'[v].job])
  <2>1. /\ AgentOf[w] \in AgentIDs /\ UNCHANGED lost
        /\ AssignNextJob(AgentOf[w], Capabilities[w], id)
    BY <1>6 DEF OffersInVain
  <2>2. /\ jobs[id].Status = "PENDING"
        /\ \A x \in DOMAIN jobs : x # id => jobs'[x] = jobs[x]
    BY <1>a, <2>1, HandedOut
  <2>3. Before
    BY <1>6 DEF OffersInVain, SameHolders, SameHolder
  <2> QED BY <1>1, <1>b, <2>2, <2>3
<1>7. ASSUME NEW w \in Workers, NEW m, Reports(w, m) \/ Drops(w)
      PROVE  Fits(v, jobs'[got'[v].job])
  <2>1. Before /\ UNCHANGED jobs
    BY <1>7 DEF Reports, Drops, OthersHold, SameHolder
  <2> QED BY <1>1, <2>1
<1>8. ASSUME NEW m \in results, DropsResult(m)
      PROVE  Fits(v, jobs'[got'[v].job])
  BY <1>1, <1>8 DEF DropsResult, SameHolders, SameHolder
<1>9. ASSUME NEW m \in results, Delivers(m)
      PROVE  Fits(v, jobs'[got'[v].job])
  <2>1. Before
    BY <1>9 DEF Delivers, SameHolders, SameHolder
  <2> QED BY <1>1, <1>9, <1>a, <1>b, <2>1, DeliveredAlone
<1>10. CASE Erases
  <2>1. Before
    BY <1>10 DEF Erases, SameHolders, SameHolder
  <2> QED BY <1>10, <1>b, <2>1 DEF Erases
<1> HIDE DEF Fits
<1> QED BY <1>a, <1>2, <1>3, <1>4, <1>5, <1>6, <1>7, <1>8, <1>9, <1>10, StepKind

(* A worker only ever works on a job that is assigned to its id and of a   *)
(* type it declared, although the scheduler reads the capabilities from    *)
(* the poll and not from the table of agents.                              *)
THEOREM HolderCorrect == Spec => []HolderIsAssignee
<1>1. Init => HolderIsAssignee
  BY DEF Init, HolderIsAssignee, Holds
<1> QED BY <1>1, HolderStep, InvCorrect, PTL DEF Spec

(* The budget of faults: what a step may add to the orphans and to the     *)
(* late polls, which may orphan a job yet.                                 *)
LEMMA Budget ==
    ASSUME NEW O, NEW L, NEW f \in Nat, NEW O2, NEW L2, NEW f2 \in Nat,
           IsFiniteSet(O), IsFiniteSet(L), Cardinality(O) + Cardinality(L) <= f,
           \/ O2 \subseteq O /\ L2 \subseteq L /\ f2 >= f
           \/ \E x : O2 \subseteq O \cup {x} /\ L2 \subseteq L /\ f2 >= f + 1
           \/ \E x : O2 \subseteq O /\ L2 \subseteq L \cup {x} /\ f2 >= f + 1
           \/ \E x, p : /\ O2 \subseteq O \cup {x}
                        /\ p \in L /\ L2 \subseteq L \ {p}
                        /\ f2 >= f
    PROVE  /\ IsFiniteSet(O2) /\ IsFiniteSet(L2)
           /\ Cardinality(O2) + Cardinality(L2) <= f2
<1>1. ASSUME NEW S, IsFiniteSet(S), NEW T, T \subseteq S
      PROVE  /\ IsFiniteSet(T) /\ Cardinality(T) <= Cardinality(S)
             /\ Cardinality(T) \in Nat /\ Cardinality(S) \in Nat
  BY <1>1, FS_Subset, FS_CardinalityType
<1>2. ASSUME NEW S, IsFiniteSet(S), NEW x, NEW T, T \subseteq S \cup {x}
      PROVE  /\ IsFiniteSet(T) /\ Cardinality(T) <= Cardinality(S) + 1
             /\ Cardinality(T) \in Nat /\ Cardinality(S) \in Nat
  <2>1. /\ IsFiniteSet(S \cup {x})
        /\ Cardinality(S \cup {x}) = Cardinality(S) \/
           Cardinality(S \cup {x}) = Cardinality(S) + 1
    BY <1>2, FS_AddElement
  <2>2. Cardinality(S) \in Nat
    BY <1>2, FS_CardinalityType
  <2>3. /\ IsFiniteSet(T) /\ Cardinality(T) <= Cardinality(S \cup {x})
        /\ Cardinality(T) \in Nat
    BY <1>2, <2>1, <1>1
  <2> QED BY <2>1, <2>2, <2>3
<1>3. CASE O2 \subseteq O /\ L2 \subseteq L /\ f2 >= f
  <2>1. IsFiniteSet(O2) /\ Cardinality(O2) <= Cardinality(O) /\ Cardinality(O2) \in Nat
    BY <1>1, <1>3
  <2>2. IsFiniteSet(L2) /\ Cardinality(L2) <= Cardinality(L) /\ Cardinality(L2) \in Nat
    BY <1>1, <1>3
  <2>3. Cardinality(O) \in Nat /\ Cardinality(L) \in Nat
    BY FS_CardinalityType
  <2> QED BY <1>3, <2>1, <2>2, <2>3
<1>4. ASSUME NEW x, O2 \subseteq O \cup {x}, L2 \subseteq L, f2 >= f + 1
      PROVE  /\ IsFiniteSet(O2) /\ IsFiniteSet(L2)
             /\ Cardinality(O2) + Cardinality(L2) <= f2
  <2>1. IsFiniteSet(O2) /\ Cardinality(O2) <= Cardinality(O) + 1 /\ Cardinality(O2) \in Nat
    BY <1>2, <1>4
  <2>2. IsFiniteSet(L2) /\ Cardinality(L2) <= Cardinality(L) /\ Cardinality(L2) \in Nat
    BY <1>1, <1>4
  <2>3. Cardinality(O) \in Nat /\ Cardinality(L) \in Nat
    BY FS_CardinalityType
  <2> QED BY <1>4, <2>1, <2>2, <2>3
<1>5. ASSUME NEW x, O2 \subseteq O, L2 \subseteq L \cup {x}, f2 >= f + 1
      PROVE  /\ IsFiniteSet(O2) /\ IsFiniteSet(L2)
             /\ Cardinality(O2) + Cardinality(L2) <= f2
  <2>1. IsFiniteSet(O2) /\ Cardinality(O2) <= Cardinality(O) /\ Cardinality(O2) \in Nat
    BY <1>1, <1>5
  <2>2. IsFiniteSet(L2) /\ Cardinality(L2) <= Cardinality(L) + 1 /\ Cardinality(L2) \in Nat
    BY <1>2, <1>5
  <2>3. Cardinality(O) \in Nat /\ Cardinality(L) \in Nat
    BY FS_CardinalityType
  <2> QED BY <1>5, <2>1, <2>2, <2>3
<1>6. ASSUME NEW x, NEW p \in L, O2 \subseteq O \cup {x}, L2 \subseteq L \ {p}, f2 >= f
      PROVE  /\ IsFiniteSet(O2) /\ IsFiniteSet(L2)
             /\ Cardinality(O2) + Cardinality(L2) <= f2
  <2>1. IsFiniteSet(O2) /\ Cardinality(O2) <= Cardinality(O) + 1 /\ Cardinality(O2) \in Nat
    BY <1>2, <1>6
  <2>2. IsFiniteSet(L \ {p}) /\ Cardinality(L \ {p}) = Cardinality(L) - 1
    BY <1>6, FS_RemoveElement
  <2>3. IsFiniteSet(L2) /\ Cardinality(L2) <= Cardinality(L \ {p}) /\ Cardinality(L2) \in Nat
    BY <1>1, <1>6, <2>2
  <2>4. Cardinality(O) \in Nat /\ Cardinality(L) \in Nat
    BY FS_CardinalityType
  <2> QED BY <1>6, <2>1, <2>2, <2>3, <2>4
<1> QED BY <1>3, <1>4, <1>5, <1>6

(* A job that is an orphan after a step and in the table before it was one *)
(* already, unless the step started it or took its holder away.            *)
LEMMA WasOrphan ==
    ASSUME NEW id \in Orphans', id \in DOMAIN jobs, jobs[id].Status = "RUNNING",
           Outstanding(id) => Outstanding(id)'
    PROVE  id \in Orphans
  BY DEF Orphans

LEMMA OrphanStep ==
    ASSUME Inv, IsFiniteSet(Orphans), IsFiniteSet(late), OneOrphanPerFault, [Next]_vars
    PROVE  IsFiniteSet(Orphans') /\ IsFiniteSet(late') /\ OneOrphanPerFault'
<1> DEFINE Bounded == /\ IsFiniteSet(Orphans') /\ IsFiniteSet(late')
                      /\ Cardinality(Orphans') + Cardinality(late') <= faults'
<1> DEFINE Grows(Os, Ls, n) ==
               Orphans' \subseteq Os /\ late' \subseteq Ls /\ faults' = faults + n
<1>a. /\ TypeOK /\ StoreTypeOK /\ OneAttemptAtATime /\ ReportsCurrentAttempt
      /\ faults \in Nat
  BY DEF Inv, TypeOK
<1>b. faults' \in Nat
  BY <1>a, TypeStep DEF TypeOK
<1>c. Cardinality(Orphans) + Cardinality(late) <= faults
  BY DEF OneOrphanPerFault
<1>d. ASSUME \/ Grows(Orphans, late, 0) \/ Grows(Orphans, late, 1)
             \/ \E x : Grows(Orphans \cup {x}, late, 1) \/ Grows(Orphans, late \cup {x}, 1)
             \/ \E x : \E p \in late : Grows(Orphans \cup {x}, late \ {p}, 0)
      PROVE  Bounded
  <2>1. PICK O2, L2, f2 : O2 = Orphans' /\ L2 = late' /\ f2 = faults'
    OBVIOUS
  <2>2. \/ O2 \subseteq Orphans /\ L2 \subseteq late /\ f2 >= faults
        \/ \E x : O2 \subseteq Orphans \cup {x} /\ L2 \subseteq late /\ f2 >= faults + 1
        \/ \E x : O2 \subseteq Orphans /\ L2 \subseteq late \cup {x} /\ f2 >= faults + 1
        \/ \E x, p : /\ O2 \subseteq Orphans \cup {x}
                     /\ p \in late /\ L2 \subseteq late \ {p}
                     /\ f2 >= faults
    <3>1. ASSUME NEW n \in {0, 1}, Grows(Orphans, late, n)
          PROVE  O2 \subseteq Orphans /\ L2 \subseteq late /\ f2 >= faults
      BY <1>a, <2>1, <3>1
    <3>2. ASSUME NEW x, Grows(Orphans \cup {x}, late, 1)
          PROVE  O2 \subseteq Orphans \cup {x} /\ L2 \subseteq late /\ f2 >= faults + 1
      BY <1>a, <2>1, <3>2
    <3>3. ASSUME NEW x, Grows(Orphans, late \cup {x}, 1)
          PROVE  O2 \subseteq Orphans /\ L2 \subseteq late \cup {x} /\ f2 >= faults + 1
      BY <1>a, <2>1, <3>3
    <3>4. ASSUME NEW x, NEW p \in late, Grows(Orphans \cup {x}, late \ {p}, 0)
          PROVE  /\ O2 \subseteq Orphans \cup {x} /\ L2 \subseteq late \ {p}
                 /\ f2 >= faults
      BY <1>a, <2>1, <3>4
    <3> HIDE DEF Grows
    <3> QED BY <1>d, <3>1, <3>2, <3>3, <3>4
  <2>3. f2 \in Nat
    BY <1>b, <2>1
  <2> HIDE DEF Grows
  <2>4. /\ IsFiniteSet(O2) /\ IsFiniteSet(L2)
        /\ Cardinality(O2) + Cardinality(L2) <= f2
    BY <1>a, <1>c, <2>2, <2>3, Budget
  <2> QED BY <2>1, <2>4
<1> HIDE DEF Bounded
<1>e. ASSUME SameHolders, NEW id
      PROVE  HeldByWorker(id) => HeldByWorker(id)'
  BY <1>e DEF SameHolders, SameHolder, HeldByWorker
<1>f. ASSUME NEW w \in Workers, OthersHold(w), NEW id, HeldByWorker(id), got[w].job # id
      PROVE  HeldByWorker(id)'
  BY <1>f DEF OthersHold, SameHolder, HeldByWorker
<1>g. \A id \in DOMAIN jobs : jobs[id].Status = "RUNNING" => id \in Orphans \/ Outstanding(id)
  BY DEF Orphans
<1>1. ASSUME Silent
      PROVE  Bounded
  <2>1. Orphans' \subseteq Orphans
    BY <1>1, <1>e, WasOrphan DEF Silent, Orphans, Outstanding, Reported
  <2>2. CASE late' \subseteq late /\ faults' \in {faults, faults + 1}
    BY <1>a, <1>d, <2>1, <2>2
  <2>3. ASSUME NEW p, late' = late \cup {p}, faults' = faults + 1
        PROVE  Bounded
    BY <1>d, <2>1, <2>3
  <2> QED BY <1>1, <2>2, <2>3 DEF Silent
<1>2. ASSUME NEW id \in JobIDs, NEW type \in JobTypes, NEW limit \in RetryLimits,
             Creates(id, type, limit)
      PROVE  Bounded
  <2>1. ASSUME NEW x \in Orphans'
        PROVE  x \in Orphans
    <3>1. x # id
      BY <1>2, <2>1 DEF Creates, CreateJob, Orphans, NewJob
    <3>2. x \in DOMAIN jobs /\ jobs'[x] = jobs[x]
      BY <1>2, <2>1, <3>1 DEF Creates, CreateJob, Orphans
    <3> QED BY <1>2, <1>e, <2>1, <3>2, WasOrphan DEF Creates, Orphans, Outstanding, Reported
  <2> QED BY <1>2, <1>a, <1>d, <2>1 DEF Creates, NoFault
<1>3. ASSUME NEW id \in JobIDs, Cancels(id)
      PROVE  Bounded
  <2>1. ASSUME NEW x \in Orphans'
        PROVE  x \in Orphans
    <3>1. /\ id \in DOMAIN jobs /\ jobs[id] \in Job
          /\ DOMAIN jobs' = DOMAIN jobs /\ jobs'[id] = Finished(jobs[id], "CANCELED")
          /\ \A y \in DOMAIN jobs : y # id => jobs'[y] = jobs[y]
      BY <1>3, <1>a DEF Cancels, CancelJob, Cancellable, StoreTypeOK
    <3>2. jobs'[id].Status = "CANCELED"
      BY <3>1, FinishedRecord DEF Terminal
    <3>3. x \in DOMAIN jobs /\ jobs'[x] = jobs[x]
      BY <2>1, <3>1, <3>2 DEF Orphans
    <3> QED BY <1>3, <1>e, <2>1, <3>3, WasOrphan DEF Cancels, Orphans, Outstanding, Reported
  <2> QED BY <1>3, <1>a, <1>d, <2>1 DEF Cancels, NoFault
<1>4. ASSUME NEW w \in Workers, NEW id \in JobIDs, Offers(w, id)
      PROVE  Bounded
  <2>1. /\ DOMAIN jobs' = DOMAIN jobs
        /\ \A x \in DOMAIN jobs : x # id => jobs'[x] = jobs[x]
    BY <1>4, <1>a, HandedOut DEF Offers
  <2>2. Outstanding(id)'
    BY <1>4 DEF Offers, Outstanding, HeldByWorker
  <2>3. ASSUME NEW x, HeldByWorker(x)
        PROVE  HeldByWorker(x)'
    BY <1>4, <2>3 DEF Offers, OthersHold, SameHolder, HeldByWorker
  <2>4. ASSUME NEW x \in Orphans'
        PROVE  x \in Orphans
    <3>1. x # id
      BY <2>2, <2>4 DEF Orphans
    <3>2. x \in DOMAIN jobs /\ jobs'[x] = jobs[x]
      BY <2>1, <2>4, <3>1 DEF Orphans
    <3> QED BY <1>4, <2>3, <2>4, <3>2, WasOrphan DEF Offers, Orphans, Outstanding, Reported
  <2> QED BY <1>4, <1>a, <1>d, <2>4 DEF Offers, NoFault
<1>5. ASSUME NEW w \in Workers, NEW id \in JobIDs, OffersInVain(w, id)
      PROVE  Bounded
  <2>1. /\ DOMAIN jobs' = DOMAIN jobs
        /\ \A x \in DOMAIN jobs : x # id => jobs'[x] = jobs[x]
    BY <1>5, <1>a, HandedOut DEF OffersInVain
  <2>2. ASSUME NEW x \in Orphans', x # id
        PROVE  x \in Orphans
    <3>1. x \in DOMAIN jobs /\ jobs'[x] = jobs[x]
      BY <2>1, <2>2 DEF Orphans
    <3> QED BY <1>5, <1>e, <2>2, <3>1, WasOrphan
            DEF OffersInVain, Orphans, Outstanding, Reported
  <2>3. Orphans' \subseteq Orphans \cup {id}
    BY <2>2
  <2> QED BY <1>5, <1>a, <1>d, <2>3 DEF OffersInVain
<1>6. ASSUME NEW w \in Workers, NEW m \in ResultRequest, Reports(w, m)
      PROVE  Bounded
  <2>1. ASSUME NEW x, Outstanding(x)
        PROVE  Outstanding(x)'
    <3>1. CASE x = m.job
      BY <1>6, <3>1 DEF Reports, Outstanding, Reported
    <3>2. CASE x # m.job
      BY <1>6, <1>f, <2>1, <3>2 DEF Reports, Outstanding, Reported
    <3> QED BY <3>1, <3>2
  <2>2. Orphans' \subseteq Orphans
    BY <1>6, <2>1, WasOrphan DEF Reports, Orphans
  <2> QED BY <1>6, <1>a, <1>d, <2>2 DEF Reports, NoFault
<1>7. ASSUME NEW w \in Workers, Drops(w)
      PROVE  Bounded
  <2>1. ASSUME NEW x \in Orphans', x # got[w].job
        PROVE  x \in Orphans
    <3>1. Outstanding(x) => Outstanding(x)'
      BY <1>7, <1>f, <2>1 DEF Drops, Outstanding, Reported
    <3> QED BY <1>7, <2>1, <3>1, WasOrphan DEF Drops, Orphans
  <2>2. Orphans' \subseteq Orphans \cup {got[w].job}
    BY <2>1
  <2> QED BY <1>7, <1>d, <2>2 DEF Drops, CountedFault
<1>8. ASSUME NEW m \in results, DropsResult(m)
      PROVE  Bounded
  <2>1. ASSUME NEW x \in Orphans', x # m.job
        PROVE  x \in Orphans
    <3>1. Outstanding(x) => Outstanding(x)'
      BY <1>8, <1>e, <2>1 DEF DropsResult, Outstanding, Reported
    <3> QED BY <1>8, <2>1, <3>1, WasOrphan DEF DropsResult, Orphans
  <2>2. Orphans' \subseteq Orphans \cup {m.job}
    BY <2>1
  <2>3. CASE CountedFault
    BY <1>d, <2>2, <2>3 DEF CountedFault
  <2>4. CASE m.job \notin DOMAIN jobs /\ NoFault
    <3>1. Orphans' \subseteq Orphans
      BY <1>8, <2>1, <2>4 DEF DropsResult, Orphans
    <3> QED BY <1>a, <1>d, <2>4, <3>1 DEF NoFault
  <2> QED BY <1>8, <2>3, <2>4 DEF DropsResult
<1>9. ASSUME NEW m \in results, Delivers(m)
      PROVE  Bounded
  <2>1. /\ DOMAIN jobs' = DOMAIN jobs
        /\ \A x \in DOMAIN jobs : x # m.job => jobs'[x] = jobs[x]
    BY <1>9, <1>a, DeliveredAlone
  <2>2. m.job \in DOMAIN jobs /\ jobs[m.job] \in Job /\ m.outcome \in Outcomes
    BY <1>9, <1>a DEF Delivers, CompleteJob, TypeOK, StoreTypeOK, ResultRequest
  <2>3. jobs'[m.job].Status # "RUNNING"
    <3>1. \/ jobs'[m.job] = Requeued(jobs[m.job])
          \/ jobs'[m.job] = Finished(jobs[m.job], m.outcome)
      BY <1>9, <2>2 DEF Delivers, CompleteJob
    <3> QED BY <2>2, <3>1, RequeuedRecord, FinishedRecord DEF Outcomes, Terminal
  <2>4. ASSUME NEW x \in Orphans'
        PROVE  x \in Orphans
    <3>1. x # m.job
      BY <2>3, <2>4 DEF Orphans
    <3>2. Outstanding(x) => Outstanding(x)'
      BY <1>9, <1>e, <3>1 DEF Delivers, Outstanding, Reported
    <3> QED BY <2>1, <2>4, <3>1, <3>2, WasOrphan DEF Orphans
  <2> QED BY <1>9, <1>a, <1>d, <2>4 DEF Delivers, NoFault
<1>10. ASSUME Erases
       PROVE  Bounded
  <2>1. Orphans' = {}
    BY <1>10 DEF Erases, RestartStore, Orphans
  <2> QED BY <1>10, <1>d, <2>1 DEF Erases
<1>11. Bounded
  BY <1>a, <1>1, <1>2, <1>3, <1>4, <1>5, <1>6, <1>7, <1>8, <1>9, <1>10, StepKind
<1> QED BY <1>11 DEF Bounded, OneOrphanPerFault

(* Only faults orphan jobs, and each at most one: neither signals nor      *)
(* restarts of agents nor the calls of clients cost a job.                 *)
THEOREM OrphansCorrect == Spec => []OneOrphanPerFault
<1> DEFINE IInv == IsFiniteSet(Orphans) /\ IsFiniteSet(late) /\ OneOrphanPerFault
<1>1. Init => IInv
  <2> SUFFICES ASSUME Init PROVE IInv
    OBVIOUS
  <2>1. Orphans = {} /\ late = {} /\ faults = 0
    BY DEF Init, StoreInit, Orphans
  <2> QED BY <2>1, FS_EmptySet DEF OneOrphanPerFault
<1>2. Inv /\ IInv /\ [Next]_vars => IInv'
  BY OrphanStep
<1>3. IInv => OneOrphanPerFault
  OBVIOUS
<1> QED BY <1>1, <1>2, <1>3, InvCorrect, PTL DEF Spec

-------------------------------------------------------------------------------
(* The system implements JobLease.                                         *)

(* The lease of a job is what it was.                                      *)
SameLease(id) ==
    /\ PhaseOf(id)' = PhaseOf(id)
    /\ HoldersOf(id)' = HoldersOf(id)
    /\ TriesOf(id)' = TriesOf(id)
    /\ LimitOf(id)' = LimitOf(id)

OtherLeasesSame(j) == \A id \in JobIDs \ {j} : SameLease(id)

(* A step that touches one job is a step of JobLease if what it does to    *)
(* this job's lease is.                                                    *)
LEMMA LeaseMoves ==
    ASSUME NEW j \in JobIDs, OtherLeasesSame(j)
    PROVE  /\ SameLease(j) => UNCHANGED Lease!leaseVars
           /\ \A l \in RetryLimits :
                  /\ PhaseOf(j) = "absent" /\ PhaseOf(j)' = "queued"
                  /\ HoldersOf(j)' = HoldersOf(j) /\ TriesOf(j)' = TriesOf(j)
                  /\ LimitOf(j)' = l
                  => Lease!Submit(j, l)
           /\ /\ PhaseOf(j) \in {"queued", "lost"} /\ PhaseOf(j)' = "settled"
              /\ HoldersOf(j)' = HoldersOf(j) /\ TriesOf(j)' = TriesOf(j)
              /\ LimitOf(j)' = LimitOf(j)
              => Lease!Withdraw(j)
           /\ \A h :
                  /\ PhaseOf(j) = "queued" /\ PhaseOf(j)' = "leased"
                  /\ TriesOf(j) = 0 \/ TriesOf(j) < LimitOf(j)
                  /\ HoldersOf(j)' = {h} /\ TriesOf(j)' = TriesOf(j) + 1
                  /\ LimitOf(j)' = LimitOf(j)
                  => Lease!Lease(j, h)
           /\ /\ PhaseOf(j) = "queued" /\ PhaseOf(j)' = "lost"
              /\ TriesOf(j) = 0 \/ TriesOf(j) < LimitOf(j)
              /\ HoldersOf(j)' = HoldersOf(j) /\ TriesOf(j)' = TriesOf(j) + 1
              /\ LimitOf(j)' = LimitOf(j)
              => Lease!LeaseInVain(j)
           /\ \A h :
                  /\ PhaseOf(j) = "leased" /\ PhaseOf(j)' = "leased"
                  /\ HoldersOf(j)' = {h} /\ TriesOf(j)' = TriesOf(j)
                  /\ LimitOf(j)' = LimitOf(j)
                  => Lease!HandOver(j, h)
           /\ \A to :
                  /\ PhaseOf(j) = "leased" /\ PhaseOf(j)' = to
                  /\ HoldersOf(j)' = {} /\ TriesOf(j)' = TriesOf(j)
                  /\ LimitOf(j)' = LimitOf(j)
                  => Lease!Release(j, to)
<1> DEFINE phases  == [id \in JobIDs |-> PhaseOf(id)]
           held    == [id \in JobIDs |-> HoldersOf(id)]
           tried   == [id \in JobIDs |-> TriesOf(id)]
           limits  == [id \in JobIDs |-> LimitOf(id)]
<1>1. /\ phases' = [phases EXCEPT ![j] = PhaseOf(j)']
      /\ PhaseOf(j)' = PhaseOf(j) => phases' = phases
  BY DEF OtherLeasesSame, SameLease
<1>2. /\ held' = [held EXCEPT ![j] = HoldersOf(j)']
      /\ HoldersOf(j)' = HoldersOf(j) => held' = held
  BY DEF OtherLeasesSame, SameLease
<1>3. /\ tried' = [tried EXCEPT ![j] = TriesOf(j)']
      /\ TriesOf(j)' = TriesOf(j) => tried' = tried
  BY DEF OtherLeasesSame, SameLease
<1>4. /\ limits' = [limits EXCEPT ![j] = LimitOf(j)']
      /\ LimitOf(j)' = LimitOf(j) => limits' = limits
  BY DEF OtherLeasesSame, SameLease
<1>5. /\ phases[j] = PhaseOf(j) /\ held[j] = HoldersOf(j)
      /\ tried[j] = TriesOf(j) /\ limits[j] = LimitOf(j)
  OBVIOUS
<1>6. SameLease(j) => UNCHANGED Lease!leaseVars
  BY <1>1, <1>2, <1>3, <1>4 DEF SameLease, Lease!leaseVars
<1>7. ASSUME NEW l \in RetryLimits,
             PhaseOf(j) = "absent", PhaseOf(j)' = "queued",
             HoldersOf(j)' = HoldersOf(j), TriesOf(j)' = TriesOf(j), LimitOf(j)' = l
      PROVE  Lease!Submit(j, l)
  BY <1>1, <1>2, <1>3, <1>4, <1>5, <1>7 DEF Lease!Submit, Lease!Move
<1>8. ASSUME PhaseOf(j) \in {"queued", "lost"}, PhaseOf(j)' = "settled",
             HoldersOf(j)' = HoldersOf(j), TriesOf(j)' = TriesOf(j),
             LimitOf(j)' = LimitOf(j)
      PROVE  Lease!Withdraw(j)
  BY <1>1, <1>2, <1>3, <1>4, <1>5, <1>8 DEF Lease!Withdraw, Lease!Move
<1>9. ASSUME NEW h, PhaseOf(j) = "queued", PhaseOf(j)' = "leased",
             TriesOf(j) = 0 \/ TriesOf(j) < LimitOf(j),
             HoldersOf(j)' = {h}, TriesOf(j)' = TriesOf(j) + 1, LimitOf(j)' = LimitOf(j)
      PROVE  Lease!Lease(j, h)
  BY <1>1, <1>2, <1>3, <1>4, <1>5, <1>9 DEF Lease!Lease, Lease!Move, Lease!MayTry
<1>10. ASSUME PhaseOf(j) = "queued", PhaseOf(j)' = "lost",
              TriesOf(j) = 0 \/ TriesOf(j) < LimitOf(j),
              HoldersOf(j)' = HoldersOf(j), TriesOf(j)' = TriesOf(j) + 1,
              LimitOf(j)' = LimitOf(j)
       PROVE  Lease!LeaseInVain(j)
  BY <1>1, <1>2, <1>3, <1>4, <1>5, <1>10 DEF Lease!LeaseInVain, Lease!Move, Lease!MayTry
<1>11. ASSUME NEW h, PhaseOf(j) = "leased", PhaseOf(j)' = "leased",
              HoldersOf(j)' = {h}, TriesOf(j)' = TriesOf(j), LimitOf(j)' = LimitOf(j)
       PROVE  Lease!HandOver(j, h)
  BY <1>1, <1>2, <1>3, <1>4, <1>5, <1>11 DEF Lease!HandOver
<1>12. ASSUME NEW to, PhaseOf(j) = "leased", PhaseOf(j)' = to,
              HoldersOf(j)' = {}, TriesOf(j)' = TriesOf(j), LimitOf(j)' = LimitOf(j)
       PROVE  Lease!Release(j, to)
  BY <1>1, <1>2, <1>3, <1>4, <1>5, <1>12 DEF Lease!Release, Lease!Move
<1> HIDE DEF phases, held, tried, limits
<1> QED BY <1>6, <1>7, <1>8, <1>9, <1>10, <1>11, <1>12

(* Who holds a lease on a job of this run of the server.                   *)
HoldersTold ==
    \A id \in JobIDs :
        /\ id \in lost => HoldersOf(id) = {} /\ PhaseOf(id) = "erased"
        /\ ~ Outstanding(id) => HoldersOf(id) = {}
        /\ id \notin lost =>
               /\ Reported(id) => HoldersOf(id) = {"report"}
               /\ \A w \in Workers :
                      Holds(w) /\ got[w].job = id => HoldersOf(id) = {w}

LEMMA Told == OneAttemptAtATime => HoldersTold
<1> SUFFICES ASSUME OneAttemptAtATime, NEW id \in JobIDs
             PROVE  /\ id \in lost => HoldersOf(id) = {} /\ PhaseOf(id) = "erased"
                    /\ ~ Outstanding(id) => HoldersOf(id) = {}
                    /\ id \notin lost =>
                           /\ Reported(id) => HoldersOf(id) = {"report"}
                           /\ \A w \in Workers :
                                  Holds(w) /\ got[w].job = id => HoldersOf(id) = {w}
  BY DEF HoldersTold
<1>1. id \in lost => HoldersOf(id) = {} /\ PhaseOf(id) = "erased"
  BY DEF HoldersOf, PhaseOf
<1>2. ~ Outstanding(id) => HoldersOf(id) = {}
  BY DEF HoldersOf, Outstanding, HeldByWorker
<1>3. ASSUME id \notin lost, Reported(id)
      PROVE  HoldersOf(id) = {"report"}
  BY <1>3 DEF HoldersOf, Reported, OneAttemptAtATime
<1>4. ASSUME id \notin lost, NEW w \in Workers, Holds(w), got[w].job = id
      PROVE  HoldersOf(id) = {w}
  <2>1. ~ Reported(id)
    BY <1>4 DEF Reported, OneAttemptAtATime
  <2>2. {v \in Workers : Holds(v) /\ got[v].job = id} = {w}
    BY <1>4 DEF OneAttemptAtATime
  <2> QED BY <1>4, <2>1, <2>2 DEF HoldersOf
<1> QED BY <1>1, <1>2, <1>3, <1>4

(* The phase of a job of this run of the server.                           *)
LEMMA PhaseTold ==
    ASSUME NEW id \in JobIDs, id \notin lost
    PROVE  /\ id \notin DOMAIN jobs => PhaseOf(id) = "absent"
           /\ id \in DOMAIN jobs /\ Outstanding(id) => PhaseOf(id) = "leased"
           /\ id \in DOMAIN jobs /\ ~ Outstanding(id) =>
                  /\ jobs[id].Status = "PENDING" => PhaseOf(id) = "queued"
                  /\ jobs[id].Status = "RUNNING" => PhaseOf(id) = "lost"
                  /\ jobs[id].Status \in Terminal => PhaseOf(id) = "settled"
  BY DEF PhaseOf, Terminal

LEMMA PhaseToldNext ==
    ASSUME NEW id \in JobIDs, id \notin lost'
    PROVE  /\ id \notin DOMAIN jobs' => PhaseOf(id)' = "absent"
           /\ id \in DOMAIN jobs' /\ Outstanding(id)' => PhaseOf(id)' = "leased"
           /\ id \in DOMAIN jobs' /\ ~ Outstanding(id)' =>
                  /\ jobs'[id].Status = "PENDING" => PhaseOf(id)' = "queued"
                  /\ jobs'[id].Status = "RUNNING" => PhaseOf(id)' = "lost"
                  /\ jobs'[id].Status \in Terminal => PhaseOf(id)' = "settled"
  BY DEF PhaseOf, Terminal

(* A job that is as it was, with the same holders, has the same lease.     *)
LEMMA LeaseKept ==
    ASSUME NEW id \in JobIDs, UNCHANGED lost,
           id \in DOMAIN jobs' <=> id \in DOMAIN jobs,
           id \in DOMAIN jobs => jobs'[id] = jobs[id],
           \A v \in Workers :
               (Holds(v)' /\ got'[v].job = id) <=> (Holds(v) /\ got[v].job = id),
           Reported(id)' <=> Reported(id)
    PROVE  SameLease(id) /\ (Outstanding(id)' <=> Outstanding(id))
<1>1. Outstanding(id)' <=> Outstanding(id)
  BY DEF Outstanding, HeldByWorker
<1>2. PhaseOf(id)' = PhaseOf(id)
  <2>1. CASE id \in lost \/ id \notin DOMAIN jobs
    BY <2>1 DEF PhaseOf
  <2>2. CASE id \notin lost /\ id \in DOMAIN jobs
    BY <1>1, <2>2 DEF PhaseOf
  <2> QED BY <2>1, <2>2
<1>3. HoldersOf(id)' = HoldersOf(id)
  BY DEF HoldersOf
<1>4. TriesOf(id)' = TriesOf(id) /\ LimitOf(id)' = LimitOf(id)
  BY DEF TriesOf, LimitOf
<1> QED BY <1>1, <1>2, <1>3, <1>4 DEF SameLease

(* A job that is withdrawn from its holder, or given back by it.           *)
LEMMA LeaseGiven ==
    ASSUME Inv, NEW j \in JobIDs, Outstanding(j), ~ Outstanding(j)',
           UNCHANGED <<jobs, lost>>, HoldersTold', OtherLeasesSame(j)
    PROVE  [Lease!LeaseNext]_(Lease!leaseVars)
<1>1. HoldersOf(j)' = {} /\ TriesOf(j)' = TriesOf(j) /\ LimitOf(j)' = LimitOf(j)
  BY DEF HoldersTold, TriesOf, LimitOf
<1>2. CASE j \in lost
  <2>1. SameLease(j)
    BY <1>1, <1>2 DEF SameLease, PhaseOf, HoldersOf
  <2> QED BY <2>1, LeaseMoves
<1>3. CASE j \notin lost
  <2>1. j \in DOMAIN jobs /\ jobs[j].Status \in {"RUNNING", "CANCELED"}
    BY <1>3 DEF Inv, ReportsCurrentAttempt, Current, Outstanding, HeldByWorker, Reported
  <2>2. PhaseOf(j) = "leased" /\ PhaseOf(j)' \in {"lost", "settled"}
    BY <1>3, <2>1, PhaseTold, PhaseToldNext DEF Terminal
  <2>3. Lease!Release(j, "lost") \/ Lease!Release(j, "settled")
    BY <1>1, <2>2, LeaseMoves
  <2>4. Lease!Lose(j) \/ Lease!Settle(j)
    BY <2>3 DEF Lease!Lose, Lease!Settle
  <2> QED BY <2>4 DEF Lease!LeaseNext
<1> QED BY <1>2, <1>3

LEMMA LeaseRefined ==
    ASSUME Inv, AttemptsBounded, HoldersTold, HoldersTold', [Next]_vars
    PROVE  [Lease!LeaseNext]_(Lease!leaseVars)
<1> DEFINE Step == [Lease!LeaseNext]_(Lease!leaseVars)
<1>a. /\ TypeOK /\ StoreTypeOK /\ OneAttemptAtATime /\ ReportsCurrentAttempt
      /\ lost \subseteq JobIDs \ DOMAIN jobs /\ DOMAIN jobs \subseteq JobIDs
      /\ \A w \in Workers : Holds(w) => got[w] \in Offer
      /\ \A m \in results : m.job \in JobIDs
  BY DEF Inv, TypeOK, StoreTypeOK, ResultRequest
<1>b. \A w \in Workers : Holds(w) => got[w].job \in JobIDs
  BY <1>a DEF Offer
<1> HIDE DEF Step
<1>c. ASSUME NEW j \in JobIDs, OtherLeasesSame(j), SameLease(j)
      PROVE  Step
  BY <1>c, LeaseMoves DEF Step
<1>d. ASSUME SameHolders, NEW id, NEW v \in Workers
      PROVE  (Holds(v)' /\ got'[v].job = id) <=> (Holds(v) /\ got[v].job = id)
  BY <1>d DEF SameHolders, SameHolder
<1>e. ASSUME NEW w \in Workers, OthersHold(w), NEW id, NEW v \in Workers, v # w
      PROVE  (Holds(v)' /\ got'[v].job = id) <=> (Holds(v) /\ got[v].job = id)
  BY <1>e DEF OthersHold, SameHolder
<1>f. \A id \in DOMAIN jobs : id \in JobIDs /\ id \notin lost /\ jobs[id] \in Job
  BY <1>a DEF StoreTypeOK
<1>1. ASSUME Silent
      PROVE  Step
  <2>1. ASSUME NEW id \in JobIDs
        PROVE  SameLease(id)
    BY <1>1, <1>d, LeaseKept DEF Silent, Reported
  <2>2. UNCHANGED Lease!leaseVars
    BY <2>1 DEF SameLease, Lease!leaseVars
  <2> QED BY <2>2 DEF Step
<1>2. ASSUME NEW id \in JobIDs, NEW type \in JobTypes, NEW limit \in RetryLimits,
             Creates(id, type, limit)
      PROVE  Step
  <2>1. /\ id \notin DOMAIN jobs /\ id \notin lost /\ id \notin lost'
        /\ id \in DOMAIN jobs' /\ jobs'[id] = NewJob(type, limit)
        /\ \A x : x # id => (x \in DOMAIN jobs' <=> x \in DOMAIN jobs)
        /\ \A x \in DOMAIN jobs : x # id => jobs'[x] = jobs[x]
    BY <1>2 DEF Creates, CreateJob
  <2>2. ~ Outstanding(id)
    BY <1>a, <2>1 DEF Outstanding, HeldByWorker, Reported, ReportsCurrentAttempt, Current
  <2>3. ~ Outstanding(id)'
    BY <1>2, <2>2 DEF Creates, SameHolders, SameHolder, Outstanding, HeldByWorker, Reported
  <2>4. ASSUME NEW x \in JobIDs \ {id}
        PROVE  SameLease(x)
    BY <1>2, <1>d, <2>1, <2>4, LeaseKept DEF Creates, Reported
  <2>5. PhaseOf(id) = "absent" /\ PhaseOf(id)' = "queued"
    BY <2>1, <2>3, PhaseTold, PhaseToldNext DEF NewJob
  <2>6. HoldersOf(id)' = HoldersOf(id)
    BY <2>2, <2>3 DEF HoldersTold
  <2>7. TriesOf(id)' = TriesOf(id) /\ LimitOf(id)' = limit
    BY <2>1 DEF TriesOf, LimitOf, NewJob
  <2>8. Lease!Submit(id, limit)
    BY <2>4, <2>5, <2>6, <2>7, LeaseMoves DEF OtherLeasesSame
  <2> QED BY <2>8 DEF Step, Lease!LeaseNext
<1>3. ASSUME NEW id \in JobIDs, Cancels(id)
      PROVE  Step
  <2>1. /\ id \in DOMAIN jobs /\ id \notin lost /\ id \notin lost' /\ UNCHANGED lost
        /\ jobs[id] \in Job /\ jobs[id].Status \notin Terminal
        /\ DOMAIN jobs' = DOMAIN jobs /\ jobs'[id] = Finished(jobs[id], "CANCELED")
        /\ \A x \in DOMAIN jobs : x # id => jobs'[x] = jobs[x]
    BY <1>3, <1>f DEF Cancels, CancelJob, Cancellable
  <2>2. ASSUME NEW x \in JobIDs \ {id}
        PROVE  SameLease(x)
    BY <1>3, <1>d, <2>1, <2>2, LeaseKept DEF Cancels, Reported
  <2>3. /\ jobs'[id].Status = "CANCELED"
        /\ TriesOf(id)' = TriesOf(id) /\ LimitOf(id)' = LimitOf(id)
    BY <2>1, FinishedRecord DEF TriesOf, LimitOf, Terminal
  <2>4. (Outstanding(id)' <=> Outstanding(id)) /\ HoldersOf(id)' = HoldersOf(id)
    BY <1>3, <1>d, <2>1
       DEF Cancels, Outstanding, HeldByWorker, Reported, HoldersOf
  <2>5. CASE Outstanding(id)
    <3>1. PhaseOf(id) = "leased" /\ PhaseOf(id)' = "leased"
      BY <2>1, <2>4, <2>5, PhaseTold, PhaseToldNext
    <3> QED BY <1>c, <2>2, <2>3, <2>4, <3>1 DEF SameLease, OtherLeasesSame
  <2>6. CASE ~ Outstanding(id)
    <3>1. jobs[id].Status \in {"PENDING", "RUNNING"}
      BY <1>a, <2>1 DEF Job, JobStatus, Terminal, StoreTypeOK
    <3>2. PhaseOf(id) \in {"queued", "lost"} /\ PhaseOf(id)' = "settled"
      BY <2>1, <2>3, <2>4, <2>6, <3>1, PhaseTold, PhaseToldNext DEF Terminal
    <3>3. Lease!Withdraw(id)
      BY <2>2, <2>3, <2>4, <3>2, LeaseMoves DEF OtherLeasesSame
    <3> QED BY <3>3 DEF Step, Lease!LeaseNext
  <2> QED BY <2>5, <2>6
<1>4. ASSUME NEW w \in Workers, NEW id \in JobIDs, UNCHANGED <<lost, results>>,
             AssignNextJob(AgentOf[w], Capabilities[w], id)
      PROVE  /\ id \in DOMAIN jobs /\ id \notin lost /\ id \notin lost'
             /\ id \in DOMAIN jobs' /\ jobs'[id].Status = "RUNNING"
             /\ \A x : x \in DOMAIN jobs' <=> x \in DOMAIN jobs
             /\ \A x \in DOMAIN jobs : x # id => jobs'[x] = jobs[x]
             /\ ~ Outstanding(id)
             /\ PhaseOf(id) = "queued" /\ HoldersOf(id) = {}
             /\ TriesOf(id) = 0 \/ TriesOf(id) < LimitOf(id)
             /\ TriesOf(id)' = TriesOf(id) + 1
             /\ LimitOf(id)' = LimitOf(id)
  <2>1. AgentOf[w] \in AgentIDs /\ UNCHANGED lost
    BY <1>4
  <2>2. /\ id \in DOMAIN jobs /\ jobs[id] \in Job /\ jobs[id].Status = "PENDING"
        /\ DOMAIN jobs' = DOMAIN jobs /\ jobs'[id] = Assigned(jobs[id], AgentOf[w])
        /\ \A x \in DOMAIN jobs : x # id => jobs'[x] = jobs[x]
        /\ ~ Outstanding(id)
    <3>1. AssignNextJob(AgentOf[w], Capabilities[w], id)
      BY <1>4
    <3>2. TypeOK /\ ReportsCurrentAttempt
      BY <1>a
    <3> QED BY <2>1, <3>1, <3>2, HandedOut
  <2>3. id \notin lost /\ id \notin lost'
    BY <1>4, <1>f, <2>2
  <2>4. /\ jobs'[id].Status = "RUNNING"
        /\ TriesOf(id)' = TriesOf(id) + 1 /\ LimitOf(id)' = LimitOf(id)
    BY <2>1, <2>2, AssignedRecord DEF TriesOf, LimitOf
  <2>5. TriesOf(id) = 0 \/ TriesOf(id) < LimitOf(id)
    BY <2>2 DEF TriesOf, LimitOf, AttemptsBounded, CanRetry
  <2>6. PhaseOf(id) = "queued" /\ HoldersOf(id) = {}
    BY <2>2, <2>3, PhaseTold DEF HoldersTold
  <2> QED BY <2>2, <2>3, <2>4, <2>5, <2>6
<1>5. ASSUME NEW w \in Workers, NEW id \in JobIDs, Offers(w, id)
      PROVE  Step
  <2>1. /\ AssignNextJob(AgentOf[w], Capabilities[w], id)
        /\ UNCHANGED <<lost, results>> /\ OthersHold(w)
        /\ ~ Holds(w) /\ Holds(w)' /\ got'[w].job = id
    BY <1>5 DEF Offers
  <2>2. ASSUME NEW x \in JobIDs \ {id}
        PROVE  SameLease(x)
    <3>1. \A v \in Workers :
              (Holds(v)' /\ got'[v].job = x) <=> (Holds(v) /\ got[v].job = x)
      BY <1>e, <2>1, <2>2
    <3> QED BY <1>4, <2>1, <2>2, <3>1, LeaseKept DEF Reported
  <2>3. Outstanding(id)'
    BY <2>1 DEF Outstanding, HeldByWorker
  <2>4. PhaseOf(id)' = "leased"
    BY <1>4, <2>1, <2>3, PhaseToldNext
  <2>5. HoldersOf(id)' = {w}
    BY <1>4, <2>1 DEF HoldersTold
  <2>6. Lease!Lease(id, w)
    BY <1>4, <2>1, <2>2, <2>4, <2>5, LeaseMoves DEF OtherLeasesSame
  <2> QED BY <2>6 DEF Step, Lease!LeaseNext
<1>6. ASSUME NEW w \in Workers, NEW id \in JobIDs, OffersInVain(w, id)
      PROVE  Step
  <2>1. /\ AssignNextJob(AgentOf[w], Capabilities[w], id)
        /\ UNCHANGED <<lost, results>> /\ SameHolders
    BY <1>6 DEF OffersInVain
  <2>2. ASSUME NEW x \in JobIDs \ {id}
        PROVE  SameLease(x)
    BY <1>4, <1>d, <2>1, <2>2, LeaseKept DEF Reported
  <2>3. ~ Outstanding(id)'
    BY <1>4, <1>d, <2>1 DEF Outstanding, HeldByWorker, Reported
  <2>4. PhaseOf(id)' = "lost" /\ HoldersOf(id)' = HoldersOf(id)
    BY <1>4, <2>1, <2>3, PhaseToldNext DEF HoldersTold
  <2>5. Lease!LeaseInVain(id)
    BY <1>4, <2>1, <2>2, <2>4, LeaseMoves DEF OtherLeasesSame
  <2> QED BY <2>5 DEF Step, Lease!LeaseNext
<1>7. ASSUME NEW w \in Workers, NEW m \in ResultRequest, Reports(w, m)
      PROVE  Step
  <2>1. /\ UNCHANGED <<jobs, lost>> /\ OthersHold(w)
        /\ Holds(w) /\ ~ Holds(w)'
        /\ m.job = got[w].job /\ results' = results \cup {m}
    BY <1>7 DEF Reports
  <2>2. m.job \in JobIDs
    BY <1>b, <2>1
  <2>3. ASSUME NEW x \in JobIDs \ {m.job}
        PROVE  SameLease(x)
    <3>1. \A v \in Workers :
              (Holds(v)' /\ got'[v].job = x) <=> (Holds(v) /\ got[v].job = x)
      BY <1>e, <2>1, <2>3
    <3> QED BY <2>1, <2>3, <3>1, LeaseKept DEF Reported
  <2>4. /\ Outstanding(m.job) /\ Outstanding(m.job)' /\ Reported(m.job)'
        /\ TriesOf(m.job)' = TriesOf(m.job) /\ LimitOf(m.job)' = LimitOf(m.job)
    BY <2>1 DEF Outstanding, HeldByWorker, Reported, TriesOf, LimitOf
  <2>5. CASE m.job \in lost
    <3>1. SameLease(m.job)
      BY <2>1, <2>4, <2>5 DEF SameLease, PhaseOf, HoldersOf
    <3> QED BY <1>c, <2>2, <2>3, <3>1 DEF OtherLeasesSame
  <2>6. CASE m.job \notin lost
    <3>1. m.job \in DOMAIN jobs
      BY <1>a, <2>1, <2>6 DEF ReportsCurrentAttempt, Current
    <3>2. PhaseOf(m.job) = "leased" /\ PhaseOf(m.job)' = "leased"
      BY <2>1, <2>2, <2>4, <2>6, <3>1, PhaseTold, PhaseToldNext
    <3>3. HoldersOf(m.job)' = {"report"}
      BY <2>1, <2>2, <2>4, <2>6 DEF HoldersTold
    <3>4. Lease!HandOver(m.job, "report")
      BY <2>2, <2>3, <2>4, <3>2, <3>3, LeaseMoves DEF OtherLeasesSame
    <3> QED BY <2>2, <3>4 DEF Step, Lease!LeaseNext
  <2> QED BY <2>5, <2>6
<1>8. ASSUME NEW w \in Workers, Drops(w)
      PROVE  Step
  <2>1. /\ UNCHANGED <<jobs, lost, results>> /\ OthersHold(w)
        /\ Holds(w) /\ ~ Holds(w)' /\ got[w].job \in JobIDs
    BY <1>b, <1>8 DEF Drops
  <2>2. ASSUME NEW x \in JobIDs \ {got[w].job}
        PROVE  SameLease(x)
    <3>1. \A v \in Workers :
              (Holds(v)' /\ got'[v].job = x) <=> (Holds(v) /\ got[v].job = x)
      BY <1>e, <2>1, <2>2
    <3> QED BY <2>1, <2>2, <3>1, LeaseKept DEF Reported
  <2>3. Outstanding(got[w].job)
    BY <2>1 DEF Outstanding, HeldByWorker
  <2>4. PICK j \in JobIDs : j = got[w].job
    BY <2>1
  <2>5. ~ Outstanding(j)'
    <3>1. \A v \in Workers : ~ (Holds(v)' /\ got'[v].job = j)
      BY <1>a, <2>1, <2>4 DEF OthersHold, SameHolder, OneAttemptAtATime
    <3>2. \A m \in results' : m.job # j
      BY <1>a, <2>1, <2>4 DEF OneAttemptAtATime
    <3> QED BY <3>1, <3>2 DEF Outstanding, HeldByWorker, Reported
  <2> QED BY <2>1, <2>2, <2>3, <2>4, <2>5, LeaseGiven DEF Step, OtherLeasesSame
<1>9. ASSUME NEW m \in results, DropsResult(m)
      PROVE  Step
  <2>1. /\ UNCHANGED <<jobs, lost>> /\ SameHolders /\ results' = results \ {m}
        /\ m.job \in JobIDs
    BY <1>a, <1>9 DEF DropsResult
  <2>2. ASSUME NEW x \in JobIDs \ {m.job}
        PROVE  SameLease(x)
    BY <1>d, <2>1, <2>2, LeaseKept DEF Reported
  <2>3. Outstanding(m.job)
    BY DEF Outstanding, Reported
  <2>4. ~ Outstanding(m.job)'
    BY <1>a, <1>d, <2>1 DEF Outstanding, HeldByWorker, Reported, OneAttemptAtATime
  <2> QED BY <2>1, <2>2, <2>3, <2>4, LeaseGiven DEF Step, OtherLeasesSame
<1>10. ASSUME NEW m \in results, Delivers(m)
       PROVE  Step
  <2>1. /\ UNCHANGED lost /\ SameHolders /\ results' = results \ {m}
        /\ m.job \in DOMAIN jobs /\ m.job \in JobIDs /\ m.job \notin lost
        /\ m.job \notin lost' /\ jobs[m.job] \in Job /\ m.outcome \in Outcomes
    BY <1>10, <1>a, <1>f DEF Delivers, CompleteJob, TypeOK, ResultRequest
  <2>2. /\ DOMAIN jobs' = DOMAIN jobs
        /\ \A x \in DOMAIN jobs : x # m.job => jobs'[x] = jobs[x]
    BY <1>a, <1>10, DeliveredAlone
  <2>3. ASSUME NEW x \in JobIDs \ {m.job}
        PROVE  SameLease(x)
    BY <1>d, <2>1, <2>2, <2>3, LeaseKept DEF Reported
  <2>4. Outstanding(m.job)
    BY DEF Outstanding, Reported
  <2>5. ~ Outstanding(m.job)'
    <3>1. /\ \A v \in Workers : Holds(v) => got[v].job # m.job
          /\ \A n \in results' : n.job # m.job
      BY <1>a, <1>10, DeliveredAlone
    <3> QED BY <1>d, <2>1, <3>1 DEF Outstanding, HeldByWorker, Reported
  <2>6. PhaseOf(m.job) = "leased" /\ HoldersOf(m.job)' = {}
    BY <2>1, <2>4, <2>5, PhaseTold DEF HoldersTold
  <2>7. CASE CanRetry(jobs[m.job]) /\ jobs'[m.job] = Requeued(jobs[m.job])
    <3>1. /\ jobs'[m.job].Status = "PENDING"
          /\ TriesOf(m.job)' = TriesOf(m.job) /\ LimitOf(m.job)' = LimitOf(m.job)
          /\ TriesOf(m.job) < LimitOf(m.job)
      BY <2>1, <2>2, <2>7, RequeuedRecord DEF TriesOf, LimitOf, CanRetry
    <3>2. PhaseOf(m.job)' = "queued"
      BY <2>1, <2>2, <2>5, <3>1, PhaseToldNext
    <3>3. Lease!Release(m.job, "queued")
      BY <2>1, <2>3, <2>6, <3>1, <3>2, LeaseMoves DEF OtherLeasesSame
    <3>4. Lease!Requeue(m.job)
      BY <2>1, <3>1, <3>3 DEF Lease!Requeue
    <3> QED BY <2>1, <3>4 DEF Step, Lease!LeaseNext
  <2>8. CASE jobs'[m.job] = Finished(jobs[m.job], m.outcome)
    <3>1. /\ jobs'[m.job].Status \in Terminal
          /\ TriesOf(m.job)' = TriesOf(m.job) /\ LimitOf(m.job)' = LimitOf(m.job)
      BY <2>1, <2>2, <2>8, FinishedRecord DEF TriesOf, LimitOf, Outcomes, Terminal
    <3>2. PhaseOf(m.job)' = "settled"
      BY <2>1, <2>2, <2>5, <3>1, PhaseToldNext
    <3>3. Lease!Settle(m.job)
      BY <2>1, <2>3, <2>6, <3>1, <3>2, LeaseMoves DEF OtherLeasesSame, Lease!Settle
    <3> QED BY <2>1, <3>3 DEF Step, Lease!LeaseNext
  <2>9. \/ CanRetry(jobs[m.job]) /\ jobs'[m.job] = Requeued(jobs[m.job])
        \/ jobs'[m.job] = Finished(jobs[m.job], m.outcome)
    BY <1>10, <2>1 DEF Delivers, CompleteJob
  <2> QED BY <2>7, <2>8, <2>9
<1>11. ASSUME Erases
       PROVE  Step
  <2>1. DOMAIN jobs' = {} /\ lost' = lost \cup DOMAIN jobs
    BY <1>11 DEF Erases, RestartStore
  <2>2. ASSUME NEW id \in JobIDs
        PROVE  /\ PhaseOf(id)' = IF PhaseOf(id) = "absent" THEN "absent" ELSE "erased"
               /\ HoldersOf(id)' = {} /\ TriesOf(id)' = 0 /\ LimitOf(id)' = 0
    <3>1. TriesOf(id)' = 0 /\ LimitOf(id)' = 0
      BY <2>1 DEF TriesOf, LimitOf
    <3>2. CASE id \in lost'
      <4>1. PhaseOf(id) # "absent"
        <5>1. CASE id \in lost
          BY <5>1 DEF HoldersTold
        <5>2. CASE id \in DOMAIN jobs /\ id \notin lost
          <6>1. jobs[id].Status \in {"PENDING", "RUNNING"} \cup Terminal
            BY <1>a, <1>f, <5>2 DEF Job, JobStatus, StoreTypeOK
          <6> QED BY <5>2, <6>1, PhaseTold
        <5> QED BY <2>1, <3>2, <5>1, <5>2
      <4>2. PhaseOf(id)' = "erased" /\ HoldersOf(id)' = {}
        BY <3>2 DEF HoldersTold
      <4> QED BY <3>1, <4>1, <4>2
    <3>3. CASE id \notin lost'
      <4>1. PhaseOf(id) = "absent" /\ PhaseOf(id)' = "absent"
        BY <2>1, <3>3, PhaseTold, PhaseToldNext
      <4>2. ~ Outstanding(id)
        BY <1>a, <2>1, <3>3
           DEF Outstanding, HeldByWorker, Reported, ReportsCurrentAttempt, Current
      <4>3. ~ Outstanding(id)'
        BY <1>11, <1>d, <4>2 DEF Erases, Outstanding, HeldByWorker, Reported
      <4>4. HoldersOf(id)' = {}
        BY <4>3 DEF HoldersTold
      <4> QED BY <3>1, <4>1, <4>4
    <3> QED BY <3>2, <3>3
  <2>3. Lease!Erase
    BY <2>2 DEF Lease!Erase
  <2> QED BY <2>3 DEF Step, Lease!LeaseNext
<1>12. Step
  BY <1>a, <1>1, <1>2, <1>3, <1>5, <1>6, <1>7, <1>8, <1>9, <1>10, <1>11, StepKind
<1> QED BY <1>12 DEF Step

(* Every job follows the life JobLease describes, for any number of        *)
(* processes, jobs, faults, signals and restarts: one holder at a time,    *)
(* attempts within the limit, settled for good.                            *)
THEOREM LeaseImplemented == Spec => ImplementsLease
<1>1. Init => Lease!LeaseInit
  <2> SUFFICES ASSUME Init PROVE Lease!LeaseInit
    OBVIOUS
  <2>1. DOMAIN jobs = {} /\ lost = {} /\ results = {} /\ \A w \in Workers : ~ Holds(w)
    BY DEF Init, StoreInit, Holds
  <2>2. \A id \in JobIDs : /\ PhaseOf(id) = "absent" /\ HoldersOf(id) = {}
                           /\ TriesOf(id) = 0 /\ LimitOf(id) = 0
    BY <2>1 DEF PhaseOf, HoldersOf, TriesOf, LimitOf, Reported
  <2> QED BY <2>2 DEF Lease!LeaseInit
<1>2. Inv => HoldersTold
  BY Told DEF Inv
<1>3. Inv /\ AttemptsBounded /\ HoldersTold /\ HoldersTold' /\ [Next]_vars =>
          [Lease!LeaseNext]_(Lease!leaseVars)
  BY LeaseRefined
<1>4. Spec => []AttemptsBounded
  <2>1. JobOrderComplete /\ AttemptsBounded /\ NotFailedEarly /\ OwnerConsistency
            => AttemptsBounded
    OBVIOUS
  <2> QED BY <2>1, ImplementsStore, ConsistentAcrossRestarts, PTL
<1> QED BY <1>1, <1>2, <1>3, <1>4, InvCorrect, PTL DEF Spec, ImplementsLease, Lease!LeaseSpec

-------------------------------------------------------------------------------
(* What JobLease promises, of the system.                                  *)
Promise == INSTANCE JobLeaseProofs WITH
    Jobs    <- JobIDs,
    Holders <- Workers \cup {"report"},
    Limits  <- RetryLimits,
    phase   <- [id \in JobIDs |-> PhaseOf(id)],
    holders <- [id \in JobIDs |-> HoldersOf(id)],
    tries   <- [id \in JobIDs |-> TriesOf(id)],
    limit   <- [id \in JobIDs |-> LimitOf(id)]

(* Hence of agents, messages and server together, through faults, signals  *)
(* and restarts: a job is with one agent or in one report of it and with   *)
(* nobody once it has settled (a cancelled job settles when its agent is   *)
(* done with it), and no agent gets it uncounted or beyond the attempts    *)
(* its client asked for.                                                   *)
THEOREM SystemKeepsLease == Spec => []Lease!LeaseInvariant /\ Lease!LeaseDiscipline
<1>1. Promise!LeaseSpec => []Promise!LeaseInvariant /\ Promise!LeaseDiscipline
  BY JobStoreAssumption, Promise!LeaseInvariantCorrect, Promise!LeaseDisciplineCorrect
<1>2. Lease!LeaseInit <=> Promise!LeaseInit
  BY DEF Lease!LeaseInit, Promise!LeaseInit
<1>3. Lease!LeaseInvariant <=> Promise!LeaseInvariant
  BY DEF Lease!LeaseInvariant, Promise!LeaseInvariant, Lease!Phases, Promise!Phases
<1>4. [Lease!LeaseNext]_(Lease!leaseVars) <=> [Promise!LeaseNext]_(Promise!leaseVars)
  BY DEF Lease!LeaseNext, Lease!leaseVars, Lease!Submit, Lease!Lease, Lease!LeaseInVain,
         Lease!HandOver, Lease!Requeue, Lease!Settle, Lease!Lose, Lease!Withdraw, Lease!Erase,
         Lease!Move, Lease!MayTry, Lease!Release,
         Promise!LeaseNext, Promise!leaseVars, Promise!Submit, Promise!Lease, Promise!LeaseInVain,
         Promise!HandOver, Promise!Requeue, Promise!Settle, Promise!Lose, Promise!Withdraw,
         Promise!Erase, Promise!Move, Promise!MayTry, Promise!Release
<1>5. [Lease!Disciplined]_(Lease!leaseVars) <=> [Promise!Disciplined]_(Promise!leaseVars)
  BY DEF Lease!Disciplined, Lease!leaseVars, Promise!Disciplined, Promise!leaseVars
<1> QED
  BY <1>1, <1>2, <1>3, <1>4, <1>5, LeaseImplemented, PTL
     DEF ImplementsLease, Lease!LeaseSpec, Promise!LeaseSpec,
         Lease!LeaseDiscipline, Promise!LeaseDiscipline

===============================================================================
