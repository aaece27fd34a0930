---------------------------- MODULE JobStoreProofs ----------------------------
(***************************************************************************)
(* The invariants of JobStore, for every set of jobs, agents, types and    *)
(* limits.  StoreTypeOK is inductive; each of the others is inductive      *)
(* relative to it, and NoOvertaking and AttemptsCounted hold of every step *)
(* from a typed state.                                                     *)
(***************************************************************************)
EXTENDS JobStore, TLAPS

USE JobStoreAssumption DEF JobStoreAssumption

(* The records the operations write are job records, and what they hold.   *)
LEMMA AssignedRecord ==
    ASSUME NEW job \in Job, NEW agent \in AgentIDs
    PROVE  /\ Assigned(job, agent) \in Job
           /\ Assigned(job, agent).Status = "RUNNING"
           /\ Assigned(job, agent).AssignedAgentID = agent
           /\ Assigned(job, agent).StartedAt = "stamped"
           /\ Assigned(job, agent).AttemptCount = job.AttemptCount + 1
           /\ Assigned(job, agent).Type = job.Type
           /\ Assigned(job, agent).MaxRetries = job.MaxRetries
<1>1. job.AttemptCount + 1 \in Nat
  BY DEF Job
<1>2. "RUNNING" \in JobStatus /\ "stamped" \in Time
  BY DEF JobStatus, Time
<1> QED BY <1>1, <1>2 DEF Assigned, Job

LEMMA RequeuedRecord ==
    ASSUME NEW job \in Job
    PROVE  /\ Requeued(job) \in Job
           /\ Requeued(job).Status = "PENDING"
           /\ Requeued(job).AssignedAgentID = NoAgent
           /\ Requeued(job).StartedAt = "nil"
           /\ Requeued(job).AttemptCount = job.AttemptCount
           /\ Requeued(job).Type = job.Type
           /\ Requeued(job).MaxRetries = job.MaxRetries
  BY DEF Requeued, Job, JobStatus, Time

LEMMA FinishedRecord ==
    ASSUME NEW job \in Job, NEW status \in Terminal
    PROVE  /\ Finished(job, status) \in Job
           /\ Finished(job, status).Status = status
           /\ Finished(job, status).AssignedAgentID = job.AssignedAgentID
           /\ Finished(job, status).AttemptCount = job.AttemptCount
           /\ Finished(job, status).Type = job.Type
           /\ Finished(job, status).MaxRetries = job.MaxRetries
  BY DEF Finished, Job, JobStatus, Time

LEMMA NewJobRecord ==
    ASSUME NEW type \in JobTypes, NEW limit \in RetryLimits
    PROVE  NewJob(type, limit) \in Job
  BY DEF NewJob, Job, JobStatus, Time

(* StoreTypeOK holds initially and every call of the store preserves it.   *)
LEMMA StoreTypeInvariant ==
    /\ StoreInit => StoreTypeOK
    /\ StoreTypeOK /\ [StoreNext]_storeVars => StoreTypeOK'
<1>1. StoreInit => StoreTypeOK
  BY DEF StoreInit, StoreTypeOK
<1>2. ASSUME StoreTypeOK, [StoreNext]_storeVars
      PROVE  StoreTypeOK'
  <2> USE <1>2 DEF StoreTypeOK
  <2>1. CASE \E id \in JobIDs, type \in JobTypes, limit \in RetryLimits :
                 CreateJob(id, type, limit)
    <3>1. PICK id \in JobIDs, type \in JobTypes, limit \in RetryLimits :
              CreateJob(id, type, limit)
      BY <2>1
    <3>2. NewJob(type, limit) \in Job /\ NewJob(type, limit).Status = "PENDING"
      BY NewJobRecord DEF NewJob
    <3>3. DOMAIN jobs' = DOMAIN jobs \cup {id}
      BY <3>1 DEF CreateJob
    <3>4. \A x \in DOMAIN jobs' :
              jobs'[x] = IF x = id THEN NewJob(type, limit) ELSE jobs[x]
      BY <3>1 DEF CreateJob
    <3>5. jobs' \in [DOMAIN jobs' -> Job]
      BY <3>1, <3>2, <3>3 DEF CreateJob
    <3>6. \A x \in DOMAIN jobs' : jobs'[x].Status # "RETRYING"
      BY <3>2, <3>3, <3>4
    <3>7. jobOrder' \in Seq(JobIDs) /\ agents' \subseteq AgentIDs
      BY <3>1 DEF CreateJob
    <3> QED BY <3>3, <3>5, <3>6, <3>7
  <2>2. CASE \E id \in JobIDs : CancelJob(id)
    <3>1. PICK id \in JobIDs : CancelJob(id)
      BY <2>2
    <3>2. id \in DOMAIN jobs /\ jobs' = [jobs EXCEPT ![id] = Finished(jobs[id], "CANCELED")]
      BY <3>1 DEF CancelJob, Cancellable
    <3>3. /\ Finished(jobs[id], "CANCELED") \in Job
          /\ Finished(jobs[id], "CANCELED").Status = "CANCELED"
      BY <3>2, FinishedRecord DEF Terminal
    <3> QED BY <3>1, <3>2, <3>3 DEF CancelJob, Cancellable
  <2>3. CASE \E agent \in AgentIDs : RegisterAgent(agent)
    BY <2>3 DEF RegisterAgent
  <2>4. CASE \E agent \in AgentIDs, caps \in SUBSET JobTypes, id \in JobIDs :
                 AssignNextJob(agent, caps, id)
    <3>1. PICK agent \in AgentIDs, caps \in SUBSET JobTypes, id \in JobIDs :
              AssignNextJob(agent, caps, id)
      BY <2>4
    <3>2. jobs' = [jobs EXCEPT ![id] = Assigned(jobs[id], agent)]
      BY <3>1 DEF AssignNextJob
    <3>3. ASSUME id \in DOMAIN jobs
          PROVE  /\ Assigned(jobs[id], agent) \in Job
                 /\ Assigned(jobs[id], agent).Status = "RUNNING"
      <4>1. jobs[id] \in Job
        BY <3>3
      <4> QED BY <4>1, AssignedRecord
    <3> QED BY <3>1, <3>2, <3>3 DEF AssignNextJob
  <2>5. CASE \E id \in JobIDs, outcome \in Outcomes : CompleteJob(id, outcome)
    <3>1. PICK id \in JobIDs, outcome \in Outcomes : CompleteJob(id, outcome)
      BY <2>5
    <3>2. id \in DOMAIN jobs /\ jobs[id] \in Job /\ outcome \in Terminal
      BY <3>1 DEF CompleteJob, Outcomes, Terminal
    <3>3. Requeued(jobs[id]) \in Job /\ Requeued(jobs[id]).Status # "RETRYING"
      BY <3>2, RequeuedRecord
    <3>4. Finished(jobs[id], outcome) \in Job /\ Finished(jobs[id], outcome).Status # "RETRYING"
      BY <3>2, FinishedRecord DEF Terminal
    <3>5. \/ jobs' = [jobs EXCEPT ![id] = Requeued(jobs[id])]
          \/ jobs' = [jobs EXCEPT ![id] = Finished(jobs[id], outcome)]
      BY <3>1 DEF CompleteJob
    <3> QED BY <3>1, <3>2, <3>3, <3>4, <3>5 DEF CompleteJob
  <2>6. CASE UNCHANGED storeVars
    BY <2>6 DEF storeVars
  <2> QED BY <2>1, <2>2, <2>3, <2>4, <2>5, <2>6 DEF StoreNext
<1> QED BY <1>1, <1>2

(* The tables of the store keep their types, RETRYING is never visible.    *)
THEOREM StoreTypeCorrect == StoreSpec => []StoreTypeOK
  BY StoreTypeInvariant, PTL DEF StoreSpec

-------------------------------------------------------------------------------
(* The index and the table's domain, whatever records the table holds.     *)
IndexTyped ==
    /\ jobs = [id \in DOMAIN jobs |-> jobs[id]]
    /\ jobOrder \in Seq(JobIDs)

(* What a call does to them: nothing, unless a new job is appended.  This  *)
(* covers UpdateJob.                                                       *)
LEMMA IndexStep ==
    ASSUME IndexTyped, [OpenNext]_storeVars
    PROVE  \/ DOMAIN jobs' = DOMAIN jobs /\ jobOrder' = jobOrder
           \/ \E id \in JobIDs :
                  /\ id \notin DOMAIN jobs
                  /\ DOMAIN jobs' = DOMAIN jobs \cup {id}
                  /\ jobOrder' = Append(jobOrder, id)
<1> USE DEF IndexTyped
<1>1. CASE \E id \in JobIDs, type \in JobTypes, limit \in RetryLimits :
               CreateJob(id, type, limit)
  BY <1>1 DEF CreateJob
<1>2. CASE \E id \in JobIDs : CancelJob(id)
  BY <1>2 DEF CancelJob, Cancellable
<1>3. CASE \E agent \in AgentIDs : RegisterAgent(agent)
  BY <1>3 DEF RegisterAgent
<1>4. CASE \E agent \in AgentIDs, caps \in SUBSET JobTypes, id \in JobIDs :
               AssignNextJob(agent, caps, id)
  BY <1>4 DEF AssignNextJob
<1>5. CASE \E id \in JobIDs, outcome \in Outcomes : CompleteJob(id, outcome)
  BY <1>5 DEF CompleteJob
<1>6. CASE \E id \in JobIDs, job \in Job : UpdateJob(id, job)
  BY <1>6 DEF UpdateJob
<1>7. CASE UNCHANGED storeVars
  BY <1>7 DEF storeVars
<1> QED BY <1>1, <1>2, <1>3, <1>4, <1>5, <1>6, <1>7 DEF OpenNext, StoreNext

(* JobOrderComplete survives every call, UpdateJob included.               *)
LEMMA IndexInvariant ==
    ASSUME IndexTyped, JobOrderComplete, [OpenNext]_storeVars
    PROVE  IndexTyped' /\ JobOrderComplete'
<1> USE DEF JobOrderComplete
<1>0. IndexTyped'
  <2>1. jobOrder' \in Seq(JobIDs)
    <3>1. ASSUME NEW id \in JobIDs, jobOrder' = Append(jobOrder, id)
          PROVE  jobOrder' \in Seq(JobIDs)
      BY <3>1 DEF IndexTyped
    <3>2. jobOrder \in Seq(JobIDs)
      BY DEF IndexTyped
    <3> QED BY <3>1, <3>2, IndexStep
  <2>2. jobs' = [id \in DOMAIN jobs' |-> jobs'[id]]
    BY DEF IndexTyped, OpenNext, StoreNext, storeVars, CreateJob, CancelJob, Cancellable,
           RegisterAgent, AssignNextJob, CompleteJob, UpdateJob
  <2> QED BY <2>1, <2>2 DEF IndexTyped
<1>1. CASE DOMAIN jobs' = DOMAIN jobs /\ jobOrder' = jobOrder
  BY <1>0, <1>1
<1>2. CASE \E id \in JobIDs :
               /\ id \notin DOMAIN jobs
               /\ DOMAIN jobs' = DOMAIN jobs \cup {id}
               /\ jobOrder' = Append(jobOrder, id)
  <2>1. PICK id \in JobIDs :
            /\ id \notin DOMAIN jobs
            /\ DOMAIN jobs' = DOMAIN jobs \cup {id}
            /\ jobOrder' = Append(jobOrder, id)
    BY <1>2
  <2>2. jobOrder \in Seq(JobIDs) /\ Len(jobOrder) \in Nat
    BY DEF IndexTyped
  <2>3. DOMAIN jobOrder' = 1 .. (Len(jobOrder) + 1) /\ DOMAIN jobOrder = 1 .. Len(jobOrder)
    BY <2>1, <2>2
  <2>4. /\ \A i \in DOMAIN jobOrder : jobOrder'[i] = jobOrder[i]
        /\ jobOrder'[Len(jobOrder) + 1] = id
    BY <2>1, <2>2
  <2> QED BY <1>0, <2>1, <2>2, <2>3, <2>4
<1> QED BY <1>0, <1>1, <1>2, IndexStep

(* jobOrder and the table agree in every reachable state, even if UpdateJob*)
(* were called: it could break every other invariant, but not this one.    *)
THEOREM JobOrderCorrectWithUpdateJob == OpenSpec => []JobOrderComplete
<1>1. StoreInit => IndexTyped /\ JobOrderComplete
  BY DEF StoreInit, IndexTyped, JobOrderComplete
<1>2. IndexTyped /\ JobOrderComplete /\ [OpenNext]_storeVars =>
          IndexTyped' /\ JobOrderComplete'
  BY IndexInvariant
<1> QED BY <1>1, <1>2, PTL DEF OpenSpec

(* jobOrder and the table agree in every reachable state.                  *)
THEOREM JobOrderCorrect == StoreSpec => []JobOrderComplete
<1>1. [StoreNext]_storeVars => [OpenNext]_storeVars
  BY DEF OpenNext
<1> QED BY <1>1, JobOrderCorrectWithUpdateJob, PTL DEF StoreSpec, OpenSpec

-------------------------------------------------------------------------------
(* What one call does to one job.                                          *)
Evolves(id) ==
    \/ jobs'[id] = jobs[id]
    \/ jobs[id].Status \notin Terminal /\ jobs'[id] = Finished(jobs[id], "CANCELED")
    \/ /\ jobs[id].Status = "PENDING"
       /\ \E agent \in agents : jobs'[id] = Assigned(jobs[id], agent)
    \/ CanRetry(jobs[id]) /\ jobs'[id] = Requeued(jobs[id])
    \/ \E outcome \in Outcomes : jobs'[id] = Finished(jobs[id], outcome)

Appears(id) ==
    \E type \in JobTypes, limit \in RetryLimits : jobs'[id] = NewJob(type, limit)

LEMMA JobStep ==
    ASSUME StoreTypeOK, [StoreNext]_storeVars
    PROVE  /\ DOMAIN jobs \subseteq DOMAIN jobs'
           /\ agents \subseteq agents'
           /\ \A id \in DOMAIN jobs : Evolves(id)
           /\ \A id \in DOMAIN jobs' \ DOMAIN jobs : Appears(id)
<1> USE DEF StoreTypeOK
<1>1. CASE \E id \in JobIDs, type \in JobTypes, limit \in RetryLimits :
               CreateJob(id, type, limit)
  <2>1. PICK id \in JobIDs, type \in JobTypes, limit \in RetryLimits :
            CreateJob(id, type, limit)
    BY <1>1
  <2>2. /\ DOMAIN jobs' = DOMAIN jobs \cup {id}
        /\ id \notin DOMAIN jobs
        /\ jobs'[id] = NewJob(type, limit)
        /\ \A x \in DOMAIN jobs : jobs'[x] = jobs[x]
        /\ agents' = agents
    BY <2>1 DEF CreateJob
  <2> QED BY <2>2 DEF Evolves, Appears
<1>2. CASE \E id \in JobIDs : CancelJob(id)
  BY <1>2 DEF CancelJob, Cancellable, Evolves
<1>3. CASE \E agent \in AgentIDs : RegisterAgent(agent)
  BY <1>3 DEF RegisterAgent, Evolves
<1>4. CASE \E agent \in AgentIDs, caps \in SUBSET JobTypes, id \in JobIDs :
               AssignNextJob(agent, caps, id)
  <2>1. PICK agent \in AgentIDs, caps \in SUBSET JobTypes, id \in JobIDs :
            AssignNextJob(agent, caps, id)
    BY <1>4
  <2>2. agent \in agents /\ jobs[id].Status = "PENDING"
    BY <2>1 DEF AssignNextJob, FirstEligible, Eligible
  <2> QED BY <2>1, <2>2 DEF AssignNextJob, Evolves
<1>5. CASE \E id \in JobIDs, outcome \in Outcomes : CompleteJob(id, outcome)
  BY <1>5 DEF CompleteJob, Evolves
<1>6. CASE UNCHANGED storeVars
  BY <1>6 DEF storeVars, Evolves
<1> QED BY <1>1, <1>2, <1>3, <1>4, <1>5, <1>6 DEF StoreNext

(* A job becomes FAILED by a result only, without an attempt left.         *)
LEMMA FailedByResult ==
    ASSUME StoreTypeOK, [StoreNext]_storeVars, NEW id \in DOMAIN jobs,
           jobs'[id].Status = "FAILED"
    PROVE  \/ jobs'[id] = jobs[id]
           \/ ~ CanRetry(jobs[id]) /\ jobs'[id] = Finished(jobs[id], "FAILED")
<1>1. jobs[id] \in Job
  BY DEF StoreTypeOK
<1>2. CASE \E x \in JobIDs, outcome \in Outcomes : CompleteJob(x, outcome)
  <2>1. PICK x \in JobIDs, outcome \in Outcomes : CompleteJob(x, outcome)
    BY <1>2
  <2>2. \/ jobs'[id] = jobs[id]
        \/ jobs'[id] = Requeued(jobs[id])
        \/ /\ ~ (outcome = "FAILED" /\ CanRetry(jobs[id]))
           /\ jobs'[id] = Finished(jobs[id], outcome)
    BY <2>1 DEF CompleteJob, StoreTypeOK
  <2>3. outcome \in Terminal /\ Requeued(jobs[id]).Status = "PENDING"
        /\ Finished(jobs[id], outcome).Status = outcome
    BY <1>1, RequeuedRecord, FinishedRecord DEF Outcomes, Terminal
  <2> QED BY <2>2, <2>3
<1>3. CASE \E x \in JobIDs : CancelJob(x)
  <2>1. \/ jobs'[id] = jobs[id]
        \/ jobs'[id] = Finished(jobs[id], "CANCELED")
    BY <1>3 DEF CancelJob, Cancellable, StoreTypeOK
  <2>2. Finished(jobs[id], "CANCELED").Status = "CANCELED"
    BY <1>1, FinishedRecord DEF Terminal
  <2> QED BY <2>1, <2>2
<1>4. CASE \E agent \in AgentIDs, caps \in SUBSET JobTypes, x \in JobIDs :
               AssignNextJob(agent, caps, x)
  <2>1. PICK agent \in AgentIDs, caps \in SUBSET JobTypes, x \in JobIDs :
            AssignNextJob(agent, caps, x)
    BY <1>4
  <2>2. \/ jobs'[id] = jobs[id]
        \/ jobs'[id] = Assigned(jobs[id], agent)
    BY <2>1 DEF AssignNextJob, StoreTypeOK
  <2> QED BY <1>1, <2>2, AssignedRecord
<1>5. CASE \/ \E x \in JobIDs, type \in JobTypes, limit \in RetryLimits :
                  CreateJob(x, type, limit)
           \/ \E agent \in AgentIDs : RegisterAgent(agent)
           \/ UNCHANGED storeVars
  BY <1>5 DEF CreateJob, RegisterAgent, storeVars
<1> QED BY <1>2, <1>3, <1>4, <1>5 DEF StoreNext

(* One call keeps AttemptsBounded.                                       *)
LEMMA AttemptsStep ==
    ASSUME StoreTypeOK, StoreTypeOK', AttemptsBounded, [StoreNext]_storeVars
    PROVE  AttemptsBounded'
<1> SUFFICES ASSUME NEW id \in DOMAIN jobs'
             PROVE  /\ \/ jobs'[id].AttemptCount <= 1
                       \/ jobs'[id].AttemptCount <= jobs'[id].MaxRetries
                    /\ jobs'[id].Status = "PENDING" =>
                           jobs'[id].AttemptCount = 0 \/ CanRetry(jobs'[id])
  BY DEF AttemptsBounded
<1>1. CASE id \notin DOMAIN jobs
  <2>1. Appears(id)
    BY <1>1, JobStep
  <2> QED BY <2>1 DEF Appears, NewJob
<1>2. CASE id \in DOMAIN jobs
  <2>1. Evolves(id) /\ jobs[id] \in Job
    BY <1>2, JobStep DEF StoreTypeOK
  <2>2. /\ jobs[id].AttemptCount \in Nat
        /\ jobs[id].MaxRetries \in Nat
        /\ jobs[id].AttemptCount <= 1 \/ jobs[id].AttemptCount <= jobs[id].MaxRetries
        /\ jobs[id].Status = "PENDING" =>
               jobs[id].AttemptCount = 0 \/ CanRetry(jobs[id])
    BY <1>2, <2>1 DEF AttemptsBounded, Job
  <2>3. CASE jobs'[id] = jobs[id]
    BY <2>2, <2>3
  <2>4. ASSUME NEW agent \in agents, jobs[id].Status = "PENDING",
               jobs'[id] = Assigned(jobs[id], agent)
        PROVE  /\ \/ jobs'[id].AttemptCount <= 1
                  \/ jobs'[id].AttemptCount <= jobs'[id].MaxRetries
               /\ jobs'[id].Status # "PENDING"
    <3>1. agent \in AgentIDs
      BY DEF StoreTypeOK
    <3> QED BY <2>1, <2>2, <2>4, <3>1, AssignedRecord DEF CanRetry
  <2>5. CASE CanRetry(jobs[id]) /\ jobs'[id] = Requeued(jobs[id])
    BY <2>1, <2>2, <2>5, RequeuedRecord DEF CanRetry
  <2>6. ASSUME NEW status \in Terminal, jobs'[id] = Finished(jobs[id], status)
        PROVE  /\ \/ jobs'[id].AttemptCount <= 1
                  \/ jobs'[id].AttemptCount <= jobs'[id].MaxRetries
               /\ jobs'[id].Status # "PENDING"
    BY <2>1, <2>2, <2>6, FinishedRecord DEF Terminal
  <2> QED BY <2>1, <2>3, <2>4, <2>5, <2>6 DEF Evolves, Terminal, Outcomes
<1> QED BY <1>1, <1>2

(* No job is started more often than its limit allows.                     *)
THEOREM AttemptsCorrect == StoreSpec => []AttemptsBounded
<1>1. StoreInit => AttemptsBounded
  BY DEF StoreInit, AttemptsBounded
<1> QED BY <1>1, AttemptsStep, StoreTypeCorrect, PTL DEF StoreSpec

(* One call keeps NotFailedEarly: a failure is final only without an       *)
(* attempt left, and no call takes an attempt back.                        *)
LEMMA NotFailedEarlyStep ==
    ASSUME StoreTypeOK, NotFailedEarly, [StoreNext]_storeVars
    PROVE  NotFailedEarly'
<1> SUFFICES ASSUME NEW id \in DOMAIN jobs', jobs'[id].Status = "FAILED"
             PROVE  jobs'[id].AttemptCount >= jobs'[id].MaxRetries
  BY DEF NotFailedEarly
<1>1. CASE id \notin DOMAIN jobs
  <2>1. Appears(id)
    BY <1>1, JobStep
  <2> QED BY <2>1 DEF Appears, NewJob
<1>2. CASE id \in DOMAIN jobs
  <2>1. jobs[id] \in Job
    BY <1>2 DEF StoreTypeOK
  <2>2. jobs[id].AttemptCount \in Nat /\ jobs[id].MaxRetries \in Nat
    BY <2>1 DEF Job
  <2>3. \/ jobs'[id] = jobs[id]
        \/ ~ CanRetry(jobs[id]) /\ jobs'[id] = Finished(jobs[id], "FAILED")
    BY <1>2, <2>1, FailedByResult
  <2> QED BY <1>2, <2>1, <2>2, <2>3, FinishedRecord DEF NotFailedEarly, CanRetry, Terminal
<1> QED BY <1>1, <1>2

(* A FAILED job was started as often as its limit asks for.                *)
THEOREM NotFailedEarlyCorrect == StoreSpec => []NotFailedEarly
<1>1. StoreInit => NotFailedEarly
  BY DEF StoreInit, NotFailedEarly
<1> QED BY <1>1, NotFailedEarlyStep, StoreTypeCorrect, PTL DEF StoreSpec

(* One call keeps OwnerConsistency.                                      *)
LEMMA OwnerStep ==
    ASSUME StoreTypeOK, OwnerConsistency, [StoreNext]_storeVars
    PROVE  OwnerConsistency'
<1> DEFINE Consistent(job, registered) ==
               /\ job.Status = "PENDING" =>
                      job.AssignedAgentID = NoAgent /\ job.StartedAt = "nil"
               /\ job.Status = "RUNNING" =>
                      /\ job.AssignedAgentID \in registered
                      /\ job.StartedAt = "stamped"
                      /\ job.AttemptCount >= 1
<1> SUFFICES ASSUME NEW id \in DOMAIN jobs'
             PROVE  Consistent(jobs'[id], agents')
  BY DEF OwnerConsistency
<1>1. CASE id \notin DOMAIN jobs
  <2>1. Appears(id)
    BY <1>1, JobStep
  <2> QED BY <2>1 DEF Appears, NewJob
<1>2. CASE id \in DOMAIN jobs
  <2>1. Evolves(id) /\ jobs[id] \in Job /\ agents \subseteq agents'
    BY <1>2, JobStep DEF StoreTypeOK
  <2>2. jobs[id].AttemptCount \in Nat /\ Consistent(jobs[id], agents)
    BY <1>2, <2>1 DEF OwnerConsistency, Job
  <2>3. CASE jobs'[id] = jobs[id]
    BY <2>1, <2>2, <2>3
  <2>4. ASSUME NEW agent \in agents, jobs'[id] = Assigned(jobs[id], agent)
        PROVE  Consistent(jobs'[id], agents')
    <3>1. agent \in AgentIDs
      BY DEF StoreTypeOK
    <3> QED BY <2>1, <2>2, <2>4, <3>1, AssignedRecord
  <2>5. CASE jobs'[id] = Requeued(jobs[id])
    BY <2>1, <2>5, RequeuedRecord
  <2>6. ASSUME NEW status \in Terminal, jobs'[id] = Finished(jobs[id], status)
        PROVE  Consistent(jobs'[id], agents')
    BY <2>1, <2>6, FinishedRecord DEF Terminal
  <2> QED BY <2>1, <2>3, <2>4, <2>5, <2>6 DEF Evolves, Terminal, Outcomes
<1> QED BY <1>1, <1>2

(* Status, owner and start time of a job always agree.                     *)
THEOREM OwnerCorrect == StoreSpec => []OwnerConsistency
<1>1. StoreInit => OwnerConsistency
  BY DEF StoreInit, OwnerConsistency
<1> QED BY <1>1, OwnerStep, StoreTypeCorrect, PTL DEF StoreSpec

-------------------------------------------------------------------------------
(* Only a poll starts a job, and it starts the first one it may.           *)
LEMMA StartedByPoll ==
    ASSUME StoreTypeOK, [StoreNext]_storeVars, NEW id, Started(id)
    PROVE  \E agent \in AgentIDs, caps \in SUBSET JobTypes :
               AssignNextJob(agent, caps, id)
<1> USE DEF StoreTypeOK, Started
<1>1. id \in DOMAIN jobs /\ jobs[id] \in Job /\ jobs'[id].Status = "RUNNING"
      /\ jobs[id].Status # "RUNNING"
  OBVIOUS
<1>2. ASSUME NEW x \in JobIDs, NEW type \in JobTypes, NEW limit \in RetryLimits,
             CreateJob(x, type, limit)
      PROVE  FALSE
  BY <1>1, <1>2 DEF CreateJob
<1>3. ASSUME NEW status \in Terminal
      PROVE  Finished(jobs[id], status).Status # "RUNNING"
  BY <1>1, FinishedRecord DEF Terminal
<1>4. ASSUME NEW x \in JobIDs, CancelJob(x)
      PROVE  FALSE
  BY <1>1, <1>3, <1>4 DEF CancelJob, Cancellable, Terminal
<1>5. ASSUME NEW agent \in AgentIDs, RegisterAgent(agent)
      PROVE  FALSE
  BY <1>1, <1>5 DEF RegisterAgent
<1>6. ASSUME NEW x \in JobIDs, NEW outcome \in Outcomes, CompleteJob(x, outcome)
      PROVE  FALSE
  BY <1>1, <1>3, <1>6, RequeuedRecord DEF CompleteJob, Terminal, Outcomes
<1>7. ASSUME UNCHANGED storeVars
      PROVE  FALSE
  BY <1>1, <1>7 DEF storeVars
<1>8. PICK agent \in AgentIDs, caps \in SUBSET JobTypes, x \in JobIDs :
          AssignNextJob(agent, caps, x)
  BY <1>2, <1>4, <1>5, <1>6, <1>7 DEF StoreNext
<1>9. x = id
  BY <1>1, <1>8 DEF AssignNextJob
<1> QED BY <1>8, <1>9

(* FIFO per type, whatever happens.                                        *)
THEOREM FIFO == StoreSpec => NoOvertaking
<1>1. ASSUME StoreTypeOK, JobOrderComplete, [StoreNext]_storeVars,
             NEW i \in DOMAIN jobOrder, Started(jobOrder[i]), NEW k \in 1 .. (i - 1)
      PROVE  \/ jobs[jobOrder[k]].Status # "PENDING"
             \/ jobs[jobOrder[k]].Type # jobs[jobOrder[i]].Type
  <2>1. PICK agent \in AgentIDs, caps \in SUBSET JobTypes :
            AssignNextJob(agent, caps, jobOrder[i])
    BY <1>1, StartedByPoll
  <2>2. PICK n \in DOMAIN jobOrder :
            /\ jobOrder[n] = jobOrder[i]
            /\ Eligible(jobOrder[i], caps)
            /\ \A l \in 1 .. (n - 1) : ~ Eligible(jobOrder[l], caps)
    BY <2>1 DEF AssignNextJob, FirstEligible
  <2>3. n = i
    BY <1>1, <2>2 DEF JobOrderComplete
  <2>4. k \in DOMAIN jobOrder
    BY <1>1 DEF StoreTypeOK
  <2>5. jobOrder[k] \in DOMAIN jobs
    BY <1>1, <2>4 DEF JobOrderComplete
  <2> QED BY <2>2, <2>3, <2>5 DEF Eligible
<1>2. StoreTypeOK /\ JobOrderComplete /\ [StoreNext]_storeVars =>
          [\A i \in DOMAIN jobOrder : Started(jobOrder[i]) =>
               \A k \in 1 .. (i - 1) :
                   \/ jobs[jobOrder[k]].Status # "PENDING"
                   \/ jobs[jobOrder[k]].Type # jobs[jobOrder[i]].Type]_storeVars
  BY <1>1
<1> QED BY <1>2, StoreTypeCorrect, JobOrderCorrect, PTL DEF StoreSpec, NoOvertaking

(* Jobs are kept and their attempts counted exactly.                       *)
THEOREM AttemptsCountedCorrect == StoreSpec => AttemptsCounted
<1>1. ASSUME StoreTypeOK, [StoreNext]_storeVars, NEW id \in DOMAIN jobs
      PROVE  /\ id \in DOMAIN jobs'
             /\ jobs'[id].Type = jobs[id].Type
             /\ jobs'[id].MaxRetries = jobs[id].MaxRetries
             /\ jobs'[id].AttemptCount = jobs[id].AttemptCount
                                         + (IF Started(id) THEN 1 ELSE 0)
  <2>1. Evolves(id) /\ id \in DOMAIN jobs' /\ jobs[id] \in Job
    BY <1>1, JobStep DEF StoreTypeOK
  <2>2. jobs[id].AttemptCount \in Nat
    BY <2>1 DEF Job
  <2>3. CASE jobs'[id] = jobs[id]
    BY <2>1, <2>2, <2>3 DEF Started
  <2>4. ASSUME NEW agent \in agents, jobs[id].Status = "PENDING",
               jobs'[id] = Assigned(jobs[id], agent)
        PROVE  /\ Started(id)
               /\ jobs'[id].Type = jobs[id].Type
               /\ jobs'[id].MaxRetries = jobs[id].MaxRetries
               /\ jobs'[id].AttemptCount = jobs[id].AttemptCount + 1
    <3>1. agent \in AgentIDs
      BY <1>1 DEF StoreTypeOK
    <3> QED BY <2>1, <2>4, <3>1, AssignedRecord DEF Started
  <2>5. CASE jobs'[id] = Requeued(jobs[id])
    BY <2>1, <2>2, <2>5, RequeuedRecord DEF Started
  <2>6. ASSUME NEW status \in Terminal, jobs'[id] = Finished(jobs[id], status)
        PROVE  /\ ~ Started(id)
               /\ jobs'[id].Type = jobs[id].Type
               /\ jobs'[id].MaxRetries = jobs[id].MaxRetries
               /\ jobs'[id].AttemptCount = jobs[id].AttemptCount
    BY <2>1, <2>6, FinishedRecord DEF Started, Terminal
  <2> QED BY <2>1, <2>2, <2>3, <2>4, <2>5, <2>6 DEF Evolves, Terminal, Outcomes
<1>2. StoreTypeOK /\ [StoreNext]_storeVars =>
          [\A id \in DOMAIN jobs :
               /\ id \in DOMAIN jobs'
               /\ jobs'[id].Type = jobs[id].Type
               /\ jobs'[id].MaxRetries = jobs[id].MaxRetries
               /\ jobs'[id].AttemptCount = jobs[id].AttemptCount
                                           + (IF Started(id) THEN 1 ELSE 0)]_storeVars
  BY <1>1
<1> QED BY <1>2, StoreTypeCorrect, PTL DEF StoreSpec, AttemptsCounted

-------------------------------------------------------------------------------
(* A restart of the server leaves empty tables, which are consistent: what *)
(* holds of the store in one run of the server holds in all of them.       *)
THEOREM ConsistentAcrossRestarts ==
    LifeSpec => [](JobOrderComplete /\ AttemptsBounded /\ NotFailedEarly /\ OwnerConsistency)
<1> DEFINE Consistent == /\ StoreTypeOK /\ IndexTyped /\ JobOrderComplete
                         /\ AttemptsBounded /\ NotFailedEarly /\ OwnerConsistency
<1>1. StoreInit => Consistent
  BY StoreTypeInvariant DEF StoreInit, IndexTyped, JobOrderComplete, AttemptsBounded,
                            NotFailedEarly, OwnerConsistency
<1>2. ASSUME Consistent, [StoreNext]_storeVars
      PROVE  Consistent'
  <2>1. StoreTypeOK'
    BY <1>2, StoreTypeInvariant
  <2>2. IndexTyped' /\ JobOrderComplete'
    BY <1>2, IndexInvariant DEF OpenNext
  <2> QED BY <1>2, <2>1, <2>2, AttemptsStep, NotFailedEarlyStep, OwnerStep
<1>3. ASSUME Consistent, RestartStore
      PROVE  Consistent'
  BY <1>3 DEF RestartStore, StoreTypeOK, IndexTyped, JobOrderComplete, AttemptsBounded,
              NotFailedEarly, OwnerConsistency
<1>4. Consistent /\ [StoreNext \/ RestartStore]_storeVars => Consistent'
  BY <1>2, <1>3
<1> QED BY <1>1, <1>4, PTL DEF LifeSpec

===============================================================================
