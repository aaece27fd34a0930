------------------------------- MODULE JobStore -------------------------------
(***************************************************************************)
(* The job half of store.MemoryStore (src/internal/store/memory.go): the   *)
(* job table, the FIFO index over it and the set of registered agents.     *)
(* Every method of MemoryStore takes m.mu for its whole body, so every     *)
(* method is one atomic action here.  A call that returns an error changes *)
(* nothing and is no step at all; its refusal is the action's guard.       *)
(*                                                                         *)
(* The environment is any caller of the HTTP API: results may be posted    *)
(* for any job at any time, capabilities are whatever the poll carries.    *)
(* TaskBridge.tla narrows the callers to the agents of this repository.    *)
(***************************************************************************)
EXTENDS Naturals, Sequences

CONSTANTS
    JobIDs,       \* the identifiers generateID can produce
    AgentIDs,     \* the agent identifiers in use
    JobTypes,     \* model.JobType
    RetryLimits,  \* the values of max_retries that clients ask for
    NoAgent       \* the empty AssignedAgentID

ASSUME JobStoreAssumption ==
    /\ RetryLimits \subseteq Nat    \* Validate refuses a negative max_retries
    /\ NoAgent \notin AgentIDs      \* RegisterAgentRequest.Validate refuses ""

VARIABLES
    jobs,      \* m.jobs: a function on the identifiers of the stored jobs
    jobOrder,  \* m.jobOrder: those identifiers in order of insertion
    agents     \* the keys of m.agents

storeVars == <<jobs, jobOrder, agents>>

-------------------------------------------------------------------------------
(* The job record.  A *time.Time is nil or stamped; which instant it holds *)
(* no method of the store ever reads.                                      *)

Terminal == {"SUCCESS", "FAILED", "CANCELED"}

JobStatus == {"PENDING", "RUNNING", "RETRYING"} \cup Terminal

(* What a request to POST /jobs/{id}/result may report.                    *)
Outcomes == {"SUCCESS", "FAILED"}

Time == {"nil", "stamped"}

Job == [ Type            : JobTypes,
         MaxRetries      : Nat,
         Status          : JobStatus,
         AssignedAgentID : AgentIDs \cup {NoAgent},
         StartedAt       : Time,
         FinishedAt      : Time,
         AttemptCount    : Nat ]

(* The record handleCreateJob passes to the store.                         *)
NewJob(type, limit) ==
    [ Type            |-> type,
      MaxRetries      |-> limit,
      Status          |-> "PENDING",
      AssignedAgentID |-> NoAgent,
      StartedAt       |-> "nil",
      FinishedAt      |-> "nil",
      AttemptCount    |-> 0 ]

-------------------------------------------------------------------------------
StoreInit ==
    /\ jobs = [id \in {} |-> NoAgent]
    /\ jobOrder = << >>
    /\ agents = {}

(* A slip the properties must catch: the duplicate test is forgotten.      *)
CreateJobOverwriting(id, type, limit) ==
    /\ jobs' = [x \in DOMAIN jobs \cup {id} |->
                   IF x = id THEN NewJob(type, limit) ELSE jobs[x]]
    /\ jobOrder' = Append(jobOrder, id)
    /\ UNCHANGED agents

(* A slip: the newest job comes first.                                     *)
CreateJobInFront(id, type, limit) ==
    /\ id \notin DOMAIN jobs
    /\ jobs' = [x \in DOMAIN jobs \cup {id} |->
                   IF x = id THEN NewJob(type, limit) ELSE jobs[x]]
    /\ jobOrder' = <<id>> \o jobOrder
    /\ UNCHANGED agents

(* POST /jobs: a new job at the end of the queue; a duplicate is refused.  *)
CreateJob(id, type, limit) ==
    /\ id \notin DOMAIN jobs
    /\ jobs' = [x \in DOMAIN jobs \cup {id} |->
                   IF x = id THEN NewJob(type, limit) ELSE jobs[x]]
    /\ jobOrder' = Append(jobOrder, id)
    /\ UNCHANGED agents

(* A slip: the copy of the job is changed and not written back.            *)
NotWrittenBack(job, status) == job

(* The end of a job, by its result or by a cancellation.                   *)
Finished(job, status) ==
    [job EXCEPT !.Status = status, !.FinishedAt = "stamped"]

(* A slip: a finished job is cancelled too.                                *)
CancelJobAlways(id) ==
    /\ id \in DOMAIN jobs
    /\ jobs' = [jobs EXCEPT ![id] = Finished(@, "CANCELED")]
    /\ UNCHANGED <<jobOrder, agents>>

(* A slip: only a queued job can be cancelled.                             *)
CancellablePending(id) == id \in DOMAIN jobs /\ jobs[id].Status = "PENDING"

Cancellable(id) == id \in DOMAIN jobs /\ jobs[id].Status \notin Terminal

(* A slip: a cancelled job is removed.                                     *)
CancelJobRemoving(id) ==
    /\ Cancellable(id)
    /\ jobs' = [x \in DOMAIN jobs \ {id} |-> jobs[x]]
    /\ UNCHANGED <<jobOrder, agents>>

(* POST /jobs/{id}/cancel: refused for a job that is unknown or finished.  *)
CancelJob(id) ==
    /\ Cancellable(id)
    /\ jobs' = [jobs EXCEPT ![id] = Finished(@, "CANCELED")]
    /\ UNCHANGED <<jobOrder, agents>>

(* POST /agents/register: registering again overwrites the entry.          *)
RegisterAgent(agent) ==
    /\ agents' = agents \cup {agent}
    /\ UNCHANGED <<jobs, jobOrder>>

-------------------------------------------------------------------------------
(* POST /agents/{id}/next-job.                                             *)

Eligible(id, caps) ==
    /\ id \in DOMAIN jobs
    /\ jobs[id].Status = "PENDING"
    /\ jobs[id].Type \in caps

(* Two slips: ranging over the map of jobs, whose order is arbitrary, and  *)
(* testing the status but not the type.                                    *)
AnyEligible(id, caps) == Eligible(id, caps)

FirstPendingOfAnyType(id, caps) ==
    \E i \in DOMAIN jobOrder :
        /\ jobOrder[i] = id
        /\ caps # {}
        /\ jobs[id].Status = "PENDING"
        /\ \A k \in 1 .. (i - 1) : jobs[jobOrder[k]].Status # "PENDING"

(* The loop over jobOrder stops at the first job the capabilities cover.   *)
FirstEligible(id, caps) ==
    \E i \in DOMAIN jobOrder :
        /\ jobOrder[i] = id
        /\ Eligible(id, caps)
        /\ \A k \in 1 .. (i - 1) : ~ Eligible(jobOrder[k], caps)

(* The loop over jobOrder runs to its end: the reply is 204 No Content.    *)
NoneEligible(caps) == \A i \in DOMAIN jobOrder : ~ Eligible(jobOrder[i], caps)

(* A slip: the attempt is not counted.                                     *)
AssignedUncounted(job, agent) ==
    [job EXCEPT !.Status = "RUNNING", !.AssignedAgentID = agent,
                !.StartedAt = "stamped"]

Assigned(job, agent) ==
    [job EXCEPT !.Status = "RUNNING",
                !.AssignedAgentID = agent,
                !.StartedAt = "stamped",
                !.AttemptCount = job.AttemptCount + 1]

(* The poll of a registered agent gets the job id.  The store looks        *)
(* neither at the agent's own Capabilities nor at its Status.              *)
AssignNextJob(agent, caps, id) ==
    /\ agent \in agents
    /\ FirstEligible(id, caps)
    /\ jobs' = [jobs EXCEPT ![id] = Assigned(@, agent)]
    /\ UNCHANGED <<jobOrder, agents>>

-------------------------------------------------------------------------------
(* POST /jobs/{id}/result.  CompleteJob never looks at the job's status.   *)

(* Slips: one attempt more than the limit, and one less.                   *)
CanRetryOnceMore(job) == job.AttemptCount <= job.MaxRetries

CanRetryOnceLess(job) == job.AttemptCount + 1 < job.MaxRetries

CanRetry(job) == job.AttemptCount < job.MaxRetries

(* Slips in the reset before the retry: the transient status is left, the  *)
(* agent is left, the attempts start again from nothing.                   *)
LeftRetrying(job) ==
    [job EXCEPT !.Status = "RETRYING", !.AssignedAgentID = NoAgent,
                !.StartedAt = "nil"]

RequeuedWithAgent(job) ==
    [job EXCEPT !.Status = "PENDING", !.StartedAt = "nil"]

RequeuedAfresh(job) ==
    [job EXCEPT !.Status = "PENDING", !.AssignedAgentID = NoAgent,
                !.StartedAt = "nil", !.AttemptCount = 0]

(* RETRYING is overwritten by PENDING before the lock is released;         *)
(* FinishedAt keeps whatever it held.                                      *)
Requeued(job) ==
    [job EXCEPT !.Status = "PENDING",
                !.AssignedAgentID = NoAgent,
                !.StartedAt = "nil"]

CompleteJob(id, outcome) ==
    /\ id \in DOMAIN jobs
    /\ \/ /\ outcome = "FAILED" /\ CanRetry(jobs[id])
          /\ jobs' = [jobs EXCEPT ![id] = Requeued(@)]
       \/ /\ ~ (outcome = "FAILED" /\ CanRetry(jobs[id]))
          /\ jobs' = [jobs EXCEPT ![id] = Finished(@, outcome)]
    /\ UNCHANGED <<jobOrder, agents>>

(* The one method of the Store interface that no handler calls.            *)
UpdateJob(id, job) ==
    /\ id \in DOMAIN jobs
    /\ jobs' = [jobs EXCEPT ![id] = job]
    /\ UNCHANGED <<jobOrder, agents>>

-------------------------------------------------------------------------------
StoreNext ==
    \/ \E id \in JobIDs, type \in JobTypes, limit \in RetryLimits :
           CreateJob(id, type, limit)
    \/ \E id \in JobIDs : CancelJob(id)
    \/ \E agent \in AgentIDs : RegisterAgent(agent)
    \/ \E agent \in AgentIDs, caps \in SUBSET JobTypes, id \in JobIDs :
           AssignNextJob(agent, caps, id)
    \/ \E id \in JobIDs, outcome \in Outcomes : CompleteJob(id, outcome)

StoreSpec == StoreInit /\ [][StoreNext]_storeVars

(* The server process is started again: NewMemoryStore, with empty tables. *)
RestartStore ==
    /\ jobs' = [id \in {} |-> NoAgent]
    /\ jobOrder' = << >>
    /\ agents' = {}

(* The store over several runs of the server.                              *)
LifeSpec == StoreInit /\ [][StoreNext \/ RestartStore]_storeVars

(* The same store with a caller of UpdateJob, as the interface allows.     *)
OpenNext == StoreNext \/ \E id \in JobIDs, job \in Job : UpdateJob(id, job)

OpenSpec == StoreInit /\ [][OpenNext]_storeVars

-------------------------------------------------------------------------------
(* The tables have their types, and RETRYING, which CompleteJob writes and *)
(* overwrites under one lock, is never seen in the table.                  *)
StoreTypeOK ==
    /\ DOMAIN jobs \subseteq JobIDs
    /\ jobs \in [DOMAIN jobs -> Job]
    /\ \A id \in DOMAIN jobs : jobs[id].Status # "RETRYING"
    /\ jobOrder \in Seq(JobIDs)
    /\ agents \subseteq AgentIDs

(* The index and the table agree: jobOrder holds every stored job exactly  *)
(* once, so ListJobs omits and repeats none and AssignNextJob can reach    *)
(* every one (its "if !ok continue" is never taken).                       *)
JobOrderComplete ==
    /\ \A id \in DOMAIN jobs : \E i \in DOMAIN jobOrder : jobOrder[i] = id
    /\ \A i \in DOMAIN jobOrder : jobOrder[i] \in DOMAIN jobs
    /\ \A i, k \in DOMAIN jobOrder : jobOrder[i] = jobOrder[k] => i = k

(* However results, retries and cancellations interleave, no job is ever   *)
(* started more than max(1, max_retries) times, and a queued job always    *)
(* has an attempt left: AssignNextJob needs no test of its own.            *)
AttemptsBounded ==
    \A id \in DOMAIN jobs :
        /\ jobs[id].AttemptCount <= 1 \/ jobs[id].AttemptCount <= jobs[id].MaxRetries
        /\ jobs[id].Status = "PENDING" =>
               jobs[id].AttemptCount = 0 \/ CanRetry(jobs[id])

(* No job is given up early: whoever reports what about it, it is FAILED   *)
(* only when it has been started as often as its client asked for.         *)
NotFailedEarly ==
    \A id \in DOMAIN jobs :
        jobs[id].Status = "FAILED" => jobs[id].AttemptCount >= jobs[id].MaxRetries

(* Status and assignment agree: a queued job belongs to nobody and has not *)
(* started; a running job has started, has a counted attempt and belongs   *)
(* to an agent that is registered.                                         *)
OwnerConsistency ==
    \A id \in DOMAIN jobs :
        /\ jobs[id].Status = "PENDING" =>
               jobs[id].AssignedAgentID = NoAgent /\ jobs[id].StartedAt = "nil"
        /\ jobs[id].Status = "RUNNING" =>
               /\ jobs[id].AssignedAgentID \in agents
               /\ jobs[id].StartedAt = "stamped"
               /\ jobs[id].AttemptCount >= 1

(* FIFO among jobs of one type: whatever capabilities the polls carry, and *)
(* although a retried job keeps its old place in jobOrder, no job is       *)
(* started while an earlier one of its type is waiting.                    *)
Started(id) == id \in DOMAIN jobs /\ jobs[id].Status # "RUNNING"
                                  /\ jobs'[id].Status = "RUNNING"

NoOvertaking ==
    [][\A i \in DOMAIN jobOrder : Started(jobOrder[i]) =>
           \A k \in 1 .. (i - 1) :
               \/ jobs[jobOrder[k]].Status # "PENDING"
               \/ jobs[jobOrder[k]].Type # jobs[jobOrder[i]].Type]_storeVars

(* A stored job stays stored, with its type and limit; its attempts are    *)
(* counted one by one, exactly when it is started.                         *)
AttemptsCounted ==
    [][\A id \in DOMAIN jobs :
           /\ id \in DOMAIN jobs'
           /\ jobs'[id].Type = jobs[id].Type
           /\ jobs'[id].MaxRetries = jobs[id].MaxRetries
           /\ jobs'[id].AttemptCount = jobs[id].AttemptCount
                                       + (IF Started(id) THEN 1 ELSE 0)]_storeVars

===============================================================================
