------------------------------ MODULE TaskBridge ------------------------------
(***************************************************************************)
(* The server and its agents: JobStore driven by the processes that run    *)
(* src/internal/agent, over HTTP.                                          *)
(*                                                                         *)
(* A worker is one run of cmd/agent at a time.  Its loop is sequential:    *)
(* it polls, executes the job it is given and reports the outcome, and     *)
(* only then polls again.  Requests and replies travel on their own: the   *)
(* client of either may give up after 15 seconds while the server still    *)
(* has the request to handle, a reply may be lost, a process may die.      *)
(* The server may be restarted, which loses its tables.  Every such event  *)
(* is a fault; MaxFaults of them happen at most.  A worker that is stopped *)
(* by a signal is no fault; MaxStops signals are sent at most.             *)
(*                                                                         *)
(* Left out: results posted by anybody but an agent.                       *)
(***************************************************************************)
EXTENDS JobStore, FiniteSets

CONSTANTS
    Workers,      \* processes running cmd/agent
    AgentOf,      \* AgentOf[w]: the -id flag of w; several may share one
    Capabilities, \* Capabilities[w]: the -capabilities flag of w
    NoJob,        \* what a worker without a job holds
    MaxFaults,    \* bound on the faults of a behaviour
    MaxStops      \* bound on the signals sent to workers

ASSUME TaskBridgeAssumption ==
    /\ AgentOf \in [Workers -> AgentIDs]
    /\ Capabilities \in [Workers -> SUBSET JobTypes]
    /\ {MaxFaults, MaxStops} \subseteq Nat

VARIABLES
    pc,       \* pc[w]: where w is in Run and pollAndExecute
    got,      \* got[w]: the job w holds, or is being sent
    late,     \* polls given up by their worker that the server will handle
    results,  \* result requests on their way to the server
    faults,   \* the faults so far
    stopping, \* workers that run and whose context is cancelled
    stops,    \* the signals so far
    lost      \* the jobs of earlier runs of the server

lifeVars == <<stopping, stops, lost>>

agentVars == <<pc, got, late, results, faults, lifeVars>>

vars == <<storeVars, agentVars>>

-------------------------------------------------------------------------------
Places == {"down", "idle", "polling", "offered", "running", "submitting"}

(* What a reply to next-job tells its worker.                              *)
Offer == [job : JobIDs, attempt : Nat]

ASSUME NoJobAssumption == NoJob \notin Offer

(* A result request carries no attempt number: the field is there for the  *)
(* properties and no action's guard reads it.                              *)
ResultRequest == [job : JobIDs, attempt : Nat, outcome : Outcomes]

(* w is executing a job, or the reply that makes it do so is on its way.   *)
Holds(w) == pc[w] \in {"offered", "running"}

(* Somebody may still report an outcome of id.                             *)
HeldByWorker(id) == \E w \in Workers : Holds(w) /\ got[w].job = id

Reported(id) == \E m \in results : m.job = id

Outstanding(id) == HeldByWorker(id) \/ Reported(id)

-------------------------------------------------------------------------------
Init ==
    /\ StoreInit
    /\ pc = [w \in Workers |-> "down"]
    /\ got = [w \in Workers |-> NoJob]
    /\ late = {}
    /\ results = {}
    /\ faults = 0
    /\ stopping = {}
    /\ stops = 0
    /\ lost = {}

Fault == faults < MaxFaults /\ faults' = faults + 1

(* w moves on, and what it holds becomes g.                                *)
Go(w, from, to, g) ==
    /\ pc[w] = from
    /\ pc' = [pc EXCEPT ![w] = to]
    /\ got' = [got EXCEPT ![w] = g]

-------------------------------------------------------------------------------
(* Clients.                                                                *)

(* generateID draws eight random bytes: no identifier comes twice.         *)
Create(id, type, limit) ==
    /\ id \notin lost
    /\ CreateJob(id, type, limit)
    /\ UNCHANGED agentVars

Cancel(id) == CancelJob(id) /\ UNCHANGED agentVars

-------------------------------------------------------------------------------
(* A worker, from the start of its process.                                *)

(* Run registers the agent; without the reply the process exits.           *)
Start(w) ==
    /\ RegisterAgent(AgentOf[w])
    /\ \/ Go(w, "down", "idle", NoJob) /\ UNCHANGED faults
       \/ Go(w, "down", "down", NoJob) /\ Fault
    /\ UNCHANGED <<late, results, lifeVars>>

(* The ticker fires: pollAndExecute sends its request.                     *)
Poll(w) ==
    /\ Go(w, "idle", "polling", NoJob)
    /\ UNCHANGED <<storeVars, late, results, faults, lifeVars>>

(* 204, or 500 for an agent the server does not know (any more): the       *)
(* worker logs the one and not the other, and goes on alike.               *)
NothingFor(w) ==
    AgentOf[w] \notin agents \/ NoneEligible(Capabilities[w])

(* The server handles the poll.                                            *)
ServePoll(w) ==
    /\ \/ \E id \in JobIDs :
              /\ AssignNextJob(AgentOf[w], Capabilities[w], id)
              /\ Go(w, "polling", "offered",
                    [job |-> id, attempt |-> jobs'[id].AttemptCount])
       \/ /\ NothingFor(w)
          /\ Go(w, "polling", "idle", NoJob)
          /\ UNCHANGED storeVars
    /\ UNCHANGED <<late, results, faults, lifeVars>>

(* The poll of w that becomes late by the next fault: faults are numbered, *)
(* so two late polls are never the same element of the set.                *)
Abandoned(w) == <<w, faults + 1>>

(* PollNextJob returns an error: the request never arrived, or the client  *)
(* timed out on a request the server still has.                            *)
GiveUpPoll(w) ==
    /\ Go(w, "polling", "idle", NoJob)
    /\ late' \in {late, late \cup {Abandoned(w)}}
    /\ Fault
    /\ UNCHANGED <<storeVars, results, lifeVars>>

(* The server handles a poll whose client is gone.  The handler does not   *)
(* look at the request's context, so it assigns a job all the same.        *)
ServeLatePoll(p) ==
    LET w == p[1] IN
    /\ p \in late
    /\ late' = late \ {p}
    /\ \/ \E id \in JobIDs : AssignNextJob(AgentOf[w], Capabilities[w], id)
       \/ NothingFor(w) /\ UNCHANGED storeVars
    /\ UNCHANGED <<pc, got, results, faults, lifeVars>>

(* A slip: the executor is started without the job of the reply.           *)
ReceiveNothing(w) ==
    /\ Go(w, "offered", "running", NoJob)
    /\ UNCHANGED <<storeVars, late, results, faults, lifeVars>>

(* The reply arrives and the executor is started.                          *)
ReceiveJob(w) ==
    /\ Go(w, "offered", "running", got[w])
    /\ UNCHANGED <<storeVars, late, results, faults, lifeVars>>

(* The reply is lost: pollAndExecute logs the error and forgets.           *)
LoseOffer(w) ==
    /\ Go(w, "offered", "idle", NoJob)
    /\ Fault
    /\ UNCHANGED <<storeVars, late, results, lifeVars>>

(* A slip: a failed execution is not reported (the early return for a job  *)
(* without an executor, say).                                              *)
FinishSilently(w, outcome) ==
    /\ Go(w, "running", "submitting", NoJob)
    /\ results' = IF outcome = "FAILED" THEN results ELSE results \cup
           {[job |-> got[w].job, attempt |-> got[w].attempt, outcome |-> outcome]}
    /\ UNCHANGED <<storeVars, late, faults, lifeVars>>

(* A slip: the worker reports and executes once more.                      *)
FinishAndRunOn(w, outcome) ==
    /\ Go(w, "running", "running", got[w])
    /\ results' = results \cup
           {[job |-> got[w].job, attempt |-> got[w].attempt, outcome |-> outcome]}
    /\ UNCHANGED <<storeVars, late, faults, lifeVars>>

(* The executor returns, or there is none for the type: SubmitResult.      *)
FinishExecution(w, outcome) ==
    /\ Go(w, "running", "submitting", NoJob)
    /\ results' = results \cup
           {[job |-> got[w].job, attempt |-> got[w].attempt, outcome |-> outcome]}
    /\ UNCHANGED <<storeVars, late, faults, lifeVars>>

(* SubmitResult returns, with the reply or with an error; the loop goes on *)
(* in both cases and the result is not sent again.                         *)
EndSubmit(w) ==
    /\ Go(w, "submitting", "idle", NoJob)
    /\ UNCHANGED <<storeVars, late, results, faults, lifeVars>>

(* A slip: the request is sent again although the server has handled it.   *)
ServeResultAgain(m) ==
    /\ m \in results
    /\ CompleteJob(m.job, m.outcome)
    /\ UNCHANGED agentVars

(* handleJobResult; 404 if the server has been restarted meanwhile.        *)
ServeResult(m) ==
    /\ m \in results
    /\ \/ CompleteJob(m.job, m.outcome)
       \/ m.job \notin DOMAIN jobs /\ UNCHANGED storeVars
    /\ results' = results \ {m}
    /\ UNCHANGED <<pc, got, late, faults, lifeVars>>

LoseResult(m) ==
    /\ m \in results
    /\ results' = results \ {m}
    /\ Fault
    /\ UNCHANGED <<storeVars, pc, got, late, lifeVars>>

(* The process dies.  A poll under way is lost or still reaches the        *)
(* server; a result under way is a message of its own.                     *)
Crash(w) ==
    /\ pc[w] # "down"
    /\ Go(w, pc[w], "down", NoJob)
    /\ \/ late' = late
       \/ pc[w] = "polling" /\ late' = late \cup {Abandoned(w)}
    /\ Fault
    /\ stopping' = stopping \ {w}
    /\ UNCHANGED <<storeVars, results, stops, lost>>

-------------------------------------------------------------------------------
(* The ends of processes.                                                  *)

(* SIGINT or SIGTERM cancels the context of Run.  Only the executor is     *)
(* given that context, and what it reports then is an outcome like any     *)
(* other.  One signal is read: a second does nothing.                      *)
Signal(w) ==
    /\ pc[w] # "down" /\ w \notin stopping
    /\ stops < MaxStops
    /\ stopping' = stopping \cup {w}
    /\ stops' = stops + 1
    /\ UNCHANGED <<storeVars, pc, got, late, results, faults, lost>>

(* A slip: a break that leaves the select and not the loop.                *)
QuitSelect(w) ==
    /\ w \in stopping
    /\ Go(w, "idle", "idle", NoJob)
    /\ UNCHANGED <<storeVars, late, results, faults, lifeVars>>

(* A slip: the context is looked at during the execution, too, and Run     *)
(* returns at once.                                                        *)
QuitAnywhere(w) ==
    /\ w \in stopping
    /\ Go(w, pc[w], "down", NoJob)
    /\ stopping' = stopping \ {w}
    /\ UNCHANGED <<storeVars, late, results, faults, stops, lost>>

(* The select of Run finds the context done and the process ends.  If the  *)
(* ticker has fired as well, either case may be chosen: Poll does not ask  *)
(* about the signal.                                                       *)
Quit(w) ==
    /\ w \in stopping
    /\ Go(w, "idle", "down", NoJob)
    /\ stopping' = stopping \ {w}
    /\ UNCHANGED <<storeVars, late, results, faults, stops, lost>>

(* The server ends, gracefully or not, and is started again.  Polls it has *)
(* not answered die with it; workers notice nothing but errors.            *)
Restart ==
    /\ RestartStore
    /\ lost' = lost \cup DOMAIN jobs
    /\ late' = {}
    /\ Fault
    /\ UNCHANGED <<pc, got, results, stopping, stops>>

-------------------------------------------------------------------------------
ClientStep ==
    \E id \in JobIDs :
        \/ \E type \in JobTypes, limit \in RetryLimits : Create(id, type, limit)
        \/ Cancel(id)

(* What the loop of a live worker does by itself.                          *)
WorkerStep(w) ==
    \/ Poll(w)
    \/ ReceiveJob(w)
    \/ \E outcome \in Outcomes : FinishExecution(w, outcome)
    \/ EndSubmit(w)

FaultStep(w) == GiveUpPoll(w) \/ LoseOffer(w) \/ Crash(w)

StopStep(w) == Signal(w) \/ Quit(w)

Next ==
    \/ ClientStep
    \/ \E w \in Workers :
           Start(w) \/ WorkerStep(w) \/ ServePoll(w) \/ FaultStep(w) \/ StopStep(w)
    \/ \E p \in late : ServeLatePoll(p)
    \/ \E m \in results : ServeResult(m) \/ LoseResult(m)
    \/ Restart

Spec == Init /\ [][Next]_vars

(* The ticker keeps firing and executors return; a request that is not     *)
(* lost is handled.  Nobody has to start an agent, submit a job or cancel  *)
(* one, and a poll whose client is gone may wait for ever.  A select whose *)
(* cases are all ready chooses one at random: a cancelled context is not   *)
(* passed over for ever, which takes strong fairness, as polls come        *)
(* between.                                                                *)
ServeReport(id) == \E m \in results : m.job = id /\ ServeResult(m)

Fairness ==
    /\ \A w \in Workers : WF_vars(WorkerStep(w)) /\ WF_vars(ServePoll(w))
    /\ \A w \in Workers : SF_vars(Quit(w))
    /\ \A id \in JobIDs : WF_vars(ServeReport(id))

FairSpec == Spec /\ Fairness

-------------------------------------------------------------------------------
(* Types of the agents' side; no identifier is issued twice.               *)
TypeOK ==
    /\ StoreTypeOK
    /\ pc \in [Workers -> Places]
    /\ got \in [Workers -> Offer \cup {NoJob}]
    /\ \A w \in Workers : Holds(w) => got[w] \in Offer
    /\ late \subseteq Workers \X (1 .. MaxFaults)
    /\ results \subseteq ResultRequest
    /\ faults \in 0 .. MaxFaults
    /\ stopping \subseteq {w \in Workers : pc[w] # "down"}
    /\ stops \in 0 .. MaxStops
    /\ lost \subseteq JobIDs \ DOMAIN jobs

(* The server has no leases and CompleteJob does not ask who is calling,   *)
(* yet no two agents ever work on one job, and none works on a job whose   *)
(* result somebody else is still delivering: polls, retries, crashes,      *)
(* restarts, lost replies and polls handled late included.                 *)
OneAttemptAtATime ==
    /\ \A v, w \in Workers :
           Holds(v) /\ Holds(w) /\ got[v].job = got[w].job => v = w
    /\ \A m, n \in results : m.job = n.job => m = n
    /\ \A w \in Workers, m \in results : Holds(w) => got[w].job # m.job

(* A result carries no attempt number, yet the one the server takes is     *)
(* that of the attempt it last counted; the job it is for is running or    *)
(* was cancelled meanwhile, never queued or finished.  What is from before *)
(* a restart of the server concerns no job that it has now.                *)
Current(o) ==
    \/ o.job \in lost
    \/ /\ o.job \in DOMAIN jobs
       /\ jobs[o.job].AttemptCount = o.attempt
       /\ jobs[o.job].Status \in {"RUNNING", "CANCELED"}

ReportsCurrentAttempt ==
    /\ \A w \in Workers : Holds(w) => Current(got[w])
    /\ \A m \in results : Current(m)

(* The job a worker holds is assigned to that worker's id and is of a type *)
(* it declared.                                                            *)
HolderIsAssignee ==
    \A w \in Workers : Holds(w) /\ got[w].job \notin lost =>
        /\ jobs[got[w].job].AssignedAgentID = AgentOf[w]
        /\ jobs[got[w].job].Type \in Capabilities[w]

(* The jobs nobody will ever report on: RUNNING for ever, unless cancelled.*)
Orphans ==
    {id \in DOMAIN jobs : jobs[id].Status = "RUNNING" /\ ~ Outstanding(id)}

(* A job is orphaned by faults only, never because a worker is stopped by  *)
(* a signal, even one that polls once more after it; and every fault, the  *)
(* polls the server has yet to handle counted, orphans one job at most.    *)
OneOrphanPerFault == Cardinality(Orphans) + Cardinality(late) <= faults

(* Although CompleteJob overwrites any status, a job that is SUCCESS or    *)
(* FAILED is never touched again, nor is a CANCELED one that no agent has  *)
(* or is about to receive or report.                                       *)
SettledStays ==
    [][\A id \in DOMAIN jobs :
           \/ jobs[id].Status \in {"SUCCESS", "FAILED"}
           \/ jobs[id].Status = "CANCELED" /\ ~ Outstanding(id)
           => id \in lost' \/ jobs'[id] = jobs[id]]_vars

(* A client sees FAILED when the attempts it asked for are used up and not *)
(* before, nor after one more: an attempt is not counted twice, nor a      *)
(* failure for a job that was never started, whatever is lost or late.  A  *)
(* limit of 0 or 1 is one attempt.                                         *)
FailedAfterLastAttempt ==
    \A id \in DOMAIN jobs :
        jobs[id].Status = "FAILED" =>
            jobs[id].AttemptCount =
                IF jobs[id].MaxRetries > 1 THEN jobs[id].MaxRetries ELSE 1

(* Every job comes to rest: finished, or orphaned by a fault, or waiting   *)
(* while no process that declared its type is running and known to the     *)
(* server: agents register once, so a restart of the server leaves them    *)
(* polling in vain.  No chain of polls, retries and late replies goes on   *)
(* for ever, and FIFO starves nobody.                                      *)
AtRest(id) ==
    \/ id \notin DOMAIN jobs
    \/ jobs[id].Status \in Terminal /\ ~ Outstanding(id)
    \/ id \in Orphans
    \/ /\ jobs[id].Status = "PENDING"
       /\ \A w \in Workers : jobs[id].Type \in Capabilities[w] =>
              pc[w] = "down" \/ AgentOf[w] \notin agents

EventuallyAtRest == \A id \in JobIDs : <>[]AtRest(id)

(* README, graceful shutdown: a worker that is sent a signal stops, after  *)
(* it has reported the job it may hold, whatever the server does.          *)
StopEnds == \A w \in Workers : w \in stopping ~> w \notin stopping

-------------------------------------------------------------------------------
(* What the documentation says and the code does not do.                   *)

(* model.go: a terminal status is a final one.                             *)
TerminalIsFinal ==
    [][\A id \in DOMAIN jobs :
           jobs[id].Status \in Terminal => jobs'[id].Status = jobs[id].Status]_vars

(* memory_test.go, of a job with max_retries 1: its first attempt is to be *)
(* retried and its second to fail it, so the limit counts the retries and  *)
(* not the attempts.                                                       *)
FailedUsedItsRetries ==
    \A id \in DOMAIN jobs :
        jobs[id].Status = "FAILED" => jobs[id].AttemptCount > jobs[id].MaxRetries

Running(id) == id \in DOMAIN jobs /\ jobs[id].Status = "RUNNING"

(* README: a RUNNING job ends in SUCCESS or FAILED, with automatic retry.  *)
RunningEnds == \A id \in JobIDs : Running(id) ~> ~ Running(id)

-------------------------------------------------------------------------------
(* TaskBridge implements JobLease: a lease is an offer under way, a worker *)
(* executing, or a result under way.                                       *)

PhaseOf(id) ==
    IF id \in lost THEN "erased"
    ELSE IF id \notin DOMAIN jobs THEN "absent"
    ELSE IF Outstanding(id) THEN "leased"
    ELSE IF jobs[id].Status = "PENDING" THEN "queued"
    ELSE IF jobs[id].Status = "RUNNING" THEN "lost"
    ELSE "settled"

HoldersOf(id) ==
    IF id \in lost THEN {}
    ELSE {w \in Workers : Holds(w) /\ got[w].job = id}
             \cup (IF Reported(id) THEN {"report"} ELSE {})

TriesOf(id) == IF id \in DOMAIN jobs THEN jobs[id].AttemptCount ELSE 0

LimitOf(id) == IF id \in DOMAIN jobs THEN jobs[id].MaxRetries ELSE 0

Lease == INSTANCE JobLease WITH
    Jobs    <- JobIDs,
    Holders <- Workers \cup {"report"},
    Limits  <- RetryLimits,
    phase   <- [id \in JobIDs |-> PhaseOf(id)],
    holders <- [id \in JobIDs |-> HoldersOf(id)],
    tries   <- [id \in JobIDs |-> TriesOf(id)],
    limit   <- [id \in JobIDs |-> LimitOf(id)]

(* Seen through the mapping, every job follows the life JobLease describes:*)
(* one holder at a time, attempts within the limit, settled for good.      *)
ImplementsLease == Lease!LeaseSpec

===============================================================================
