------------------------------ MODULE ApiHandlers ------------------------------
(***************************************************************************)
(* The handlers of src/internal/api over the store.  net/http runs each    *)
(* request in a goroutine of its own; a handler calls the store once, twice*)
(* or three times, and takes its time stamp before it takes the lock.      *)
(* Between two calls any other handler may run.                            *)
(*                                                                         *)
(* Clients ask for jobs they were told of or for one that never existed.   *)
(* Results come from agents: once for every job that a poll handed out,    *)
(* or never (TaskBridge has the agents themselves).                        *)
(*                                                                         *)
(* The store believes its callers: what a request may say is decided by    *)
(* the token, the decoder and Validate before the first call.              *)
(*                                                                         *)
(* Left out: polls of unknown agents, which change nothing, and the        *)
(* handlers that only read.                                                *)
(***************************************************************************)
EXTENDS JobStore, Integers

CONSTANTS
    Handlers,  \* goroutines that handle requests
    Unknown,   \* the id of no job, and no type of job either
    Nothing,   \* no request, no reply
    MaxStamps  \* bound on the time stamps taken

ASSUME ApiAssumption ==
    /\ Unknown \notin JobIDs
    /\ MaxStamps \in Nat

VARIABLES
    stage,    \* stage[h]: how far h is
    request,  \* request[h]: what h handles, or handled last
    reply,    \* reply[h]: what it answered
    clock,    \* the time stamps taken so far
    created,  \* created[id]: CreatedAt of a stored job
    stored,   \* stored[id]: the clock when POST /jobs was done with it
    leases    \* handed out by a poll, no result posted yet

handlerVars == <<stage, request, reply>>
stampVars   == <<clock, created, stored>>
apiVars     == <<storeVars, handlerVars, stampVars, leases>>

-------------------------------------------------------------------------------
Stages == {"idle", "begun", "refused", "found", "completed"}

(* The id and the stamp of a new job are the handler's.                    *)
CreateRequest ==
    [op : {"create"}, job : JobIDs, type : JobTypes, limit : RetryLimits, at : Nat]

CancelRequest == [op : {"cancel"}, job : JobIDs \cup {Unknown}]

Attempt == [job : JobIDs, attempt : Nat]

(* What somebody reports who was never handed a job.                       *)
Bogus == [job |-> Unknown, attempt |-> 0]

ResultRequest ==
    [op : {"result"}, job : JobIDs \cup {Unknown}, attempt : Nat, outcome : Outcomes]

(* A request no handler gets to act upon: what it asked for is forgotten.  *)
Rejected == [op |-> "none", job |-> Unknown]

Request == CreateRequest \cup CancelRequest \cup ResultRequest \cup {Rejected}

Codes == {200, 201, 400, 401, 404, 409, 500}

(* The status code, and the job in the body of a reply to a result.        *)
Reply == [code : Codes, job : Job \cup {Nothing}]

ApiInit ==
    /\ StoreInit
    /\ stage = [h \in Handlers |-> "idle"]
    /\ request = [h \in Handlers |-> Nothing]
    /\ reply = [h \in Handlers |-> Nothing]
    /\ clock = 0
    /\ created = [id \in {} |-> 0]
    /\ stored = [id \in {} |-> 0]
    /\ leases = {}

-------------------------------------------------------------------------------
(* The life of a handler.                                                  *)

Receive(h, req) ==
    /\ stage[h] = "idle"
    /\ stage' = [stage EXCEPT ![h] = "begun"]
    /\ request' = [request EXCEPT ![h] = req]
    /\ reply' = [reply EXCEPT ![h] = Nothing]

At(h, op, s) == stage[h] = s /\ request[h].op = op

GoOn(h, s) ==
    /\ stage' = [stage EXCEPT ![h] = s]
    /\ UNCHANGED <<request, reply>>

Answer(h, code, job) ==
    /\ stage' = [stage EXCEPT ![h] = "idle"]
    /\ reply' = [reply EXCEPT ![h] = [code |-> code, job |-> job]]
    /\ UNCHANGED request

(* The answer to a request that is not let through.                        *)
Reject(h, code) ==
    /\ stage[h] = "idle"
    /\ request' = [request EXCEPT ![h] = Rejected]
    /\ reply' = [reply EXCEPT ![h] = [code |-> code, job |-> Nothing]]
    /\ UNCHANGED stage

-------------------------------------------------------------------------------
(* The way to a handler.  AuthMiddleware compares the token before the body*)
(* is read; then the body must decode, to known fields only, and be valid. *)
(* An agent whose result is turned away does not send it again.            *)
TurnAway(h, authorised, proper, l) ==
    /\ ~ (authorised /\ proper)
    /\ Reject(h, IF authorised THEN 400 ELSE 401)
    /\ leases' = leases \ {l}
    /\ UNCHANGED <<storeVars, stampVars>>

(* The Validate of a new job, as far as the store relies on it.            *)
ValidCreate(type, limit) == type \in JobTypes /\ limit >= 0

(* A slip: any status that there is will do.                               *)
ValidResultOfAnyStatus(status) == status \in JobStatus

(* The Validate of a result: CompleteJob writes the status it is given.    *)
ValidResult(status) == status \in {"SUCCESS", "FAILED"}

-------------------------------------------------------------------------------
(* POST /jobs.  generateID may repeat an id only when crypto/rand fails and*)
(* two requests fall within one second; the store refuses the second.      *)

BeginCreate(h, id, type, limit) ==
    /\ ValidCreate(type, limit)
    /\ clock < MaxStamps
    /\ clock' = clock + 1
    /\ Receive(h, [op |-> "create", job |-> id, type |-> type, limit |-> limit,
                   at |-> clock'])
    /\ UNCHANGED <<storeVars, created, stored, leases>>

Stamped(stamps, id, time) ==
    [x \in DOMAIN stamps \cup {id} |-> IF x = id THEN time ELSE stamps[x]]

InsertJob(h) ==
    /\ At(h, "create", "begun")
    /\ LET req == request[h] IN
           \/ /\ CreateJob(req.job, req.type, req.limit)
              /\ created' = Stamped(created, req.job, req.at)
              /\ stored' = Stamped(stored, req.job, clock)
              /\ Answer(h, 201, Nothing)
           \/ /\ req.job \in DOMAIN jobs
              /\ Answer(h, 500, Nothing)
              /\ UNCHANGED <<storeVars, created, stored>>
    /\ UNCHANGED <<clock, leases>>

-------------------------------------------------------------------------------
(* POST /jobs/{id}/cancel: when the store refuses, a second call finds out *)
(* why.                                                                    *)

BeginCancel(h, id) ==
    /\ Receive(h, [op |-> "cancel", job |-> id])
    /\ UNCHANGED <<storeVars, stampVars, leases>>

TryCancel(h) ==
    /\ At(h, "cancel", "begun")
    /\ LET id == request[h].job IN
           \/ CancelJob(id) /\ Answer(h, 200, Nothing)
           \/ /\ ~ Cancellable(id)
              /\ GoOn(h, "refused")
              /\ UNCHANGED storeVars
    /\ UNCHANGED <<stampVars, leases>>

(* What GetJob tells of a cancellation that was refused.                   *)
Verdict(id) ==
    CASE id \notin DOMAIN jobs -> 404
      [] id \in DOMAIN jobs /\ jobs[id].Status \in Terminal -> 409
      [] id \in DOMAIN jobs /\ jobs[id].Status \notin Terminal -> 500

ExplainRefusal(h) ==
    /\ At(h, "cancel", "refused")
    /\ Answer(h, Verdict(request[h].job), Nothing)
    /\ UNCHANGED <<storeVars, stampVars, leases>>

-------------------------------------------------------------------------------
(* POST /jobs/{id}/result: the job is looked up, completed and fetched.    *)

(* A slip: an agent that gets no answer sends its result again.            *)
BeginResultAgain(h, l, outcome) ==
    /\ ValidResult(outcome)
    /\ Receive(h, [op |-> "result", job |-> l.job, attempt |-> l.attempt,
                   outcome |-> outcome])
    /\ UNCHANGED <<storeVars, stampVars, leases>>

BeginResult(h, l, outcome) ==
    /\ ValidResult(outcome)
    /\ leases' = leases \ {l}
    /\ Receive(h, [op |-> "result", job |-> l.job, attempt |-> l.attempt,
                   outcome |-> outcome])
    /\ UNCHANGED <<storeVars, stampVars>>

LookUp(h) ==
    /\ At(h, "result", "begun")
    /\ \/ request[h].job \in DOMAIN jobs /\ GoOn(h, "found")
       \/ request[h].job \notin DOMAIN jobs /\ Answer(h, 404, Nothing)
    /\ UNCHANGED <<storeVars, stampVars, leases>>

Complete(h) ==
    /\ At(h, "result", "found")
    /\ \/ CompleteJob(request[h].job, request[h].outcome) /\ GoOn(h, "completed")
       \/ /\ request[h].job \notin DOMAIN jobs
          /\ Answer(h, 500, Nothing)
          /\ UNCHANGED storeVars
    /\ UNCHANGED <<stampVars, leases>>

Refetch(h) ==
    /\ At(h, "result", "completed")
    /\ Answer(h, 200, jobs[request[h].job])
    /\ UNCHANGED <<storeVars, stampVars, leases>>

-------------------------------------------------------------------------------
(* Handlers of one call.                                                   *)

Register(agent) ==
    RegisterAgent(agent) /\ UNCHANGED <<handlerVars, stampVars, leases>>

NextJob(agent, caps, id) ==
    /\ AssignNextJob(agent, caps, id)
    /\ leases' = leases \cup {[job |-> id, attempt |-> jobs'[id].AttemptCount]}
    /\ UNCHANGED <<handlerVars, stampVars>>

HandlerStep(h) ==
    \/ \E authorised, proper \in BOOLEAN, l \in leases \cup {Bogus} :
           TurnAway(h, authorised, proper, l)
    \/ \E id \in JobIDs, type \in JobTypes \cup {Unknown}, limit \in RetryLimits \cup {-1} :
           BeginCreate(h, id, type, limit)
    \/ InsertJob(h)
    \/ \E id \in DOMAIN jobs \cup {Unknown} : BeginCancel(h, id)
    \/ TryCancel(h) \/ ExplainRefusal(h)
    \/ \E l \in leases \cup {Bogus}, outcome \in JobStatus : BeginResult(h, l, outcome)
    \/ LookUp(h) \/ Complete(h) \/ Refetch(h)

ApiNext ==
    \/ \E h \in Handlers : HandlerStep(h)
    \/ \E agent \in AgentIDs : Register(agent)
    \/ \E agent \in AgentIDs, caps \in SUBSET JobTypes, id \in JobIDs :
           NextJob(agent, caps, id)

ApiSpec == ApiInit /\ [][ApiNext]_apiVars

-------------------------------------------------------------------------------
(* h handles a request, or has answered one.                               *)
Active(h) == stage[h] # "idle" \/ reply[h] # Nothing

(* Types; stamps and table have the same jobs.                             *)
ApiTypeOK ==
    /\ StoreTypeOK
    /\ stage \in [Handlers -> Stages]
    /\ request \in [Handlers -> Request \cup {Nothing}]
    /\ reply \in [Handlers -> Reply \cup {Nothing}]
    /\ \A h \in Handlers : Active(h) => request[h] \in Request
    /\ clock \in Nat
    /\ created \in [DOMAIN jobs -> Nat]
    /\ stored \in [DOMAIN jobs -> Nat]
    /\ leases \subseteq Attempt

Answered(h, op) == stage[h] = "idle" /\ reply[h] # Nothing /\ request[h].op = op

(* Whatever handlers come between, and whatever identifiers are drawn, 201 *)
(* is about the job as it was asked for, now and for ever, and any other   *)
(* code about a request of which there is no trace in the table.           *)
CreateVerdict ==
    \A h \in Handlers : Answered(h, "create") =>
        LET req == request[h] IN
        IF reply[h].code = 201
        THEN /\ req.job \in DOMAIN jobs
             /\ created[req.job] = req.at
             /\ jobs[req.job].Type = req.type
             /\ jobs[req.job].MaxRetries = req.limit
        ELSE \A id \in DOMAIN jobs : created[id] # req.at

(* The two store calls of a cancellation agree: the reply is 404 for the   *)
(* job that never was and for no other, and any other reply, the 500 too,  *)
(* is about a job that has finished at least once.  (A 500 means that a    *)
(* result reopened the job between the two calls.)                         *)
CancelVerdict ==
    \A h \in Handlers : Answered(h, "cancel") =>
        IF reply[h].code = 404
        THEN request[h].job = Unknown
        ELSE jobs[request[h].job].FinishedAt = "stamped"

(* h has a result to apply, of a job that was handed out.                  *)
Reporting(h) ==
    /\ stage[h] \in {"begun", "found"}
    /\ request[h].op = "result" /\ request[h].job # Unknown

(* What an agent or a handler has to report is of the latest attempt of a  *)
(* job that is running, or was cancelled meanwhile.                        *)
Current(o) ==
    /\ o.job \in DOMAIN jobs
    /\ jobs[o.job].AttemptCount = o.attempt
    /\ jobs[o.job].Status \in {"RUNNING", "CANCELED"}

(* No two results of a job are ever on their way: handleJobResult lets go  *)
(* of the lock between its calls, and CompleteJob tests neither the status *)
(* it finds nor who reports, yet what an agent executes and what handlers  *)
(* are about to apply never meet on one job, and none is out of date.      *)
OneReport ==
    /\ \A l \in leases : Current(l)
    /\ \A h \in Handlers : Reporting(h) => Current(request[h])
    /\ \A l, k \in leases : l.job = k.job => l = k
    /\ \A l \in leases, h \in Handlers : Reporting(h) => l.job # request[h].job
    /\ \A g, h \in Handlers :
           Reporting(g) /\ Reporting(h) /\ request[g].job = request[h].job => g = h

(* No result for a job that was handed out is refused: what the first of   *)
(* the three store calls has seen is still there at the second.            *)
ResultAccepted ==
    \A h \in Handlers : Answered(h, "result") =>
        reply[h].code = IF request[h].job = Unknown THEN 404 ELSE 200

(* The third call reads after the second let go of the lock, yet the reply *)
(* never shows the job as it was before the result: a SUCCESS is shown as  *)
(* such, and a job shown RUNNING is in a later attempt.                    *)
ShowsResult ==
    \A h \in Handlers : Answered(h, "result") /\ reply[h].code = 200 =>
        LET job == reply[h].job
            req == request[h]
        IN  /\ job.AttemptCount >= req.attempt
            /\ req.outcome = "SUCCESS" =>
                   job.Status = "SUCCESS" /\ job.AttemptCount = req.attempt
            /\ job.Status = "RUNNING" => job.AttemptCount > req.attempt

(* FIFO as clients see it: a job is not started while one of its type is   *)
(* waiting that was stored before it was so much as stamped, retries       *)
(* included, however handlers overtake each other between stamp and lock.  *)
RealTimeFIFO ==
    [][\A id \in DOMAIN jobs : Started(id) =>
           \A older \in DOMAIN jobs :
               \/ jobs[older].Status # "PENDING"
               \/ jobs[older].Type # jobs[id].Type
               \/ stored[older] >= created[id]]_apiVars

(* GET /jobs lists jobs in the order in which they were stored, not that   *)
(* of the times it shows (see ListSorted), but the two differ only for     *)
(* creations that overlap: a job stored before another was stamped comes   *)
(* first.                                                                  *)
ListedInRealTime ==
    \A i, k \in DOMAIN jobOrder :
        i < k => created[jobOrder[i]] <= stored[jobOrder[k]]

-------------------------------------------------------------------------------
(* What the documentation says and the code does not do.                   *)

(* memory.go: ListJobs returns the jobs sorted by creation time.           *)
ListSorted ==
    \A i, k \in DOMAIN jobOrder :
        i < k => created[jobOrder[i]] <= created[jobOrder[k]]

===============================================================================
