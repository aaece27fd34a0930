--------------------------- MODULE ApiHandlersProofs ---------------------------
(***************************************************************************)
(* What the handlers promise although each of them lets go of the store    *)
(* between its calls, for any number of handlers, jobs and stamps.  The    *)
(* argument for a single handler is always the same: what its first call   *)
(* has seen can only change in ways the later call does not mind.  A job   *)
(* stays in the table, a job that has finished once keeps its FinishedAt.  *)
(***************************************************************************)
EXTENDS ApiHandlers, JobStoreProofs

USE ApiAssumption DEF ApiAssumption

(* The type of a request is told by its op.                                *)
LEMMA RequestTypes ==
    ASSUME NEW req \in Request
    PROVE  /\ req.op = "create" => req \in CreateRequest
           /\ req.op = "cancel" => req \in CancelRequest
           /\ req.op = "result" => req \in ResultRequest
  BY DEF Request, CreateRequest, CancelRequest, ResultRequest, Rejected

(* What Validate lets through is what the store can be given.              *)
LEMMA Screened ==
    /\ \A type, limit : limit \in RetryLimits \cup {-1} /\ ValidCreate(type, limit) =>
           type \in JobTypes /\ limit \in RetryLimits
    /\ \A status : ValidResult(status) => status \in Outcomes
  BY DEF ValidCreate, ValidResult, Outcomes

(* Every step of the handlers is a call of the store, or none.             *)
LEMMA CallsOfStore ==
    ASSUME ApiTypeOK, [ApiNext]_apiVars
    PROVE  [StoreNext]_storeVars
<1> USE DEF StoreNext
<1>1. ASSUME NEW h \in Handlers, HandlerStep(h)
      PROVE  [StoreNext]_storeVars
  <2>1. CASE InsertJob(h)
    <3>1. request[h] \in CreateRequest
      BY <2>1, RequestTypes DEF InsertJob, At, ApiTypeOK, Active
    <3>2. /\ request[h].job \in JobIDs
          /\ request[h].type \in JobTypes
          /\ request[h].limit \in RetryLimits
      BY <3>1 DEF CreateRequest
    <3> QED BY <2>1, <3>2 DEF InsertJob
  <2>2. CASE TryCancel(h)
    <3>1. request[h].job \in JobIDs \/ ~ CancelJob(request[h].job)
      BY DEF CancelJob, Cancellable, ApiTypeOK, StoreTypeOK
    <3> QED BY <2>2, <3>1 DEF TryCancel
  <2>3. CASE Complete(h)
    <3>1. request[h] \in ResultRequest
      BY <2>3, RequestTypes DEF Complete, At, ApiTypeOK, Active
    <3>2. request[h].outcome \in Outcomes
      BY <3>1 DEF ResultRequest
    <3>3. \A outcome : CompleteJob(request[h].job, outcome) => request[h].job \in JobIDs
      BY DEF CompleteJob, ApiTypeOK, StoreTypeOK
    <3> QED BY <2>3, <3>2, <3>3 DEF Complete
  <2>4. ASSUME ~ InsertJob(h), ~ TryCancel(h), ~ Complete(h)
        PROVE  UNCHANGED storeVars
    BY <1>1, <2>4 DEF HandlerStep, TurnAway, BeginCreate, BeginCancel, ExplainRefusal,
                      BeginResult, LookUp, Refetch
  <2> QED BY <2>1, <2>2, <2>3, <2>4
<1>2. ASSUME NEW agent \in AgentIDs, Register(agent)
      PROVE  [StoreNext]_storeVars
  BY <1>2 DEF Register
<1>3. ASSUME NEW agent \in AgentIDs, NEW caps \in SUBSET JobTypes, NEW id \in JobIDs,
             NextJob(agent, caps, id)
      PROVE  [StoreNext]_storeVars
  BY <1>3 DEF NextJob
<1>4. CASE UNCHANGED apiVars
  BY <1>4 DEF apiVars, storeVars
<1> HIDE DEF StoreNext
<1> QED BY <1>1, <1>2, <1>3, <1>4 DEF ApiNext

-------------------------------------------------------------------------------
(* Types.  The reply to a result holds a job record because a handler that *)
(* has found its job still finds it later: nobody but a client with the id *)
(* of no job asks for a job that is not in the table.                      *)
Asks(h) == Active(h) /\ request[h].op \in {"cancel", "result"}

JobsKnown ==
    /\ \A l \in leases : l.job \in DOMAIN jobs
    /\ \A h \in Handlers : Asks(h) => request[h].job \in DOMAIN jobs \cup {Unknown}
    /\ \A h \in Handlers :
           stage[h] \in {"found", "completed"} =>
               request[h].op = "result" /\ request[h].job \in DOMAIN jobs

HandlersTyped ==
    /\ stage \in [Handlers -> Stages]
    /\ request \in [Handlers -> Request \cup {Nothing}]
    /\ reply \in [Handlers -> Reply \cup {Nothing}]
    /\ \A h \in Handlers : Active(h) => request[h] \in Request

StampsTyped ==
    /\ clock \in Nat
    /\ created \in [DOMAIN jobs -> Nat]
    /\ stored \in [DOMAIN jobs -> Nat]
    /\ leases \subseteq Attempt

LEMMA TypeParts ==
    ApiTypeOK <=> StoreTypeOK /\ HandlersTyped /\ StampsTyped
  BY DEF ApiTypeOK, HandlersTyped, StampsTyped

(* The four ways in which a handler moves keep its types.                  *)
LEMMA HandlerMoves ==
    ASSUME HandlersTyped, NEW h \in Handlers,
           \/ \E req \in Request : Receive(h, req)
           \/ stage[h] # "idle" /\ \E s \in Stages : GoOn(h, s)
           \/ /\ stage[h] # "idle"
              /\ \E code \in Codes, job \in Job \cup {Nothing} : Answer(h, code, job)
           \/ \E code \in Codes : Reject(h, code)
    PROVE  HandlersTyped'
<1>1. CASE \E req \in Request : Receive(h, req)
  BY <1>1 DEF HandlersTyped, Receive, Active, Stages
<1>2. CASE stage[h] # "idle" /\ \E s \in Stages : GoOn(h, s)
  BY <1>2 DEF HandlersTyped, GoOn, Active
<1>3. CASE /\ stage[h] # "idle"
           /\ \E code \in Codes, job \in Job \cup {Nothing} : Answer(h, code, job)
  <2>1. PICK code \in Codes, job \in Job \cup {Nothing} : Answer(h, code, job)
    BY <1>3
  <2>2. [code |-> code, job |-> job] \in Reply
    BY DEF Reply
  <2> QED BY <1>3, <2>1, <2>2 DEF HandlersTyped, Answer, Active, Stages
<1>4. CASE \E code \in Codes : Reject(h, code)
  <2>1. PICK code \in Codes : Reject(h, code)
    BY <1>4
  <2>2. [code |-> code, job |-> Nothing] \in Reply /\ Rejected \in Request
    BY DEF Reply, Request
  <2> QED BY <2>1, <2>2 DEF HandlersTyped, Reject, Active, Stages
<1> QED BY <1>1, <1>2, <1>3, <1>4

(* The requests that handlers receive.                                     *)
LEMMA NewRequests ==
    ASSUME ApiTypeOK
    PROVE  /\ \A id \in JobIDs, type \in JobTypes, limit \in RetryLimits :
                  [op |-> "create", job |-> id, type |-> type, limit |-> limit,
                   at |-> clock + 1] \in Request
           /\ \A id \in DOMAIN jobs \cup {Unknown} :
                  [op |-> "cancel", job |-> id] \in Request
           /\ \A l \in leases \cup {Bogus}, outcome \in Outcomes :
                  [op |-> "result", job |-> l.job, attempt |-> l.attempt,
                   outcome |-> outcome] \in Request
<1>1. clock + 1 \in Nat /\ DOMAIN jobs \subseteq JobIDs
  BY DEF ApiTypeOK, StoreTypeOK
<1>2. \A l \in leases \cup {Bogus} : l.job \in JobIDs \cup {Unknown} /\ l.attempt \in Nat
  BY DEF ApiTypeOK, Attempt, Bogus
<1> QED BY <1>1, <1>2 DEF Request, CreateRequest, CancelRequest, ResultRequest

LEMMA HandlersStep ==
    ASSUME ApiTypeOK, JobsKnown, [ApiNext]_apiVars
    PROVE  HandlersTyped'
<1> HandlersTyped
  BY TypeParts
<1>a. ASSUME UNCHANGED handlerVars
      PROVE  HandlersTyped'
  BY <1>a DEF handlerVars, HandlersTyped, Active
<1>b. \A id \in DOMAIN jobs : jobs[id] \in Job
  BY DEF ApiTypeOK, StoreTypeOK
<1>1. ASSUME NEW h \in Handlers, HandlerStep(h)
      PROVE  HandlersTyped'
  <2>0. ASSUME NEW authorised, NEW proper, NEW l, TurnAway(h, authorised, proper, l)
        PROVE  HandlersTyped'
    BY <2>0, HandlerMoves DEF TurnAway, Codes
  <2>1. ASSUME NEW id \in JobIDs, NEW type, NEW limit \in RetryLimits \cup {-1},
               BeginCreate(h, id, type, limit)
        PROVE  HandlersTyped'
    BY <2>1, Screened, NewRequests, HandlerMoves DEF BeginCreate
  <2>2. CASE InsertJob(h)
    BY <2>2, HandlerMoves DEF InsertJob, At, Codes
  <2>3. ASSUME NEW id \in DOMAIN jobs \cup {Unknown}, BeginCancel(h, id)
        PROVE  HandlersTyped'
    BY <2>3, NewRequests, HandlerMoves DEF BeginCancel
  <2>4. CASE TryCancel(h)
    BY <2>4, HandlerMoves DEF TryCancel, At, Stages, Codes
  <2>5. CASE ExplainRefusal(h)
    <3>1. Verdict(request[h].job) \in {404, 409, 500}
      BY DEF Verdict
    <3> QED BY <2>5, <3>1, HandlerMoves DEF ExplainRefusal, At, Codes
  <2>6. ASSUME NEW l \in leases \cup {Bogus}, NEW outcome, BeginResult(h, l, outcome)
        PROVE  HandlersTyped'
    BY <2>6, Screened, NewRequests, HandlerMoves DEF BeginResult
  <2>7. CASE LookUp(h)
    BY <2>7, HandlerMoves DEF LookUp, At, Stages, Codes
  <2>8. CASE Complete(h)
    BY <2>8, HandlerMoves DEF Complete, At, Stages, Codes
  <2>9. CASE Refetch(h)
    BY <2>9, <1>b, HandlerMoves DEF Refetch, At, JobsKnown, Codes
  <2> QED BY <1>1, <2>0, <2>1, <2>2, <2>3, <2>4, <2>5, <2>6, <2>7, <2>8, <2>9 DEF HandlerStep
<1>2. ASSUME NEW agent \in AgentIDs, Register(agent)
      PROVE  HandlersTyped'
  BY <1>2, <1>a DEF Register
<1>3. ASSUME NEW agent \in AgentIDs, NEW caps \in SUBSET JobTypes, NEW id \in JobIDs,
             NextJob(agent, caps, id)
      PROVE  HandlersTyped'
  BY <1>3, <1>a DEF NextJob
<1>4. CASE UNCHANGED apiVars
  BY <1>4, <1>a DEF apiVars
<1> QED BY <1>1, <1>2, <1>3, <1>4 DEF ApiNext

(* The calls that do not insert a job.                                     *)
LEMMA DomainKept ==
    ASSUME StoreTypeOK,
           \/ \E id : CancelJob(id)
           \/ \E agent : RegisterAgent(agent)
           \/ \E agent, caps, id : AssignNextJob(agent, caps, id)
           \/ \E id, outcome : CompleteJob(id, outcome)
           \/ UNCHANGED storeVars
    PROVE  DOMAIN jobs' = DOMAIN jobs
  BY DEF StoreTypeOK, CancelJob, RegisterAgent, AssignNextJob, CompleteJob, storeVars

LEMMA StampsStep ==
    ASSUME ApiTypeOK, [ApiNext]_apiVars
    PROVE  StampsTyped'
<1>a. StoreTypeOK /\ StampsTyped
  BY TypeParts
<1>b. ASSUME DOMAIN jobs' = DOMAIN jobs, UNCHANGED <<created, stored>>,
             clock' \in Nat, leases' \subseteq Attempt
      PROVE  StampsTyped'
  BY <1>a, <1>b DEF StampsTyped
<1>1. ASSUME NEW h \in Handlers, HandlerStep(h)
      PROVE  StampsTyped'
  <2>1. CASE InsertJob(h)
    <3>1. request[h] \in CreateRequest
      BY <2>1, RequestTypes DEF InsertJob, At, ApiTypeOK, Active
    <3>2. request[h].at \in Nat
      BY <3>1 DEF CreateRequest
    <3>3. CASE UNCHANGED <<storeVars, created, stored>>
      BY <2>1, <3>3, <1>a DEF InsertJob, StampsTyped, storeVars
    <3>4. ASSUME CreateJob(request[h].job, request[h].type, request[h].limit),
                 created' = Stamped(created, request[h].job, request[h].at),
                 stored' = Stamped(stored, request[h].job, clock)
          PROVE  StampsTyped'
      <4>1. DOMAIN jobs' = DOMAIN jobs \cup {request[h].job}
        BY <3>4 DEF CreateJob
      <4>2. clock' = clock /\ leases' = leases
        BY <2>1 DEF InsertJob
      <4> QED BY <3>2, <3>4, <4>1, <4>2, <1>a DEF StampsTyped, Stamped
    <3> QED BY <2>1, <3>3, <3>4 DEF InsertJob
  <2>2. ASSUME ~ InsertJob(h)
        PROVE  DOMAIN jobs' = DOMAIN jobs /\ UNCHANGED <<created, stored>>
    <3>1. CASE TryCancel(h)
      BY <3>1, <1>a, DomainKept DEF TryCancel, stampVars
    <3>2. CASE Complete(h)
      BY <3>2, <1>a, DomainKept DEF Complete, stampVars
    <3>3. ASSUME ~ TryCancel(h), ~ Complete(h)
          PROVE  UNCHANGED <<storeVars, created, stored>>
      BY <1>1, <2>2, <3>3 DEF HandlerStep, TurnAway, BeginCreate, BeginCancel, ExplainRefusal,
                              BeginResult, LookUp, Refetch, stampVars
    <3> QED BY <3>1, <3>2, <3>3, <1>a, DomainKept
  <2>3. clock' \in {clock, clock + 1} /\ leases' \subseteq leases
    BY <1>1 DEF HandlerStep, TurnAway, BeginCreate, InsertJob, BeginCancel, TryCancel,
                ExplainRefusal, BeginResult, LookUp, Complete, Refetch, stampVars
  <2>4. clock' \in Nat /\ leases' \subseteq Attempt
    BY <2>3, <1>a DEF StampsTyped
  <2> QED BY <2>1, <2>2, <2>4, <1>b
<1>2. ASSUME NEW agent \in AgentIDs, Register(agent)
      PROVE  StampsTyped'
  BY <1>2, <1>a, <1>b, DomainKept DEF Register, stampVars, StampsTyped
<1>3. ASSUME NEW agent \in AgentIDs, NEW caps \in SUBSET JobTypes, NEW id \in JobIDs,
             NextJob(agent, caps, id)
      PROVE  StampsTyped'
  <2>1. StoreTypeOK'
    BY CallsOfStore, StoreTypeInvariant, <1>a
  <2>2. DOMAIN jobs' = DOMAIN jobs /\ id \in DOMAIN jobs
    BY <1>3, <1>a, DomainKept DEF NextJob, AssignNextJob, FirstEligible, Eligible
  <2>3. jobs'[id].AttemptCount \in Nat
    BY <2>1, <2>2 DEF StoreTypeOK, Job
  <2>4. [job |-> id, attempt |-> jobs'[id].AttemptCount] \in Attempt
    BY <2>3 DEF Attempt
  <2> QED BY <1>3, <1>a, <1>b, <2>2, <2>4 DEF NextJob, stampVars, StampsTyped
<1>4. CASE UNCHANGED apiVars
  BY <1>4, <1>a, <1>b, DomainKept DEF apiVars, stampVars, StampsTyped
<1> QED BY <1>1, <1>2, <1>3, <1>4 DEF ApiNext

LEMMA KnownStep ==
    ASSUME ApiTypeOK, JobsKnown, [ApiNext]_apiVars
    PROVE  JobsKnown'
<1>a. DOMAIN jobs \subseteq DOMAIN jobs' /\ StoreTypeOK
  BY CallsOfStore, JobStep, TypeParts
<1>b. HandlersTyped
  BY TypeParts
<1>c. ASSUME leases' \subseteq leases, UNCHANGED handlerVars
      PROVE  JobsKnown'
  BY <1>c, <1>a DEF JobsKnown, handlerVars, Asks, Active
<1>1. ASSUME NEW h \in Handlers, HandlerStep(h)
      PROVE  JobsKnown'
  <2>0. leases' \subseteq leases
    BY <1>1 DEF HandlerStep, TurnAway, BeginCreate, InsertJob, BeginCancel, TryCancel,
                ExplainRefusal, BeginResult, LookUp, Complete, Refetch, stampVars
  <2>1. ASSUME NEW req, Receive(h, req),
               req.op \in {"cancel", "result"} => req.job \in DOMAIN jobs \cup {Unknown}
        PROVE  JobsKnown'
    BY <2>0, <2>1, <1>a, <1>b DEF Receive, JobsKnown, HandlersTyped, Asks, Active
  <2>2. ASSUME NEW s, GoOn(h, s), stage[h] # "idle",
               s \in {"found", "completed"} =>
                   request[h].op = "result" /\ request[h].job \in DOMAIN jobs
        PROVE  JobsKnown'
    BY <2>0, <2>2, <1>a, <1>b DEF GoOn, JobsKnown, HandlersTyped, Asks, Active
  <2>3. ASSUME NEW code, NEW job, Answer(h, code, job), stage[h] # "idle"
        PROVE  JobsKnown'
    BY <2>0, <2>3, <1>a, <1>b DEF Answer, JobsKnown, HandlersTyped, Asks, Active
  <2>a. ASSUME NEW authorised, NEW proper, NEW l, TurnAway(h, authorised, proper, l)
        PROVE  JobsKnown'
    <3>1. PICK code : Reject(h, code)
      BY <2>a DEF TurnAway
    <3>2. Rejected.op = "none"
      BY DEF Rejected
    <3> QED BY <2>0, <3>1, <3>2, <1>a, <1>b DEF Reject, JobsKnown, HandlersTyped, Asks, Active
  <2>4. ASSUME NEW id, NEW type, NEW limit, BeginCreate(h, id, type, limit)
        PROVE  JobsKnown'
    BY <2>4, <2>1 DEF BeginCreate
  <2>5. ASSUME NEW id \in DOMAIN jobs \cup {Unknown}, BeginCancel(h, id)
        PROVE  JobsKnown'
    BY <2>5, <2>1 DEF BeginCancel
  <2>6. ASSUME NEW l \in leases \cup {Bogus}, NEW outcome, BeginResult(h, l, outcome)
        PROVE  JobsKnown'
    BY <2>6, <2>1 DEF BeginResult, JobsKnown, Bogus
  <2>7. CASE InsertJob(h)
    BY <2>7, <2>3 DEF InsertJob, At
  <2>8. CASE TryCancel(h)
    BY <2>8, <2>2, <2>3 DEF TryCancel, At
  <2>9. CASE ExplainRefusal(h)
    BY <2>9, <2>3 DEF ExplainRefusal, At
  <2>10. CASE LookUp(h)
    BY <2>10, <2>2, <2>3 DEF LookUp, At
  <2>11. CASE Complete(h)
    BY <2>11, <2>2, <2>3 DEF Complete, At, JobsKnown
  <2>12. CASE Refetch(h)
    BY <2>12, <2>3 DEF Refetch, At
  <2> QED BY <1>1, <2>a, <2>4, <2>5, <2>6, <2>7, <2>8, <2>9, <2>10, <2>11, <2>12
          DEF HandlerStep
<1>2. ASSUME NEW agent \in AgentIDs, Register(agent)
      PROVE  JobsKnown'
  BY <1>2, <1>c DEF Register
<1>3. ASSUME NEW agent \in AgentIDs, NEW caps \in SUBSET JobTypes, NEW id \in JobIDs,
             NextJob(agent, caps, id)
      PROVE  JobsKnown'
  <2>1. id \in DOMAIN jobs
    BY <1>3 DEF NextJob, AssignNextJob, FirstEligible, Eligible
  <2> QED BY <1>3, <2>1, <1>a DEF NextJob, JobsKnown, handlerVars, Asks, Active
<1>4. CASE UNCHANGED apiVars
  BY <1>4, <1>c DEF apiVars
<1> QED BY <1>1, <1>2, <1>3, <1>4 DEF ApiNext

LEMMA InitialTypes == ApiInit => ApiTypeOK /\ JobsKnown
<1> SUFFICES ASSUME ApiInit
             PROVE  ApiTypeOK /\ JobsKnown
  OBVIOUS
<1>1. StoreTypeOK /\ DOMAIN jobs = {}
  BY StoreTypeInvariant DEF ApiInit, StoreInit
<1>2. HandlersTyped /\ \A h \in Handlers : ~ Active(h)
  BY DEF ApiInit, HandlersTyped, Active, Stages
<1>3. StampsTyped
  BY <1>1 DEF ApiInit, StampsTyped
<1> QED BY <1>1, <1>2, <1>3, TypeParts DEF ApiInit, JobsKnown, Asks, Stages

LEMMA TypesAndJobs == ApiSpec => [](ApiTypeOK /\ JobsKnown)
<1>1. ApiTypeOK /\ JobsKnown /\ [ApiNext]_apiVars => ApiTypeOK' /\ JobsKnown'
  <2> SUFFICES ASSUME ApiTypeOK, JobsKnown, [ApiNext]_apiVars
               PROVE  ApiTypeOK' /\ JobsKnown'
    OBVIOUS
  <2>1. StoreTypeOK'
    BY CallsOfStore, StoreTypeInvariant, TypeParts
  <2>2. HandlersTyped' /\ StampsTyped' /\ JobsKnown'
    BY HandlersStep, StampsStep, KnownStep
  <2>3. ApiTypeOK'
    BY <2>1, <2>2 DEF ApiTypeOK, HandlersTyped, StampsTyped
  <2> QED BY <2>2, <2>3
<1> QED BY <1>1, InitialTypes, PTL DEF ApiSpec

(* Requests, replies and stamps have their types; a reply to a result shows*)
(* the record of a job.                                                    *)
THEOREM ApiTypeCorrect == ApiSpec => []ApiTypeOK
  BY TypesAndJobs, PTL

(* The handlers are callers the store was specified for: what JobStore     *)
(* promises holds however their calls interleave.                          *)
THEOREM ApiImplementsStore == ApiSpec => StoreSpec
<1>1. ApiInit => StoreInit
  BY DEF ApiInit
<1>2. ApiTypeOK /\ [ApiNext]_apiVars => [StoreNext]_storeVars
  BY CallsOfStore
<1> QED BY <1>1, <1>2, ApiTypeCorrect, PTL DEF ApiSpec, StoreSpec

-------------------------------------------------------------------------------
(* The replies.                                                            *)

(* A handler that moves leaves the others where they are.                  *)
LEMMA OthersStay ==
    ASSUME HandlersTyped, NEW h \in Handlers, NEW g \in Handlers, g # h, HandlerStep(h)
    PROVE  /\ stage'[g] = stage[g]
           /\ request'[g] = request[g]
           /\ reply'[g] = reply[g]
<1>1. \/ \E req : Receive(h, req)
      \/ \E s : GoOn(h, s)
      \/ \E code, job : Answer(h, code, job)
      \/ \E code : Reject(h, code)
  BY DEF HandlerStep, TurnAway, BeginCreate, InsertJob, BeginCancel, TryCancel,
         ExplainRefusal, BeginResult, LookUp, Complete, Refetch
<1> QED BY <1>1 DEF HandlersTyped, Receive, GoOn, Answer, Reject

(* What the handler that moves does.                                       *)
LEMMA Moved ==
    ASSUME HandlersTyped, NEW h \in Handlers
    PROVE  /\ \A req : Receive(h, req) => stage'[h] = "begun" /\ request'[h] = req
           /\ \A s : GoOn(h, s) => /\ stage'[h] = s
                                   /\ request'[h] = request[h]
                                   /\ reply'[h] = reply[h]
           /\ \A code, job : Answer(h, code, job) =>
                  /\ stage'[h] = "idle"
                  /\ request'[h] = request[h]
                  /\ reply'[h] = [code |-> code, job |-> job]
           /\ \A authorised, proper, l : TurnAway(h, authorised, proper, l) =>
                  /\ stage'[h] = "idle" /\ request'[h].op = "none"
                  /\ reply'[h].code \in {400, 401}
  BY DEF HandlersTyped, Receive, GoOn, Answer, TurnAway, Reject, Rejected

LEMMA ResultStep ==
    ASSUME ApiTypeOK, JobsKnown, ResultAccepted, [ApiNext]_apiVars
    PROVE  ResultAccepted'
<1>a. HandlersTyped /\ StoreTypeOK
  BY TypeParts
<1>b. ASSUME UNCHANGED handlerVars
      PROVE  ResultAccepted'
  BY <1>b DEF handlerVars, ResultAccepted, Answered
<1>1. ASSUME NEW h \in Handlers, HandlerStep(h)
      PROVE  ResultAccepted'
  <2> DEFINE Accepted(g) ==
          Answered(g, "result") =>
              reply[g].code = IF request[g].job = Unknown THEN 404 ELSE 200
  <2>1. ASSUME NEW g \in Handlers, g # h
        PROVE  Accepted(g)'
    BY <1>1, <1>a, <2>1, OthersStay DEF ResultAccepted, Answered
  <2>2. Accepted(h)'
    <3>0. ASSUME NEW code, NEW job, Answer(h, code, job),
                 code = IF request[h].job = Unknown THEN 404 ELSE 200
          PROVE  Accepted(h)'
      <4>1. reply'[h] = [code |-> code, job |-> job] /\ request'[h] = request[h]
        BY <3>0, <1>a, Moved
      <4>2. reply'[h].code = IF request'[h].job = Unknown THEN 404 ELSE 200
        BY <3>0, <4>1
      <4> QED BY <4>2
    <3>1. ASSUME \/ \E req : Receive(h, req)
                 \/ \E s \in Stages \ {"idle"} : GoOn(h, s)
          PROVE  Accepted(h)'
      BY <3>1, <1>a, Moved DEF Answered
    <3>2. ASSUME request[h].op # "result", \E code, job : Answer(h, code, job)
          PROVE  Accepted(h)'
      BY <3>2, <1>a, Moved DEF Answered
    <3>a. ASSUME NEW authorised, NEW proper, NEW l, TurnAway(h, authorised, proper, l)
          PROVE  Accepted(h)'
      BY <3>a, <1>a, Moved DEF Answered
    <3>3. ASSUME NEW id, NEW type, NEW limit, BeginCreate(h, id, type, limit)
          PROVE  Accepted(h)'
      BY <3>1, <3>3 DEF BeginCreate
    <3>4. CASE InsertJob(h)
      BY <3>2, <3>4 DEF InsertJob, At
    <3>5. ASSUME NEW id, BeginCancel(h, id)
          PROVE  Accepted(h)'
      BY <3>1, <3>5 DEF BeginCancel
    <3>6. CASE TryCancel(h)
      BY <3>1, <3>2, <3>6 DEF TryCancel, At, Stages
    <3>7. CASE ExplainRefusal(h)
      BY <3>2, <3>7 DEF ExplainRefusal, At
    <3>8. ASSUME NEW l, NEW outcome, BeginResult(h, l, outcome)
          PROVE  Accepted(h)'
      BY <3>1, <3>8 DEF BeginResult
    <3>9. CASE LookUp(h)
      <4>1. Asks(h)
        BY <3>9 DEF LookUp, At, Asks, Active
      <4>2. CASE GoOn(h, "found")
        BY <3>1, <4>2 DEF Stages
      <4>3. CASE request[h].job \notin DOMAIN jobs /\ Answer(h, 404, Nothing)
        <5>1. request[h].job = Unknown
          BY <4>1, <4>3 DEF JobsKnown
        <5> QED BY <4>3, <5>1, <3>0
      <4> QED BY <3>9, <4>2, <4>3 DEF LookUp
    <3>10. CASE Complete(h)
      <4>1. request[h].job \in DOMAIN jobs
        BY <3>10 DEF Complete, At, JobsKnown
      <4> QED BY <3>1, <3>10, <4>1 DEF Complete, Stages
    <3>11. CASE Refetch(h)
      <4>1. request[h].job # Unknown
        BY <3>11, <1>a DEF Refetch, At, JobsKnown, StoreTypeOK
      <4> QED BY <3>11, <4>1, <3>0 DEF Refetch
    <3> QED BY <1>1, <3>a, <3>3, <3>4, <3>5, <3>6, <3>7, <3>8, <3>9, <3>10, <3>11
            DEF HandlerStep
  <2> QED BY <2>1, <2>2 DEF ResultAccepted
<1>2. ASSUME ~ \E h \in Handlers : HandlerStep(h)
      PROVE  UNCHANGED handlerVars
  BY <1>2 DEF ApiNext, Register, NextJob, apiVars
<1> QED BY <1>1, <1>2, <1>b

(* A result for a job that was handed out is always accepted, any other    *)
(* one answered 404.                                                       *)
THEOREM ResultAcceptedCorrect == ApiSpec => []ResultAccepted
<1>1. ApiInit => ResultAccepted
  BY DEF ApiInit, ResultAccepted, Answered
<1>2. ApiTypeOK /\ JobsKnown /\ ResultAccepted /\ [ApiNext]_apiVars => ResultAccepted'
  BY ResultStep
<1> QED BY <1>1, <1>2, TypesAndJobs, PTL DEF ApiSpec

(* A cancellation is answered by what a second call finds.  Both speak of  *)
(* a FinishedAt that no call ever takes back.                              *)
OnceFinished(id) == id \in DOMAIN jobs /\ jobs[id].FinishedAt = "stamped"

TerminalFinished ==
    \A id \in DOMAIN jobs : jobs[id].Status \in Terminal => OnceFinished(id)

RefusedFinished ==
    \A h \in Handlers : stage[h] = "refused" =>
        request[h].job = Unknown \/ OnceFinished(request[h].job)

CancelOutcome ==
    \A h \in Handlers : Answered(h, "cancel") =>
        IF reply[h].code = 404
        THEN request[h].job = Unknown
        ELSE OnceFinished(request[h].job)

CancelInv == TerminalFinished /\ RefusedFinished /\ CancelOutcome

(* What a call does to a FinishedAt.                                       *)
LEMMA FinishedKept ==
    ASSUME StoreTypeOK, [StoreNext]_storeVars, NEW id, OnceFinished(id)
    PROVE  OnceFinished(id)'
<1>1. id \in DOMAIN jobs' /\ Evolves(id) /\ jobs[id] \in Job
  BY JobStep DEF OnceFinished, StoreTypeOK
<1> QED BY <1>1 DEF OnceFinished, Evolves, Finished, Assigned, Requeued, Job

LEMMA TerminalStep ==
    ASSUME StoreTypeOK, TerminalFinished, [StoreNext]_storeVars
    PROVE  TerminalFinished'
<1> SUFFICES ASSUME NEW id \in DOMAIN jobs', jobs'[id].Status \in Terminal
             PROVE  OnceFinished(id)'
  BY DEF TerminalFinished
<1>1. CASE id \notin DOMAIN jobs
  <2>1. Appears(id)
    BY <1>1, JobStep
  <2> QED BY <2>1 DEF Appears, NewJob, Terminal
<1>2. CASE id \in DOMAIN jobs
  <2>1. Evolves(id) /\ jobs[id] \in Job
    BY <1>2, JobStep DEF StoreTypeOK
  <2>2. CASE jobs'[id] = jobs[id]
    BY <1>2, <2>2 DEF TerminalFinished, OnceFinished
  <2>3. ASSUME NEW agent, jobs'[id] = Assigned(jobs[id], agent)
        PROVE  FALSE
    BY <2>1, <2>3 DEF Assigned, Job, Terminal
  <2>4. CASE jobs'[id] = Requeued(jobs[id])
    BY <2>1, <2>4 DEF Requeued, Job, Terminal
  <2>5. ASSUME NEW status, jobs'[id] = Finished(jobs[id], status)
        PROVE  OnceFinished(id)'
    BY <2>1, <2>5 DEF Finished, Job, OnceFinished
  <2> QED BY <2>1, <2>2, <2>3, <2>4, <2>5 DEF Evolves
<1> QED BY <1>1, <1>2

LEMMA CancelStep ==
    ASSUME ApiTypeOK, JobsKnown, CancelInv, [ApiNext]_apiVars
    PROVE  CancelInv'
<1>a. HandlersTyped /\ StoreTypeOK /\ [StoreNext]_storeVars
  BY TypeParts, CallsOfStore
<1>b. TerminalFinished'
  BY <1>a, TerminalStep DEF CancelInv
<1>c. \A id : OnceFinished(id) => OnceFinished(id)'
  BY <1>a, FinishedKept
<1> DEFINE Refused(g) ==
        stage[g] = "refused" => request[g].job = Unknown \/ OnceFinished(request[g].job)
<1> DEFINE Outcome(g) ==
        Answered(g, "cancel") =>
            IF reply[g].code = 404
            THEN request[g].job = Unknown
            ELSE OnceFinished(request[g].job)
<1>d. ASSUME NEW g \in Handlers,
             stage'[g] = stage[g], request'[g] = request[g], reply'[g] = reply[g]
      PROVE  Refused(g)' /\ Outcome(g)'
  BY <1>c, <1>d DEF CancelInv, RefusedFinished, CancelOutcome, Answered
<1>1. ASSUME NEW h \in Handlers, HandlerStep(h)
      PROVE  CancelInv'
  <2>1. \A g \in Handlers \ {h} : Refused(g)' /\ Outcome(g)'
    BY <1>1, <1>a, <1>d, OthersStay
  <2>2. Refused(h)' /\ Outcome(h)'
    <3>1. ASSUME \/ \E req : Receive(h, req)
                 \/ \E s \in {"found", "completed"} : GoOn(h, s)
          PROVE  Refused(h)' /\ Outcome(h)'
      BY <3>1, <1>a, Moved DEF Answered
    <3>2. ASSUME request[h].op # "cancel", \E code, job : Answer(h, code, job)
          PROVE  Refused(h)' /\ Outcome(h)'
      BY <3>2, <1>a, Moved DEF Answered
    <3>3. ASSUME NEW code, NEW job, Answer(h, code, job), NEW id, id = request[h].job,
                 IF code = 404 THEN id = Unknown ELSE OnceFinished(id)'
          PROVE  Refused(h)' /\ Outcome(h)'
      <4>1. /\ stage'[h] = "idle"
            /\ request'[h].job = id
            /\ reply'[h] = [code |-> code, job |-> job]
        BY <3>3, <1>a, Moved
      <4>2. IF reply'[h].code = 404 THEN request'[h].job = Unknown
            ELSE OnceFinished(request[h].job)'
        BY <3>3, <4>1
      <4> QED BY <4>1, <4>2
    <3>a. ASSUME NEW authorised, NEW proper, NEW l, TurnAway(h, authorised, proper, l)
          PROVE  Refused(h)' /\ Outcome(h)'
      BY <3>a, <1>a, Moved DEF Answered
    <3>4. ASSUME NEW id, NEW type, NEW limit, BeginCreate(h, id, type, limit)
          PROVE  Refused(h)' /\ Outcome(h)'
      BY <3>1, <3>4 DEF BeginCreate
    <3>5. CASE InsertJob(h)
      BY <3>2, <3>5 DEF InsertJob, At
    <3>6. ASSUME NEW id, BeginCancel(h, id)
          PROVE  Refused(h)' /\ Outcome(h)'
      BY <3>1, <3>6 DEF BeginCancel
    <3>7. CASE TryCancel(h)
      <4>1. CASE CancelJob(request[h].job) /\ Answer(h, 200, Nothing)
        <5>1. PICK id : id = request[h].job
          OBVIOUS
        <5>2. id \in DOMAIN jobs /\ jobs' = [jobs EXCEPT ![id] = Finished(jobs[id], "CANCELED")]
          BY <4>1, <5>1 DEF CancelJob, Cancellable
        <5>3. jobs[id] \in Job /\ jobs \in [DOMAIN jobs -> Job]
          BY <5>2, <1>a DEF StoreTypeOK
        <5>4. OnceFinished(id)'
          BY <5>2, <5>3 DEF Finished, OnceFinished, Job
        <5> QED BY <3>3, <4>1, <5>1, <5>4
      <4>2. CASE ~ Cancellable(request[h].job) /\ GoOn(h, "refused")
        <5>1. request[h].job \in DOMAIN jobs \cup {Unknown}
          BY <3>7 DEF TryCancel, At, JobsKnown, Asks, Active
        <5>2. request[h].job = Unknown \/ OnceFinished(request[h].job)
          BY <4>2, <5>1 DEF Cancellable, CancelInv, TerminalFinished
        <5>3. stage'[h] = "refused" /\ request'[h] = request[h]
          BY <4>2, <1>a, Moved
        <5> QED BY <5>2, <5>3, <1>c DEF Answered
      <4> QED BY <3>7, <4>1, <4>2 DEF TryCancel
    <3>8. CASE ExplainRefusal(h)
      <4>1. PICK id : id = request[h].job
        OBVIOUS
      <4>2. id = Unknown \/ OnceFinished(id)
        BY <3>8, <4>1 DEF ExplainRefusal, At, CancelInv, RefusedFinished
      <4>3. Verdict(id) = 404 <=> id \notin DOMAIN jobs
        BY DEF Verdict
      <4>4. Unknown \notin DOMAIN jobs
        BY <1>a DEF StoreTypeOK
      <4>5. IF Verdict(id) = 404 THEN id = Unknown ELSE OnceFinished(id)'
        BY <4>2, <4>3, <4>4, <1>c DEF OnceFinished
      <4> QED BY <3>3, <3>8, <4>1, <4>5 DEF ExplainRefusal
    <3>9. ASSUME NEW l, NEW outcome, BeginResult(h, l, outcome)
          PROVE  Refused(h)' /\ Outcome(h)'
      BY <3>1, <3>9 DEF BeginResult
    <3>10. CASE LookUp(h)
      BY <3>1, <3>2, <3>10 DEF LookUp, At
    <3>11. CASE Complete(h)
      BY <3>1, <3>2, <3>11 DEF Complete, At
    <3>12. CASE Refetch(h)
      BY <3>2, <3>12 DEF Refetch, At
    <3> QED BY <1>1, <3>a, <3>4, <3>5, <3>6, <3>7, <3>8, <3>9, <3>10, <3>11, <3>12
            DEF HandlerStep
  <2> QED BY <2>1, <2>2, <1>b DEF CancelInv, RefusedFinished, CancelOutcome
<1>2. ASSUME ~ \E h \in Handlers : HandlerStep(h)
      PROVE  UNCHANGED handlerVars
  BY <1>2 DEF ApiNext, Register, NextJob, apiVars
<1>3. ASSUME UNCHANGED handlerVars
      PROVE  CancelInv'
  BY <1>3, <1>b, <1>d DEF handlerVars, CancelInv, RefusedFinished, CancelOutcome
<1> QED BY <1>1, <1>2, <1>3

(* Whatever happens between the two calls, 404 is for the job that never   *)
(* was, and any other reply is about a job that has finished once.         *)
THEOREM CancelVerdictCorrect == ApiSpec => []CancelVerdict
<1>1. ApiInit => CancelInv
  BY DEF ApiInit, StoreInit, CancelInv, TerminalFinished, RefusedFinished, CancelOutcome,
         Answered
<1>2. ApiTypeOK /\ JobsKnown /\ CancelInv /\ [ApiNext]_apiVars => CancelInv'
  BY CancelStep
<1>3. CancelInv => CancelVerdict
  BY DEF CancelInv, CancelOutcome, CancelVerdict, OnceFinished
<1> QED BY <1>1, <1>2, <1>3, TypesAndJobs, PTL DEF ApiSpec

-------------------------------------------------------------------------------
(* FIFO as clients see it.  A job is stamped before it is stored, and the  *)
(* index is in the order in which jobs were stored.                        *)
StampedFirst ==
    /\ \A id \in DOMAIN jobs : created[id] <= stored[id] /\ stored[id] <= clock
    /\ \A h \in Handlers : Active(h) /\ request[h].op = "create" => request[h].at <= clock

StoredInOrder ==
    \A i, k \in DOMAIN jobOrder : i <= k => stored[jobOrder[i]] <= stored[jobOrder[k]]

StampInv == StampedFirst /\ StoredInOrder

(* A step that does not insert a job.                                      *)
LEMMA NoInsertion ==
    ASSUME ApiTypeOK, [ApiNext]_apiVars,
           ~ \E h \in Handlers : InsertJob(h)
    PROVE  /\ DOMAIN jobs' = DOMAIN jobs /\ jobOrder' = jobOrder
           /\ UNCHANGED <<created, stored>>
           /\ clock' \in {clock, clock + 1}
<1>a. StoreTypeOK
  BY TypeParts
<1>1. ASSUME NEW h \in Handlers, HandlerStep(h)
      PROVE  /\ \/ \E id : CancelJob(id)
                \/ \E id, outcome : CompleteJob(id, outcome)
                \/ UNCHANGED storeVars
             /\ UNCHANGED <<created, stored>>
             /\ clock' \in {clock, clock + 1}
  BY <1>1 DEF HandlerStep, TurnAway, BeginCreate, BeginCancel, TryCancel, ExplainRefusal,
              BeginResult, LookUp, Complete, Refetch, stampVars
<1>2. ASSUME ~ \E h \in Handlers : HandlerStep(h)
      PROVE  /\ \/ \E agent : RegisterAgent(agent)
                \/ \E agent, caps, id : AssignNextJob(agent, caps, id)
                \/ UNCHANGED storeVars
             /\ UNCHANGED stampVars
  BY <1>2 DEF ApiNext, Register, NextJob, apiVars
<1>3. DOMAIN jobs' = DOMAIN jobs
  BY <1>a, <1>1, <1>2, DomainKept
<1>4. jobOrder' = jobOrder
  BY <1>1, <1>2 DEF CancelJob, CompleteJob, RegisterAgent, AssignNextJob, storeVars
<1> QED BY <1>1, <1>2, <1>3, <1>4 DEF stampVars

LEMMA StampedFirstStep ==
    ASSUME ApiTypeOK, StampedFirst, [ApiNext]_apiVars
    PROVE  StampedFirst'
<1>a. HandlersTyped /\ StampsTyped
  BY TypeParts
<1> DEFINE Past(g) == Active(g) /\ request[g].op = "create" => request[g].at <= clock
<1>b. \A g \in Handlers : Active(g) /\ request[g].op = "create" =>
          request[g].at \in Nat /\ request[g].at <= clock
  BY <1>a, RequestTypes DEF HandlersTyped, CreateRequest, StampedFirst
<1>c. clock' \in {clock, clock + 1} /\ clock \in Nat
  BY <1>a, NoInsertion DEF InsertJob, StampsTyped
<1>1. ASSUME NEW g \in Handlers
      PROVE  Past(g)'
  <2>1. CASE /\ stage'[g] = stage[g]
             /\ request'[g] = request[g]
             /\ reply'[g] = reply[g]
    <3>1. Active(g)' <=> Active(g)
      BY <2>1 DEF Active
    <3> QED BY <2>1, <3>1, <1>b, <1>c
  <2>2. ASSUME HandlerStep(g)
        PROVE  Past(g)'
    <3>1. ASSUME NEW req, Receive(g, req), req.op = "create" => req.at <= clock'
          PROVE  Past(g)'
      <4>1. request'[g] = req
        BY <3>1, <1>a, Moved
      <4> QED BY <3>1, <4>1
    <3>2. ASSUME request'[g] = request[g], Active(g)
          PROVE  Past(g)'
      BY <3>2, <1>b, <1>c
    <3>3. ASSUME NEW id, NEW type, NEW limit, BeginCreate(g, id, type, limit)
          PROVE  Past(g)'
      <4>1. clock' <= clock'
        BY <1>c
      <4> QED BY <3>3, <3>1, <4>1 DEF BeginCreate
    <3>4. ASSUME \/ \E id \in DOMAIN jobs \cup {Unknown} : BeginCancel(g, id)
                 \/ \E l \in leases \cup {Bogus}, outcome \in JobStatus :
                        BeginResult(g, l, outcome)
          PROVE  Past(g)'
      BY <3>4, <3>1 DEF BeginCancel, BeginResult
    <3>a. ASSUME NEW authorised, NEW proper, NEW l, TurnAway(g, authorised, proper, l)
          PROVE  Past(g)'
      BY <3>a, <1>a, Moved
    <3>5. ASSUME \/ InsertJob(g) \/ TryCancel(g) \/ ExplainRefusal(g)
                 \/ LookUp(g) \/ Complete(g) \/ Refetch(g)
          PROVE  Past(g)'
      <4>1. Active(g)
        BY <3>5 DEF InsertJob, TryCancel, ExplainRefusal, LookUp, Complete, Refetch,
                    At, Active
      <4>2. request'[g] = request[g]
        BY <3>5 DEF InsertJob, TryCancel, ExplainRefusal, LookUp, Complete, Refetch,
                    Answer, GoOn
      <4> QED BY <3>2, <4>1, <4>2
    <3> QED BY <2>2, <3>a, <3>3, <3>4, <3>5 DEF HandlerStep
  <2>3. CASE \E h \in Handlers : h # g /\ HandlerStep(h)
    BY <2>1, <2>3, <1>a, OthersStay
  <2>4. CASE ~ \E h \in Handlers : HandlerStep(h)
    <3>1. UNCHANGED handlerVars
      BY <2>4 DEF ApiNext, Register, NextJob, apiVars
    <3> QED BY <3>1, <2>1 DEF handlerVars
  <2> QED BY <2>2, <2>3, <2>4
<1>2. ASSUME NEW id \in DOMAIN jobs'
      PROVE  created'[id] <= stored'[id] /\ stored'[id] <= clock'
  <2>1. CASE \E h \in Handlers : InsertJob(h)
    <3>1. PICK h \in Handlers : InsertJob(h)
      BY <2>1
    <3>2. request[h].at <= clock
      BY <3>1, <1>b DEF InsertJob, At, Active
    <3>3. CASE UNCHANGED <<storeVars, created, stored>>
      BY <3>1, <3>3 DEF InsertJob, storeVars, StampedFirst
    <3>4. ASSUME CreateJob(request[h].job, request[h].type, request[h].limit),
                 created' = Stamped(created, request[h].job, request[h].at),
                 stored' = Stamped(stored, request[h].job, clock)
          PROVE  created'[id] <= stored'[id] /\ stored'[id] <= clock'
      <4>1. DOMAIN jobs' = DOMAIN jobs \cup {request[h].job} /\ clock' = clock
        BY <3>1, <3>4 DEF CreateJob, InsertJob
      <4>2. CASE id = request[h].job
        BY <3>2, <3>4, <4>1, <4>2, <1>a, <1>c DEF Stamped
      <4>3. CASE id # request[h].job
        BY <3>4, <4>1, <4>3, <1>a DEF Stamped, StampsTyped, StampedFirst
      <4> QED BY <4>2, <4>3
    <3> QED BY <3>1, <3>3, <3>4 DEF InsertJob
  <2>2. CASE ~ \E h \in Handlers : InsertJob(h)
    <3>1. id \in DOMAIN jobs /\ created' = created /\ stored' = stored
      BY <2>2, NoInsertion
    <3>2. stored[id] \in Nat
      BY <3>1, <1>a DEF StampsTyped
    <3> QED BY <3>1, <3>2, <1>c DEF StampedFirst
  <2> QED BY <2>1, <2>2
<1> QED BY <1>1, <1>2 DEF StampedFirst

LEMMA StoredInOrderStep ==
    ASSUME ApiTypeOK, JobOrderComplete, StampInv, [ApiNext]_apiVars
    PROVE  StoredInOrder'
<1>a. StoreTypeOK /\ StampsTyped
  BY TypeParts
<1>b. \A i \in DOMAIN jobOrder :
          /\ jobOrder[i] \in DOMAIN jobs
          /\ stored[jobOrder[i]] \in Nat
          /\ stored[jobOrder[i]] <= clock
  BY <1>a DEF JobOrderComplete, StampsTyped, StampInv, StampedFirst
<1>1. CASE ~ \E h \in Handlers : InsertJob(h)
  BY <1>1, NoInsertion DEF StampInv, StoredInOrder
<1>2. ASSUME NEW h \in Handlers, InsertJob(h)
      PROVE  StoredInOrder'
  <2>1. CASE UNCHANGED <<storeVars, created, stored>>
    BY <2>1 DEF storeVars, StampInv, StoredInOrder
  <2>2. ASSUME CreateJob(request[h].job, request[h].type, request[h].limit),
               stored' = Stamped(stored, request[h].job, clock)
        PROVE  StoredInOrder'
    <3>1. PICK id : id = request[h].job
      OBVIOUS
    <3>2. id \notin DOMAIN jobs /\ jobOrder' = Append(jobOrder, id)
      BY <2>2, <3>1 DEF CreateJob
    <3>3. jobOrder \in Seq(JobIDs) /\ id \in JobIDs
      <4>1. request[h] \in CreateRequest
        BY <1>2, RequestTypes DEF InsertJob, At, ApiTypeOK, Active
      <4> QED BY <4>1, <3>1, <1>a DEF CreateRequest, StoreTypeOK
    <3>4. /\ DOMAIN jobOrder' = 1 .. (Len(jobOrder) + 1)
          /\ DOMAIN jobOrder = 1 .. Len(jobOrder)
          /\ Len(jobOrder) \in Nat
          /\ jobOrder'[Len(jobOrder) + 1] = id
          /\ \A i \in DOMAIN jobOrder : jobOrder'[i] = jobOrder[i]
      BY <3>2, <3>3
    <3>5. /\ stored'[id] = clock
          /\ \A x \in DOMAIN jobs : stored'[x] = stored[x]
      BY <2>2, <3>1, <3>2, <1>a DEF Stamped, StampsTyped
    <3> SUFFICES ASSUME NEW i \in DOMAIN jobOrder', NEW k \in DOMAIN jobOrder', i <= k
                 PROVE  stored'[jobOrder'[i]] <= stored'[jobOrder'[k]]
      BY DEF StoredInOrder
    <3>6. CASE k \in DOMAIN jobOrder
      <4>1. i \in DOMAIN jobOrder
        BY <3>4, <3>6
      <4> QED BY <3>4, <3>5, <3>6, <4>1, <1>b DEF StampInv, StoredInOrder
    <3>7. CASE k = Len(jobOrder) + 1
      <4>1. stored'[jobOrder'[k]] = clock /\ clock \in Nat
        BY <3>4, <3>5, <3>7, <1>a DEF StampsTyped
      <4>2. CASE i \in DOMAIN jobOrder
        BY <3>4, <3>5, <4>1, <4>2, <1>b
      <4>3. CASE i = k
        BY <4>1, <4>3
      <4> QED BY <4>2, <4>3, <3>4, <3>7
    <3> QED BY <3>4, <3>6, <3>7
  <2> QED BY <1>2, <2>1, <2>2 DEF InsertJob
<1> QED BY <1>1, <1>2

(* Whoever starts a job passes over no job that was stored earlier.        *)
LEMMA StartsInOrder ==
    ASSUME ApiTypeOK, JobOrderComplete, StampInv, [ApiNext]_apiVars,
           NEW id \in DOMAIN jobs, Started(id), NEW older \in DOMAIN jobs,
           jobs[older].Status = "PENDING", jobs[older].Type = jobs[id].Type
    PROVE  stored[older] >= created[id]
<1>1. StoreTypeOK /\ StampsTyped /\ [StoreNext]_storeVars
  BY TypeParts, CallsOfStore
<1>2. PICK agent \in AgentIDs, caps \in SUBSET JobTypes : AssignNextJob(agent, caps, id)
  BY <1>1, StartedByPoll
<1>3. PICK i \in DOMAIN jobOrder :
          /\ jobOrder[i] = id
          /\ Eligible(id, caps)
          /\ \A k \in 1 .. (i - 1) : ~ Eligible(jobOrder[k], caps)
  BY <1>2 DEF AssignNextJob, FirstEligible
<1>4. PICK k \in DOMAIN jobOrder : jobOrder[k] = older
  BY DEF JobOrderComplete
<1>5. Eligible(jobOrder[k], caps)
  BY <1>3, <1>4 DEF Eligible
<1>6. i <= k
  <2>1. jobOrder \in Seq(JobIDs)
    BY <1>1 DEF StoreTypeOK
  <2>2. i \in Nat /\ k \in Nat /\ k >= 1
    BY <2>1
  <2> QED BY <2>2, <1>3, <1>5
<1>7. stored[id] <= stored[older]
  BY <1>3, <1>4, <1>6 DEF StampInv, StoredInOrder
<1>8. created[id] <= stored[id]
  BY DEF StampInv, StampedFirst
<1>9. created[id] \in Nat /\ stored[id] \in Nat /\ stored[older] \in Nat
  BY <1>1 DEF StampsTyped
<1> QED BY <1>7, <1>8, <1>9

LEMMA StampInvariant == ApiSpec => [](ApiTypeOK /\ JobOrderComplete /\ StampInv)
<1>1. ApiInit => StampInv
  <2> SUFFICES ASSUME ApiInit
               PROVE  StampInv
    OBVIOUS
  <2>1. DOMAIN jobs = {} /\ DOMAIN jobOrder = {}
    BY DEF ApiInit, StoreInit
  <2>2. \A h \in Handlers : ~ Active(h)
    BY DEF ApiInit, Active
  <2> QED BY <2>1, <2>2 DEF StampInv, StampedFirst, StoredInOrder
<1>2. ApiTypeOK /\ JobOrderComplete /\ StampInv /\ [ApiNext]_apiVars => StampInv'
  BY StampedFirstStep, StoredInOrderStep DEF StampInv
<1> QED BY <1>1, <1>2, ApiTypeCorrect, ApiImplementsStore, JobOrderCorrect, PTL DEF ApiSpec

(* No job is started while one of its type waits that was stored before it *)
(* was stamped: stamps taken before the lock do no harm to the queue.      *)
THEOREM RealTimeFIFOCorrect == ApiSpec => RealTimeFIFO
<1>1. ApiTypeOK /\ JobOrderComplete /\ StampInv /\ [ApiNext]_apiVars =>
          [\A id \in DOMAIN jobs : Started(id) =>
               \A older \in DOMAIN jobs :
                   \/ jobs[older].Status # "PENDING"
                   \/ jobs[older].Type # jobs[id].Type
                   \/ stored[older] >= created[id]]_apiVars
  BY StartsInOrder
<1> QED BY <1>1, StampInvariant, PTL DEF ApiSpec, RealTimeFIFO

(* The list of jobs is not sorted by the times it shows, but two jobs are  *)
(* in the wrong order only if their creations overlapped.                  *)
THEOREM ListedInRealTimeCorrect == ApiSpec => []ListedInRealTime
<1>1. ApiTypeOK /\ JobOrderComplete /\ StampInv => ListedInRealTime
  <2> SUFFICES ASSUME ApiTypeOK, JobOrderComplete, StampInv,
                      NEW i \in DOMAIN jobOrder, NEW k \in DOMAIN jobOrder, i < k
               PROVE  created[jobOrder[i]] <= stored[jobOrder[k]]
    BY DEF ListedInRealTime
  <2>1. StampsTyped /\ jobOrder \in Seq(JobIDs)
    BY TypeParts DEF ApiTypeOK, StoreTypeOK
  <2>2. jobOrder[i] \in DOMAIN jobs /\ jobOrder[k] \in DOMAIN jobs
    BY DEF JobOrderComplete
  <2>3. /\ created[jobOrder[i]] \in Nat
        /\ stored[jobOrder[i]] \in Nat /\ stored[jobOrder[k]] \in Nat
    BY <2>1, <2>2 DEF StampsTyped
  <2>4. created[jobOrder[i]] <= stored[jobOrder[i]]
    BY <2>2 DEF StampInv, StampedFirst
  <2>5. i <= k
    BY <2>1
  <2>6. stored[jobOrder[i]] <= stored[jobOrder[k]]
    BY <2>5 DEF StampInv, StoredInOrder
  <2> QED BY <2>3, <2>4, <2>6
<1> QED BY <1>1, StampInvariant, PTL

-------------------------------------------------------------------------------
(* What a creation answers.  No two creations have the same stamp, so a    *)
(* stamp in the table tells which request the job stems from.              *)
Creating(h) == Active(h) /\ request[h].op = "create"

NoTrace(time) == \A id \in DOMAIN jobs : created[id] # time

Made(req) ==
    /\ req.job \in DOMAIN jobs
    /\ created[req.job] = req.at
    /\ jobs[req.job].Type = req.type
    /\ jobs[req.job].MaxRetries = req.limit

Truthful(h) ==
    Creating(h) => IF stage[h] = "idle" /\ reply[h].code = 201
                   THEN Made(request[h])
                   ELSE NoTrace(request[h].at)

CreateInv ==
    /\ \A g, h \in Handlers :
           Creating(g) /\ Creating(h) /\ request[g].at = request[h].at => g = h
    /\ \A h \in Handlers : Truthful(h)

(* A job keeps its stamp and what was asked for.                           *)
LEMMA AskedForKept ==
    ASSUME ApiTypeOK, [ApiNext]_apiVars, NEW id \in DOMAIN jobs
    PROVE  /\ id \in DOMAIN jobs'
           /\ created'[id] = created[id]
           /\ jobs'[id].Type = jobs[id].Type
           /\ jobs'[id].MaxRetries = jobs[id].MaxRetries
<1>a. StoreTypeOK /\ StampsTyped /\ jobs[id] \in Job
  BY TypeParts DEF StoreTypeOK
<1>1. id \in DOMAIN jobs' /\ Evolves(id)
  BY <1>a, CallsOfStore, JobStep
<1>2. /\ jobs'[id].Type = jobs[id].Type
      /\ jobs'[id].MaxRetries = jobs[id].MaxRetries
  <2>1. ASSUME NEW agent, jobs'[id] = Assigned(jobs[id], agent)
        PROVE  /\ jobs'[id].Type = jobs[id].Type
               /\ jobs'[id].MaxRetries = jobs[id].MaxRetries
    BY <1>a, <2>1 DEF Assigned, Job
  <2>2. ASSUME jobs'[id] = Requeued(jobs[id])
        PROVE  /\ jobs'[id].Type = jobs[id].Type
               /\ jobs'[id].MaxRetries = jobs[id].MaxRetries
    BY <1>a, <2>2 DEF Requeued, Job
  <2>3. ASSUME NEW status, jobs'[id] = Finished(jobs[id], status)
        PROVE  /\ jobs'[id].Type = jobs[id].Type
               /\ jobs'[id].MaxRetries = jobs[id].MaxRetries
    BY <1>a, <2>3 DEF Finished, Job
  <2> QED BY <1>1, <2>1, <2>2, <2>3 DEF Evolves
<1>3. created'[id] = created[id]
  <2>1. CASE \E h \in Handlers : InsertJob(h)
    BY <2>1, <1>a DEF InsertJob, CreateJob, Stamped, StampsTyped
  <2>2. CASE ~ \E h \in Handlers : InsertJob(h)
    BY <2>2, NoInsertion
  <2> QED BY <2>1, <2>2
<1> QED BY <1>1, <1>2, <1>3

(* A step that inserts no job leaves no trace of a creation.               *)
LEMMA TraceKept ==
    ASSUME ApiTypeOK, [ApiNext]_apiVars, ~ \E h \in Handlers : InsertJob(h)
    PROVE  \A time : NoTrace(time) => NoTrace(time)'
  BY NoInsertion DEF NoTrace

LEMMA MadeKept ==
    ASSUME ApiTypeOK, [ApiNext]_apiVars
    PROVE  \A req : Made(req) => Made(req)'
  BY AskedForKept DEF Made

(* A handler that does not move keeps its promise, when what was made and  *)
(* what left no trace stay so.                                             *)
LEMMA PromiseKept ==
    ASSUME NEW g \in Handlers, NEW req, req = request[g], Truthful(g),
           stage'[g] = stage[g], request'[g] = request[g], reply'[g] = reply[g],
           Made(req) => Made(req)',
           Creating(g) /\ NoTrace(req.at) => NoTrace(req.at)'
    PROVE  Truthful(g)'
<1>1. Creating(g)' <=> Creating(g)
  BY DEF Creating, Active
<1>2. SUFFICES ASSUME Creating(g)
               PROVE  IF stage'[g] = "idle" /\ reply'[g].code = 201
                      THEN Made(request[g])' ELSE NoTrace(request[g].at)'
  BY <1>1 DEF Truthful
<1>3. CASE stage[g] = "idle" /\ reply[g].code = 201
  <2>1. Made(req)
    BY <1>2, <1>3 DEF Truthful
  <2>2. /\ req.job \in DOMAIN jobs'
        /\ created'[req.job] = req.at
        /\ jobs'[req.job].Type = req.type
        /\ jobs'[req.job].MaxRetries = req.limit
    BY <2>1 DEF Made
  <2>3. Made(request[g])'
    BY <2>2 DEF Made
  <2> QED BY <1>3, <2>3
<1>4. CASE ~ (stage[g] = "idle" /\ reply[g].code = 201)
  <2>1. NoTrace(req.at)
    BY <1>2, <1>4 DEF Truthful
  <2>2. \A id \in DOMAIN jobs' : created'[id] # req.at
    BY <1>2, <2>1 DEF NoTrace
  <2>3. NoTrace(request[g].at)'
    BY <2>2 DEF NoTrace
  <2> QED BY <1>4, <2>3
<1> QED BY <1>3, <1>4

LEMMA CreateStep ==
    ASSUME ApiTypeOK, StampedFirst, CreateInv, [ApiNext]_apiVars
    PROVE  CreateInv'
<1>a. HandlersTyped /\ StampsTyped /\ StoreTypeOK /\ clock \in Nat
  BY TypeParts DEF StampsTyped
<1>b. \A g \in Handlers : Creating(g) => request[g].at \in Nat /\ request[g].at <= clock
  BY <1>a, RequestTypes DEF HandlersTyped, Creating, CreateRequest, StampedFirst
<1>c. ASSUME NEW g \in Handlers, ~ \E h \in Handlers : InsertJob(h),
             stage'[g] = stage[g], request'[g] = request[g], reply'[g] = reply[g]
      PROVE  (Creating(g)' <=> Creating(g)) /\ Truthful(g)'
  <2>1. Creating(g)' <=> Creating(g)
    BY <1>c DEF Creating, Active
  <2>2. PICK req : req = request[g] /\ req = request'[g]
    BY <1>c
  <2>3. /\ Made(req) => Made(req)'
        /\ NoTrace(req.at) => NoTrace(req.at)'
    BY <1>c, TraceKept, MadeKept
  <2> QED BY <1>c, <2>1, <2>2, <2>3, PromiseKept DEF CreateInv
<1>1. ASSUME NEW h \in Handlers, HandlerStep(h)
      PROVE  CreateInv'
  <2>a. \A g \in Handlers \ {h} : /\ stage'[g] = stage[g]
                                  /\ request'[g] = request[g]
                                  /\ reply'[g] = reply[g]
                                  /\ Creating(g)' <=> Creating(g)
    BY <1>1, <1>a, OthersStay DEF Creating, Active
  <2>b. ASSUME Creating(h)' => Creating(h) /\ request'[h] = request[h]
        PROVE  \A f, g \in Handlers :
                   Creating(f)' /\ Creating(g)' /\ request'[f].at = request'[g].at => f = g
    BY <2>a, <2>b DEF CreateInv
  <2>c. ASSUME ~ InsertJob(h)
        PROVE  \A g \in Handlers \ {h} : Truthful(g)'
    <3>1. ~ \E f \in Handlers : InsertJob(f)
      <4>1. ASSUME NEW f \in Handlers, InsertJob(f)
            PROVE  f = h
        <5>1. PICK code, job : Answer(f, code, job) /\ stage[f] = "begun"
          BY <4>1 DEF InsertJob, At
        <5>2. stage'[f] # stage[f]
          BY <5>1, <1>a, Moved
        <5> QED BY <5>2, <2>a
      <4> QED BY <4>1, <2>c
    <3> QED BY <3>1, <2>a, <1>c
  <2>1. ASSUME NEW id, NEW type, NEW limit, BeginCreate(h, id, type, limit)
        PROVE  CreateInv'
    <3>1. PICK time : time = clock + 1
      OBVIOUS
    <3>2. /\ request'[h] = [op |-> "create", job |-> id, type |-> type, limit |-> limit,
                            at |-> time]
          /\ stage'[h] = "begun"
          /\ UNCHANGED <<storeVars, created>>
      BY <2>1, <3>1, <1>a, Moved DEF BeginCreate
    <3>3. request'[h].at = time
      BY <3>2
    <3>4. \A g \in Handlers \ {h} : Creating(g)' => request'[g].at # request'[h].at
      BY <3>1, <3>3, <2>a, <1>a, <1>b
    <3>5. \A f, g \in Handlers :
              Creating(f)' /\ Creating(g)' /\ request'[f].at = request'[g].at => f = g
      BY <3>4, <2>a DEF CreateInv
    <3>6. NoTrace(time)'
      <4>1. \A x \in DOMAIN jobs : created[x] \in Nat /\ created[x] <= clock
        BY <1>a DEF StampedFirst, StampsTyped
      <4> QED BY <3>1, <3>2, <4>1, <1>a DEF NoTrace, storeVars
    <3>7. Truthful(h)'
      BY <3>2, <3>3, <3>6 DEF Truthful
    <3>8. ~ InsertJob(h)
      BY <2>1 DEF BeginCreate, Receive, InsertJob, At
    <3> QED BY <3>5, <3>7, <3>8, <2>c DEF CreateInv
  <2>2. CASE InsertJob(h)
    <3>1. /\ Creating(h) /\ stage[h] = "begun"
          /\ \E code, job : Answer(h, code, job)
      BY <2>2 DEF InsertJob, At, Creating, Active
    <3>2. PICK req : req = request[h]
      OBVIOUS
    <3>3. req = request'[h] /\ stage'[h] = "idle" /\ NoTrace(req.at)
      BY <3>1, <3>2, <1>a, Moved DEF CreateInv, Truthful
    <3>4. \A f, g \in Handlers :
              Creating(f)' /\ Creating(g)' /\ request'[f].at = request'[g].at => f = g
      BY <3>1, <3>2, <3>3, <2>b
    <3>5. CASE /\ CreateJob(req.job, req.type, req.limit)
               /\ created' = Stamped(created, req.job, req.at)
               /\ Answer(h, 201, Nothing)
      <4>1. /\ DOMAIN jobs' = DOMAIN jobs \cup {req.job}
            /\ jobs'[req.job] = NewJob(req.type, req.limit)
            /\ created'[req.job] = req.at
            /\ \A x \in DOMAIN jobs : created'[x] = created[x]
        BY <3>5, <1>a DEF CreateJob, Stamped, StampsTyped
      <4>2. Made(req)'
        BY <4>1 DEF Made, NewJob
      <4>3. reply'[h].code = 201
        <5>1. reply'[h] = [code |-> 201, job |-> Nothing]
          BY <3>5, <1>a, Moved
        <5> QED BY <5>1
      <4>4. Truthful(h)'
        BY <3>3, <4>2, <4>3 DEF Truthful
      <4>5. ASSUME NEW g \in Handlers \ {h}
            PROVE  Truthful(g)'
        <5>1. PICK r : r = request[g] /\ r = request'[g]
          BY <2>a
        <5>2. Made(r) => Made(r)'
          BY MadeKept
        <5>3. Creating(g) /\ NoTrace(r.at) => NoTrace(r.at)'
          <6>1. Creating(g) => r.at # req.at
            BY <3>1, <3>2, <5>1 DEF CreateInv
          <6> QED BY <4>1, <6>1 DEF NoTrace
        <5> QED BY <5>1, <5>2, <5>3, <2>a, PromiseKept DEF CreateInv
      <4> QED BY <3>4, <4>4, <4>5 DEF CreateInv
    <3>6. CASE /\ Answer(h, 500, Nothing)
               /\ UNCHANGED <<storeVars, created>>
      <4>1. \A time : NoTrace(time) => NoTrace(time)'
        BY <3>6 DEF NoTrace, storeVars
      <4>2. reply'[h].code = 500
        <5>1. reply'[h] = [code |-> 500, job |-> Nothing]
          BY <3>6, <1>a, Moved
        <5> QED BY <5>1
      <4>3. Truthful(h)'
        BY <3>3, <4>1, <4>2 DEF Truthful
      <4>4. ASSUME NEW g \in Handlers \ {h}
            PROVE  Truthful(g)'
        <5>1. PICK r : r = request[g] /\ r = request'[g]
          BY <2>a
        <5>2. Made(r) => Made(r)'
          BY MadeKept
        <5> QED BY <5>1, <5>2, <4>1, <2>a, PromiseKept DEF CreateInv
      <4> QED BY <3>4, <4>3, <4>4 DEF CreateInv
    <3> QED BY <2>2, <3>2, <3>5, <3>6 DEF InsertJob
  <2>3. ASSUME ~ Creating(h)', ~ InsertJob(h)
        PROVE  CreateInv'
    <3>1. Truthful(h)'
      BY <2>3 DEF Truthful
    <3> QED BY <2>3, <3>1, <2>b, <2>c DEF CreateInv
  <2>4. ASSUME NEW authorised, NEW proper, NEW l, TurnAway(h, authorised, proper, l)
        PROVE  CreateInv'
    <3>1. ~ Creating(h)'
      BY <2>4, <1>a, Moved DEF Creating
    <3>2. ~ InsertJob(h)
      BY <2>4 DEF TurnAway, Reject, InsertJob, At
    <3> QED BY <2>3, <3>1, <3>2
  <2>5. ASSUME \/ \E id : BeginCancel(h, id)
               \/ \E l, outcome : BeginResult(h, l, outcome)
        PROVE  CreateInv'
    <3>1. ~ Creating(h)'
      <4>1. CASE \E id : BeginCancel(h, id)
        <5>1. PICK id : Receive(h, [op |-> "cancel", job |-> id])
          BY <4>1 DEF BeginCancel
        <5>2. request'[h] = [op |-> "cancel", job |-> id]
          BY <5>1, <1>a, Moved
        <5> QED BY <5>2 DEF Creating
      <4>2. CASE \E l, outcome : BeginResult(h, l, outcome)
        <5>1. PICK l, outcome :
                  Receive(h, [op |-> "result", job |-> l.job, attempt |-> l.attempt,
                              outcome |-> outcome])
          BY <4>2 DEF BeginResult
        <5>2. request'[h] = [op |-> "result", job |-> l.job, attempt |-> l.attempt,
                             outcome |-> outcome]
          BY <5>1, <1>a, Moved
        <5> QED BY <5>2 DEF Creating
      <4> QED BY <2>5, <4>1, <4>2
    <3>2. ~ InsertJob(h)
      BY <2>5 DEF BeginCancel, BeginResult, Receive, InsertJob, At
    <3> QED BY <2>3, <3>1, <3>2
  <2>6. ASSUME \/ TryCancel(h) \/ ExplainRefusal(h)
               \/ LookUp(h) \/ Complete(h) \/ Refetch(h)
        PROVE  CreateInv'
    <3>1. request[h].op \in {"cancel", "result"}
      BY <2>6 DEF TryCancel, ExplainRefusal, LookUp, Complete, Refetch, At
    <3>2. request'[h] = request[h]
      BY <2>6 DEF TryCancel, ExplainRefusal, LookUp, Complete, Refetch, GoOn, Answer
    <3> QED BY <3>1, <3>2, <2>3 DEF Creating, InsertJob, At
  <2> QED BY <1>1, <2>1, <2>2, <2>4, <2>5, <2>6 DEF HandlerStep
<1>2. CASE ~ \E h \in Handlers : HandlerStep(h)
  <2>1. UNCHANGED handlerVars
    BY <1>2 DEF ApiNext, Register, NextJob, apiVars
  <2>2. ~ \E h \in Handlers : InsertJob(h)
    BY <1>2 DEF HandlerStep
  <2>3. \A g \in Handlers : (Creating(g)' <=> Creating(g)) /\ Truthful(g)'
    BY <2>1, <2>2, <1>c DEF handlerVars
  <2> QED BY <2>1, <2>3 DEF CreateInv, handlerVars
<1> QED BY <1>1, <1>2

(* A job that was answered for with 201 is in the table as asked for, and  *)
(* a request answered otherwise has left no job, however identifiers are   *)
(* drawn and handlers interleave.                                          *)
THEOREM CreateVerdictCorrect == ApiSpec => []CreateVerdict
<1>1. ApiInit => StampedFirst /\ CreateInv
  <2> SUFFICES ASSUME ApiInit
               PROVE  StampedFirst /\ CreateInv
    OBVIOUS
  <2>1. DOMAIN jobs = {} /\ \A h \in Handlers : ~ Active(h)
    BY DEF ApiInit, StoreInit, Active
  <2> QED BY <2>1 DEF StampedFirst, CreateInv, Creating, Truthful
<1>2. ApiTypeOK /\ StampedFirst /\ CreateInv /\ [ApiNext]_apiVars
          => StampedFirst' /\ CreateInv'
  BY StampedFirstStep, CreateStep
<1>3. CreateInv => CreateVerdict
  BY DEF CreateInv, Truthful, Creating, Active, Answered, Made, NoTrace, CreateVerdict
<1> QED BY <1>1, <1>2, <1>3, ApiTypeCorrect, PTL DEF ApiSpec

-------------------------------------------------------------------------------
(* What the reply to a result shows.  The server hands out a job to one    *)
(* agent at a time, so a second result cannot come between the completion  *)
(* of a job and the look at it.                                            *)

(* The job shows that the result was applied to it.                        *)
Applied(req, job) ==
    /\ job.AttemptCount >= req.attempt
    /\ req.outcome = "SUCCESS" => job.Status = "SUCCESS" /\ job.AttemptCount = req.attempt
    /\ job.Status = "RUNNING" => job.AttemptCount > req.attempt

Shows(h) ==
    /\ stage[h] = "completed" => Applied(request[h], jobs[request[h].job])
    /\ Answered(h, "result") /\ reply[h].code = 200 => Applied(request[h], reply[h].job)

ShowInv == OneReport /\ \A h \in Handlers : Shows(h)

Completes(h, id) ==
    Complete(h) /\ request[h].job = id /\ CompleteJob(id, request[h].outcome)

(* What a step of the handlers does to one job.                            *)
LEMMA JobChanges ==
    ASSUME ApiTypeOK, [ApiNext]_apiVars, NEW id \in DOMAIN jobs
    PROVE  \/ jobs'[id] = jobs[id]
           \/ jobs[id].Status \notin Terminal /\ jobs'[id] = Finished(jobs[id], "CANCELED")
           \/ /\ jobs[id].Status = "PENDING"
              /\ \E agent \in AgentIDs : jobs'[id] = Assigned(jobs[id], agent)
           \/ \E h \in Handlers : Completes(h, id)
<1>a. StoreTypeOK
  BY TypeParts
<1>1. ASSUME NEW h \in Handlers, HandlerStep(h)
      PROVE  \/ jobs'[id] = jobs[id]
             \/ jobs[id].Status \notin Terminal /\ jobs'[id] = Finished(jobs[id], "CANCELED")
             \/ Completes(h, id)
  <2>1. CASE InsertJob(h)
    BY <2>1, <1>a DEF InsertJob, CreateJob, storeVars
  <2>2. CASE TryCancel(h)
    BY <2>2, <1>a DEF TryCancel, CancelJob, Cancellable, storeVars, StoreTypeOK
  <2>3. CASE Complete(h)
    <3>1. CASE CompleteJob(request[h].job, request[h].outcome)
      BY <2>3, <3>1, <1>a DEF CompleteJob, Completes, StoreTypeOK
    <3>2. CASE UNCHANGED storeVars
      BY <3>2 DEF storeVars
    <3> QED BY <2>3, <3>1, <3>2 DEF Complete
  <2>4. ASSUME ~ InsertJob(h), ~ TryCancel(h), ~ Complete(h)
        PROVE  UNCHANGED storeVars
    BY <1>1, <2>4 DEF HandlerStep, TurnAway, BeginCreate, BeginCancel, ExplainRefusal,
                      BeginResult, LookUp, Refetch
  <2> QED BY <2>1, <2>2, <2>3, <2>4 DEF storeVars
<1>2. ASSUME NEW agent \in AgentIDs, Register(agent)
      PROVE  jobs'[id] = jobs[id]
  BY <1>2 DEF Register, RegisterAgent
<1>3. ASSUME NEW agent \in AgentIDs, NEW caps \in SUBSET JobTypes, NEW x \in JobIDs,
             NextJob(agent, caps, x)
      PROVE  \/ jobs'[id] = jobs[id]
             \/ jobs[id].Status = "PENDING" /\ jobs'[id] = Assigned(jobs[id], agent)
  BY <1>3, <1>a DEF NextJob, AssignNextJob, FirstEligible, Eligible, StoreTypeOK
<1>4. CASE UNCHANGED apiVars
  BY <1>4 DEF apiVars, storeVars
<1> QED BY <1>1, <1>2, <1>3, <1>4 DEF ApiNext

(* The handler that completes a job is the one that reports on it.         *)
LEMMA CompletesReports ==
    ASSUME ApiTypeOK, NEW h \in Handlers, NEW id, Completes(h, id)
    PROVE  Reporting(h) /\ request[h].job = id
<1>1. id \in JobIDs
  BY DEF Completes, CompleteJob, ApiTypeOK, StoreTypeOK
<1> QED BY <1>1 DEF Completes, Complete, At, Reporting

(* An attempt stays current unless its job is completed.                   *)
LEMMA CurrentKept ==
    ASSUME StoreTypeOK, NEW o, Current(o),
           \/ UNCHANGED storeVars
           \/ \E id, type, limit : CreateJob(id, type, limit)
           \/ \E id : CancelJob(id)
           \/ \E agent : RegisterAgent(agent)
           \/ \E agent, caps, id : AssignNextJob(agent, caps, id)
           \/ \E id, outcome : id # o.job /\ CompleteJob(id, outcome)
    PROVE  Current(o)'
<1>1. /\ o.job \in DOMAIN jobs
      /\ jobs[o.job] \in Job
      /\ jobs[o.job].AttemptCount = o.attempt
      /\ jobs[o.job].Status \in {"RUNNING", "CANCELED"}
  BY DEF Current, StoreTypeOK
<1>2. \/ jobs'[o.job] = jobs[o.job]
      \/ jobs'[o.job] = Finished(jobs[o.job], "CANCELED")
  BY <1>1 DEF storeVars, CreateJob, CancelJob, Cancellable, RegisterAgent, AssignNextJob,
              FirstEligible, Eligible, CompleteJob, StoreTypeOK
<1>3. o.job \in DOMAIN jobs'
  BY <1>1 DEF storeVars, CreateJob, CancelJob, RegisterAgent, AssignNextJob, CompleteJob,
              StoreTypeOK
<1>4. Finished(jobs[o.job], "CANCELED").Status = "CANCELED"
      /\ Finished(jobs[o.job], "CANCELED").AttemptCount = jobs[o.job].AttemptCount
  BY <1>1, FinishedRecord DEF Terminal
<1> QED BY <1>1, <1>2, <1>3, <1>4 DEF Current

(* A result that was applied stays applied: a SUCCESS has nobody left to   *)
(* report on it, and any other job is started once more before it runs.    *)
LEMMA AppliedKept ==
    ASSUME ApiTypeOK, OneReport, [ApiNext]_apiVars,
           NEW id \in DOMAIN jobs, NEW req \in ResultRequest, Applied(req, jobs[id])
    PROVE  Applied(req, jobs'[id])
<1>1. jobs[id] \in Job /\ jobs[id].AttemptCount \in Nat /\ req.attempt \in Nat
  BY DEF ApiTypeOK, StoreTypeOK, ResultRequest, Job
<1>2. CASE jobs'[id] = jobs[id]
  BY <1>2
<1>3. CASE jobs[id].Status \notin Terminal /\ jobs'[id] = Finished(jobs[id], "CANCELED")
  BY <1>1, <1>3, FinishedRecord DEF Applied, Terminal
<1>4. ASSUME NEW agent \in AgentIDs, jobs[id].Status = "PENDING",
             jobs'[id] = Assigned(jobs[id], agent)
      PROVE  Applied(req, jobs'[id])
  BY <1>1, <1>4, AssignedRecord DEF Applied
<1>5. ASSUME NEW h \in Handlers, Completes(h, id)
      PROVE  Applied(req, jobs'[id])
  <2>1. jobs[id].Status \in {"RUNNING", "CANCELED"}
    BY <1>5, CompletesReports DEF OneReport, Current
  <2>2. request[h] \in ResultRequest
    BY <1>5, RequestTypes DEF Completes, Complete, At, ApiTypeOK, Active
  <2>3. request[h].outcome \in Terminal
    BY <2>2 DEF ResultRequest, Outcomes, Terminal
  <2>4. jobs'[id] \in {Requeued(jobs[id]), Finished(jobs[id], request[h].outcome)}
    BY <1>5 DEF Completes, CompleteJob, ApiTypeOK, StoreTypeOK
  <2> QED BY <1>1, <2>1, <2>3, <2>4, RequeuedRecord, FinishedRecord DEF Applied, Terminal
<1> QED BY <1>2, <1>3, <1>4, <1>5, JobChanges

(* A step after which nobody holds more leases or reports on more jobs.    *)
LEMMA NothingNew ==
    ASSUME OneReport,
           leases' \subseteq leases,
           \A g \in Handlers : Reporting(g)' => Reporting(g) /\ request'[g] = request[g],
           \A l \in leases : Current(l)',
           \A g \in Handlers : Reporting(g)' => Current(request[g])'
    PROVE  OneReport'
<1>1. \A l, k \in leases' : l.job = k.job => l = k
  BY DEF OneReport
<1>2. \A l \in leases', h \in Handlers : Reporting(h)' => l.job # request'[h].job
  BY DEF OneReport
<1>3. \A g, h \in Handlers :
          Reporting(g)' /\ Reporting(h)' /\ request'[g].job = request'[h].job => g = h
  BY DEF OneReport
<1> QED BY <1>1, <1>2, <1>3 DEF OneReport

LEMMA OneReportStep ==
    ASSUME ApiTypeOK, JobsKnown, OneReport, [ApiNext]_apiVars
    PROVE  OneReport'
<1>a. HandlersTyped /\ StoreTypeOK /\ leases \subseteq Attempt
  BY TypeParts DEF ApiTypeOK
<1>b. ASSUME leases' \subseteq leases,
             \A g \in Handlers : Reporting(g)' => Reporting(g) /\ request'[g] = request[g],
             \A o : Current(o) => Current(o)'
      PROVE  OneReport'
  <2>1. \A g \in Handlers : Reporting(g)' => Current(request[g])'
    <3> SUFFICES ASSUME NEW g \in Handlers, Reporting(g)'
                 PROVE  Current(request[g])'
      OBVIOUS
    <3>1. PICK o : o = request[g]
      OBVIOUS
    <3>2. o = request'[g] /\ Current(o)
      BY <1>b, <3>1 DEF OneReport
    <3> QED BY <3>2, <1>b
  <2>2. \A l \in leases : Current(l)'
    BY <1>b DEF OneReport
  <2> QED BY <1>b, <2>1, <2>2, NothingNew
<1>1. ASSUME NEW h \in Handlers, HandlerStep(h)
      PROVE  OneReport'
  <2>a. \A g \in Handlers \ {h} : /\ Reporting(g)' <=> Reporting(g)
                                  /\ request'[g] = request[g]
    BY <1>1, <1>a, OthersStay DEF Reporting
  <2>b. ASSUME leases' = leases, \A o : Current(o) => Current(o)',
               Reporting(h)' => Reporting(h) /\ request'[h] = request[h]
        PROVE  OneReport'
    BY <2>a, <2>b, <1>b
  <2>c. ASSUME NEW authorised, NEW proper, NEW l, TurnAway(h, authorised, proper, l)
        PROVE  OneReport'
    <3>1. ~ Reporting(h)'
      BY <2>c, <1>a, Moved DEF Reporting
    <3>2. leases' \subseteq leases /\ UNCHANGED storeVars
      BY <2>c DEF TurnAway
    <3> QED BY <3>1, <3>2, <2>a, <1>a, <1>b, CurrentKept
  <2>1. ASSUME NEW id, NEW type, NEW limit, BeginCreate(h, id, type, limit)
        PROVE  OneReport'
    <3>1. request'[h].op # "result"
      BY <2>1, <1>a, Moved DEF BeginCreate
    <3> QED BY <2>1, <3>1, <2>b, <1>a, CurrentKept DEF BeginCreate, Reporting
  <2>2. CASE InsertJob(h)
    <3>1. \E code, job : Answer(h, code, job)
      BY <2>2 DEF InsertJob
    <3>2. stage'[h] = "idle"
      BY <3>1, <1>a, Moved
    <3>3. \A o : Current(o) => Current(o)'
      BY <2>2, <1>a, CurrentKept DEF InsertJob
    <3> QED BY <2>2, <3>2, <3>3, <2>b DEF InsertJob, Reporting
  <2>3. ASSUME NEW id, BeginCancel(h, id)
        PROVE  OneReport'
    <3>1. request'[h].op # "result"
      BY <2>3, <1>a, Moved DEF BeginCancel
    <3> QED BY <2>3, <3>1, <2>b, <1>a, CurrentKept DEF BeginCancel, Reporting
  <2>4. CASE TryCancel(h)
    <3>1. GoOn(h, "refused") \/ \E code, job : Answer(h, code, job)
      BY <2>4 DEF TryCancel
    <3>2. stage'[h] \in {"idle", "refused"}
      BY <3>1, <1>a, Moved
    <3>3. \A o : Current(o) => Current(o)'
      BY <2>4, <1>a, CurrentKept DEF TryCancel
    <3> QED BY <2>4, <3>2, <3>3, <2>b DEF TryCancel, Reporting
  <2>5. CASE ExplainRefusal(h) \/ Refetch(h)
    <3>1. \E code, job : Answer(h, code, job)
      BY <2>5 DEF ExplainRefusal, Refetch
    <3>2. stage'[h] = "idle"
      BY <3>1, <1>a, Moved
    <3> QED BY <2>5, <3>2, <2>b, <1>a, CurrentKept DEF ExplainRefusal, Refetch, Reporting
  <2>6. ASSUME NEW l \in leases \cup {Bogus}, NEW outcome, BeginResult(h, l, outcome)
        PROVE  OneReport'
    <3>0. request'[h] = [op |-> "result", job |-> l.job, attempt |-> l.attempt,
                         outcome |-> outcome]
      BY <2>6, <1>a, Moved DEF BeginResult
    <3>1. /\ request'[h].job = l.job /\ request'[h].attempt = l.attempt
          /\ leases' = leases \ {l} /\ UNCHANGED storeVars
          /\ ~ Reporting(h)
      BY <2>6, <3>0 DEF BeginResult, Receive, Reporting
    <3>2. \A o : Current(o) => Current(o)'
      BY <3>1, <1>a, CurrentKept
    <3>3. CASE l \notin leases
      <4>1. ~ Reporting(h)'
        BY <3>1, <3>3 DEF Bogus, Reporting
      <4> QED BY <3>1, <3>2, <4>1, <2>a, <1>b
    <3>4. CASE l \in leases
      <4>1. Current(l)'
        BY <3>2, <3>4 DEF OneReport
      <4>2. Current(request[h])'
        BY <3>1, <4>1 DEF Current
      <4>3. \A g \in Handlers : Reporting(g)' => Current(request[g])'
        <5> SUFFICES ASSUME NEW g \in Handlers, Reporting(g)', g # h
                     PROVE  Current(request[g])'
          BY <4>2
        <5>1. PICK o : o = request[g]
          OBVIOUS
        <5>2. o = request'[g] /\ Current(o)
          BY <5>1, <2>a DEF OneReport
        <5> QED BY <5>2, <3>2
      <4>4. \A k \in leases' : Current(k)' /\ k.job # request'[h].job
        BY <3>1, <3>2, <3>4 DEF OneReport
      <4>5. \A g \in Handlers \ {h} : Reporting(g)' => request'[g].job # request'[h].job
        BY <3>1, <3>4, <2>a DEF OneReport
      <4>6. \A k \in leases', g \in Handlers : Reporting(g)' => k.job # request'[g].job
        BY <3>1, <4>4, <2>a DEF OneReport
      <4>7. \A k, m \in leases' : k.job = m.job => k = m
        BY <3>1 DEF OneReport
      <4>8. \A f, g \in Handlers :
                Reporting(f)' /\ Reporting(g)' /\ request'[f].job = request'[g].job => f = g
        BY <4>5, <2>a DEF OneReport
      <4> QED BY <4>3, <4>4, <4>6, <4>7, <4>8 DEF OneReport
    <3> QED BY <3>3, <3>4
  <2>7. CASE LookUp(h)
    <3>1. Reporting(h)' => Reporting(h) /\ request'[h] = request[h]
      <4>1. GoOn(h, "found") \/ \E code, job : Answer(h, code, job)
        BY <2>7 DEF LookUp
      <4>2. request'[h] = request[h]
        BY <4>1, <1>a, Moved
      <4> QED BY <2>7, <4>2 DEF LookUp, At, Reporting
    <3> QED BY <2>7, <3>1, <2>b, <1>a, CurrentKept DEF LookUp
  <2>8. CASE Complete(h)
    <3>1. /\ request[h].job \in DOMAIN jobs
          /\ CompleteJob(request[h].job, request[h].outcome)
          /\ GoOn(h, "completed") /\ leases' = leases
      BY <2>8 DEF Complete, At, JobsKnown
    <3>2. Reporting(h) /\ ~ Reporting(h)'
      <4>1. request[h].job # Unknown
        BY <3>1, <1>a DEF StoreTypeOK
      <4>2. stage'[h] = "completed"
        BY <3>1, <1>a, Moved
      <4> QED BY <2>8, <4>1, <4>2 DEF Complete, At, Reporting
    <3>3. \A o : Current(o) /\ o.job # request[h].job => Current(o)'
      BY <3>1, <1>a, CurrentKept
    <3>4. \A l \in leases : Current(l)'
      BY <3>2, <3>3 DEF OneReport
    <3>5. \A g \in Handlers : Reporting(g)' => Current(request[g])'
      <4> SUFFICES ASSUME NEW g \in Handlers, Reporting(g)'
                   PROVE  Current(request[g])'
        OBVIOUS
      <4>1. PICK o : o = request[g]
        OBVIOUS
      <4>2. o = request'[g] /\ Current(o) /\ o.job # request[h].job
        BY <4>1, <3>2, <2>a DEF OneReport
      <4> QED BY <4>2, <3>3
    <3> QED BY <3>1, <3>2, <3>4, <3>5, <2>a, NothingNew
  <2> QED BY <1>1, <2>c, <2>1, <2>2, <2>3, <2>4, <2>5, <2>6, <2>7, <2>8 DEF HandlerStep
<1>2. ASSUME NEW agent \in AgentIDs, Register(agent)
      PROVE  OneReport'
  BY <1>2, <1>a, <1>b, CurrentKept DEF Register, handlerVars, Reporting
<1>3. ASSUME NEW agent \in AgentIDs, NEW caps \in SUBSET JobTypes, NEW id \in JobIDs,
             NextJob(agent, caps, id)
      PROVE  OneReport'
  <2>0. PICK new : new = [job |-> id, attempt |-> jobs'[id].AttemptCount]
    OBVIOUS
  <2>1. /\ id \in DOMAIN jobs /\ jobs[id].Status = "PENDING"
        /\ jobs' = [jobs EXCEPT ![id] = Assigned(jobs[id], agent)]
        /\ leases' = leases \cup {new}
        /\ UNCHANGED handlerVars
    BY <1>3, <2>0 DEF NextJob, AssignNextJob, FirstEligible, Eligible
  <2>2. Current(new)'
    <3>1. jobs[id] \in Job
      BY <2>1, <1>a DEF StoreTypeOK
    <3>2. id \in DOMAIN jobs' /\ jobs'[id].Status = "RUNNING"
      BY <2>1, <3>1, <1>a, AssignedRecord DEF StoreTypeOK
    <3> QED BY <3>2, <2>0 DEF Current
  <2>3. \A o : Current(o) => o.job # id /\ Current(o)'
    BY <1>3, <2>1, <1>a, CurrentKept DEF Current, NextJob
  <2>4. new.job = id
    BY <2>0
  <2>5. \A l \in leases' : Current(l)'
    BY <2>1, <2>2, <2>3 DEF OneReport
  <2>6. \A g \in Handlers : Reporting(g)' => Current(request[g])'
    <3> SUFFICES ASSUME NEW g \in Handlers, Reporting(g)'
                 PROVE  Current(request[g])'
      OBVIOUS
    <3>1. PICK o : o = request[g]
      OBVIOUS
    <3>2. o = request'[g] /\ Current(o)
      BY <3>1, <2>1 DEF handlerVars, Reporting, OneReport
    <3> QED BY <3>2, <2>3
  <2>7. \A l, k \in leases' : l.job = k.job => l = k
    BY <2>1, <2>3, <2>4 DEF OneReport
  <2>8. \A l \in leases', g \in Handlers : Reporting(g)' => l.job # request'[g].job
    BY <2>1, <2>3, <2>4 DEF OneReport, handlerVars, Reporting
  <2>9. \A f, g \in Handlers :
            Reporting(f)' /\ Reporting(g)' /\ request'[f].job = request'[g].job => f = g
    BY <2>1 DEF OneReport, handlerVars, Reporting
  <2> QED BY <2>5, <2>6, <2>7, <2>8, <2>9 DEF OneReport
<1>4. CASE UNCHANGED apiVars
  BY <1>4, <1>a, <1>b, CurrentKept DEF apiVars, handlerVars, Reporting
<1> QED BY <1>1, <1>2, <1>3, <1>4 DEF ApiNext

(* What agents and handlers have to report never meets on one job and is   *)
(* never out of date.                                                      *)
THEOREM OneReportCorrect == ApiSpec => []OneReport
<1>1. ApiInit => OneReport
  BY DEF ApiInit, OneReport, Reporting
<1>2. ApiTypeOK /\ JobsKnown /\ OneReport /\ [ApiNext]_apiVars => OneReport'
  BY OneReportStep
<1> QED BY <1>1, <1>2, TypesAndJobs, PTL DEF ApiSpec

LEMMA ShowsStep ==
    ASSUME ApiTypeOK, JobsKnown, ShowInv, [ApiNext]_apiVars
    PROVE  \A g \in Handlers : Shows(g)'
<1>a. HandlersTyped /\ StoreTypeOK /\ OneReport
  BY TypeParts DEF ShowInv
<1>b. ASSUME NEW g \in Handlers,
             stage'[g] = stage[g], request'[g] = request[g], reply'[g] = reply[g]
      PROVE  Shows(g)'
  <2>1. CASE stage[g] = "completed"
    <3>1. PICK id \in DOMAIN jobs, req \in ResultRequest :
              id = request[g].job /\ req = request[g]
      BY <2>1, <1>a, RequestTypes DEF JobsKnown, HandlersTyped, Active
    <3>2. Applied(req, jobs'[id])
      BY <2>1, <3>1, <1>a, AppliedKept DEF ShowInv, Shows
    <3>3. Applied(request'[g], jobs'[request'[g].job])
      BY <1>b, <3>1, <3>2
    <3> QED BY <1>b, <2>1, <3>3 DEF Shows, Answered
  <2>2. CASE stage[g] # "completed"
    <3>1. Answered(g, "result")' <=> Answered(g, "result")
      BY <1>b DEF Answered
    <3>2. Answered(g, "result") /\ reply[g].code = 200 => Applied(request[g], reply[g].job)
      BY DEF ShowInv, Shows
    <3> QED BY <1>b, <2>2, <3>1, <3>2 DEF Shows
  <2> QED BY <2>1, <2>2
<1>1. ASSUME NEW h \in Handlers, HandlerStep(h)
      PROVE  Shows(h)'
  <2>1. ASSUME \/ \E req : Receive(h, req)
               \/ \E s \in {"refused", "found"} : GoOn(h, s)
        PROVE  Shows(h)'
    BY <2>1, <1>a, Moved DEF Shows, Answered
  <2>2. ASSUME NEW code, NEW job, Answer(h, code, job),
               request[h].op = "result" /\ code = 200 => Applied(request[h], job)
        PROVE  Shows(h)'
    <3>1. /\ stage'[h] = "idle" /\ request'[h] = request[h]
          /\ reply'[h] = [code |-> code, job |-> job]
      BY <2>2, <1>a, Moved
    <3>2. /\ Answered(h, "result")' => request[h].op = "result"
          /\ reply'[h].code = code /\ reply'[h].job = job
      BY <3>1 DEF Answered
    <3> QED BY <2>2, <3>1, <3>2 DEF Shows
  <2>a. ASSUME NEW authorised, NEW proper, NEW l, TurnAway(h, authorised, proper, l)
        PROVE  Shows(h)'
    BY <2>a, <1>a, Moved DEF Shows, Answered
  <2>3. ASSUME NEW id, NEW type, NEW limit, BeginCreate(h, id, type, limit)
        PROVE  Shows(h)'
    BY <2>1, <2>3 DEF BeginCreate
  <2>4. CASE InsertJob(h) \/ ExplainRefusal(h)
    BY <2>2, <2>4 DEF InsertJob, ExplainRefusal, At
  <2>5. ASSUME NEW id, BeginCancel(h, id)
        PROVE  Shows(h)'
    BY <2>1, <2>5 DEF BeginCancel
  <2>6. CASE TryCancel(h)
    BY <2>1, <2>2, <2>6 DEF TryCancel, At
  <2>7. ASSUME NEW l, NEW outcome, BeginResult(h, l, outcome)
        PROVE  Shows(h)'
    BY <2>1, <2>7 DEF BeginResult
  <2>8. CASE LookUp(h)
    BY <2>1, <2>2, <2>8 DEF LookUp
  <2>9. CASE Complete(h)
    <3>1. /\ CompleteJob(request[h].job, request[h].outcome)
          /\ GoOn(h, "completed")
          /\ request[h].job \in DOMAIN jobs
      BY <2>9 DEF Complete, At, JobsKnown
    <3>2. PICK id \in DOMAIN jobs, req \in ResultRequest :
              id = request[h].job /\ req = request[h]
      BY <2>9, <3>1, <1>a, RequestTypes DEF Complete, At, HandlersTyped, Active
    <3>3. Completes(h, id)
      BY <2>9, <3>1, <3>2 DEF Completes
    <3>4. /\ jobs[id] \in Job
          /\ jobs[id].AttemptCount \in Nat
          /\ jobs[id].AttemptCount = req.attempt
          /\ req.outcome \in Outcomes
      BY <3>2, <3>3, <1>a, CompletesReports
         DEF OneReport, Current, StoreTypeOK, Job, ResultRequest
    <3>5. \/ req.outcome = "FAILED" /\ jobs'[id] = Requeued(jobs[id])
          \/ jobs'[id] = Finished(jobs[id], req.outcome)
      BY <3>1, <3>2, <1>a DEF CompleteJob, StoreTypeOK
    <3>6. Applied(req, jobs'[id])
      <4>1. CASE req.outcome = "FAILED" /\ jobs'[id] = Requeued(jobs[id])
        BY <4>1, <3>4, RequeuedRecord DEF Applied
      <4>2. CASE jobs'[id] = Finished(jobs[id], req.outcome)
        BY <4>2, <3>4, FinishedRecord DEF Applied, Outcomes, Terminal
      <4> QED BY <4>1, <4>2, <3>5
    <3>7. stage'[h] = "completed" /\ request'[h] = request[h]
      BY <3>1, <1>a, Moved
    <3>8. Applied(request'[h], jobs'[request'[h].job])
      BY <3>2, <3>6, <3>7
    <3> QED BY <3>7, <3>8 DEF Shows, Answered
  <2>10. CASE Refetch(h)
    <3>1. Applied(request[h], jobs[request[h].job])
      BY <2>10 DEF Refetch, At, ShowInv, Shows
    <3> QED BY <2>2, <2>10, <3>1 DEF Refetch
  <2> QED BY <1>1, <2>a, <2>3, <2>4, <2>5, <2>6, <2>7, <2>8, <2>9, <2>10 DEF HandlerStep
<1>2. CASE \E h \in Handlers : HandlerStep(h)
  BY <1>1, <1>2, <1>a, <1>b, OthersStay
<1>3. CASE ~ \E h \in Handlers : HandlerStep(h)
  <2>1. UNCHANGED handlerVars
    BY <1>3 DEF ApiNext, Register, NextJob, apiVars
  <2> QED BY <2>1, <1>b DEF handlerVars
<1> QED BY <1>2, <1>3

(* Another look at the job after the lock was released shows the result.   *)
THEOREM ShowsResultCorrect == ApiSpec => []ShowsResult
<1>1. ApiInit => ShowInv
  BY DEF ApiInit, ShowInv, OneReport, Shows, Reporting, Answered
<1>2. ApiTypeOK /\ JobsKnown /\ ShowInv /\ [ApiNext]_apiVars => ShowInv'
  BY OneReportStep, ShowsStep DEF ShowInv
<1>3. ShowInv => ShowsResult
  BY DEF ShowInv, Shows, Applied, ShowsResult
<1> QED BY <1>1, <1>2, <1>3, TypesAndJobs, PTL DEF ApiSpec

===============================================================================
