----------------------------- MODULE ApiLeaseProofs -----------------------------
(***************************************************************************)
(* The handlers implement JobLease, for any number of handlers, jobs and   *)
(* stamps.  Every step of theirs is of one of seven kinds (StepKind), as   *)
(* far as leases are concerned, and each kind is a step of JobLease or     *)
(* none.  That no lease has two holders is OneReport, that a queued job    *)
(* may be tried again is AttemptsBounded of the store.                     *)
(***************************************************************************)
EXTENDS ApiHandlersProofs

USE ApiAssumption DEF ApiAssumption

-------------------------------------------------------------------------------
(* The handlers implement JobLease, store call by store call: a lease is   *)
(* the agent's until its result is received, then the handler's until the  *)
(* job is completed.                                                       *)

ReportsOn(h, id) == Reporting(h) /\ request[h].job = id

Leased(id) == \E l \in leases : l.job = id

Held(id) == Leased(id) \/ \E h \in Handlers : ReportsOn(h, id)

HoldersOf(id) ==
    (IF Leased(id) THEN {"agent"} ELSE {}) \cup {h \in Handlers : ReportsOn(h, id)}

PhaseOf(id) ==
    IF id \notin DOMAIN jobs THEN "absent"
    ELSE IF Held(id) THEN "leased"
    ELSE IF jobs[id].Status = "PENDING" THEN "queued"
    ELSE IF jobs[id].Status = "RUNNING" THEN "lost"
    ELSE "settled"

TriesOf(id) == IF id \in DOMAIN jobs THEN jobs[id].AttemptCount ELSE 0

LimitOf(id) == IF id \in DOMAIN jobs THEN jobs[id].MaxRetries ELSE 0

Lease == INSTANCE JobLease WITH
    Jobs    <- JobIDs,
    Holders <- Handlers \cup {"agent"},
    Limits  <- RetryLimits,
    phase   <- [id \in JobIDs |-> PhaseOf(id)],
    holders <- [id \in JobIDs |-> HoldersOf(id)],
    tries   <- [id \in JobIDs |-> TriesOf(id)],
    limit   <- [id \in JobIDs |-> LimitOf(id)]

(* However the store calls of handlers interleave, every job follows the   *)
(* life JobLease describes: no second report while one is being applied,   *)
(* no attempt beyond the limit, no way back from where it has settled.     *)
ImplementsLease == Lease!LeaseSpec

-------------------------------------------------------------------------------
(* Steps, as far as leases are concerned.                                  *)

SameReport(g) ==
    /\ Reporting(g)' <=> Reporting(g)
    /\ Reporting(g) => request'[g] = request[g]

SameReports == \A g \in Handlers : SameReport(g)

OthersReport(h) == \A g \in Handlers \ {h} : SameReport(g)

Silent == UNCHANGED <<jobs, leases>> /\ SameReports

Submits(id, type, limit) ==
    CreateJob(id, type, limit) /\ UNCHANGED leases /\ SameReports

Cancels(id) == CancelJob(id) /\ UNCHANGED leases /\ SameReports

HandsOut(agent, caps, id) ==
    /\ AssignNextJob(agent, caps, id)
    /\ leases' = leases \cup {[job |-> id, attempt |-> jobs'[id].AttemptCount]}
    /\ SameReports

Takes(h, l) ==
    /\ l \in leases /\ leases' = leases \ {l}
    /\ UNCHANGED jobs
    /\ OthersReport(h)
    /\ ~ Reporting(h) /\ ReportsOn(h, l.job)'

Drops(l) ==
    /\ l \in leases /\ leases' = leases \ {l}
    /\ UNCHANGED jobs /\ SameReports

Applies(h) ==
    /\ Reporting(h) /\ ~ Reporting(h)'
    /\ CompleteJob(request[h].job, request[h].outcome)
    /\ UNCHANGED leases /\ OthersReport(h)

(* Steps of a handler that has nothing to apply, before and after.         *)
LEMMA NothingToApply ==
    ASSUME HandlersTyped, NEW h \in Handlers, HandlerStep(h),
           ~ Reporting(h), ~ Reporting(h)'
    PROVE  SameReports
  BY OthersStay DEF SameReports, SameReport, Reporting

LEMMA StepKind ==
    ASSUME ApiTypeOK, JobsKnown, [ApiNext]_apiVars
    PROVE  \/ Silent
           \/ \E id \in JobIDs, type \in JobTypes, limit \in RetryLimits :
                  Submits(id, type, limit)
           \/ \E id \in JobIDs : Cancels(id)
           \/ \E agent \in AgentIDs, caps \in SUBSET JobTypes, id \in JobIDs :
                  HandsOut(agent, caps, id)
           \/ \E h \in Handlers, l \in leases : Takes(h, l)
           \/ \E l \in leases : Drops(l)
           \/ \E h \in Handlers : Applies(h)
<1> DEFINE Kind ==
           \/ Silent
           \/ \E id \in JobIDs, type \in JobTypes, limit \in RetryLimits :
                  Submits(id, type, limit)
           \/ \E id \in JobIDs : Cancels(id)
           \/ \E agent \in AgentIDs, caps \in SUBSET JobTypes, id \in JobIDs :
                  HandsOut(agent, caps, id)
           \/ \E h \in Handlers, l \in leases : Takes(h, l)
           \/ \E l \in leases : Drops(l)
           \/ \E h \in Handlers : Applies(h)
<1>a. HandlersTyped /\ StoreTypeOK /\ leases \subseteq Attempt
  BY TypeParts DEF ApiTypeOK
<1>b. ASSUME UNCHANGED handlerVars
      PROVE  SameReports
  BY <1>b DEF handlerVars, SameReports, SameReport, Reporting
<1>1. ASSUME NEW h \in Handlers, HandlerStep(h)
      PROVE  Kind
  <2>a. OthersReport(h)
    BY <1>1, <1>a, OthersStay DEF OthersReport, SameReport, Reporting
  <2>b. ~ Reporting(h) /\ ~ Reporting(h)' => SameReports
    BY <1>1, <1>a, NothingToApply
  <2>1. ASSUME NEW authorised, NEW proper, NEW l \in leases \cup {Bogus},
               TurnAway(h, authorised, proper, l)
        PROVE  Kind
    <3>1. ~ Reporting(h) /\ ~ Reporting(h)'
      BY <2>1, <1>a, Moved DEF Reporting, TurnAway, Reject
    <3>2. leases' = leases \ {l} /\ UNCHANGED jobs
      BY <2>1 DEF TurnAway, storeVars
    <3>3. CASE l \in leases
      BY <3>1, <3>2, <3>3, <2>b DEF Drops
    <3>4. CASE l \notin leases
      BY <3>1, <3>2, <3>4, <2>b DEF Silent
    <3> QED BY <3>3, <3>4
  <2>2. ASSUME \/ \E id, type, limit : BeginCreate(h, id, type, limit)
               \/ \E id : BeginCancel(h, id)
        PROVE  Kind
    <3>1. \E req : Receive(h, req) /\ req.op # "result"
      <4>1. CASE \E id, type, limit : BeginCreate(h, id, type, limit)
        BY <4>1 DEF BeginCreate
      <4>2. CASE \E id : BeginCancel(h, id)
        BY <4>2 DEF BeginCancel
      <4> QED BY <2>2, <4>1, <4>2
    <3>2. request'[h].op # "result" /\ stage[h] = "idle"
      <4>1. PICK req : Receive(h, req) /\ req.op # "result"
        BY <3>1
      <4>2. request'[h] = req
        BY <4>1, <1>a, Moved
      <4> QED BY <4>1, <4>2 DEF Receive
    <3>3. ~ Reporting(h) /\ ~ Reporting(h)'
      BY <3>2 DEF Reporting
    <3>4. UNCHANGED <<jobs, leases>>
      BY <2>2 DEF BeginCreate, BeginCancel, storeVars
    <3> QED BY <3>3, <3>4, <2>b DEF Silent
  <2>3. CASE InsertJob(h)
    <3>1. request[h] \in CreateRequest
      BY <2>3, <1>a, RequestTypes DEF InsertJob, At, HandlersTyped, Active
    <3>2. /\ request[h].job \in JobIDs /\ request[h].type \in JobTypes
          /\ request[h].limit \in RetryLimits
      BY <3>1 DEF CreateRequest
    <3>3. SameReports
      BY <2>3, <2>b, <1>a, Moved DEF InsertJob, At, Reporting
    <3>4. CASE CreateJob(request[h].job, request[h].type, request[h].limit)
      BY <2>3, <3>2, <3>3, <3>4 DEF InsertJob, Submits
    <3>5. CASE UNCHANGED storeVars
      BY <2>3, <3>3, <3>5 DEF InsertJob, Silent, storeVars
    <3> QED BY <2>3, <3>4, <3>5 DEF InsertJob
  <2>4. CASE TryCancel(h)
    <3>1. SameReports
      BY <2>4, <2>b, <1>a, Moved DEF TryCancel, At, Reporting
    <3>2. CASE CancelJob(request[h].job)
      <4>1. request[h].job \in JobIDs
        BY <3>2, <1>a DEF CancelJob, Cancellable, StoreTypeOK
      <4> QED BY <2>4, <3>1, <3>2, <4>1 DEF TryCancel, Cancels
    <3>3. CASE UNCHANGED storeVars
      BY <2>4, <3>1, <3>3 DEF TryCancel, Silent, storeVars
    <3> QED BY <2>4, <3>2, <3>3 DEF TryCancel
  <2>5. CASE ExplainRefusal(h) \/ Refetch(h)
    <3>1. ~ Reporting(h) /\ ~ Reporting(h)'
      BY <2>5, <1>a, Moved DEF ExplainRefusal, Refetch, At, Reporting
    <3> QED BY <2>5, <3>1, <2>b DEF Silent, ExplainRefusal, Refetch, storeVars
  <2>6. ASSUME NEW l \in leases \cup {Bogus}, NEW outcome, BeginResult(h, l, outcome)
        PROVE  Kind
    <3>1. /\ request'[h] = [op |-> "result", job |-> l.job, attempt |-> l.attempt,
                            outcome |-> outcome]
          /\ stage'[h] = "begun"
      BY <2>6, <1>a, Moved DEF BeginResult
    <3>2. leases' = leases \ {l} /\ UNCHANGED jobs /\ ~ Reporting(h)
      BY <2>6 DEF BeginResult, Receive, Reporting, storeVars
    <3>3. request'[h].op = "result" /\ request'[h].job = l.job
      BY <3>1
    <3>4. CASE l \in leases
      <4>1. l.job # Unknown
        BY <3>4, <1>a DEF Attempt
      <4>2. ReportsOn(h, l.job)'
        BY <3>1, <3>3, <4>1 DEF ReportsOn, Reporting
      <4>3. Takes(h, l)
        BY <3>2, <3>4, <4>2, <2>a DEF Takes
      <4> QED BY <3>4, <4>3
    <3>5. CASE l \notin leases
      <4>1. ~ Reporting(h)'
        BY <3>3, <3>5 DEF Bogus, Reporting
      <4> QED BY <3>2, <3>5, <4>1, <2>b DEF Silent
    <3> QED BY <3>4, <3>5
  <2>7. CASE LookUp(h)
    <3>1. CASE GoOn(h, "found")
      <4>1. SameReport(h)
        BY <2>7, <3>1, <1>a, Moved DEF LookUp, At, SameReport, Reporting
      <4> QED BY <2>7, <4>1, <2>a DEF LookUp, Silent, SameReports, OthersReport, storeVars
    <3>2. CASE request[h].job \notin DOMAIN jobs /\ Answer(h, 404, Nothing)
      <4>1. request[h].job = Unknown
        BY <2>7, <3>2 DEF LookUp, At, JobsKnown, Asks, Active
      <4>2. ~ Reporting(h) /\ ~ Reporting(h)'
        BY <3>2, <4>1, <1>a, Moved DEF Reporting
      <4> QED BY <2>7, <4>2, <2>b DEF LookUp, Silent, storeVars
    <3> QED BY <2>7, <3>1, <3>2 DEF LookUp
  <2>8. CASE Complete(h)
    <3>1. /\ request[h].job \in DOMAIN jobs /\ request[h].job \in JobIDs
          /\ CompleteJob(request[h].job, request[h].outcome)
          /\ GoOn(h, "completed") /\ UNCHANGED leases
      BY <2>8, <1>a DEF Complete, At, JobsKnown, StoreTypeOK
    <3>2. Reporting(h) /\ ~ Reporting(h)'
      BY <2>8, <3>1, <1>a, Moved DEF Complete, At, Reporting
    <3>3. Applies(h)
      BY <3>1, <3>2, <2>a DEF Applies
    <3> QED BY <3>3
  <2> HIDE DEF Kind
  <2> QED BY <1>1, <2>1, <2>2, <2>3, <2>4, <2>5, <2>6, <2>7, <2>8 DEF HandlerStep
<1>2. ASSUME NEW agent \in AgentIDs, Register(agent)
      PROVE  Kind
  BY <1>2, <1>b DEF Register, RegisterAgent, Silent
<1>3. ASSUME NEW agent \in AgentIDs, NEW caps \in SUBSET JobTypes, NEW id \in JobIDs,
             NextJob(agent, caps, id)
      PROVE  Kind
  BY <1>3, <1>b DEF NextJob, HandsOut
<1>4. CASE UNCHANGED apiVars
  BY <1>4, <1>b DEF apiVars, storeVars, Silent
<1>5. CASE ApiNext
  BY <1>1, <1>2, <1>3, <1>5 DEF ApiNext
<1> QED BY <1>4, <1>5

-------------------------------------------------------------------------------
(* Who holds a lease, and what that makes of a job.                        *)

HoldersTold ==
    \A id \in JobIDs :
        /\ ~ Held(id) => HoldersOf(id) = {}
        /\ Leased(id) => HoldersOf(id) = {"agent"}
        /\ \A h \in Handlers : ReportsOn(h, id) => HoldersOf(id) = {h}

LEMMA Told == OneReport => HoldersTold
<1> SUFFICES ASSUME OneReport, NEW id \in JobIDs
             PROVE  /\ ~ Held(id) => HoldersOf(id) = {}
                    /\ Leased(id) => HoldersOf(id) = {"agent"}
                    /\ \A h \in Handlers : ReportsOn(h, id) => HoldersOf(id) = {h}
  BY DEF HoldersTold
<1> DEFINE reports == {h \in Handlers : ReportsOn(h, id)}
<1>1. HoldersOf(id) = (IF Leased(id) THEN {"agent"} ELSE {}) \cup reports
  BY DEF HoldersOf
<1>2. Leased(id) => reports = {}
  BY DEF Leased, ReportsOn, OneReport
<1>3. ASSUME NEW h \in Handlers, ReportsOn(h, id)
      PROVE  ~ Leased(id) /\ reports = {h}
  BY <1>3 DEF ReportsOn, Leased, OneReport
<1>4. ~ Held(id) => ~ Leased(id) /\ reports = {}
  BY DEF Held
<1> QED BY <1>1, <1>2, <1>3, <1>4

LEMMA PhaseTold ==
    ASSUME HoldersTold, NEW id \in JobIDs
    PROVE  /\ id \notin DOMAIN jobs => PhaseOf(id) = "absent"
           /\ id \in DOMAIN jobs /\ Held(id) => PhaseOf(id) = "leased"
           /\ id \in DOMAIN jobs /\ ~ Held(id) =>
                  /\ jobs[id].Status = "PENDING" => PhaseOf(id) = "queued"
                  /\ jobs[id].Status = "RUNNING" => PhaseOf(id) = "lost"
                  /\ jobs[id].Status \in Terminal => PhaseOf(id) = "settled"
  BY DEF HoldersTold, Held, PhaseOf, Terminal

LEMMA PhaseToldNext ==
    ASSUME HoldersTold', NEW id \in JobIDs
    PROVE  /\ id \notin DOMAIN jobs' => PhaseOf(id)' = "absent"
           /\ id \in DOMAIN jobs' /\ Held(id)' => PhaseOf(id)' = "leased"
           /\ id \in DOMAIN jobs' /\ ~ Held(id)' =>
                  /\ jobs'[id].Status = "PENDING" => PhaseOf(id)' = "queued"
                  /\ jobs'[id].Status = "RUNNING" => PhaseOf(id)' = "lost"
                  /\ jobs'[id].Status \in Terminal => PhaseOf(id)' = "settled"
  BY DEF HoldersTold, Held, PhaseOf, Terminal

-------------------------------------------------------------------------------
(* The lease of a job is what it was.                                      *)
SameLease(id) ==
    /\ PhaseOf(id)' = PhaseOf(id)
    /\ HoldersOf(id)' = HoldersOf(id)
    /\ TriesOf(id)' = TriesOf(id)
    /\ LimitOf(id)' = LimitOf(id)

OtherLeasesSame(j) == \A id \in JobIDs \ {j} : SameLease(id)

(* A step that touches one job is a step of JobLease if what it does to    *)
(* this job's lease is.                                                    *)
LEMMA LeaseMoves ==
    ASSUME NEW j \in JobIDs, OtherLeasesSame(j)
    PROVE  /\ SameLease(j) => UNCHANGED Lease!leaseVars
           /\ \A l \in RetryLimits :
                  /\ PhaseOf(j) = "absent" /\ PhaseOf(j)' = "queued"
                  /\ HoldersOf(j)' = HoldersOf(j) /\ TriesOf(j)' = TriesOf(j)
                  /\ LimitOf(j)' = l
                  => Lease!Submit(j, l)
           /\ /\ PhaseOf(j) \in {"queued", "lost"} /\ PhaseOf(j)' = "settled"
              /\ HoldersOf(j)' = HoldersOf(j) /\ TriesOf(j)' = TriesOf(j)
              /\ LimitOf(j)' = LimitOf(j)
              => Lease!Withdraw(j)
           /\ \A h :
                  /\ PhaseOf(j) = "queued" /\ PhaseOf(j)' = "leased"
                  /\ TriesOf(j) = 0 \/ TriesOf(j) < LimitOf(j)
                  /\ HoldersOf(j)' = {h} /\ TriesOf(j)' = TriesOf(j) + 1
                  /\ LimitOf(j)' = LimitOf(j)
                  => Lease!Lease(j, h)
           /\ \A h :
                  /\ PhaseOf(j) = "leased" /\ PhaseOf(j)' = "leased"
                  /\ HoldersOf(j)' = {h} /\ TriesOf(j)' = TriesOf(j)
                  /\ LimitOf(j)' = LimitOf(j)
                  => Lease!HandOver(j, h)
           /\ \A to :
                  /\ PhaseOf(j) = "leased" /\ PhaseOf(j)' = to
                  /\ HoldersOf(j)' = {} /\ TriesOf(j)' = TriesOf(j)
                  /\ LimitOf(j)' = LimitOf(j)
                  => Lease!Release(j, to)
<1> DEFINE phases  == [id \in JobIDs |-> PhaseOf(id)]
           held    == [id \in JobIDs |-> HoldersOf(id)]
           tried   == [id \in JobIDs |-> TriesOf(id)]
           limits  == [id \in JobIDs |-> LimitOf(id)]
<1>1. /\ phases' = [phases EXCEPT ![j] = PhaseOf(j)']
      /\ PhaseOf(j)' = PhaseOf(j) => phases' = phases
  BY DEF OtherLeasesSame, SameLease
<1>2. /\ held' = [held EXCEPT ![j] = HoldersOf(j)']
      /\ HoldersOf(j)' = HoldersOf(j) => held' = held
  BY DEF OtherLeasesSame, SameLease
<1>3. /\ tried' = [tried EXCEPT ![j] = TriesOf(j)']
      /\ TriesOf(j)' = TriesOf(j) => tried' = tried
  BY DEF OtherLeasesSame, SameLease
<1>4. /\ limits' = [limits EXCEPT ![j] = LimitOf(j)']
      /\ LimitOf(j)' = LimitOf(j) => limits' = limits
  BY DEF OtherLeasesSame, SameLease
<1>5. /\ phases[j] = PhaseOf(j) /\ held[j] = HoldersOf(j)
      /\ tried[j] = TriesOf(j) /\ limits[j] = LimitOf(j)
  OBVIOUS
<1>6. SameLease(j) => UNCHANGED Lease!leaseVars
  BY <1>1, <1>2, <1>3, <1>4 DEF SameLease, Lease!leaseVars
<1>7. ASSUME NEW l \in RetryLimits,
             PhaseOf(j) = "absent", PhaseOf(j)' = "queued",
             HoldersOf(j)' = HoldersOf(j), TriesOf(j)' = TriesOf(j), LimitOf(j)' = l
      PROVE  Lease!Submit(j, l)
  BY <1>1, <1>2, <1>3, <1>4, <1>5, <1>7 DEF Lease!Submit, Lease!Move
<1>8. ASSUME PhaseOf(j) \in {"queued", "lost"}, PhaseOf(j)' = "settled",
             HoldersOf(j)' = HoldersOf(j), TriesOf(j)' = TriesOf(j),
             LimitOf(j)' = LimitOf(j)
      PROVE  Lease!Withdraw(j)
  BY <1>1, <1>2, <1>3, <1>4, <1>5, <1>8 DEF Lease!Withdraw, Lease!Move
<1>9. ASSUME NEW h, PhaseOf(j) = "queued", PhaseOf(j)' = "leased",
             TriesOf(j) = 0 \/ TriesOf(j) < LimitOf(j),
             HoldersOf(j)' = {h}, TriesOf(j)' = TriesOf(j) + 1, LimitOf(j)' = LimitOf(j)
      PROVE  Lease!Lease(j, h)
  BY <1>1, <1>2, <1>3, <1>4, <1>5, <1>9 DEF Lease!Lease, Lease!Move, Lease!MayTry
<1>10. ASSUME NEW h, PhaseOf(j) = "leased", PhaseOf(j)' = "leased",
              HoldersOf(j)' = {h}, TriesOf(j)' = TriesOf(j), LimitOf(j)' = LimitOf(j)
       PROVE  Lease!HandOver(j, h)
  BY <1>1, <1>2, <1>3, <1>4, <1>5, <1>10 DEF Lease!HandOver
<1>11. ASSUME NEW to, PhaseOf(j) = "leased", PhaseOf(j)' = to,
              HoldersOf(j)' = {}, TriesOf(j)' = TriesOf(j), LimitOf(j)' = LimitOf(j)
       PROVE  Lease!Release(j, to)
  BY <1>1, <1>2, <1>3, <1>4, <1>5, <1>11 DEF Lease!Release, Lease!Move
<1> HIDE DEF phases, held, tried, limits
<1> QED BY <1>6, <1>7, <1>8, <1>9, <1>10, <1>11

(* A job that is as it was, with the same holders, has the same lease.     *)
LEMMA LeaseKept ==
    ASSUME NEW id \in JobIDs,
           id \in DOMAIN jobs' <=> id \in DOMAIN jobs,
           id \in DOMAIN jobs => jobs'[id] = jobs[id],
           Leased(id)' <=> Leased(id),
           \A h \in Handlers : ReportsOn(h, id)' <=> ReportsOn(h, id)
    PROVE  SameLease(id)
<1>1. HoldersOf(id)' = HoldersOf(id)
  <2>1. HoldersOf(id)' = (IF Leased(id)' THEN {"agent"} ELSE {})
                             \cup {h \in Handlers : ReportsOn(h, id)'}
    BY DEF HoldersOf
  <2> QED BY <2>1 DEF HoldersOf
<1>2. PhaseOf(id)' = PhaseOf(id)
  <2>1. Held(id)' <=> Held(id)
    BY DEF Held
  <2> QED BY <2>1 DEF PhaseOf
<1>3. TriesOf(id)' = TriesOf(id) /\ LimitOf(id)' = LimitOf(id)
  BY DEF TriesOf, LimitOf
<1> QED BY <1>1, <1>2, <1>3 DEF SameLease

-------------------------------------------------------------------------------
(* Reports that are what they were report on the jobs they did.            *)
LEMMA SameReportsOn ==
    ASSUME NEW h \in Handlers, SameReport(h), NEW id
    PROVE  ReportsOn(h, id)' <=> ReportsOn(h, id)
  BY DEF SameReport, ReportsOn

(* A call of the store that touches the job it is about leaves the others. *)
LEMMA OtherJobsKept ==
    ASSUME StoreTypeOK, NEW id \in DOMAIN jobs,
           \/ CancelJob(id)
           \/ \E agent, caps : AssignNextJob(agent, caps, id)
           \/ \E outcome : CompleteJob(id, outcome)
    PROVE  /\ DOMAIN jobs' = DOMAIN jobs
           /\ \A x \in DOMAIN jobs : x # id => jobs'[x] = jobs[x]
  BY DEF StoreTypeOK, CancelJob, AssignNextJob, CompleteJob

LEMMA LeaseRefined ==
    ASSUME ApiTypeOK, JobsKnown, OneReport, AttemptsBounded,
           HoldersTold, HoldersTold', [ApiNext]_apiVars
    PROVE  [Lease!LeaseNext]_(Lease!leaseVars)
<1> DEFINE Step == [Lease!LeaseNext]_(Lease!leaseVars)
<1> HIDE DEF Step
<1>a. StoreTypeOK /\ leases \subseteq Attempt
  BY DEF ApiTypeOK
<1>b. \A id \in DOMAIN jobs : id \in JobIDs /\ jobs[id] \in Job
  BY <1>a DEF StoreTypeOK
<1>c. \A l \in leases : l.job \in DOMAIN jobs
  BY DEF JobsKnown
<1>d. ASSUME SameReports
      PROVE  \A h \in Handlers, id \in JobIDs : ReportsOn(h, id)' <=> ReportsOn(h, id)
  BY <1>d, SameReportsOn DEF SameReports
<1>e. ASSUME NEW h \in Handlers, OthersReport(h)
      PROVE  \A g \in Handlers \ {h}, id \in JobIDs : ReportsOn(g, id)' <=> ReportsOn(g, id)
  BY <1>e, SameReportsOn DEF OthersReport
<1>1. ASSUME Silent
      PROVE  Step
  <2>1. ASSUME NEW id \in JobIDs
        PROVE  SameLease(id)
    BY <1>1, <1>d, LeaseKept DEF Silent, Leased
  <2>2. UNCHANGED Lease!leaseVars
    BY <2>1 DEF SameLease, Lease!leaseVars
  <2> QED BY <2>2 DEF Step
<1>2. ASSUME NEW id \in JobIDs, NEW type \in JobTypes, NEW limit \in RetryLimits,
             Submits(id, type, limit)
      PROVE  Step
  <2>1. /\ id \notin DOMAIN jobs
        /\ id \in DOMAIN jobs' /\ jobs'[id] = NewJob(type, limit)
        /\ \A x : x # id => (x \in DOMAIN jobs' <=> x \in DOMAIN jobs)
        /\ \A x \in DOMAIN jobs : x # id => jobs'[x] = jobs[x]
    BY <1>2 DEF Submits, CreateJob
  <2>2. ~ Held(id)
    BY <1>a, <1>c, <2>1 DEF Held, Leased, ReportsOn, OneReport, Current
  <2>3. ~ Held(id)'
    BY <1>2, <1>d, <2>2 DEF Submits, Held, Leased
  <2>4. ASSUME NEW x \in JobIDs \ {id}
        PROVE  SameLease(x)
    BY <1>2, <1>d, <2>1, <2>4, LeaseKept DEF Submits, Leased
  <2>5. PhaseOf(id) = "absent" /\ PhaseOf(id)' = "queued"
    BY <2>1, <2>3, PhaseTold, PhaseToldNext DEF NewJob
  <2>6. HoldersOf(id)' = HoldersOf(id)
    BY <2>2, <2>3 DEF HoldersTold
  <2>7. TriesOf(id)' = TriesOf(id) /\ LimitOf(id)' = limit
    BY <2>1 DEF TriesOf, LimitOf, NewJob
  <2>8. Lease!Submit(id, limit)
    BY <2>4, <2>5, <2>6, <2>7, LeaseMoves DEF OtherLeasesSame
  <2> QED BY <2>8 DEF Step, Lease!LeaseNext
<1>3. ASSUME NEW id \in JobIDs, Cancels(id)
      PROVE  Step
  <2>1. /\ id \in DOMAIN jobs /\ jobs[id] \in Job /\ jobs[id].Status \notin Terminal
        /\ jobs'[id] = Finished(jobs[id], "CANCELED")
    BY <1>3, <1>b DEF Cancels, CancelJob, Cancellable
  <2>2. /\ DOMAIN jobs' = DOMAIN jobs
        /\ \A x \in DOMAIN jobs : x # id => jobs'[x] = jobs[x]
    BY <1>3, <1>a, <2>1, OtherJobsKept DEF Cancels
  <2>3. ASSUME NEW x \in JobIDs \ {id}
        PROVE  SameLease(x)
    BY <1>3, <1>d, <2>2, <2>3, LeaseKept DEF Cancels, Leased
  <2>4. /\ jobs'[id].Status = "CANCELED"
        /\ TriesOf(id)' = TriesOf(id) /\ LimitOf(id)' = LimitOf(id)
    BY <2>1, <2>2, FinishedRecord DEF TriesOf, LimitOf, Terminal
  <2>5. (Held(id)' <=> Held(id)) /\ HoldersOf(id)' = HoldersOf(id)
    BY <1>3, <1>d DEF Cancels, Held, Leased, HoldersOf, ReportsOn
  <2>6. CASE Held(id)
    <3>1. PhaseOf(id)' = PhaseOf(id)
      BY <2>1, <2>2, <2>5, <2>6, PhaseTold, PhaseToldNext
    <3>2. UNCHANGED Lease!leaseVars
      BY <2>3, <2>4, <2>5, <3>1, LeaseMoves DEF SameLease, OtherLeasesSame
    <3> QED BY <3>2 DEF Step
  <2>7. CASE ~ Held(id)
    <3>1. jobs[id].Status \in {"PENDING", "RUNNING"}
      BY <1>a, <2>1 DEF StoreTypeOK, Job, JobStatus, Terminal
    <3>2. PhaseOf(id) \in {"queued", "lost"} /\ PhaseOf(id)' = "settled"
      BY <2>1, <2>2, <2>4, <2>5, <2>7, <3>1, PhaseTold, PhaseToldNext DEF Terminal
    <3>3. Lease!Withdraw(id)
      BY <2>3, <2>4, <2>5, <3>2, LeaseMoves DEF OtherLeasesSame
    <3> QED BY <3>3 DEF Step, Lease!LeaseNext
  <2> QED BY <2>6, <2>7
<1>4. ASSUME NEW agent \in AgentIDs, NEW caps \in SUBSET JobTypes, NEW id \in JobIDs,
             HandsOut(agent, caps, id)
      PROVE  Step
  <2>0. PICK new : new = [job |-> id, attempt |-> jobs'[id].AttemptCount]
    OBVIOUS
  <2>1. /\ id \in DOMAIN jobs /\ jobs[id] \in Job /\ jobs[id].Status = "PENDING"
        /\ jobs'[id] = Assigned(jobs[id], agent)
        /\ leases' = leases \cup {new} /\ new.job = id
        /\ AssignNextJob(agent, caps, id)
    BY <1>4, <1>b, <2>0 DEF HandsOut, AssignNextJob, FirstEligible, Eligible
  <2>2. /\ DOMAIN jobs' = DOMAIN jobs
        /\ \A x \in DOMAIN jobs : x # id => jobs'[x] = jobs[x]
    BY <1>a, <2>1, OtherJobsKept
  <2>3. ASSUME NEW x \in JobIDs \ {id}
        PROVE  SameLease(x)
    <3>1. Leased(x)' <=> Leased(x)
      BY <2>1, <2>3 DEF Leased
    <3> QED BY <1>4, <1>d, <2>2, <3>1, LeaseKept DEF HandsOut
  <2>4. /\ jobs'[id].Status = "RUNNING"
        /\ TriesOf(id)' = TriesOf(id) + 1 /\ LimitOf(id)' = LimitOf(id)
    BY <2>1, <2>2, AssignedRecord DEF TriesOf, LimitOf
  <2>5. TriesOf(id) = 0 \/ TriesOf(id) < LimitOf(id)
    BY <2>1 DEF TriesOf, LimitOf, AttemptsBounded, CanRetry
  <2>6. ~ Held(id)
    BY <2>1 DEF Held, Leased, ReportsOn, OneReport, Current
  <2>7. Leased(id)' /\ Held(id)'
    BY <2>1 DEF Leased, Held
  <2>8. PhaseOf(id) = "queued" /\ PhaseOf(id)' = "leased" /\ HoldersOf(id)' = {"agent"}
    BY <2>1, <2>2, <2>6, <2>7, PhaseTold, PhaseToldNext DEF HoldersTold
  <2>9. Lease!Lease(id, "agent")
    BY <2>3, <2>4, <2>5, <2>8, LeaseMoves DEF OtherLeasesSame
  <2> QED BY <2>9 DEF Step, Lease!LeaseNext
<1>f. ASSUME NEW l \in leases, leases' = leases \ {l}
      PROVE  /\ \A id \in JobIDs \ {l.job} : Leased(id)' <=> Leased(id)
             /\ Leased(l.job) /\ ~ Leased(l.job)'
  BY <1>f DEF Leased, OneReport
<1>5. ASSUME NEW h \in Handlers, NEW l \in leases, Takes(h, l)
      PROVE  Step
  <2>1. PICK j \in DOMAIN jobs : j = l.job /\ j \in JobIDs
    BY <1>b, <1>c
  <2>2. /\ leases' = leases \ {l} /\ jobs' = jobs /\ OthersReport(h)
        /\ ~ Reporting(h) /\ ReportsOn(h, l.job)'
    BY <1>5 DEF Takes
  <2>3. ReportsOn(h, j)' /\ Held(j)' /\ Held(j)
    BY <1>f, <2>1, <2>2 DEF Held
  <2>4. ASSUME NEW x \in JobIDs \ {j}
        PROVE  SameLease(x)
    <3>1. ReportsOn(h, x)' <=> ReportsOn(h, x)
      BY <2>2, <2>3, <2>4 DEF ReportsOn
    <3>2. \A g \in Handlers : ReportsOn(g, x)' <=> ReportsOn(g, x)
      BY <1>e, <2>2, <3>1
    <3> QED BY <1>f, <2>1, <2>2, <3>2, LeaseKept
  <2>5. PhaseOf(j) = "leased" /\ PhaseOf(j)' = "leased" /\ HoldersOf(j)' = {h}
    BY <2>1, <2>2, <2>3, PhaseTold, PhaseToldNext DEF HoldersTold
  <2>6. TriesOf(j)' = TriesOf(j) /\ LimitOf(j)' = LimitOf(j)
    BY <2>2 DEF TriesOf, LimitOf
  <2>7. Lease!HandOver(j, h)
    BY <2>1, <2>4, <2>5, <2>6, LeaseMoves DEF OtherLeasesSame
  <2> QED BY <2>1, <2>7 DEF Step, Lease!LeaseNext
<1>6. ASSUME NEW l \in leases, Drops(l)
      PROVE  Step
  <2>1. PICK j \in DOMAIN jobs : j = l.job /\ j \in JobIDs
    BY <1>b, <1>c
  <2>2. leases' = leases \ {l} /\ jobs' = jobs /\ SameReports
    BY <1>6 DEF Drops
  <2>3. ASSUME NEW x \in JobIDs \ {j}
        PROVE  SameLease(x)
    BY <1>d, <1>f, <2>1, <2>2, LeaseKept
  <2>4. Held(j) /\ ~ Held(j)'
    <3>1. Leased(j) /\ ~ Leased(j)'
      BY <1>f, <2>1, <2>2
    <3>2. \A h \in Handlers : ~ ReportsOn(h, j)
      BY <2>1 DEF ReportsOn, OneReport
    <3> QED BY <1>d, <2>1, <2>2, <3>1, <3>2 DEF Held
  <2>5. /\ HoldersOf(j)' = {} /\ PhaseOf(j) = "leased"
        /\ TriesOf(j)' = TriesOf(j) /\ LimitOf(j)' = LimitOf(j)
    BY <2>1, <2>2, <2>4, PhaseTold DEF HoldersTold, TriesOf, LimitOf
  <2>6. Lease!Release(j, PhaseOf(j)')
    BY <2>1, <2>3, <2>5, LeaseMoves DEF OtherLeasesSame
  <2>7. PhaseOf(j)' \in {"lost", "settled"}
    <3>1. jobs'[j].Status \in {"RUNNING", "CANCELED"}
      BY <2>1, <2>2 DEF OneReport, Current
    <3> QED BY <2>1, <2>2, <2>4, <3>1, PhaseToldNext DEF Terminal
  <2>8. Lease!Lose(j) \/ Lease!Settle(j)
    BY <2>6, <2>7 DEF Lease!Lose, Lease!Settle
  <2> QED BY <2>1, <2>8 DEF Step, Lease!LeaseNext
<1>7. ASSUME NEW h \in Handlers, Applies(h)
      PROVE  Step
  <2>1. PICK j : j = request[h].job
    OBVIOUS
  <2>2. /\ Reporting(h) /\ ~ Reporting(h)' /\ ReportsOn(h, j)
        /\ CompleteJob(j, request[h].outcome)
        /\ leases' = leases /\ OthersReport(h)
    BY <1>7, <2>1 DEF Applies, ReportsOn
  <2>3. j \in DOMAIN jobs /\ j \in JobIDs /\ jobs[j] \in Job
    BY <1>b, <2>2 DEF CompleteJob
  <2>4. /\ DOMAIN jobs' = DOMAIN jobs
        /\ \A x \in DOMAIN jobs : x # j => jobs'[x] = jobs[x]
    BY <1>a, <2>2, <2>3, OtherJobsKept
  <2>5. ASSUME NEW x \in JobIDs \ {j}
        PROVE  SameLease(x)
    <3>1. ReportsOn(h, x)' <=> ReportsOn(h, x)
      BY <2>1, <2>2, <2>5 DEF ReportsOn
    <3>2. \A g \in Handlers : ReportsOn(g, x)' <=> ReportsOn(g, x)
      BY <1>e, <2>2, <3>1
    <3> QED BY <2>2, <2>4, <3>2, LeaseKept DEF Leased
  <2>6. Held(j) /\ ~ Held(j)'
    <3>1. ~ Leased(j) /\ \A g \in Handlers \ {h} : ~ ReportsOn(g, j)
      BY <2>1, <2>2 DEF Leased, ReportsOn, OneReport
    <3>2. ~ Leased(j)' /\ ~ ReportsOn(h, j)'
      BY <2>2, <3>1 DEF Leased, ReportsOn
    <3>3. \A g \in Handlers : ~ ReportsOn(g, j)'
      BY <1>e, <2>2, <2>3, <3>1, <3>2
    <3> QED BY <2>2, <3>2, <3>3 DEF Held
  <2>7. PhaseOf(j) = "leased" /\ HoldersOf(j)' = {}
    BY <2>3, <2>6, PhaseTold DEF HoldersTold
  <2>8. CASE CanRetry(jobs[j]) /\ jobs'[j] = Requeued(jobs[j])
    <3>1. /\ jobs'[j].Status = "PENDING"
          /\ TriesOf(j)' = TriesOf(j) /\ LimitOf(j)' = LimitOf(j)
          /\ TriesOf(j) < LimitOf(j)
      BY <2>3, <2>4, <2>8, RequeuedRecord DEF TriesOf, LimitOf, CanRetry
    <3>2. PhaseOf(j)' = "queued"
      BY <2>3, <2>4, <2>6, <3>1, PhaseToldNext
    <3>3. Lease!Release(j, "queued")
      BY <2>3, <2>5, <2>7, <3>1, <3>2, LeaseMoves DEF OtherLeasesSame
    <3>4. Lease!Requeue(j)
      BY <2>3, <3>1, <3>3 DEF Lease!Requeue
    <3> QED BY <2>3, <3>4 DEF Step, Lease!LeaseNext
  <2>9. CASE jobs'[j] = Finished(jobs[j], request[h].outcome)
    <3>1. request[h] \in ResultRequest
      BY <2>2, RequestTypes DEF Reporting, ApiTypeOK, Active
    <3>2. PICK outcome \in Outcomes : outcome = request[h].outcome
      BY <3>1 DEF ResultRequest
    <3>3. /\ jobs'[j].Status \in Terminal
          /\ TriesOf(j)' = TriesOf(j) /\ LimitOf(j)' = LimitOf(j)
      BY <2>3, <2>4, <2>9, <3>2, FinishedRecord DEF TriesOf, LimitOf, Outcomes, Terminal
    <3>4. PhaseOf(j)' = "settled"
      BY <2>3, <2>4, <2>6, <3>3, PhaseToldNext
    <3>5. Lease!Settle(j)
      BY <2>3, <2>5, <2>7, <3>3, <3>4, LeaseMoves DEF OtherLeasesSame, Lease!Settle
    <3> QED BY <2>3, <3>5 DEF Step, Lease!LeaseNext
  <2>10. \/ CanRetry(jobs[j]) /\ jobs'[j] = Requeued(jobs[j])
         \/ jobs'[j] = Finished(jobs[j], request[h].outcome)
    BY <2>2, <2>3 DEF CompleteJob
  <2> QED BY <2>8, <2>9, <2>10
<1>8. Step
  BY <1>1, <1>2, <1>3, <1>4, <1>5, <1>6, <1>7, StepKind
<1> QED BY <1>8 DEF Step

(* However the handlers' calls of the store interleave, no job has two     *)
(* reports under way, none gets an attempt beyond its limit, and none that *)
(* has settled comes back.                                                 *)
THEOREM HandlersImplementLease == ApiSpec => ImplementsLease
<1>1. ApiInit => Lease!LeaseInit
  <2> SUFFICES ASSUME ApiInit
               PROVE  Lease!LeaseInit
    OBVIOUS
  <2>1. DOMAIN jobs = {} /\ leases = {} /\ \A h \in Handlers : ~ Reporting(h)
    BY DEF ApiInit, StoreInit, Reporting
  <2>2. OneReport /\ \A id \in JobIDs : ~ Held(id)
    BY <2>1 DEF OneReport, Held, Leased, ReportsOn
  <2>3. \A id \in JobIDs : /\ PhaseOf(id) = "absent" /\ HoldersOf(id) = {}
                           /\ TriesOf(id) = 0 /\ LimitOf(id) = 0
    BY <2>1, <2>2, Told DEF HoldersTold, PhaseOf, TriesOf, LimitOf
  <2> QED BY <2>3 DEF Lease!LeaseInit
<1>2. OneReport => HoldersTold
  BY Told
<1>3. ApiTypeOK /\ JobsKnown /\ OneReport /\ AttemptsBounded
          /\ HoldersTold /\ HoldersTold' /\ [ApiNext]_apiVars =>
          [Lease!LeaseNext]_(Lease!leaseVars)
  BY LeaseRefined
<1> QED BY <1>1, <1>2, <1>3, TypesAndJobs, OneReportCorrect, ApiImplementsStore,
           AttemptsCorrect, PTL
        DEF ApiSpec, ImplementsLease, Lease!LeaseSpec

-------------------------------------------------------------------------------
(* What JobLease promises, of the handlers.                                *)
Promise == INSTANCE JobLeaseProofs WITH
    Jobs    <- JobIDs,
    Holders <- Handlers \cup {"agent"},
    Limits  <- RetryLimits,
    phase   <- [id \in JobIDs |-> PhaseOf(id)],
    holders <- [id \in JobIDs |-> HoldersOf(id)],
    tries   <- [id \in JobIDs |-> TriesOf(id)],
    limit   <- [id \in JobIDs |-> LimitOf(id)]

(* Hence of the handlers: a job is with its agent or with one handler      *)
(* that applies a report of it, it is handed out no more often than was    *)
(* asked for, and after it has settled no handler has a report of it.      *)
THEOREM HandlersKeepLease == ApiSpec => []Lease!LeaseInvariant /\ Lease!LeaseDiscipline
<1>1. Promise!LeaseSpec => []Promise!LeaseInvariant /\ Promise!LeaseDiscipline
  BY JobStoreAssumption, Promise!LeaseInvariantCorrect, Promise!LeaseDisciplineCorrect
<1>2. Lease!LeaseInit <=> Promise!LeaseInit
  BY DEF Lease!LeaseInit, Promise!LeaseInit
<1>3. Lease!LeaseInvariant <=> Promise!LeaseInvariant
  BY DEF Lease!LeaseInvariant, Promise!LeaseInvariant, Lease!Phases, Promise!Phases
<1>4. [Lease!LeaseNext]_(Lease!leaseVars) <=> [Promise!LeaseNext]_(Promise!leaseVars)
  BY DEF Lease!LeaseNext, Lease!leaseVars, Lease!Submit, Lease!Lease, Lease!LeaseInVain,
         Lease!HandOver, Lease!Requeue, Lease!Settle, Lease!Lose, Lease!Withdraw, Lease!Erase,
         Lease!Move, Lease!MayTry, Lease!Release,
         Promise!LeaseNext, Promise!leaseVars, Promise!Submit, Promise!Lease, Promise!LeaseInVain,
         Promise!HandOver, Promise!Requeue, Promise!Settle, Promise!Lose, Promise!Withdraw,
         Promise!Erase, Promise!Move, Promise!MayTry, Promise!Release
<1>5. [Lease!Disciplined]_(Lease!leaseVars) <=> [Promise!Disciplined]_(Promise!leaseVars)
  BY DEF Lease!Disciplined, Lease!leaseVars, Promise!Disciplined, Promise!leaseVars
<1> QED
  BY <1>1, <1>2, <1>3, <1>4, <1>5, HandlersImplementLease, PTL
     DEF ImplementsLease, Lease!LeaseSpec, Promise!LeaseSpec,
         Lease!LeaseDiscipline, Promise!LeaseDiscipline

===============================================================================
