# TaskBridge in TLA+

Formal models of TaskBridge: a server that keeps a table of jobs in memory, and
agents that poll it over HTTP, execute one job at a time and report the outcome.
The modules here are translated from the Go source under `src/`; TLC checks them
on small instances and TLAPS proves the most important properties for every size.

    tlc -config JobStore.cfg MCJobStore        # any run of the table below
    tlapm TaskBridgeProofs.tla                 # any of the seven proof modules

## 1. The system

| Part | Source | State | Operations that change it |
|---|---|---|---|
| Job table and scheduler | `internal/store/memory.go`, `internal/model/model.go` | `jobs`, `jobOrder`, `agents`, under one `sync.RWMutex` | CreateJob, CancelJob, AssignNextJob, CompleteJob, RegisterAgent, Heartbeat, MarkStaleAgentsOffline, UpdateJob (no caller) |
| HTTP handlers | `internal/api/jobs.go`, `assignment.go`, `agents.go` | locals of one goroutine per request | create, cancel, next-job, result, register, heartbeat |
| Health checker | `internal/api/server.go` | a 15 s ticker | sweep of the agents table |
| Agent worker and client | `internal/agent/worker.go`, `client.go` | place in the loop, two tickers, the calls under way | register once, heartbeat goroutine, poll / execute / report loop |
| Executors | `internal/executor/*.go` | files of the host, a context with the job's timeout | one Execute for each of seven job types |
| Request validation, token, decoder | `internal/model/validation.go`, `internal/api/middleware.go`, `helpers.go` | none | - (what they turn away reaches no store call) |
| Routing, logging, recovery, config | `internal/api/server.go`, `middleware.go`, `health.go`, `internal/config` | none | - |
| The two mains | `cmd/server`, `cmd/agent` | flags, signals | start and stop |

How they interact:

* An agent calls the server; the server never calls an agent. Every call is one
  HTTP request with a client timeout of 15 s, and the server's handler does not
  look at the request's context, so it finishes what its client has given up.
* A handler calls the store up to three times and lets go of the lock between
  the calls. Time stamps are taken before the lock.
* The heartbeat goroutine and the poll loop of an agent share nothing but the
  client. A heartbeat does not concern the agent's jobs, nor does the health
  checker: an agent that is offline keeps the jobs assigned to it.
* Agents on one host share its files; nothing keeps two jobs off the same path.

What is hard about it, and where it is treated:

| Behaviour | Module |
|---|---|
| replies lost after the server has assigned a job; polls handled after their client gave up; agents that die | `TaskBridge` |
| a stop signal while the agent polls, executes or reports, and a `select` that may prefer the ticker | `TaskBridge` |
| a restart of the server with empty tables, of which agents learn nothing but errors | `TaskBridge`, `JobStore`, `AgentHealth` |
| two processes with the default `-id`, which are one agent to the server | `TaskBridge` |
| results without an attempt number, and `CompleteJob`, which tests no status | `TaskBridge`, `JobStore` |
| attempts against `max_retries` at 0, 1 and beyond; a retried job that keeps its place in the queue | `JobStore` |
| two or three store calls of one request with others in between; identifiers that repeat; requests that must not reach the store | `ApiHandlers` |
| heartbeats delayed by a blocked call and a ticker that drops ticks, against a sweep; stamps taken before the lock; requests of dead processes; a wall clock that is set | `AgentHealth` |
| I/O errors, timeouts, durations that overflow, and other jobs on the same files | `Executors` |

What makes each part correct: the index and the table of the store agree,
attempts are bounded and counted, and assignment is FIFO per type; no two agents
ever execute the same job although there are no leases; every job comes to rest
or is lost by a fault; a reply tells the truth about the store; live agents
are shown online and dead ones are not for long; a SUCCESS is what it says.

## 2. The modules

    JobStore ----+---- TaskBridge ----(refines)---- JobLease
      |          |         |                       /   |
      |          +---- ApiHandlers --(refines)----/    |       AgentHealth         Executors
      |                    |                           |            |                  |
    JobStoreProofs --- TaskBridgeProofs,        JobLeaseProofs  AgentHealthProofs  ExecutorsProofs
                       ApiHandlersProofs,
                       ApiLeaseProofs

`MC<module>` instantiates `<module>` for TLC and holds the definitions its
configurations need (symmetry sets, the jobs and flags of the instances).

**JobStore** is `MemoryStore`. Each method holds the mutex for its whole body, so
each is one action with the method's name. A method that returns an error changes
nothing: its early returns are the action's guard. A job record keeps the fields
that a method reads or a property needs; payload, logs, result and error
message are never read. Time stamps are `nil` or `stamped`, as no method reads
the instant. The environment calls anything at any time (`StoreNext`), including
results for jobs that were never handed out, which the API does allow.
`UpdateJob` belongs to the interface but has no caller; `OpenSpec` adds one. `LifeSpec` is
the store over several runs of the server: `RestartStore` empties the tables.

**TaskBridge** adds the agents. `pc[w]` is the place of a process in `Run` and
`pollAndExecute`; `got[w]` the job it holds or is being sent; `results` the result
requests on their way; `late` the polls whose client has given up and which the
server will still handle. Every lost message, timeout, death of an agent and restart
of the server is a fault, and `MaxFaults` bounds them. A result request has an `attempt`
field for the properties' sake; no guard reads it.

A stop signal is no fault. `Signal` cancels the context, which `Run` looks at only in its
`select` and the executor during the job; so `Quit` is possible only at "idle",
while `Poll`, which does not ask about the signal, may go first: an agent that was told
to stop may poll, execute and report once more. `MaxStops` bounds the signals. `Restart` puts
the jobs there were into `lost`: workers may still execute and report them, and
get a 404. `late` polls die with the server that had them.

**JobLease** is the abstract specification of one job's life: queued, leased to
one holder at a time, settled for good, lost by a fault, or erased with the tables. `TaskBridge` implements
it: a lease is an offer under way, a worker executing or a result under way. So does
`ApiHandlers`, one level below: a lease is the agent's until a handler receives its result, then
that handler's until `CompleteJob` has been called (the mapping is in `ApiLeaseProofs`).
`LeaseInvariant` and `LeaseDiscipline` say what follows for whoever implements it.

**ApiHandlers** opens the handlers up: `stage[h]` is the store call that handler
`h` makes next, `request[h]` and `reply[h]` what it was asked and what it answered.
The id and the time stamp of a new job are taken in `BeginCreate`, before the
insertion. Agents appear only as `leases`: each job handed out by a poll
is reported once or never. `created` and `stored` are the stamp of a job and
the instant of its insertion; no guard reads them. Before a handler begins, the token is
compared (401), then the body decoded and validated (400): `TurnAway` is any such refusal, and
`ValidCreate` and `ValidResult` are the part of `Validate` that the store relies on, which
itself believes whatever it is told. An agent whose result is turned away does not send it again.

**AgentHealth** has discrete time. A request takes at most `MaxDelay` on its way, an
answer at most `MaxDelay` from its time stamp to the client, and what is due at an instant
happens before time goes on. The heartbeat ticker is a channel of capacity one; a
call whose message is lost blocks the goroutine until the client times out. `Stamp` and
`Register` are the two halves of `handleRegisterAgent`: the stamp is taken before
the lock, so `Register` may store a time that is older than the one in the table.
`stray[a]` is a request that a dead process has left under way (one at most), which the server
handles like any other. `age[a]` is wall-clock time, which `StepClock` may set forward
or back; `stepped` are the agents not heard of since, which the bounds except.
The clock is not set while a handler is between its stamp and the lock.

**Executors** is a job from its acceptance to its result. A request is a task and a form: the
payload keys it lacks or mistypes, and its timeout. `Accepted` is `Validate`, `Usable` are
the checks at the top of each executor; the two are written down independently, as in the code,
and so is a third list, `Documented`: the keys that the executors' doc comments call required, which is
only there for `AcceptedIsUsable`. `ExpectedStatus` is what an http_check compares the code of the
response with (`answer[w]`), 200 if the job gives no number that can be read.
`Limit` is the arithmetic of `pollAndExecute`, in a signed word of `Word` values, `Timers` the
conversion of a wait's duration, whose result for a number that does not fit is
either end of the range (the Go specification leaves it open). There is one step for each
system call that another execution can come between: open, create (which truncates), a
block of `io.Copy`, the truncation and the write of `os.WriteFile`, `os.Stat`, and the one
look at the context before them. A checksum stands for the sequence of blocks it was
computed from. `clean[w]` and `before[w]` are for the properties: whether another execution
has written a file of `w`'s job, and what those files held at the start. A timeout may
come at any moment, except for a wait, where timer and timeout are compared.

Definitions introduced by "A slip" are plausible mistakes (a missing guard, an
off-by-one, a reset that was forgotten). No action uses them; each shows that a
property would notice if it replaced the definition that follows it.

## 3. The runs

| Run | Module, configuration | Shows |
|---|---|---|
| `store` | MCJobStore, JobStore.cfg | the store under any sequence of calls: types and no visible RETRYING, index = table, attempts bounded, counted and used up before a job is FAILED, status and owner agree, FIFO per type |
| `bridge` | MCTaskBridge, TaskBridge.cfg | two processes sharing an id, two faults, one signal: one attempt of a job at a time, results of the current attempt only, one orphan per fault and none by a signal, FAILED after exactly the attempts that were asked for, settled jobs stay, refinement of JobLease |
| `liveness` | MCTaskBridge, Liveness.cfg | two agents of different capabilities, two types, one fault or restart, one signal: every job comes to rest; an agent told to stop does; holders are the assignees and capable |
| `health` | MCAgentHealth, AgentHealth.cfg | no live agent the server knows is shown offline; a dead one is shown offline within a threshold and a sweep; offline means stale; what the server forgot stays forgotten until an agent is started anew; an agent made offline by a step of the clock comes back |
| `api` | MCApiHandlers, ApiHandlers.cfg | replies are true although handlers interleave and identifiers repeat; nothing invalid reaches the store; no two results of a job are ever on their way; FIFO and the listing in real time |
| `executors` | MCExecutors, Executors.cfg | an undisturbed SUCCESS is true, except of a copy of a file onto itself (`self_copy` shows that case); a missing source does no harm; an accepted job has every key documented as required except `expected_status`, and its executor can use it unless a value is mistyped; a wait ends by the earlier of timer and timeout, every execution ends |

and six that TLC must find violated, where a document or comment says otherwise:

| Run | The source says | The code does |
|---|---|---|
| `terminal_final` | a terminal status is final (model.go:21) | a result overwrites CANCELED, and may requeue the job |
| `running_ends` | a job goes from RUNNING to SUCCESS or FAILED (README.md:34) | a job assigned in a poll that its client gave up stays RUNNING for ever |
| `retry_count` | attempt 1 of a job with `max_retries` 1 is retried (memory_test.go:348) | it fails at attempt 1: the limit counts attempts |
| `list_sorted` | ListJobs is sorted by creation time (memory.go:50) | it is in the order of insertion, which overlapping requests can reverse |
| `self_copy` | copy_file copies source to destination (copy_file.go:12) | with one path for both, it empties the file and reports SUCCESS |
| `timeout_stops` | the context is propagated for timeout and cancellation (README.md:320) | a copy goes on after the deadline |

One more disagreement has no run of its own but is named by a property: `expected_status` of an
http_check is a required key by its doc comment (http_check.go:15-17) and in the table of job types
(README.md:179), where optional keys of other types are marked as such. `Validate` accepts a job
without it, and the executor takes 200, as it does for a value it cannot read.
`AcceptedIsUsable` allows this as the only exception; without it, the `executors` run
fails as soon as such a job begins.

Bounds, and why they are enough:

* `store`: three jobs make a queue with a middle; two types and any subset of them
  as capabilities make polls that skip; two agents, so that an owner can change;
  limits 0 and 2 are below the first attempt and above it by one retry. Attempts
  need no bound of their own, since the store bounds them.
* `bridge`: one retry lets an old result meet a new attempt; two processes can
  both be after the job; two faults allow a late poll and a lost result at once, or a
  restart while a result is under way; one signal lets the stopped process race the other.
  With more faults, signals or processes the argument is the proof's.
* `liveness`: one fault is enough for a job to be orphaned, for an agent to die
  while the other cannot run all types, or for the server to forget both agents. `Small` (in
  MCTaskBridge) fixes the order in which the two jobs are created, and has behaviours with
  a signal use one job: no symmetry is declared in this run, since TLC's liveness
  check does not admit one.
* `health`: the intervals of the two mains in units of five thirds of a second: heartbeat 6,
  client timeout 9, sweep 9, threshold 18. No message is under way for longer than one
  unit and no two calls in a row fail. The clock is set once, forward by more than the
  threshold or back by less than a heartbeat. The bounds are tight: `NoFalseOffline` fails with
  `Threshold = 17`, which no longer is `3 MaxDelay + Period + ClientTimeout`. `MaxAge` is the
  age beyond which no guard tells ages apart.
* `api`: two handlers, as every hazard is one call between two others; two jobs;
  `MaxStamps = 2` creations, which may overlap, end in either order and draw the same identifier.
  Longer queues are the `store` run's subject; the proofs have no bound.
* `executors`: two agents, two files of one or two blocks (or none, once truncated, or absent); the
  second agent copies in the direction opposite to the first. Durations have 4 bits, a second is
  2 units and the default timeout 5, so that waits end before, after and together with
  their timeouts, and timeouts wrap to a negative and to a small positive number. The
  first agent's requests cover all seven types, each with every documented key missing in turn, and
  values of the wrong type; two status codes tell the default of 200 from the one asked for. Copies
  of a file onto itself have a run of their own.

CHECK_DEADLOCK is never turned off: no model can stop.

Fairness:

* `TaskBridge`: a live agent's loop goes on, since tickers keep firing and executors return
  (`ExecutionEnds` of the `executors` run says that they do); a request that is not lost is
  handled, as net/http gives each its own goroutine and the mutex is not held for
  ever. `Quit` is strongly fair: it is possible at every return to the `select`, polls come in
  between, and a Go `select` with several cases ready chooses one at random, so that
  the cancelled context is not passed over for ever. Nobody is obliged to create or
  cancel jobs, to start or stop an agent, and a poll whose client has gone need never be handled.
* `AgentHealth`: time passes, tickers fire, messages arrive or are lost, the sweep
  runs. Nothing obliges an agent to start, to die or to lose messages, or the clock to be set.
* `Executors`: file operations return and deadlines pass. An HTTP endpoint need
  never answer: only the deadline ends such a call.

## 4. The proofs

All for any sets of jobs, agents, types, limits, processes, handlers, files and contents, and
any number of faults and signals. The assumptions are those named in the modules: limits
are naturals (`Validate` refuses negative ones), the empty agent id is no agent's, each process
has an id and capabilities, the id of no job is no job's, intervals are positive.

**JobStoreProofs.** `StoreTypeOK` is inductive (`StoreTypeCorrect`). `JobStep` says what
one call does to one job (`Evolves`, `Appears`); with it `AttemptsCorrect`, `OwnerCorrect`
and `AttemptsCountedCorrect` need no more than the types. `JobOrderCorrect` needs no type
of the records, hence holds with a caller of `UpdateJob` as well
(`JobOrderCorrectWithUpdateJob`). `FIFO` needs it: a job that is started stands at
one place only, and nothing eligible stands before. `NotFailedEarlyCorrect` is the other side of
`AttemptsCorrect`: the guard of a retry neither lets a job run too often nor gives it up too soon. `ConsistentAcrossRestarts` adds
restarts, after which everything holds of empty tables.

**TaskBridgeProofs.** A step of the system is a step of the store, a restart or neither, so the
system implements the store over several runs (`ImplementsStore`). That no two agents
hold a job (`OneAttemptCorrect`) is not inductive: a poll could hand out a held job if the
job were queued. It is inductive together with `ReportsCurrentAttempt`, which says that a job
somebody holds or reports on is RUNNING or CANCELED in the very attempt that was
handed out, or of an earlier run of the server; `Inv` is both with the types. A job that is
SUCCESS or FAILED has therefore nobody to report on it, and stays as it is
(`SettledCorrect`). `StepKind` sorts the steps by what they do to holders, reports and faults
(offers, offers in vain, reports, drops, deliveries, erasure, silence), and each further proof
goes over these kinds: `FailedAfterLastAttemptCorrect`, where the store bounds the attempts on
either side and `Attempted` adds what it cannot know, that whoever reports was handed a counted
attempt; `HolderCorrect`; `OrphansCorrect`, where a step adds one to orphans and
late polls together only if it is a fault (the cardinality lemmas are those of
FiniteSetTheorems); and `LeaseImplemented`, where `LeaseMoves` says what each kind does to one job
and the step of `JobLease` it is.

**JobLeaseProofs.** What a reader may conclude from the refinement: in every state a job has one
holder exactly while it is leased and no more attempts than its limit allows
(`LeaseInvariantCorrect`), and no step gives a settled or erased job a holder, or any job one
without counting the attempt (`LeaseDisciplineCorrect`). The module is instantiated with each
refinement mapping, so that both hold of server and agents (`SystemKeepsLease`) and of the
handlers (`HandlersKeepLease`).

**ApiHandlersProofs.** The handlers implement the store too (`ApiImplementsStore`). The
types are inductive with `JobsKnown`: a request's job is in the table or is no job, and jobs are
never removed, so what the first call found the second finds (`ResultAcceptedCorrect`).
`CreateVerdictCorrect` rests on stamps being all different, so that a stamp in the table names the
request it stems from: until a creation is answered 201 no job has its stamp. `CancelVerdictCorrect`
rests on `FinishedAt`, which no call takes back, not on the status,
which a retry does. `OneReportCorrect` is the lease argument of `TaskBridge` once more, with handlers in
the place of messages: what an agent executes and what handlers are about to apply never meet on
one job. `ShowsResultCorrect` needs it, since nobody else may report between the completion of
a job and the look at it. Stamps precede insertion, and the index is in the order of insertion
(`StampInvariant`); hence `RealTimeFIFOCorrect` and `ListedInRealTimeCorrect`.

**ApiLeaseProofs.** `HandlersImplementLease`: with `OneReport`, every store call is a step of
`JobLease`. `StepKind` sorts the steps by what they do to leases and reports, `LeaseMoves` says
what each kind does to one job. TLC checks `OneReport`, on which the refinement rests, and not the
refinement itself, whose mapping it would have to evaluate for every one of the handlers' steps.

**AgentHealthProofs.** `Roles` says which call goes with which state of the process and is
inductive with the types. `DetectionCorrect` follows from `AgeBound`: the age of an agent
shown online and the time to the next sweep together never exceed a threshold and an interval.
`OfflineCorrect` and `ForgottenCorrect` need the types only. None of them needs any relation
between the intervals. `NoFalseOfflineCorrect` does, `Intervals`: `3 MaxDelay + Period +
MaxFailures * Retry <= Threshold`, where `MaxFailures` calls in a row may fail and `Retry` is the
longer of the period and the client's timeout, and a message takes less than that timeout. Under it
`Alive` bounds the age in each state of the heartbeat goroutine by `Sent(n)`, the greatest age when
a heartbeat is sent after `n` that failed. The bound is sharp: with `MaxDelay = 1`
and two failures, a period of 3 and a timeout of 4, TLC confirms `NoFalseOffline` for a threshold of
14 and refutes it for 13; with one failure, a period of 4 and a timeout of 2, for 11 and 10. For the
two mains it means that one failed heartbeat is survived as long as no message takes more than 1.67 s, and that
two in a row are not: 10 s and twice 15 s exceed the 30 s of the threshold.

**ExecutorsProofs.** A step of one agent is its own, or leaves another's execution `Aside`:
of that it changes the files only, and then marks it as not clean (`StepAside`). `Shape` says
which executor is in which phase; `Truth` what a clean execution knows of its files at
each phase, block by block for copies and checksums, and implies both `SuccessIsFaithful` and
`MissingSourceHarmless` when it has returned. `Clock` does the same for validation and
the timers of a wait (`AcceptedCorrect`, `WaitCorrect`); `WrappedFits` is why a number that fits
a word is not changed by it. `IsolatedSuccessCorrect` discharges the condition of
`SuccessIsFaithful`: if no agent's job writes a file that another agent's job names (`Isolated`), no
execution is ever disturbed, and every SUCCESS is true. `SuccessIsFaithful`, and with it both
theorems, says nothing of a copy of a file onto itself, which is a SUCCESS and empties the file.

Only model-checked: liveness under fairness (`EventuallyAtRest`, `StopEnds`, `CrashedDetected`,
`OfflineRecovers`, `ExecutionEnds`), which is out of the prover's reach. Every invariant and
action property of a passing run is a theorem, and so are both refinements.

## 5. Not modelled, and why

* Routing, logging, recovery, encoding, and the handlers that only read: no state survives a request.
  By reading: the comment of `Handler` (server.go:32) gives the order recovery, auth, logging, while
  logging is outside auth, so refused requests are logged; and `StartAgentHealthChecker`
  (server.go:61) is said to respect a context, but takes none: the goroutine ends with the process.
* The wording of validation errors, and the tests for an empty name or empty capabilities.
* `internal/config`: no package imports it.
* The 10 s that `Shutdown` gives to requests under way: they end within them or with the process,
  and both are behaviours of `Restart`.
* Result and log payloads: they are stored and shown, never read. File modes, and the durations of
  executions other than a wait.
* A clock that is set while a registration is between its stamp and the lock, and more
  than one stray request of an agent at a time.

## 6. Plan

Done, in this order: JobStore and its proofs; TaskBridge with JobLease, and the proof that no
two agents hold a job; AgentHealth; ApiHandlers and its proofs; Executors; stop signals and
restarts in TaskBridge, with the proofs of the fault budget and of the refinement; stamps, strays and
clock steps in AgentHealth, and its proofs; validation and timeouts in Executors, and its
proofs; the gate in front of ApiHandlers, and what a creation answers; the promises of JobLease, and
that the handlers implement it; attempts used up before a job is FAILED.

Left, should the code grow: the composition of `ApiHandlers` with `TaskBridge`, so that the
three store calls of a result interleave with real agents instead of `leases` (the proofs
cover both sides separately today); expiry of jobs that are RUNNING and orphaned, when the server
gets one, for which `Orphans` and `RunningEnds` are the properties to turn around.
