------------------------------ MODULE AgentHealth ------------------------------
(***************************************************************************)
(* Online and offline: the registration and the heartbeat goroutine of an  *)
(* agent (internal/agent/worker.go), the calls they make (client.go), the  *)
(* handlers (api/agents.go), the agents table (MemoryStore), and the       *)
(* checker that sweeps it (api/server.go).                                 *)
(*                                                                         *)
(* Time is discrete.  A request takes at most MaxDelay, and so does the    *)
(* way from the time stamp of an answer to the client; or the message is   *)
(* lost.  Everything else that is due at an instant happens before time    *)
(* goes on.  LastSeen is wall-clock time, which may be stepped: UTC()      *)
(* strips the monotonic reading.  The tickers and the client's timeout are *)
(* monotonic.                                                              *)
(*                                                                         *)
(* Polls are left out: next-job does not touch LastSeen, and the heartbeat *)
(* goroutine runs whatever job the agent executes.                         *)
(***************************************************************************)
EXTENDS Integers

CONSTANTS
    Agents,         \* agent identifiers, one process each at a time
    Period,         \* the heartbeat ticker
    ClientTimeout,  \* http.Client.Timeout
    Interval,       \* the checker's ticker
    Threshold,      \* the age at which an agent is stale
    MaxDelay,       \* the longest way of a message
    MaxFailures,    \* bound on the consecutive heartbeats that lose a message
    MaxSteps,       \* bound on the steps of the wall clock
    Forward,        \* how far such a step goes forward,
    Back            \* or back

ASSUME AgentHealthAssumption ==
    /\ {Period, ClientTimeout, Interval, Threshold} \subseteq Nat \ {0}
    /\ {MaxDelay, MaxFailures, MaxSteps, Forward, Back} \subseteq Nat
    /\ MaxDelay <= Threshold

VARIABLES
    status,    \* status[a]: Agent.Status, or unknown to the server
    age,       \* age[a]: the wall-clock time since Agent.LastSeen
    stepped,   \* the agents whose LastSeen is older than a step of the clock
    steps,     \* the steps of the clock so far
    checkIn,   \* the time until the checker's ticker fires
    place,     \* place[a]: where the process is: down, joining or up
    fireIn,    \* fireIn[a]: the time until the heartbeat ticker fires
    buffered,  \* the agents with a tick in ticker.C, a channel of capacity 1
    call,      \* call[a]: none, or the state of the call under way
    since,     \* since[a]: the time since the call began
    leg,       \* leg[a]: the time since the call's last message or time stamp
    failures,  \* failures[a]: consecutive failed calls of the process
    stray,     \* stray[a]: what a dead process left under way, or none
    strayLeg   \* strayLeg[a]: as leg

table   == <<status, age, stepped>>
server  == <<table, steps, checkIn>>
ticker  == <<fireIn, buffered>>
process == <<place, ticker, call, since, leg, failures>>
strays  == <<stray, strayLeg>>
vars    == <<server, process, strays>>

(* A registration and a heartbeat on their way to the server, the          *)
(* registration whose handler has read the clock and waits for the store's *)
(* lock, and the replies on their way back.                                *)
AtServer == {"register", "stamped", "heartbeat"}
UnderWay == AtServer \cup {"welcome", "ok"}

(* The oldest age told apart: beyond it nothing depends on the age.        *)
MaxAge == Threshold + Interval + Back + 1

-------------------------------------------------------------------------------
Init ==
    /\ status = [a \in Agents |-> "unknown"]
    /\ age = [a \in Agents |-> 0]
    /\ stepped = {}
    /\ steps = 0
    /\ checkIn = Interval
    /\ place = [a \in Agents |-> "down"]
    /\ fireIn = [a \in Agents |-> Period]
    /\ buffered = {}
    /\ call = [a \in Agents |-> "none"]
    /\ since = [a \in Agents |-> 0]
    /\ leg = [a \in Agents |-> 0]
    /\ failures = [a \in Agents |-> 0]
    /\ stray = [a \in Agents |-> "none"]
    /\ strayLeg = [a \in Agents |-> 0]

(* The record of a has Status online and a LastSeen read t ago.            *)
Seen(a, t) ==
    /\ status' = [status EXCEPT ![a] = "online"]
    /\ age' = [age EXCEPT ![a] = t]
    /\ stepped' = stepped \ {a}

(* Slips: only the status is renewed; only LastSeen is.                    *)
HeartbeatStatusOnly(a) ==
    /\ status' = [status EXCEPT ![a] = IF @ = "unknown" THEN @ ELSE "online"]
    /\ UNCHANGED <<age, stepped>>

HeartbeatLastSeenOnly(a) ==
    IF status[a] = "unknown" THEN UNCHANGED table
    ELSE age' = [age EXCEPT ![a] = 0] /\ stepped' = stepped \ {a} /\ UNCHANGED status

(* A slip: a heartbeat creates the record that is missing.                 *)
HeartbeatUpserts(a) == Seen(a, 0)

(* Heartbeat: an error, hence a 404, for an unknown agent.                 *)
Heartbeat(a) == IF status[a] = "unknown" THEN UNCHANGED table ELSE Seen(a, 0)

-------------------------------------------------------------------------------
(* The process.  Do sends a request.                                       *)
Begin(a, request) ==
    /\ call' = [call EXCEPT ![a] = request]
    /\ since' = [since EXCEPT ![a] = 0]
    /\ leg' = [leg EXCEPT ![a] = 0]

(* Run registers first.                                                    *)
Start(a) ==
    /\ place[a] = "down"
    /\ place' = [place EXCEPT ![a] = "joining"]
    /\ failures' = [failures EXCEPT ![a] = 0]
    /\ Begin(a, "register")
    /\ UNCHANGED <<server, ticker, strays>>

(* A slip: the heartbeat ticker is given the interval of the sweep.        *)
JoinWithInterval(a) ==
    /\ call[a] = "welcome"
    /\ call' = [call EXCEPT ![a] = "none"]
    /\ place' = [place EXCEPT ![a] = "up"]
    /\ fireIn' = [fireIn EXCEPT ![a] = Interval]
    /\ UNCHANGED <<server, buffered, since, leg, failures, strays>>

(* With the reply Run starts the goroutine, and that its ticker.           *)
Join(a) ==
    /\ call[a] = "welcome"
    /\ call' = [call EXCEPT ![a] = "none"]
    /\ place' = [place EXCEPT ![a] = "up"]
    /\ fireIn' = [fireIn EXCEPT ![a] = Period]
    /\ UNCHANGED <<server, buffered, since, leg, failures, strays>>

(* A tick that finds the channel full is dropped.                          *)
Fire(a) ==
    /\ place[a] = "up" /\ fireIn[a] = 0
    /\ buffered' = buffered \cup {a}
    /\ fireIn' = [fireIn EXCEPT ![a] = Period]
    /\ UNCHANGED <<server, place, call, since, leg, failures, strays>>

(* The goroutine takes the tick once its previous call has returned.       *)
Send(a) ==
    /\ a \in buffered /\ call[a] = "none"
    /\ buffered' = buffered \ {a}
    /\ Begin(a, "heartbeat")
    /\ UNCHANGED <<server, place, fireIn, failures, strays>>

Return(a) ==
    /\ call[a] = "ok"
    /\ call' = [call EXCEPT ![a] = "none"]
    /\ failures' = [failures EXCEPT ![a] = 0]
    /\ UNCHANGED <<server, place, ticker, since, leg, strays>>

(* The call returns an error: a heartbeat's is logged, a registration's    *)
(* ends the process.                                                       *)
Fail(a) ==
    /\ call' = [call EXCEPT ![a] = "none"]
    /\ place' = [place EXCEPT ![a] = IF @ = "joining" THEN "down" ELSE @]

(* A message is lost, or the connection fails and the call returns at      *)
(* once.                                                                   *)
Lose(a) ==
    /\ call[a] \in UnderWay \ {"stamped"}
    /\ failures[a] < MaxFailures
    /\ failures' = [failures EXCEPT ![a] = @ + 1]
    /\ \/ Fail(a)
       \/ call' = [call EXCEPT ![a] = "lost"] /\ UNCHANGED place
    /\ UNCHANGED <<server, ticker, since, leg, strays>>

(* The http.Client gives up.                                               *)
TimeOut(a) ==
    /\ call[a] # "none" /\ since[a] = ClientTimeout
    /\ Fail(a)
    /\ UNCHANGED <<server, ticker, since, leg, failures, strays>>

(* The process dies or is stopped.  Its request may still arrive, and the  *)
(* handler that has it goes on; at most one stray at a time.               *)
Crash(a) ==
    /\ place[a] # "down"
    /\ \/ /\ call[a] \in AtServer /\ stray[a] = "none"
          /\ stray' = [stray EXCEPT ![a] = call[a]]
          /\ strayLeg' = [strayLeg EXCEPT ![a] = leg[a]]
       \/ call[a] # "stamped" /\ UNCHANGED strays
    /\ place' = [place EXCEPT ![a] = "down"]
    /\ buffered' = buffered \ {a}
    /\ fireIn' = [fireIn EXCEPT ![a] = Period]
    /\ call' = [call EXCEPT ![a] = "none"]
    /\ UNCHANGED <<server, since, leg, failures>>

-------------------------------------------------------------------------------
(* The server.  handleRegisterAgent reads the clock before it waits for    *)
(* the store's lock.                                                       *)
Stamp(a) ==
    /\ call[a] = "register"
    /\ call' = [call EXCEPT ![a] = "stamped"]
    /\ leg' = [leg EXCEPT ![a] = 0]
    /\ UNCHANGED <<server, place, ticker, since, failures, strays>>

(* RegisterAgent: whatever the table holds for a is overwritten.           *)
Register(a) ==
    /\ call[a] = "stamped"
    /\ Seen(a, leg[a])
    /\ call' = [call EXCEPT ![a] = "welcome"]
    /\ UNCHANGED <<steps, checkIn, place, ticker, since, leg, failures, strays>>

HandleHeartbeat(a) ==
    /\ call[a] = "heartbeat"
    /\ Heartbeat(a)
    /\ call' = [call EXCEPT ![a] = "ok"]
    /\ leg' = [leg EXCEPT ![a] = 0]
    /\ UNCHANGED <<steps, checkIn, place, ticker, since, failures, strays>>

(* The same for a request nobody waits for any more.                       *)
HandleStray(a) ==
    /\ \/ stray[a] = "register" /\ stray' = [stray EXCEPT ![a] = "stamped"] /\ UNCHANGED table
       \/ stray[a] = "stamped" /\ stray' = [stray EXCEPT ![a] = "none"] /\ Seen(a, strayLeg[a])
       \/ stray[a] = "heartbeat" /\ stray' = [stray EXCEPT ![a] = "none"] /\ Heartbeat(a)
    /\ strayLeg' = [strayLeg EXCEPT ![a] = 0]
    /\ UNCHANGED <<steps, checkIn, process>>

(* Slips: an age of exactly the threshold is stale; only ages beyond it by *)
(* two units are; the status is tested the wrong way round.                *)
StaleAtThreshold(a) == status[a] = "online" /\ age[a] >= Threshold

StaleTooLate(a) == status[a] = "online" /\ age[a] > Threshold + 1

StaleWhenOffline(a) == status[a] = "offline" /\ age[a] > Threshold

Stale(a) == status[a] = "online" /\ age[a] > Threshold

(* MarkStaleAgentsOffline, under one lock for the whole table.             *)
Check ==
    /\ checkIn = 0
    /\ status' = [a \in Agents |-> IF Stale(a) THEN "offline" ELSE status[a]]
    /\ checkIn' = Interval
    /\ UNCHANGED <<age, stepped, steps, process, strays>>

(* The server is restarted with an empty table.  No agent notices: Run     *)
(* registers once, and a heartbeat that is answered 404 is only logged.    *)
(* The handlers that wait for the lock are gone, and their connections.    *)
RestartServer ==
    /\ status' = [a \in Agents |-> "unknown"]
    /\ age' = [a \in Agents |-> 0]
    /\ stepped' = {}
    /\ checkIn' = Interval
    /\ call' = [a \in Agents |-> IF call[a] = "stamped" THEN "none" ELSE call[a]]
    /\ place' = [a \in Agents |-> IF call[a] = "stamped" THEN "down" ELSE place[a]]
    /\ stray' = [a \in Agents |-> IF stray[a] = "stamped" THEN "none" ELSE stray[a]]
    /\ UNCHANGED <<steps, ticker, since, leg, failures, strayLeg>>

-------------------------------------------------------------------------------
(* The wall clock is stepped, while no handler is between its stamp and    *)
(* the lock.                                                               *)
StepClock ==
    /\ steps < MaxSteps
    /\ \A a \in Agents : "stamped" \notin {call[a], stray[a]}
    /\ \E d \in {Forward, -Back} :
          age' = [a \in Agents |-> IF status[a] = "unknown" THEN 0
                                   ELSE IF age[a] + d < MaxAge THEN age[a] + d ELSE MaxAge]
    /\ stepped' = {a \in Agents : status[a] # "unknown"}
    /\ steps' = steps + 1
    /\ UNCHANGED <<status, checkIn, process, strays>>

(* Nothing is due: time goes on.                                           *)
Due(a) ==
    \/ place[a] = "up" /\ fireIn[a] = 0
    \/ a \in buffered /\ call[a] = "none"
    \/ call[a] \in UnderWay /\ leg[a] = MaxDelay
    \/ call[a] # "none" /\ since[a] = ClientTimeout
    \/ stray[a] # "none" /\ strayLeg[a] = MaxDelay

Tick ==
    /\ checkIn > 0
    /\ \A a \in Agents : ~ Due(a)
    /\ checkIn' = checkIn - 1
    /\ age' = [a \in Agents |-> IF status[a] # "unknown" /\ age[a] < MaxAge THEN age[a] + 1 ELSE age[a]]
    /\ fireIn' = [a \in Agents |-> IF place[a] = "up" THEN fireIn[a] - 1 ELSE fireIn[a]]
    /\ since' = [a \in Agents |-> IF call[a] # "none" THEN since[a] + 1 ELSE 0]
    /\ leg' = [a \in Agents |-> IF call[a] \in UnderWay THEN leg[a] + 1 ELSE 0]
    /\ strayLeg' = [a \in Agents |-> IF stray[a] # "none" THEN strayLeg[a] + 1 ELSE 0]
    /\ UNCHANGED <<status, stepped, steps, place, buffered, call, failures, stray>>

-------------------------------------------------------------------------------
Next ==
    \/ Check \/ Tick \/ RestartServer \/ StepClock
    \/ \E a \in Agents :
           \/ Start(a) \/ Join(a) \/ Fire(a) \/ Send(a) \/ Return(a)
           \/ Lose(a) \/ TimeOut(a) \/ Crash(a)
           \/ Stamp(a) \/ Register(a) \/ HandleHeartbeat(a) \/ HandleStray(a)

(* Time passes and what is due is done.                                    *)
Fairness ==
    /\ WF_vars(Tick) /\ WF_vars(Check)
    /\ \A a \in Agents :
           /\ WF_vars(Join(a)) /\ WF_vars(Fire(a)) /\ WF_vars(Send(a))
           /\ WF_vars(Return(a)) /\ WF_vars(TimeOut(a))
           /\ WF_vars(Stamp(a)) /\ WF_vars(Register(a))
           /\ WF_vars(HandleHeartbeat(a)) /\ WF_vars(HandleStray(a))

Spec == Init /\ [][Next]_vars /\ Fairness

-------------------------------------------------------------------------------
(* Types, and how far every clock runs.                                    *)
TypeOK ==
    /\ status \in [Agents -> {"unknown", "online", "offline"}]
    /\ age \in [Agents -> {n \in Int : n <= MaxAge}]
    /\ stepped \subseteq Agents
    /\ steps \in 0 .. MaxSteps
    /\ checkIn \in 0 .. Interval
    /\ place \in [Agents -> {"down", "joining", "up"}]
    /\ fireIn \in [Agents -> 0 .. Period]
    /\ buffered \subseteq {a \in Agents : place[a] = "up"}
    /\ call \in [Agents -> UnderWay \cup {"none", "lost"}]
    /\ since \in [Agents -> 0 .. ClientTimeout]
    /\ leg \in [Agents -> 0 .. MaxDelay]
    /\ failures \in [Agents -> 0 .. MaxFailures]
    /\ stray \in [Agents -> AtServer \cup {"none"}]
    /\ strayLeg \in [Agents -> 0 .. MaxDelay]

(* A running agent the server knows is never shown offline, unless the     *)
(* clock was stepped since it was last heard of: although a lost message   *)
(* blocks its heartbeat goroutine for the whole client timeout, although   *)
(* the ticks meanwhile are dropped but one, and although its registration  *)
(* or that of the process before may put an older stamp in the table.      *)
NoFalseOffline ==
    \A a \in Agents \ stepped : place[a] = "up" => status[a] # "offline"

(* An agent is never shown online longer than a threshold and a sweep      *)
(* after it was last heard of, late requests of a dead process included,   *)
(* again unless the clock was stepped.                                     *)
DetectionBound ==
    \A a \in Agents \ stepped : status[a] = "online" => age[a] <= Threshold + Interval

(* Sweep and heartbeat never disagree: an agent shown offline has not been *)
(* heard of for longer than the threshold.                                 *)
OfflineMeansStale ==
    \A a \in Agents \ stepped : status[a] = "offline" => age[a] > Threshold

(* What the server has forgotten stays forgotten: as long as the process   *)
(* runs and no registration of the one before arrives, no heartbeat brings *)
(* the agent back to the list.                                             *)
ForgottenStays ==
    [][\A a \in Agents :
          status[a] = "unknown" /\ place[a] = "up" /\ stray[a] # "stamped"
              => status'[a] = "unknown"]_vars

(* An agent that dies for good is not shown online for ever: time is not   *)
(* held up by calls that hang, the sweep comes round, and a clock that was *)
(* set back only delays it.                                                *)
CrashedDetected ==
    \A a \in Agents : place[a] = "down" ~> (status[a] # "online" \/ place[a] # "down")

(* A running agent that a step of the clock has made offline does not stay *)
(* so: a later heartbeat brings it back.                                   *)
OfflineRecovers ==
    \A a \in Agents :
        (status[a] = "offline" /\ place[a] = "up") ~> (status[a] # "offline" \/ place[a] # "up")

===============================================================================
