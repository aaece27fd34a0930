--------------------------- MODULE AgentHealthProofs ---------------------------
(***************************************************************************)
(* Proofs about AgentHealth, for any set of agents and any intervals.      *)
(*                                                                         *)
(* The two facts the safety theorems rest on are which call goes with      *)
(* which state of the process (Roles), and that the age of an agent shown  *)
(* online grows no faster than the sweep approaches (AgeBound).            *)
(***************************************************************************)
EXTENDS AgentHealth, TLAPS

(* A process that registers is joining, one that sends heartbeats is up,   *)
(* and one that is down has no call.                                       *)
Roles ==
    \A a \in Agents :
        /\ call[a] \in {"register", "stamped", "welcome"} => place[a] = "joining"
        /\ call[a] \in {"heartbeat", "ok"} => place[a] = "up"
        /\ place[a] = "down" => call[a] = "none"

(* The age of an agent shown online, unless the clock was stepped: at most *)
(* the threshold after a sweep, and no more than has passed since.         *)
AgeBound ==
    \A a \in Agents \ stepped :
        status[a] = "online" => age[a] <= Threshold + (Interval - checkIn)

THEOREM InitTyped == Init => TypeOK /\ Roles
BY AgentHealthAssumption DEF Init, TypeOK, Roles, MaxAge, UnderWay, AtServer

(* Next preserves the types and the roles.                                 *)
LEMMA StepTyped == TypeOK /\ Roles /\ [Next]_vars => TypeOK' /\ Roles'
<1> SUFFICES ASSUME TypeOK, Roles, [Next]_vars PROVE TypeOK' /\ Roles'
  OBVIOUS
<1> USE AgentHealthAssumption DEF TypeOK, Roles, MaxAge, UnderWay, AtServer,
        server, table, ticker, process, strays
<1>1. CASE Check
  BY <1>1 DEF Check
<1>2. CASE Tick
  <2>1. checkIn' \in 0 .. Interval
    BY <1>2 DEF Tick
  <2>2. age' \in [Agents -> {n \in Int : n <= MaxAge}]
    BY <1>2 DEF Tick
  <2>3. ASSUME NEW a \in Agents
        PROVE  /\ place[a] = "up" => fireIn[a] # 0
               /\ call[a] # "none" => since[a] # ClientTimeout
               /\ call[a] \in UnderWay => leg[a] # MaxDelay
               /\ stray[a] # "none" => strayLeg[a] # MaxDelay
    BY <1>2 DEF Tick, Due
  <2>4. ASSUME NEW a \in Agents
        PROVE  /\ fireIn'[a] \in 0 .. Period
               /\ since'[a] \in 0 .. ClientTimeout
               /\ leg'[a] \in 0 .. MaxDelay
               /\ strayLeg'[a] \in 0 .. MaxDelay
    <3>1. /\ fireIn'[a] = IF place[a] = "up" THEN fireIn[a] - 1 ELSE fireIn[a]
          /\ since'[a] = IF call[a] # "none" THEN since[a] + 1 ELSE 0
          /\ leg'[a] = IF call[a] \in UnderWay THEN leg[a] + 1 ELSE 0
          /\ strayLeg'[a] = IF stray[a] # "none" THEN strayLeg[a] + 1 ELSE 0
      BY <1>2 DEF Tick
    <3>2. /\ fireIn[a] \in 0 .. Period /\ since[a] \in 0 .. ClientTimeout
          /\ leg[a] \in 0 .. MaxDelay /\ strayLeg[a] \in 0 .. MaxDelay
      OBVIOUS
    <3>3. /\ Period \in Nat /\ ClientTimeout \in Nat /\ MaxDelay \in Nat
      OBVIOUS
    <3> HIDE DEF TypeOK, Roles, UnderWay
    <3>4. fireIn'[a] \in 0 .. Period
      BY <2>3, <3>1, <3>2, <3>3
    <3>5. since'[a] \in 0 .. ClientTimeout
      BY <2>3, <3>1, <3>2, <3>3
    <3>6. leg'[a] \in 0 .. MaxDelay
      BY <2>3, <3>1, <3>2, <3>3
    <3>7. strayLeg'[a] \in 0 .. MaxDelay
      BY <2>3, <3>1, <3>2, <3>3
    <3> QED
      BY <3>4, <3>5, <3>6, <3>7
  <2>5. /\ fireIn' \in [Agents -> 0 .. Period]
        /\ since' \in [Agents -> 0 .. ClientTimeout]
    BY <1>2, <2>4 DEF Tick
  <2>6. /\ leg' \in [Agents -> 0 .. MaxDelay]
        /\ strayLeg' \in [Agents -> 0 .. MaxDelay]
    BY <1>2, <2>4 DEF Tick
  <2> QED
    BY <1>2, <2>1, <2>2, <2>5, <2>6 DEF Tick
<1>3. CASE RestartServer
  BY <1>3 DEF RestartServer
<1>4. CASE StepClock
  BY <1>4 DEF StepClock
<1>5. ASSUME NEW a \in Agents, Start(a) PROVE TypeOK' /\ Roles'
  BY <1>5 DEF Start, Begin
<1>6. ASSUME NEW a \in Agents, Join(a) PROVE TypeOK' /\ Roles'
  BY <1>6 DEF Join
<1>7. ASSUME NEW a \in Agents, Fire(a) PROVE TypeOK' /\ Roles'
  BY <1>7 DEF Fire
<1>8. ASSUME NEW a \in Agents, Send(a) PROVE TypeOK' /\ Roles'
  BY <1>8 DEF Send, Begin
<1>9. ASSUME NEW a \in Agents, Return(a) PROVE TypeOK' /\ Roles'
  BY <1>9 DEF Return
<1>10. ASSUME NEW a \in Agents, Lose(a) PROVE TypeOK' /\ Roles'
  BY <1>10 DEF Lose, Fail
<1>11. ASSUME NEW a \in Agents, TimeOut(a) PROVE TypeOK' /\ Roles'
  BY <1>11 DEF TimeOut, Fail
<1>12. ASSUME NEW a \in Agents, Crash(a) PROVE TypeOK' /\ Roles'
  BY <1>12 DEF Crash
<1>13. ASSUME NEW a \in Agents, Stamp(a) PROVE TypeOK' /\ Roles'
  BY <1>13 DEF Stamp
<1>14. ASSUME NEW a \in Agents, Register(a) PROVE TypeOK' /\ Roles'
  BY <1>14 DEF Register, Seen
<1>15. ASSUME NEW a \in Agents, HandleHeartbeat(a) PROVE TypeOK' /\ Roles'
  BY <1>15 DEF HandleHeartbeat, Heartbeat, Seen
<1>16. ASSUME NEW a \in Agents, HandleStray(a) PROVE TypeOK' /\ Roles'
  BY <1>16 DEF HandleStray, Heartbeat, Seen
<1>17. CASE UNCHANGED vars
  BY <1>17 DEF vars
<1> QED
  BY <1>1, <1>2, <1>3, <1>4, <1>5, <1>6, <1>7, <1>8, <1>9, <1>10, <1>11, <1>12,
     <1>13, <1>14, <1>15, <1>16, <1>17 DEF Next

(* TypeOK: the types, and how far every clock runs, for any intervals and  *)
(* any delays.                                                             *)
THEOREM TypeCorrect == Spec => [](TypeOK /\ Roles)
BY InitTyped, StepTyped, PTL DEF Spec

(* A step leaves the ages of the agents shown online within the bound.     *)
LEMMA StepAge == TypeOK /\ Roles /\ AgeBound /\ [Next]_vars => AgeBound'
<1> SUFFICES ASSUME TypeOK, Roles, AgeBound, [Next]_vars PROVE AgeBound'
  OBVIOUS
<1> USE AgentHealthAssumption DEF TypeOK, AgeBound, MaxAge, server, table, ticker, process, strays
<1>1. CASE Check
  BY <1>1 DEF Check, Stale
<1>2. CASE Tick
  BY <1>2 DEF Tick
<1>3. CASE RestartServer
  BY <1>3 DEF RestartServer
<1>4. CASE StepClock
  BY <1>4 DEF StepClock
<1>5. ASSUME NEW a \in Agents,
             \/ Start(a) \/ Join(a) \/ Fire(a) \/ Send(a) \/ Return(a)
             \/ Lose(a) \/ TimeOut(a) \/ Crash(a) \/ Stamp(a)
      PROVE  UNCHANGED server
  BY <1>5 DEF Start, Join, Fire, Send, Return, Lose, TimeOut, Crash, Stamp
<1>6. ASSUME NEW a \in Agents, Register(a) PROVE AgeBound'
  BY <1>6 DEF Register, Seen
<1>7. ASSUME NEW a \in Agents, HandleHeartbeat(a) PROVE AgeBound'
  BY <1>7 DEF HandleHeartbeat, Heartbeat, Seen
<1>8. ASSUME NEW a \in Agents, HandleStray(a) PROVE AgeBound'
  BY <1>8 DEF HandleStray, Heartbeat, Seen
<1>9. CASE UNCHANGED vars
  BY <1>9 DEF vars
<1>10. ASSUME UNCHANGED server PROVE AgeBound'
  BY <1>10
<1> QED
  BY <1>1, <1>2, <1>3, <1>4, <1>5, <1>6, <1>7, <1>8, <1>9, <1>10 DEF Next

(* DetectionBound: no agent is shown online more than a threshold and a    *)
(* sweep after it was last heard of, unless the clock was stepped, however *)
(* late the requests of dead processes arrive.                             *)
THEOREM DetectionCorrect == Spec => []DetectionBound
<1>1. Init => AgeBound
  BY DEF Init, AgeBound
<1>2. TypeOK /\ AgeBound => DetectionBound
  BY AgentHealthAssumption DEF TypeOK, AgeBound, DetectionBound
<1> QED
  BY <1>1, <1>2, TypeCorrect, StepAge, PTL DEF Spec

(* A step shows offline only who has not been heard of for long enough.    *)
LEMMA StepOffline ==
    TypeOK /\ OfflineMeansStale /\ [Next]_vars => OfflineMeansStale'
<1> SUFFICES ASSUME TypeOK, OfflineMeansStale, [Next]_vars PROVE OfflineMeansStale'
  OBVIOUS
<1> USE AgentHealthAssumption DEF TypeOK, OfflineMeansStale, MaxAge,
        server, table, ticker, process, strays
<1>1. CASE Check
  BY <1>1 DEF Check, Stale
<1>2. CASE Tick
  BY <1>2 DEF Tick
<1>3. CASE RestartServer
  BY <1>3 DEF RestartServer
<1>4. CASE StepClock
  BY <1>4 DEF StepClock
<1>5. ASSUME NEW a \in Agents,
             \/ Start(a) \/ Join(a) \/ Fire(a) \/ Send(a) \/ Return(a)
             \/ Lose(a) \/ TimeOut(a) \/ Crash(a) \/ Stamp(a)
      PROVE  UNCHANGED server
  BY <1>5 DEF Start, Join, Fire, Send, Return, Lose, TimeOut, Crash, Stamp
<1>6. ASSUME NEW a \in Agents, Register(a) PROVE OfflineMeansStale'
  BY <1>6 DEF Register, Seen
<1>7. ASSUME NEW a \in Agents, HandleHeartbeat(a) PROVE OfflineMeansStale'
  BY <1>7 DEF HandleHeartbeat, Heartbeat, Seen
<1>8. ASSUME NEW a \in Agents, HandleStray(a) PROVE OfflineMeansStale'
  BY <1>8 DEF HandleStray, Heartbeat, Seen
<1>9. CASE UNCHANGED vars
  BY <1>9 DEF vars
<1>10. ASSUME UNCHANGED server PROVE OfflineMeansStale'
  BY <1>10
<1> QED
  BY <1>1, <1>2, <1>3, <1>4, <1>5, <1>6, <1>7, <1>8, <1>9, <1>10 DEF Next

(* OfflineMeansStale: an agent shown offline was not heard of for longer   *)
(* than the threshold, unless the clock was stepped.                       *)
THEOREM OfflineCorrect == Spec => []OfflineMeansStale
<1>1. Init => OfflineMeansStale
  BY DEF Init, OfflineMeansStale
<1> QED
  BY <1>1, TypeCorrect, StepOffline, PTL DEF Spec

(* ForgottenStays: while a process runs on, no heartbeat of it and no      *)
(* sweep puts it back in the table of a restarted server.                  *)
THEOREM ForgottenCorrect == Spec => ForgottenStays
<1> DEFINE Stays(a) ==
        status[a] = "unknown" /\ place[a] = "up" /\ stray[a] # "stamped" => status'[a] = "unknown"
<1>1. ASSUME TypeOK, Roles, [Next]_vars, NEW a \in Agents PROVE Stays(a)
  <2> USE <1>1 DEF TypeOK, server, table
  <2>1. CASE Check
    BY <2>1 DEF Check, Stale
  <2>2. CASE Tick \/ StepClock \/ RestartServer
    BY <2>2 DEF Tick, StepClock, RestartServer
  <2>3. ASSUME NEW b \in Agents,
               \/ Start(b) \/ Join(b) \/ Fire(b) \/ Send(b) \/ Return(b)
               \/ Lose(b) \/ TimeOut(b) \/ Crash(b) \/ Stamp(b)
        PROVE  Stays(a)
    BY <2>3 DEF Start, Join, Fire, Send, Return, Lose, TimeOut, Crash, Stamp
  <2>4. ASSUME NEW b \in Agents, Register(b) PROVE Stays(a)
    BY <2>4 DEF Register, Seen, Roles
  <2>5. ASSUME NEW b \in Agents, HandleHeartbeat(b) PROVE Stays(a)
    BY <2>5 DEF HandleHeartbeat, Heartbeat, Seen
  <2>6. ASSUME NEW b \in Agents, HandleStray(b) PROVE Stays(a)
    BY <2>6 DEF HandleStray, Heartbeat, Seen
  <2>7. CASE UNCHANGED vars
    BY <2>7 DEF vars
  <2> QED
    BY <2>1, <2>2, <2>3, <2>4, <2>5, <2>6, <2>7 DEF Next
<1>2. TypeOK /\ Roles /\ [Next]_vars => [\A a \in Agents : Stays(a)]_vars
  BY <1>1
<1> QED
  BY <1>2, TypeCorrect, PTL DEF Spec, ForgottenStays

-------------------------------------------------------------------------------
(* What the intervals must satisfy.  In between two renewals of LastSeen   *)
(* there may be: the way of a registration's stamp back to the agent and a *)
(* stray registration, both up to MaxDelay old when they are stored; a     *)
(* period; for every heartbeat that fails, the time until the next is sent,*)
(* which is the timeout that blocks the goroutine or else a period; and    *)
(* the way of the one that is answered.                                    *)
Retry == IF Period < ClientTimeout THEN ClientTimeout ELSE Period

Intervals ==
    /\ 3 * MaxDelay + Period + MaxFailures * Retry <= Threshold
    /\ MaxDelay < ClientTimeout

(* The greatest age when a heartbeat is sent after n that failed.          *)
Sent(n) == 2 * MaxDelay + Period + n * Retry

LEMMA SentBounds ==
    ASSUME Intervals
    PROVE  /\ Sent(0) = 2 * MaxDelay + Period
           /\ \A n \in 0 .. MaxFailures :
                  /\ Sent(n) \in Nat
                  /\ Sent(n) >= 2 * MaxDelay + Period
                  /\ Sent(n) + MaxDelay <= Threshold
           /\ \A n \in Nat : /\ Sent(n) \in Nat
                             /\ Sent(n + 1) = Sent(n) + Retry
<1>1. /\ Retry \in Nat /\ MaxDelay \in Nat /\ Period \in Nat
      /\ MaxFailures \in Nat /\ Threshold \in Nat
  BY AgentHealthAssumption DEF Retry
<1>2. \A n \in Nat : n * Retry \in Nat /\ (n + 1) * Retry = n * Retry + Retry
  BY <1>1
<1>3. ASSUME NEW n \in 0 .. MaxFailures
      PROVE  n * Retry <= MaxFailures * Retry
  <2>1. (MaxFailures - n) * Retry >= 0
    BY <1>1
  <2>2. (MaxFailures - n) * Retry = MaxFailures * Retry - n * Retry
    BY <1>1
  <2> QED BY <1>1, <1>2, <2>1, <2>2
<1>4. 0 * Retry = 0 /\ MaxFailures * Retry \in Nat
  BY <1>1
<1> QED BY <1>1, <1>2, <1>3, <1>4 DEF Sent, Intervals

(* How old LastSeen may be in each state of the heartbeat goroutine.       *)
Renewed(a) ==
    /\ call[a] = "none" =>
          /\ age[a] <= Sent(failures[a])
          /\ a \notin buffered => age[a] + fireIn[a] <= Sent(failures[a])
    /\ call[a] = "heartbeat" =>
          /\ age[a] <= Sent(failures[a]) + since[a]
          /\ a \notin buffered => age[a] + fireIn[a] <= Sent(failures[a] + 1)
    /\ call[a] = "lost" =>
          /\ age[a] <= Sent(failures[a] - 1) + since[a]
          /\ a \notin buffered => age[a] + fireIn[a] <= Sent(failures[a])
    /\ call[a] = "ok" => age[a] <= leg[a] + MaxDelay

(* The strengthening of NoFalseOffline that is inductive.                  *)
AliveAt(a) ==
    /\ call[a] = "lost" => failures[a] >= 1
    /\ call[a] = "heartbeat" => since[a] = leg[a]
    /\ a \notin stepped /\ (call[a] = "welcome" \/ place[a] = "up") => status[a] # "offline"
    /\ a \notin stepped /\ status[a] = "online" /\ call[a] = "welcome" => age[a] <= leg[a] + MaxDelay
    /\ a \notin stepped /\ status[a] = "online" /\ place[a] = "up" => Renewed(a)

Alive == \A a \in Agents : AliveAt(a)

(* Whom a step does not touch stays alive.                                 *)
Untouched(a) ==
    /\ status'[a] = status[a] /\ age'[a] = age[a] /\ (a \in stepped' <=> a \in stepped)
    /\ place'[a] = place[a] /\ fireIn'[a] = fireIn[a] /\ (a \in buffered' <=> a \in buffered)
    /\ call'[a] = call[a] /\ since'[a] = since[a] /\ leg'[a] = leg[a]
    /\ failures'[a] = failures[a]

LEMMA UntouchedAlive ==
    ASSUME NEW a \in Agents, AliveAt(a), Untouched(a)
    PROVE  AliveAt(a)'
BY DEF AliveAt, Untouched, Renewed

(* The types of one agent's clocks.                                        *)
LEMMA Clocks ==
    ASSUME TypeOK, NEW a \in Agents
    PROVE  /\ age[a] \in Int /\ leg[a] \in 0 .. MaxDelay /\ strayLeg[a] \in 0 .. MaxDelay
           /\ since[a] \in 0 .. ClientTimeout /\ fireIn[a] \in 0 .. Period
           /\ failures[a] \in 0 .. MaxFailures
           /\ Period \in Nat /\ ClientTimeout \in Nat /\ Interval \in Nat
           /\ Threshold \in Nat /\ MaxDelay \in Nat /\ MaxFailures \in Nat
BY AgentHealthAssumption DEF TypeOK, MaxAge

(* The greatest ages before, at and after this heartbeat.                  *)
LEMMA SentAt ==
    ASSUME Intervals, TypeOK, NEW a \in Agents
    PROVE  /\ Retry \in Nat /\ Period <= Retry /\ ClientTimeout <= Retry
           /\ MaxDelay < ClientTimeout
           /\ Sent(0) = 2 * MaxDelay + Period
           /\ Sent(failures[a]) \in Nat
           /\ Sent(failures[a]) >= 2 * MaxDelay + Period
           /\ Sent(failures[a]) + MaxDelay <= Threshold
           /\ Sent(failures[a] + 1) = Sent(failures[a]) + Retry
           /\ failures[a] >= 1 =>
                  /\ Sent(failures[a] - 1) \in Nat
                  /\ Sent(failures[a] - 1) >= 2 * MaxDelay + Period
                  /\ Sent(failures[a]) = Sent(failures[a] - 1) + Retry
<1>1. failures[a] \in 0 .. MaxFailures /\ MaxFailures \in Nat
  BY Clocks
<1>2. failures[a] >= 1 => failures[a] - 1 \in 0 .. MaxFailures
  BY <1>1
<1>3. /\ Sent(0) = 2 * MaxDelay + Period
      /\ Sent(failures[a]) \in Nat
      /\ Sent(failures[a]) >= 2 * MaxDelay + Period
      /\ Sent(failures[a]) + MaxDelay <= Threshold
      /\ Sent(failures[a] + 1) = Sent(failures[a]) + Retry
  BY <1>1, SentBounds
<1>4. ASSUME failures[a] >= 1
      PROVE  /\ Sent(failures[a] - 1) \in Nat
             /\ Sent(failures[a] - 1) >= 2 * MaxDelay + Period
             /\ Sent(failures[a]) = Sent(failures[a] - 1) + Retry
  <2>1. PICK n \in 0 .. MaxFailures : n = failures[a] - 1
    BY <1>2, <1>4
  <2>2. n \in Nat /\ failures[a] = n + 1
    BY <1>1, <2>1
  <2>3. Sent(n) \in Nat /\ Sent(n) >= 2 * MaxDelay + Period /\ Sent(n + 1) = Sent(n) + Retry
    BY <2>2, SentBounds
  <2> QED BY <2>1, <2>2, <2>3
<1>5. Retry \in Nat /\ Period <= Retry /\ ClientTimeout <= Retry /\ MaxDelay < ClientTimeout
  BY AgentHealthAssumption DEF Retry, Intervals
<1> QED BY <1>3, <1>4, <1>5

(* A record that is renewed, with a stamp no older than a message, is as   *)
(* young as every state of the goroutine asks for.                         *)
LEMMA SeenAlive ==
    ASSUME TypeOK, Intervals, NEW a \in Agents, AliveAt(a), NEW t \in 0 .. MaxDelay, Seen(a, t),
           UNCHANGED <<place, fireIn, buffered, call, since, leg, failures>>
    PROVE  AliveAt(a)'
<1>1. status'[a] = "online" /\ age'[a] = t /\ a \notin stepped'
  BY DEF Seen, TypeOK
<1> QED
  BY <1>1, Clocks, SentAt DEF AliveAt, Renewed

LEMMA StepAlive ==
    ASSUME Intervals, TypeOK, Roles, Alive, [Next]_vars
    PROVE  Alive'
<1> SUFFICES ASSUME NEW a \in Agents PROVE AliveAt(a)'
  BY DEF Alive
<1>0. AliveAt(a)
  BY DEF Alive
<1> USE DEF server, table, ticker, process, strays
<1>1. CASE Check
  <2>1. a \notin stepped /\ status[a] = "online" /\ place[a] = "up" => ~ Stale(a)
    <3>1. place[a] = "up" => call[a] \in {"none", "heartbeat", "lost", "ok"}
      BY DEF TypeOK, Roles, UnderWay, AtServer
    <3> SUFFICES ASSUME a \notin stepped, status[a] = "online", place[a] = "up"
                 PROVE  age[a] <= Threshold
      BY Clocks DEF Stale
    <3>2. Renewed(a)
      BY <1>0 DEF AliveAt
    <3>3. call[a] = "lost" => failures[a] >= 1 /\ since[a] <= Retry
      BY <1>0, Clocks, SentAt DEF AliveAt
    <3>a. call[a] = "heartbeat" => since[a] = leg[a]
      BY <1>0 DEF AliveAt
    <3>4. CASE call[a] = "none"
      BY <3>2, <3>3, <3>4, Clocks, SentAt DEF Renewed
    <3>5. CASE call[a] = "lost"
      BY <3>2, <3>3, <3>5, Clocks, SentAt DEF Renewed
    <3>6. CASE call[a] = "heartbeat"
      BY <3>2, <3>a, <3>6, Clocks, SentAt DEF Renewed
    <3>7. CASE call[a] = "ok"
      BY <3>2, <3>3, <3>7, Clocks, SentAt DEF Renewed
    <3> QED
      BY <3>1, <3>4, <3>5, <3>6, <3>7
  <2>2. a \notin stepped /\ status[a] = "online" /\ call[a] = "welcome" => ~ Stale(a)
    BY <1>0, Clocks, SentAt DEF AliveAt, Stale
  <2>3. status'[a] = IF Stale(a) THEN "offline" ELSE status[a]
    BY <1>1 DEF Check
  <2>4. UNCHANGED <<age, stepped, process>>
    BY <1>1 DEF Check
  <2>5. \/ status'[a] = status[a]
        \/ Stale(a) /\ status'[a] = "offline" /\ status[a] = "online"
    <3>1. CASE Stale(a)
      BY <2>3, <3>1 DEF Stale
    <3>2. CASE ~ Stale(a)
      BY <2>3, <3>2
    <3> QED
      BY <3>1, <3>2
  <2>6. CASE status'[a] = status[a]
    BY <1>0, <2>4, <2>6, UntouchedAlive DEF Untouched
  <2>7. CASE Stale(a) /\ status'[a] = "offline" /\ status[a] = "online"
    BY <1>0, <2>1, <2>2, <2>4, <2>7 DEF AliveAt
  <2> QED
    BY <2>5, <2>6, <2>7
<1>2. CASE Tick
  <2>1. /\ call[a] # "none" => since'[a] = since[a] + 1
        /\ call[a] \in UnderWay => leg'[a] = leg[a] + 1
        /\ fireIn'[a] = IF place[a] = "up" THEN fireIn[a] - 1 ELSE fireIn[a]
        /\ age'[a] <= age[a] + 1
        /\ ~ (a \in buffered /\ call[a] = "none")
    BY <1>2, Clocks DEF Tick, TypeOK, Due
  <2>2. UNCHANGED <<status, stepped, place, buffered, call, failures>>
    BY <1>2 DEF Tick
  <2>3. age'[a] \in Int
    BY <1>2, Clocks DEF Tick, TypeOK, MaxAge
  <2>4. CASE call[a] = "none"
    <3> SUFFICES ASSUME a \notin stepped, status[a] = "online", place[a] = "up"
                 PROVE  Renewed(a)'
      BY <1>0, <2>2, <2>4 DEF AliveAt
    <3>1. Renewed(a)
      BY <1>0 DEF AliveAt
    <3>2. age[a] + fireIn[a] <= Sent(failures[a])
      BY <2>1, <2>4, <3>1 DEF Renewed
    <3>3. /\ age'[a] + fireIn'[a] <= age[a] + fireIn[a]
          /\ fireIn'[a] >= 0 /\ fireIn'[a] \in Int
      BY <1>2, <2>1, <2>3, Clocks DEF Tick, Due
    <3> QED
      BY <2>2, <2>3, <2>4, <3>2, <3>3, Clocks, SentAt DEF Renewed
  <2>5. CASE call[a] = "lost"
    BY <1>0, <2>1, <2>2, <2>3, <2>5, Clocks, SentAt DEF AliveAt, Renewed
  <2>6. CASE call[a] = "heartbeat"
    BY <1>0, <2>1, <2>2, <2>3, <2>6, Clocks, SentAt DEF AliveAt, Renewed, UnderWay, AtServer
  <2>7. CASE call[a] = "ok"
    BY <1>0, <2>1, <2>2, <2>3, <2>7, Clocks, SentAt DEF AliveAt, Renewed, UnderWay
  <2>8. CASE call[a] = "welcome"
    BY <1>0, <2>1, <2>2, <2>3, <2>8, Clocks DEF AliveAt, UnderWay, Roles
  <2>9. CASE call[a] \in {"register", "stamped"}
    BY <2>2, <2>9 DEF AliveAt, Roles
  <2> QED
    BY <2>4, <2>5, <2>6, <2>7, <2>8, <2>9 DEF TypeOK, UnderWay, AtServer
<1>3. CASE RestartServer
  <2>1. /\ status'[a] = "unknown"
        /\ call'[a] \in {call[a], "none"}
        /\ UNCHANGED <<since, leg, failures>>
    BY <1>3 DEF RestartServer
  <2> QED
    BY <1>0, <2>1 DEF AliveAt
<1>4. CASE StepClock
  <2>1. status[a] # "unknown" => a \in stepped'
    BY <1>4 DEF StepClock
  <2>2. UNCHANGED <<status, process>>
    BY <1>4 DEF StepClock
  <2> QED
    BY <1>0, <2>1, <2>2 DEF AliveAt
<1>5. ASSUME NEW b \in Agents, b # a,
             \/ Start(b) \/ Join(b) \/ Fire(b) \/ Send(b) \/ Return(b)
             \/ Lose(b) \/ TimeOut(b) \/ Crash(b)
             \/ Stamp(b) \/ Register(b) \/ HandleHeartbeat(b) \/ HandleStray(b)
      PROVE  AliveAt(a)'
  <2> USE DEF TypeOK, Untouched
  <2>1. CASE Start(b) \/ Join(b) \/ Fire(b) \/ Send(b) \/ Return(b)
    BY <1>0, <1>5, <2>1, UntouchedAlive DEF Start, Begin, Join, Fire, Send, Return
  <2>2. CASE Lose(b) \/ TimeOut(b) \/ Crash(b) \/ Stamp(b)
    BY <1>0, <1>5, <2>2, UntouchedAlive DEF Lose, TimeOut, Fail, Crash, Stamp
  <2>3. CASE Register(b) \/ HandleHeartbeat(b) \/ HandleStray(b)
    BY <1>0, <1>5, <2>3, UntouchedAlive
       DEF Register, HandleHeartbeat, HandleStray, Heartbeat, Seen
  <2> QED
    BY <1>5, <2>1, <2>2, <2>3
<1>6. CASE Start(a)
  <2>1. place'[a] = "joining" /\ call'[a] = "register"
    BY <1>6 DEF Start, Begin, TypeOK
  <2> QED
    BY <2>1 DEF AliveAt
<1>7. CASE Join(a)
  <2>1. /\ call[a] = "welcome" /\ call'[a] = "none" /\ fireIn'[a] = Period
        /\ UNCHANGED <<status, age, stepped, failures>>
    BY <1>7 DEF Join, TypeOK
  <2> QED
    BY <1>0, <2>1, Clocks, SentAt DEF AliveAt, Renewed
<1>8. CASE Fire(a)
  <2>1. /\ fireIn[a] = 0 /\ fireIn'[a] = Period /\ a \in buffered' /\ place[a] = "up"
        /\ UNCHANGED <<status, age, stepped, place, call, since, leg, failures>>
    BY <1>8 DEF Fire, TypeOK
  <2> QED
    BY <1>0, <2>1, Clocks, SentAt DEF AliveAt, Renewed
<1>9. CASE Send(a)
  <2>1. /\ call[a] = "none" /\ a \in buffered /\ a \notin buffered'
        /\ call'[a] = "heartbeat" /\ since'[a] = 0 /\ leg'[a] = 0
        /\ UNCHANGED <<status, age, stepped, place, fireIn, failures>>
    BY <1>9 DEF Send, Begin, TypeOK
  <2> QED
    BY <1>0, <2>1, Clocks, SentAt DEF AliveAt, Renewed
<1>10. CASE Return(a)
  <2>1. /\ call[a] = "ok" /\ call'[a] = "none" /\ failures'[a] = 0
        /\ UNCHANGED <<status, age, stepped, place, fireIn, buffered>>
    BY <1>10 DEF Return, TypeOK
  <2> QED
    BY <1>0, <2>1, Clocks, SentAt DEF AliveAt, Renewed
<1>11. CASE Lose(a)
  <2>1. /\ call[a] \in {"register", "heartbeat", "welcome", "ok"}
        /\ call'[a] \in {"none", "lost"}
        /\ failures'[a] = failures[a] + 1
        /\ place'[a] = "up" => place[a] = "up"
        /\ UNCHANGED <<status, age, stepped, fireIn, buffered, since, leg>>
    BY <1>11, Clocks DEF Lose, Fail, TypeOK, UnderWay, AtServer
  <2>2. place[a] = "up" => call[a] \in {"heartbeat", "ok"}
    BY <2>1 DEF Roles
  <2>3. /\ failures'[a] - 1 = failures[a]
        /\ failures'[a] >= 1
    BY <2>1, Clocks
  <2>4. /\ Sent(failures'[a]) = Sent(failures[a]) + Retry
        /\ Sent(failures'[a] - 1) = Sent(failures[a])
    BY <2>1, <2>3, SentAt
  <2> SUFFICES ASSUME a \notin stepped, status[a] = "online", place[a] = "up"
               PROVE  Renewed(a)'
    BY <1>0, <2>1, <2>3 DEF AliveAt
  <2>5. Renewed(a)
    BY <1>0 DEF AliveAt
  <2>6. CASE call[a] = "heartbeat"
    <3>1. since[a] = leg[a] /\ since[a] <= Retry
      BY <1>0, <2>6, Clocks, SentAt DEF AliveAt
    <3>2. /\ age[a] <= Sent(failures[a]) + since[a]
          /\ a \notin buffered => age[a] + fireIn[a] <= Sent(failures'[a])
      BY <2>1, <2>5, <2>6 DEF Renewed
    <3>3. age[a] <= Sent(failures'[a])
      BY <2>4, <3>1, <3>2, Clocks, SentAt
    <3> QED
      BY <2>1, <2>4, <3>2, <3>3 DEF Renewed
  <2>7. CASE call[a] = "ok"
    <3>1. age[a] <= 2 * MaxDelay
      BY <2>5, <2>7, Clocks DEF Renewed
    <3>2. /\ age[a] <= Sent(failures[a]) /\ age[a] <= Sent(failures[a]) + since[a]
          /\ age[a] <= Sent(failures'[a])
          /\ age[a] + fireIn[a] <= Sent(failures'[a])
      BY <2>4, <3>1, Clocks, SentAt
    <3> QED
      BY <2>1, <2>4, <3>2 DEF Renewed
  <2> QED
    BY <2>2, <2>6, <2>7
<1>12. CASE TimeOut(a)
  <2>1. /\ call[a] # "none" /\ since[a] = ClientTimeout /\ call'[a] = "none"
        /\ place'[a] = "up" => place[a] = "up"
        /\ UNCHANGED <<status, age, stepped, fireIn, buffered, failures>>
    BY <1>12 DEF TimeOut, Fail, TypeOK
  <2>2. place[a] = "up" => call[a] \in {"ok", "lost"}
    BY <1>0, <2>1, Clocks DEF Roles, AliveAt, Intervals, TypeOK, UnderWay, AtServer
  <2> SUFFICES ASSUME a \notin stepped, status[a] = "online", place[a] = "up"
               PROVE  Renewed(a)'
    BY <1>0, <2>1 DEF AliveAt
  <2>3. Renewed(a)
    BY <1>0 DEF AliveAt
  <2>4. CASE call[a] = "ok"
    BY <2>1, <2>3, <2>4, Clocks, SentAt DEF Renewed
  <2>5. CASE call[a] = "lost"
    BY <1>0, <2>1, <2>3, <2>5, Clocks, SentAt DEF AliveAt, Renewed
  <2> QED
    BY <2>2, <2>4, <2>5
<1>13. CASE Crash(a)
  <2>1. place'[a] = "down" /\ call'[a] = "none"
    BY <1>13 DEF Crash, TypeOK
  <2> QED
    BY <2>1 DEF AliveAt
<1>14. CASE Stamp(a)
  <2>1. place[a] = "joining" /\ place'[a] = place[a] /\ call'[a] = "stamped"
    BY <1>14 DEF Stamp, Roles, TypeOK
  <2> QED
    BY <2>1 DEF AliveAt
<1>15. CASE Register(a)
  <2>1. /\ place[a] = "joining" /\ place'[a] = place[a] /\ call'[a] = "welcome"
        /\ status'[a] = "online" /\ age'[a] = leg[a] /\ leg'[a] = leg[a]
    BY <1>15 DEF Register, Seen, Roles, TypeOK
  <2> QED
    BY <2>1, Clocks DEF AliveAt
<1>16. CASE HandleHeartbeat(a)
  <2>1. /\ place[a] = "up" /\ place'[a] = place[a] /\ call'[a] = "ok" /\ leg'[a] = 0
        /\ \/ status[a] = "unknown" /\ status'[a] = status[a]
           \/ status'[a] = "online" /\ age'[a] = 0
    BY <1>16 DEF HandleHeartbeat, Heartbeat, Seen, Roles, TypeOK
  <2> QED
    BY <2>1, Clocks, SentAt DEF AliveAt, Renewed
<1>17. CASE HandleStray(a)
  <2>1. UNCHANGED process
    BY <1>17 DEF HandleStray
  <2>2. CASE UNCHANGED table
    BY <1>0, <2>1, <2>2 DEF AliveAt, Renewed
  <2>3. ASSUME NEW t \in 0 .. MaxDelay, Seen(a, t) PROVE AliveAt(a)'
    BY <1>0, <2>1, <2>3, SeenAlive
  <2> QED
    BY <1>17, <2>2, <2>3, Clocks DEF HandleStray, Heartbeat
<1>18. CASE UNCHANGED vars
  BY <1>0, <1>18 DEF vars, AliveAt, Renewed
<1> QED
  BY <1>1, <1>2, <1>3, <1>4, <1>5, <1>6, <1>7, <1>8, <1>9, <1>10, <1>11, <1>12,
     <1>13, <1>14, <1>15, <1>16, <1>17, <1>18 DEF Next

(* NoFalseOffline for any agents, and any intervals and number of failed   *)
(* heartbeats in a row in this relation: the failures, whether they block  *)
(* the goroutine for the whole timeout or return at once, the ticks that   *)
(* are dropped meanwhile and a registration whose stamp is overtaken by a  *)
(* heartbeat never show a running agent offline.  With the intervals of    *)
(* the code, one failure is allowed for if a message takes up to five      *)
(* thirds of a second, and two are not.                                    *)
THEOREM NoFalseOfflineCorrect ==
    ASSUME Intervals
    PROVE  Spec => []NoFalseOffline
<1>1. Init => Alive
  BY DEF Init, Alive, AliveAt
<1>2. TypeOK /\ Roles /\ Alive /\ [Next]_vars => Alive'
  BY StepAlive
<1>3. Alive => NoFalseOffline
  BY DEF Alive, AliveAt, NoFalseOffline
<1> QED
  BY <1>1, <1>2, <1>3, TypeCorrect, PTL DEF Spec

================================================================================
