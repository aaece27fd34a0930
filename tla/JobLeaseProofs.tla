---------------------------- MODULE JobLeaseProofs ----------------------------
(***************************************************************************)
(* What a reader may conclude from a refinement of JobLease: the promises  *)
(* of the abstract specification, for any jobs, holders and limits.  They  *)
(* hold of TaskBridge and of ApiHandlers through their refinement mappings.*)
(***************************************************************************)
EXTENDS JobLease, TLAPS

(* What LeaseInvariant needs to be inductive: a job that was not submitted *)
(* has not been tried, and all the functions are defined on the jobs.      *)
LeaseTyped ==
    /\ DOMAIN phase = Jobs /\ DOMAIN holders = Jobs
    /\ DOMAIN tries = Jobs /\ DOMAIN limit = Jobs
    /\ \A j \in Jobs : phase[j] = "absent" => tries[j] = 0

LEMMA LeaseStarts == LeaseInit => LeaseTyped /\ LeaseInvariant
BY DEF LeaseInit, LeaseTyped, LeaseInvariant, Phases

(* A step of one job; the other jobs are untouched.                        *)
LEMMA LeaseStep ==
    ASSUME Limits \subseteq Nat, LeaseTyped, LeaseInvariant, [LeaseNext]_leaseVars
    PROVE  LeaseTyped' /\ LeaseInvariant'
<1> USE DEF LeaseTyped, LeaseInvariant, Phases, Move, Release
<1>1. ASSUME NEW j \in Jobs, NEW l \in Limits, Submit(j, l)
      PROVE  LeaseTyped' /\ LeaseInvariant'
  BY <1>1 DEF Submit
<1>2. ASSUME NEW j \in Jobs, NEW h \in Holders, Lease(j, h)
      PROVE  LeaseTyped' /\ LeaseInvariant'
  <2>1. tries[j] + 1 <= 1 \/ tries[j] + 1 <= limit[j]
    BY <1>2 DEF Lease, MayTry
  <2> QED BY <1>2, <2>1 DEF Lease
<1>3. ASSUME NEW j \in Jobs, LeaseInVain(j)
      PROVE  LeaseTyped' /\ LeaseInvariant'
  <2>1. tries[j] + 1 <= 1 \/ tries[j] + 1 <= limit[j]
    BY <1>3 DEF LeaseInVain, MayTry
  <2> QED BY <1>3, <2>1 DEF LeaseInVain
<1>4. ASSUME NEW j \in Jobs, NEW h \in Holders, HandOver(j, h)
      PROVE  LeaseTyped' /\ LeaseInvariant'
  BY <1>4 DEF HandOver
<1>5. ASSUME NEW j \in Jobs, Requeue(j) \/ Settle(j) \/ Lose(j)
      PROVE  LeaseTyped' /\ LeaseInvariant'
  BY <1>5 DEF Requeue, Settle, Lose
<1>6. ASSUME NEW j \in Jobs, Withdraw(j)
      PROVE  LeaseTyped' /\ LeaseInvariant'
  BY <1>6 DEF Withdraw
<1>7. CASE Erase
  BY <1>7 DEF Erase
<1>8. CASE UNCHANGED leaseVars
  BY <1>8 DEF leaseVars
<1> QED
  BY <1>1, <1>2, <1>3, <1>4, <1>5, <1>6, <1>7, <1>8 DEF LeaseNext

(* One holder at a time, and no attempt beyond the limit.                  *)
THEOREM LeaseInvariantCorrect ==
    ASSUME Limits \subseteq Nat
    PROVE  LeaseSpec => []LeaseInvariant
<1>1. LeaseTyped /\ LeaseInvariant /\ [LeaseNext]_leaseVars => LeaseTyped' /\ LeaseInvariant'
  BY LeaseStep
<1> QED
  BY <1>1, LeaseStarts, PTL DEF LeaseSpec

(* No step leases a settled job, and none leases one without counting it.  *)
THEOREM LeaseDisciplineCorrect ==
    ASSUME Limits \subseteq Nat
    PROVE  LeaseSpec => LeaseDiscipline
<1>1. LeaseTyped /\ LeaseInvariant /\ [LeaseNext]_leaseVars => [Disciplined]_leaseVars
  <2> SUFFICES ASSUME LeaseTyped, LeaseInvariant, LeaseNext PROVE Disciplined
    OBVIOUS
  <2> USE DEF Disciplined, LeaseTyped, LeaseInvariant, Move, Release
  <2>1. ASSUME NEW j \in Jobs, NEW l \in Limits, Submit(j, l) PROVE Disciplined
    BY <2>1 DEF Submit
  <2>2. ASSUME NEW j \in Jobs, NEW h \in Holders, Lease(j, h) \/ HandOver(j, h)
        PROVE  Disciplined
    BY <2>2 DEF Lease, HandOver
  <2>3. ASSUME NEW j \in Jobs, LeaseInVain(j) \/ Withdraw(j) PROVE Disciplined
    BY <2>3 DEF LeaseInVain, Withdraw
  <2>4. ASSUME NEW j \in Jobs, Requeue(j) \/ Settle(j) \/ Lose(j) PROVE Disciplined
    BY <2>4 DEF Requeue, Settle, Lose
  <2>5. CASE Erase
    BY <2>5 DEF Erase
  <2> QED
    BY <2>1, <2>2, <2>3, <2>4, <2>5 DEF LeaseNext
<1>2. LeaseTyped /\ LeaseInvariant /\ [LeaseNext]_leaseVars => LeaseTyped' /\ LeaseInvariant'
  BY LeaseStep
<1> QED
  BY <1>1, <1>2, LeaseStarts, PTL DEF LeaseSpec, LeaseDiscipline

===============================================================================
