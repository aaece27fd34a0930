------------------------------- MODULE JobLease -------------------------------
(***************************************************************************)
(* What TaskBridge promises about one job, in terms no component of it has *)
(* by itself: a job is queued, then leased to one holder at a time (the    *)
(* reply on its way to an agent, the agent, the agent's report on its way  *)
(* back, the handler that applies it), and a job that is settled is never  *)
(* leased again.  All jobs may be erased at once; an erased job is no job  *)
(* ever after.                                                             *)
(*                                                                         *)
(* A lease whose job was cancelled is still a lease until it is given up:  *)
(* the promise is about who may be executing, not about what is displayed. *)
(***************************************************************************)
EXTENDS Naturals

CONSTANTS
    Jobs,     \* the jobs
    Holders,  \* those who can hold a lease
    Limits    \* the attempts clients ask for

VARIABLES
    phase,   \* phase[j]: where the job stands
    holders, \* holders[j]: who holds a lease on it
    tries,   \* tries[j]: how often it was leased
    limit    \* limit[j]: the attempts its client asked for

leaseVars == <<phase, holders, tries, limit>>

Phases == {"absent", "queued", "leased", "lost", "settled", "erased"}

LeaseInit ==
    /\ phase   = [j \in Jobs |-> "absent"]
    /\ holders = [j \in Jobs |-> {}]
    /\ tries   = [j \in Jobs |-> 0]
    /\ limit   = [j \in Jobs |-> 0]

Move(j, from, to) ==
    /\ phase[j] \in from
    /\ phase' = [phase EXCEPT ![j] = to]

(* A client submits the job.                                               *)
Submit(j, l) ==
    /\ Move(j, {"absent"}, "queued")
    /\ limit' = [limit EXCEPT ![j] = l]
    /\ UNCHANGED <<holders, tries>>

(* The first attempt is free, a further one needs room under the limit.    *)
MayTry(j) == tries[j] = 0 \/ tries[j] < limit[j]

(* A queued job is leased to one holder.                                   *)
Lease(j, h) ==
    /\ Move(j, {"queued"}, "leased")
    /\ MayTry(j)
    /\ holders' = [holders EXCEPT ![j] = {h}]
    /\ tries' = [tries EXCEPT ![j] = @ + 1]
    /\ UNCHANGED limit

(* The job is leased and the lease is lost in the same moment.             *)
LeaseInVain(j) ==
    /\ Move(j, {"queued"}, "lost")
    /\ MayTry(j)
    /\ tries' = [tries EXCEPT ![j] = @ + 1]
    /\ UNCHANGED <<holders, limit>>

(* The holder passes the lease on.                                         *)
HandOver(j, h) ==
    /\ phase[j] = "leased"
    /\ holders' = [holders EXCEPT ![j] = {h}]
    /\ UNCHANGED <<phase, tries, limit>>

(* The lease ends: with another attempt, for good, or unnoticed.           *)
Release(j, to) ==
    /\ Move(j, {"leased"}, to)
    /\ holders' = [holders EXCEPT ![j] = {}]
    /\ UNCHANGED <<tries, limit>>

Requeue(j) == Release(j, "queued") /\ tries[j] < limit[j]

Settle(j) == Release(j, "settled")

Lose(j) == Release(j, "lost")

(* A client withdraws a job nobody holds.                                  *)
Withdraw(j) ==
    /\ Move(j, {"queued", "lost"}, "settled")
    /\ UNCHANGED <<holders, tries, limit>>

(* The server forgets every job and every lease.                           *)
Erase ==
    /\ phase' = [j \in Jobs |-> IF phase[j] = "absent" THEN "absent" ELSE "erased"]
    /\ holders' = [j \in Jobs |-> {}]
    /\ tries' = [j \in Jobs |-> 0]
    /\ limit' = [j \in Jobs |-> 0]

LeaseNext ==
    \/ \E j \in Jobs :
           \/ \E l \in Limits : Submit(j, l)
           \/ \E h \in Holders : Lease(j, h) \/ HandOver(j, h)
           \/ LeaseInVain(j)
           \/ Requeue(j) \/ Settle(j) \/ Lose(j)
           \/ Withdraw(j)
    \/ Erase

LeaseSpec == LeaseInit /\ [][LeaseNext]_leaseVars

-------------------------------------------------------------------------------
(* A job is held by one holder while it is leased and by nobody otherwise, *)
(* and it is leased once, or no more often than its client asked for.      *)
LeaseInvariant ==
    \A j \in Jobs :
        /\ phase[j] \in Phases
        /\ IF phase[j] = "leased" THEN \E h \in Holders : holders[j] = {h}
           ELSE holders[j] = {}
        /\ tries[j] \in Nat /\ limit[j] \in Nat
        /\ tries[j] <= 1 \/ tries[j] <= limit[j]

(* A job that is settled or erased is never held again, and whoever gets a *)
(* job that nobody held gets it by an attempt that is counted.             *)
Disciplined ==
    \A j \in Jobs :
        /\ phase[j] \in {"settled", "erased"} =>
               phase'[j] \in {phase[j], "erased"} /\ holders'[j] = {}
        /\ holders[j] = {} /\ holders'[j] # {} => tries'[j] = tries[j] + 1

LeaseDiscipline == [][Disciplined]_leaseVars

===============================================================================
