------------------------------- MODULE Timing -------------------------------
(***************************************************************************)
(* One job and the clock: the lease that claim takes (documents/jobs.py)   *)
(* against the time limits that end a task (config/settings/base.py) and   *)
(* the interval at which the dispatcher recovers.                          *)
(*                                                                         *)
(* Ledger lets a lease run out at any time and is right nevertheless.  Here*)
(* time is counted, and what the numbers add is shown: with these limits   *)
(* no lease ever runs out under a worker.  An envelope may arrive at any   *)
(* time; one unit of time is ten seconds in the runs.                      *)
(***************************************************************************)
EXTENDS Integers

CONSTANTS
  Procs,        \* pool processes of the worker service
  Lease,        \* JOB_LEASE_SECONDS
  Hard,         \* CELERY_TASK_TIME_LIMIT
  Slack,        \* how late the kill at the hard limit may come
  Pause,        \* longest time between two rounds of a dispatcher that is up
  MaxAttempts,  \* max_attempts of the job
  Base,         \* backoff after the first attempt
  Cap,          \* largest backoff
  Jitter        \* what chance adds to a backoff

ASSUME TimesAssumption ==
  /\ Lease \in Nat /\ Hard \in Nat /\ Slack \in Nat /\ Pause \in Nat
  /\ Base \in Nat /\ Cap \in Nat /\ Jitter \in Nat
  /\ MaxAttempts \in Nat \ {0}

(* 180 seconds, and what the kill may take, are less than 240. *)
ASSUME LimitsAssumption == Hard + Slack < Lease

VARIABLES
  job,    \* the row of the job; lease and wait are what is left of them
  since,  \* time since the job was claimed last
  proc,   \* proc[p]: the task that process p executes, and for how long
  round   \* time since the last round of the dispatcher

vars == <<job, since, proc, round>>

-----------------------------------------------------------------------------
Row == [state : {"pending", "running", "succeeded", "failed"}, attempts : Nat,
        token : Nat, lease : Nat, wait : Nat]

Idle == [pc |-> "idle", age |-> 0, token |-> 0]

Tasks == [pc : {"started", "working"}, age : Nat, token : Nat]

TypeOK ==
  /\ job \in Row
  /\ since \in Nat
  /\ proc \in [Procs -> Tasks \cup {Idle}]
  /\ round \in Nat

Init ==
  /\ job = [state |-> "pending", attempts |-> 0, token |-> 0, lease |-> 0, wait |-> 0]
  /\ since = 0
  /\ proc = [p \in Procs |-> Idle]
  /\ round = 0

Working(p) == proc[p].pc = "working"

-----------------------------------------------------------------------------
(* The worker. *)

(* The clock of the time limits starts with the task, before its claim. *)
Start(p) ==
  /\ proc[p] = Idle
  /\ proc' = [proc EXCEPT ![p] = [pc |-> "started", age |-> 0, token |-> 0]]
  /\ UNCHANGED <<job, since, round>>

Claimed(r) ==
  [r EXCEPT !.state = "running", !.attempts = @ + 1, !.token = @ + 1, !.lease = Lease]

Claim(p) ==
  /\ proc[p].pc = "started"
  /\ IF job.state = "pending" /\ job.wait = 0
       THEN /\ job' = Claimed(job)
            /\ since' = 0
            /\ proc' = [proc EXCEPT ![p].pc = "working", ![p].token = job.token + 1]
       ELSE proc' = [proc EXCEPT ![p] = Idle] /\ UNCHANGED <<job, since>>
  /\ UNCHANGED round

(* Base, doubled with every attempt but the first, at most Cap, and jitter. *)
Backoff(a) ==
  LET d == Base * 2^(a - 1)
      least == IF d > Cap THEN Cap ELSE d
  IN  {n \in 0..(Cap + Jitter) : least <= n /\ n <= least + Jitter}

(* finish with a retryable failure *)
Failed(r) ==
  IF r.attempts < MaxAttempts
    THEN {[r EXCEPT !.state = "pending", !.lease = 0, !.wait = n] : n \in Backoff(r.attempts)}
    ELSE {[r EXCEPT !.state = "failed", !.lease = 0]}

Ended(r) == Failed(r) \cup {[r EXCEPT !.state = s, !.lease = 0] : s \in {"succeeded", "failed"}}

(* The run reports, in time or because a time limit struck, or is stale. *)
Finish(p) ==
  /\ Working(p)
  /\ IF job.state = "running" /\ job.token = proc[p].token
       THEN job' \in Ended(job)
       ELSE UNCHANGED job
  /\ proc' = [proc EXCEPT ![p] = Idle]
  /\ UNCHANGED <<since, round>>

(* The process is killed: by the hard limit, for want of memory, by a restart. *)
Dies(p) ==
  /\ proc[p] # Idle
  /\ proc' = [proc EXCEPT ![p] = Idle]
  /\ UNCHANGED <<job, since, round>>

-----------------------------------------------------------------------------
(* The dispatcher, and time. *)

(* Slip: a job without attempts left is not recovered. *)
ExpiredUnspent == job.state = "running" /\ job.lease = 0 /\ job.attempts < MaxAttempts

Expired == job.state = "running" /\ job.lease = 0

(* recover_expired: a new token, and a retryable failure. *)
Round ==
  /\ IF Expired
       THEN job' \in Failed([job EXCEPT !.token = @ + 1])
       ELSE UNCHANGED job
  /\ round' = 0
  /\ UNCHANGED <<since, proc>>

Less(n) == IF n = 0 THEN 0 ELSE n - 1

(* Slip: only the soft limit is set, and it is caught. *)
MayRunOnForever(p) == TRUE

(* A task is dead once its hard limit has passed. *)
MayRunOn(p) == proc[p].age < Hard + Slack

(* Time is counted for as long as the job is not over. *)
Tick ==
  /\ job.state \in {"pending", "running"}
  /\ \A p \in Procs : proc[p] # Idle => MayRunOn(p)
  /\ round < Pause
  /\ job' = [job EXCEPT !.lease = Less(@), !.wait = Less(@)]
  /\ since' = IF job.state = "running" THEN since + 1 ELSE since
  /\ proc' = [p \in Procs |-> IF proc[p] = Idle THEN Idle ELSE [proc[p] EXCEPT !.age = @ + 1]]
  /\ round' = round + 1

-----------------------------------------------------------------------------
Next == (\E p \in Procs : Start(p) \/ Claim(p) \/ Finish(p) \/ Dies(p)) \/ Round \/ Tick

Spec == Init /\ [][Next]_vars

-----------------------------------------------------------------------------
(* No work is wasted or done twice: whoever works on the job holds it, so  *)
(* what it reports is never stale, and nobody else works on it.  "An old   *)
(* worker cannot overwrite a newer attempt" because there is no newer one. *)
WorkersHold ==
  \A p \in Procs :
     Working(p) =>
        /\ job.state = "running" /\ job.token = proc[p].token
        /\ \A q \in Procs : Working(q) => q = p

(* "Processing longer than 240 seconds: worker may have died; recovery     *)
(* also requires dispatcher": with one, no job, spent ones included, is    *)
(* seen processing for longer than its lease and one pause.                *)
ProcessingBounded == job.state = "running" => since <= Lease + Pause
=============================================================================
