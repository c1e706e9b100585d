------------------------------ MODULE Backlog ------------------------------
(***************************************************************************)
(* Many jobs and one dispatcher: which of the due jobs an iteration of     *)
(* dispatch_once takes (documents/jobs.py), and how long one may wait.     *)
(*                                                                         *)
(* Dispatch opens up an iteration; here an iteration is one step, and what *)
(* counts is the order of the jobs, the size of a batch, the rows it finds *)
(* locked and the interval after which a job is published again.  Time is  *)
(* counted in iterations.                                                  *)
(***************************************************************************)
EXTENDS Integers, FiniteSets

CONSTANTS
  N,       \* bound: jobs ever created
  Limit,   \* jobs in a batch
  Rounds,  \* iterations in JOB_REDISPATCH_SECONDS
  Stuck    \* jobs no worker ever takes: see IntentRedelivered in Dispatch

Jobs == 1..N  \* numbered by created_at

ASSUME SizesAssumption == N \in Nat \ {0} /\ Limit \in Nat \ {0} /\ Rounds \in Nat \ {0}
ASSUME StuckAssumption == Stuck \subseteq Jobs

VARIABLES
  state,   \* state[j]: Job.state, pending split into waiting and due
  live,    \* OCR jobs whose document exists
  ahead,   \* ahead[j]: the due jobs before j, by available_at
  age,     \* age[j]: iterations since dispatched_at; Rounds also for NULL
  front,   \* history: jobs before j when its wait began, and those that joined
           \*          before it since; counted up to Full
  waited   \* history: iterations that selected jobs since then, up to Rounds

vars == <<state, live, ahead, age, front, waited>>

-----------------------------------------------------------------------------
States == {"absent", "waiting", "due", "running", "ended"}

IsDue(j) == state[j] = "due"

DueJobs == {j \in Jobs : IsDue(j)}

(* What the batches of one interval of re-publication have room for. *)
Full == Limit * Rounds

UpToFull(n) == IF n < Full THEN n ELSE Full

(* The due jobs stand in one line. *)
InLine ==
  /\ \A i, j \in DueJobs : i # j => (i \in ahead[j] <=> j \notin ahead[i])
  /\ \A i, j \in DueJobs : i \in ahead[j] => ahead[i] \subseteq ahead[j]

TypeOK ==
  /\ state \in [Jobs -> States]
  /\ live \subseteq {j \in Jobs : state[j] # "absent"}
  /\ ahead \in [Jobs -> SUBSET DueJobs]
  /\ \A j \in Jobs : j \notin ahead[j] /\ (~IsDue(j) => ahead[j] = {})
  /\ InLine
  /\ age \in [Jobs -> 0..Rounds]
  /\ front \in [Jobs -> 0..Full]
  /\ waited \in [Jobs -> 0..Rounds]

Init ==
  /\ state = [j \in Jobs |-> "absent"]
  /\ live = {}
  /\ ahead = [j \in Jobs |-> {}]
  /\ age = [j \in Jobs |-> Rounds]
  /\ front = [j \in Jobs |-> 0]
  /\ waited = [j \in Jobs |-> 0]

Became(j, s) == state' = [state EXCEPT ![j] = s]

(* j is in the line, somewhere: available_at is drawn before the row is    *)
(* committed, so a late commit comes before jobs that are due already.     *)
JoinsLine(j) ==
  /\ Became(j, "due")
  /\ \E before \in SUBSET DueJobs :
        /\ \A i \in before : ahead[i] \subseteq before
        /\ ahead' = [i \in Jobs |->
             IF i = j THEN before ELSE IF i \in DueJobs \ before THEN ahead[i] \cup {j} ELSE ahead[i]]
        /\ front' = [i \in Jobs |->
             IF i = j THEN UpToFull(Cardinality(before))
             ELSE IF i \in DueJobs \ before THEN UpToFull(front[i] + 1) ELSE front[i]]
  /\ UNCHANGED waited

IsNext(j) == state[j] = "absent" /\ \A i \in 1..(j - 1) : state[i] # "absent"

(* An upload commits its document and OCR job.  The intent of a failed     *)
(* upload comes due without a document, the job of a reprocess call        *)
(* without a new one.                                                      *)
Upload(j) ==
  /\ IsNext(j)
  /\ JoinsLine(j)
  /\ live' \in {live, live \cup {j}}
  /\ UNCHANGED age

(* DELETE: the document of d goes, its cleanup job j is due. *)
Delete(d, j) ==
  /\ d \in live /\ IsNext(j)
  /\ JoinsLine(j)
  /\ live' = live \ {d}
  /\ UNCHANGED age

(* The back-off is over. *)
ComesDue(j) ==
  /\ state[j] = "waiting"
  /\ JoinsLine(j)
  /\ UNCHANGED <<live, age>>

(* retry_cleanup arms a failed cleanup job again.  Which of the ended jobs *)
(* are failed cleanups is left open.                                       *)
Rearm(j) ==
  /\ state[j] = "ended" /\ j \notin live
  /\ JoinsLine(j)
  /\ age' = [age EXCEPT ![j] = Rounds]
  /\ UNCHANGED live

(* An envelope reaches a worker; where it comes from is left open, as in   *)
(* Ledger.                                                                 *)
Claim(j) ==
  /\ state[j] = "due" /\ j \notin Stuck
  /\ Became(j, "running")
  /\ ahead' = [i \in Jobs |-> IF i = j THEN {} ELSE ahead[i] \ {j}]
  /\ waited' = [waited EXCEPT ![j] = 0]
  /\ front' = [front EXCEPT ![j] = 0]
  /\ UNCHANGED <<live, age>>

(* finish, by the worker or for a lost one, clears dispatched_at. *)
Finish(j) ==
  /\ state[j] = "running"
  /\ \E s \in {"waiting", "ended"} : Became(j, s)
  /\ age' = [age EXCEPT ![j] = Rounds]
  /\ UNCHANGED <<live, ahead, front, waited>>

-----------------------------------------------------------------------------
(* One iteration of the dispatcher; between two of them its pause passes.  *)

(* Slip: the age is counted on without end. *)
OlderForEver(j) == age[j] + 1

Older(j) == IF age[j] < Rounds THEN age[j] + 1 ELSE Rounds

(* Not published, or not for JOB_REDISPATCH_SECONDS. *)
Eligible(j) == Older(j) = Rounds

(* The first Limit jobs of S in the line, or all of them. *)
Oldest(S) ==
  {B \in SUBSET S :
     /\ Cardinality(B) = Limit \/ (B = S /\ Cardinality(S) < Limit)
     /\ \A j \in S \ B : B \subseteq ahead[j]}

(* Slip: the batch is cut off before it is filtered. *)
BatchUnfiltered(locked) == {{j \in B : Eligible(j)} : B \in Oldest(DueJobs \ locked)}

(* The oldest of the due jobs that are not stamped.  Rows that another     *)
(* transaction has locked are skipped.                                     *)
Batch(locked) == Oldest({j \in DueJobs \ locked : Eligible(j)})

(* A wait begins when j joins the line, and again with every iteration     *)
(* that fails or that finds j stamped or locked.                           *)
Restarts(J) ==
  /\ front' = [j \in Jobs |->
       IF j \in J /\ IsDue(j) THEN UpToFull(Cardinality(ahead[j])) ELSE front[j]]
  /\ waited' = [j \in Jobs |->
       IF j \in J \/ ~IsDue(j) THEN 0 ELSE IF waited[j] < Rounds THEN waited[j] + 1 ELSE Rounds]

(* The batch is selected and stamped.  A row may be locked by a claim that *)
(* goes on to roll back, by another dispatcher, retry_cleanup or an upload *)
(* that gives up.  Whether the batch is then published, in whole or up to  *)
(* the first error, changes nothing here.                                  *)
Iterate ==
  /\ \E locked \in SUBSET DueJobs : \E B \in Batch(locked) :
        /\ age' = [j \in Jobs |-> IF j \in B THEN 0 ELSE Older(j)]
        /\ Restarts({j \in Jobs : j \in B \cup locked \/ ~Eligible(j)})
  /\ UNCHANGED <<state, live, ahead>>

(* recover_expired or the selection raises: handle logs it and goes on. *)
IterationFails ==
  /\ age' = [j \in Jobs |-> Older(j)]
  /\ Restarts(Jobs)
  /\ UNCHANGED <<state, live, ahead>>

-----------------------------------------------------------------------------
Next ==
  \/ \E j \in Jobs : Upload(j) \/ ComesDue(j) \/ Rearm(j) \/ Claim(j) \/ Finish(j)
  \/ \E d, j \in Jobs : Delete(d, j)
  \/ Iterate \/ IterationFails

Spec == Init /\ [][Next]_vars

-----------------------------------------------------------------------------
(* The batch is limited, old jobs are taken again and again, and rows that *)
(* are locked are skipped, yet no job that can be taken starves: with      *)
(* fewer than Full jobs before it, each taken once before any is taken     *)
(* again, it is passed over only while they are taken, Limit at a time.    *)
(* Iterations that find the job itself locked are not counted.             *)
TakenInTurn ==
  \A j \in Jobs : IsDue(j) /\ front[j] < Full => waited[j] * Limit <= front[j]
=============================================================================
