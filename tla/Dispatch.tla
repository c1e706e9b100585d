------------------------------ MODULE Dispatch ------------------------------
(***************************************************************************)
(* The dispatcher (dispatch_once, run in a loop by dispatch_jobs) and the  *)
(* Celery transport between it and the workers, composed with the ledger.  *)
(* A job reaches a worker only in an envelope: the dispatcher selects due  *)
(* rows, stamps dispatched_at, commits, and then publishes; envelopes are  *)
(* lost, duplicated, delayed, expired and delivered in any order.          *)
(*                                                                         *)
(* The dispatcher holds no lock between its steps: the list of expired     *)
(* leases and the published batch are both stale by the time they are used.*)
(***************************************************************************)
EXTENDS Ledger, FiniteSets

CONSTANTS
  Dispatchers,  \* processes running dispatch_jobs
  BatchLimit,   \* the limit argument of dispatch_once and recover_expired
  MaxCopies,    \* bound: envelopes of one job in the broker
  Backlogged    \* TRUE when an envelope may wait longer than its expires=300

ASSUME BatchAssumption == BatchLimit \in Nat \ {0}
ASSUME CopiesAssumption == MaxCopies \in Nat \ {0}
ASSUME BacklogAssumption == Backlogged \in BOOLEAN

VARIABLES
  fresh,       \* jobs whose dispatched_at is less than 30 seconds old
  dispatcher,  \* dispatcher[x]: how far dispatch_once has come, and its batch
  envelopes,   \* envelopes[j]: copies in the broker that have not expired
  overdue,     \* overdue[j]: copies in the broker past their expiry
  revoked      \* task ids in the worker's memory of tasks not to run

transport == <<fresh, dispatcher, envelopes, overdue, revoked>>
dvars == <<vars, transport>>

Resting == [pc |-> "idle", todo |-> {}]

DTypeOK ==
  /\ TypeOK
  /\ fresh \subseteq Jobs
  /\ dispatcher \in [Dispatchers -> [pc : {"idle", "recover", "publish"}, todo : SUBSET Jobs]]
  /\ envelopes \in [Jobs -> 0..MaxCopies]
  /\ overdue \in [Jobs -> 0..MaxCopies]
  /\ revoked \subseteq Jobs

DInit ==
  /\ Init
  /\ fresh = {}
  /\ dispatcher = [x \in Dispatchers |-> Resting]
  /\ envelopes = [j \in Jobs |-> 0]
  /\ overdue = [j \in Jobs |-> 0]
  /\ revoked = {}

-----------------------------------------------------------------------------
(* dispatch_once. *)

(* A query with a limit: every row, or limit of them. *)
Batches(S) ==
  IF Cardinality(S) <= BatchLimit THEN {S} ELSE {B \in SUBSET S : Cardinality(B) = BatchLimit}

Turn(x, pc, todo) == dispatcher' = [dispatcher EXCEPT ![x] = [pc |-> pc, todo |-> todo]]

Added(j) == IF envelopes[j] < MaxCopies THEN envelopes[j] + 1 ELSE MaxCopies

Enqueued(j) == envelopes' = [envelopes EXCEPT ![j] = Added(j)]

(* recover_expired reads its candidates without locking them. *)
ListExpired(x) ==
  /\ dispatcher[x].pc = "idle"
  /\ \E B \in Batches({j \in Jobs : CanRecover(j)}) : Turn(x, "recover", B)
  /\ UNCHANGED <<vars, fresh, envelopes, overdue, revoked>>

(* Slips: the lease, or everything, is taken from the old list. *)
RecheckState(j) == job[j].state = "running"
RecheckNothing(j) == TRUE

(* The candidate is locked, and what made it one is read again. *)
Recheck(j) == CanRecover(j)

RecoverOne(x) ==
  /\ dispatcher[x].pc = "recover"
  /\ \E j \in dispatcher[x].todo :
        /\ Turn(x, "recover", dispatcher[x].todo \ {j})
        /\ IF Recheck(j)
             THEN /\ Settle(j, Lost(job[j]), "transient", Lost(job[j]).token)
                  /\ fresh' = fresh \ {j}
             ELSE UNCHANGED <<job, doc, fresh>>
  /\ UNCHANGED <<objects, worker, upload, envelopes, overdue, revoked>>

Due == {j \in Jobs : CanClaim(j) /\ j \notin fresh}

(* One transaction selects the due rows and stamps them. *)
SelectDue(x) ==
  /\ dispatcher[x].pc = "recover" /\ dispatcher[x].todo = {}
  /\ \E B \in Batches(Due) :
        /\ fresh' = fresh \cup B
        /\ IF B = {} THEN Turn(x, "idle", {}) ELSE Turn(x, "publish", B)
  /\ UNCHANGED <<vars, envelopes, overdue, revoked>>

Publish(x) ==
  /\ dispatcher[x].pc = "publish"
  /\ \E j \in dispatcher[x].todo :
        /\ Enqueued(j)
        /\ IF dispatcher[x].todo = {j}
             THEN Turn(x, "idle", {})
             ELSE Turn(x, "publish", dispatcher[x].todo \ {j})
  /\ UNCHANGED <<vars, fresh, overdue, revoked>>

(* The broker call raised, its envelope accepted or not: the rest of the   *)
(* batch is left to the next selection.                                    *)
PublishFails(x) ==
  /\ dispatcher[x].pc = "publish"
  /\ UNCHANGED envelopes \/ \E j \in dispatcher[x].todo : Enqueued(j)
  /\ Turn(x, "idle", {})
  /\ UNCHANGED <<vars, fresh, overdue, revoked>>

(* A database error ends the iteration, or the process is restarted. *)
DispatcherDies(x) ==
  /\ dispatcher[x].pc # "idle"
  /\ Turn(x, "idle", {})
  /\ UNCHANGED <<vars, fresh, envelopes, overdue, revoked>>

(* Slip: a published flag instead of a timestamp. *)
RedispatchNever(j) == FALSE

(* JOB_REDISPATCH_SECONDS after dispatched_at. *)
RedispatchDue(j) ==
  /\ j \in fresh
  /\ fresh' = fresh \ {j}
  /\ UNCHANGED <<vars, dispatcher, envelopes, overdue, revoked>>

-----------------------------------------------------------------------------
(* The broker and the Celery worker: libraries and services outside the    *)
(* repository, as its settings use them.                                   *)

Taken(j) == envelopes' = [envelopes EXCEPT ![j] = @ - 1]

(* The broker drops an envelope. *)
EnvelopeLost(j) ==
  /\ envelopes[j] > 0 /\ Taken(j)
  /\ UNCHANGED <<vars, fresh, dispatcher, overdue, revoked>>

(* An unacknowledged envelope is delivered again after visibility_timeout. *)
EnvelopeRepeats(j) ==
  /\ \E w \in Workers : worker[w] # Idle /\ worker[w].job = j
  /\ envelopes[j] < MaxCopies /\ Enqueued(j)
  /\ UNCHANGED <<vars, fresh, dispatcher, overdue, revoked>>

(* Five minutes pass before an envelope is taken off the queue. *)
EnvelopeAges(j) ==
  /\ Backlogged
  /\ envelopes[j] > 0 /\ overdue[j] < MaxCopies
  /\ Taken(j)
  /\ overdue' = [overdue EXCEPT ![j] = @ + 1]
  /\ UNCHANGED <<vars, fresh, dispatcher, revoked>>

(* An expired envelope is acknowledged without running it, and its task id *)
(* joins the revoked ids the worker keeps in memory.                       *)
DiscardExpired(j) ==
  /\ overdue[j] > 0
  /\ overdue' = [overdue EXCEPT ![j] = @ - 1]
  /\ revoked' = revoked \cup {j}
  /\ UNCHANGED <<vars, fresh, dispatcher, envelopes>>

(* Any envelope of a revoked id is acknowledged without running it: the    *)
(* dispatcher gives every envelope of a job the same task id.              *)
DiscardRevoked(j) ==
  /\ envelopes[j] > 0 /\ j \in revoked
  /\ Taken(j)
  /\ UNCHANGED <<vars, fresh, dispatcher, overdue, revoked>>

(* The worker service is restarted: its calls die, its memory is empty. *)
ServiceRestarts ==
  /\ ServiceStops
  /\ revoked' = {}
  /\ UNCHANGED <<fresh, dispatcher, envelopes, overdue>>

(* execute_job: an envelope is taken and its job claimed, or skipped when  *)
(* the row is not pending and due any more.                                *)
Deliver(w, j) ==
  /\ worker[w] = Idle
  /\ envelopes[j] > 0 /\ j \notin revoked
  /\ Taken(j)
  /\ IF CanClaim(j) THEN Claim(w, j) ELSE UNCHANGED vars
  /\ UNCHANGED <<fresh, dispatcher, overdue, revoked>>

-----------------------------------------------------------------------------
(* The ledger's own steps, with dispatched_at and the broker beside them.  *)

(* finish clears dispatched_at on the row it settles; a stale one does not.*)
DFinish(w) ==
  /\ Finish(w) \/ FinishRaises(w)
  /\ fresh' = IF job' = job THEN fresh ELSE fresh \ {worker[w].job}
  /\ UNCHANGED <<dispatcher, envelopes, overdue, revoked>>

Run(w) ==
  /\ ReadDocument(w) \/ Extract(w) \/ DeleteObject(w) \/ ReadFails(w)
  /\ UNCHANGED transport

(* reject_on_worker_lost returns the envelope to the queue, unless the hard *)
(* time limit acknowledged it.                                             *)
DWorkerDies(w) ==
  /\ WorkerDies(w)
  /\ UNCHANGED envelopes \/ Enqueued(worker[w].job)
  /\ UNCHANGED <<fresh, dispatcher, overdue, revoked>>

DRetryCleanup(j) ==
  /\ RetryCleanup(j)
  /\ fresh' = fresh \ {j}
  /\ UNCHANGED <<dispatcher, envelopes, overdue, revoked>>

Elsewhere ==
  /\ \/ \E d \in Docs : UploadStep(d) \/ DeleteDocument(d) \/ Reprocess(d)
     \/ \E j \in Jobs : ClockStep(j)
  /\ UNCHANGED transport

DispatcherMoves(x) ==
  \/ ListExpired(x) \/ RecoverOne(x) \/ SelectDue(x)
  \/ Publish(x) \/ PublishFails(x) \/ DispatcherDies(x)

BrokerMoves(j) ==
  \/ EnvelopeLost(j) \/ EnvelopeRepeats(j) \/ EnvelopeAges(j)
  \/ DiscardExpired(j) \/ DiscardRevoked(j)

DNext ==
  \/ \E x \in Dispatchers : DispatcherMoves(x)
  \/ \E j \in Jobs : BrokerMoves(j) \/ RedispatchDue(j) \/ DRetryCleanup(j)
  \/ \E w \in Workers, j \in Jobs : Deliver(w, j)
  \/ \E w \in Workers : Run(w) \/ DFinish(w) \/ DWorkerDies(w)
  \/ ServiceRestarts
  \/ Elsewhere

DSpec == DInit /\ [][DNext]_dvars

(* The dispatcher runs and its transactions and broker calls succeed again *)
(* and again; an envelope that is there again and again is taken; clocks,  *)
(* uploads and runs end as in the ledger.  Nothing is assumed about how    *)
(* often processes die or envelopes are lost in between.                   *)
DFairness ==
  /\ \A d \in Docs : WF_dvars(UploadMoves(d) /\ UNCHANGED transport)
  /\ \A w \in Workers : WF_dvars(Run(w) \/ DFinish(w) \/ DWorkerDies(w))
  /\ \A j \in Jobs :
        /\ WF_dvars(ClockStep(j) /\ UNCHANGED transport)
        /\ WF_dvars(RedispatchDue(j))
        /\ WF_dvars(DiscardExpired(j) \/ DiscardRevoked(j))
        /\ SF_dvars(\E w \in Workers : Deliver(w, j))
  /\ \A x \in Dispatchers :
        /\ WF_dvars(ListExpired(x))
        /\ SF_dvars(RecoverOne(x))
        /\ SF_dvars(SelectDue(x))
        /\ SF_dvars(Publish(x))

FairDSpec == DSpec /\ DFairness

-----------------------------------------------------------------------------
(* Properties. *)

(* A running job is taken from its worker only after its lease ran out:    *)
(* neither a dispatcher working from an old list of candidates nor a       *)
(* second delivery draws a new token while the lease is live.              *)
LeaseHonoured ==
  [][\A j \in Jobs :
        job[j].state = "running" /\ job[j].lease = "live" => job'[j].token = job[j].token]_dvars

(* "Broker messages expire after five minutes; live database intents are   *)
(* republished": a pending job is always run in the end.                   *)
IntentRedelivered ==
  \A j \in Jobs : job[j].state = "pending" ~> job[j].state # "pending"
=============================================================================
