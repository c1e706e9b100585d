------------------------------- MODULE Ledger -------------------------------
(***************************************************************************)
(* The job ledger of the document service: the documents_document and      *)
(* documents_job tables, the object store, the API calls that write to     *)
(* them and the workers that claim, run and finish jobs (documents/jobs.py *)
(* and documents/services.py).                                             *)
(*                                                                         *)
(* Every database transaction is one step: it takes its row locks before   *)
(* it reads what it decides on.  What happens between transactions - an    *)
(* object-store call, a lost commit acknowledgement, a dead process, an    *)
(* expired lease - is a step of its own.                                   *)
(*                                                                         *)
(* How a job reaches a worker is left open here: any idle worker may claim *)
(* any due job at any time, so every duplicate, late or reordered delivery *)
(* is covered.  Module Dispatch adds the dispatcher and the broker.        *)
(***************************************************************************)
EXTENDS Integers

CONSTANTS
  Docs,             \* upload requests; each draws a fresh uuid for its document and its object
  Workers,          \* Celery worker processes
  KeyOf,            \* KeyOf[d]: the (owner, Idempotency-Key) pair of request d, or NoKey
  PrintOf,          \* PrintOf[d]: the fingerprint of the payload of request d
  NoKey,            \* no Idempotency-Key header
  OcrAttempts,      \* max_attempts of an OCR job
  CleanupAttempts,  \* max_attempts of a DELETE job
  MaxCycles,        \* bound: OCR jobs per document (first run and reprocess calls)
  RearmBound,       \* bound: retry_cleanup re-arms a job only while its token is below it
  GraceHolds,       \* TRUE when every upload ends within the hour its intent waits
  NoJob             \* a worker between deliveries has no job

ASSUME AttemptsAssumption ==
  /\ OcrAttempts \in Nat \ {0}
  /\ CleanupAttempts \in Nat \ {0}
ASSUME BoundsAssumption ==
  /\ MaxCycles \in Nat \ {0}
  /\ RearmBound \in Nat
ASSUME GraceAssumption == GraceHolds \in BOOLEAN

VARIABLES
  job,      \* job[j]: the row of job j
  doc,      \* doc[d]: the row of the document of upload request d
  objects,  \* requests whose object is in the bucket
  worker,   \* worker[w]: the run_job call of worker w
  upload    \* upload[d]: how far create_document has come for request d

vars == <<job, doc, objects, worker, upload>>

-----------------------------------------------------------------------------
(* Jobs and rows. *)

(* A job is named by the call that creates it.  kind, document_id and      *)
(* storage_key never change after that, so they are read off the name.     *)
OcrJob(d, n) == [role |-> "ocr", doc |-> d, n |-> n]
Intent(d)    == [role |-> "intent", doc |-> d, n |-> 1]
Removal(d)   == [role |-> "removal", doc |-> d, n |-> 1]

Jobs == [role : {"ocr"}, doc : Docs, n : 1..MaxCycles]
          \cup [role : {"intent", "removal"}, doc : Docs, n : {1}]

ASSUME NoJobAssumption == NoJob \notin Jobs

IsOcr(j) == j.role = "ocr"

Cleanups(d) == {Intent(d), Removal(d)}

MaxAttempts(j) == IF IsOcr(j) THEN OcrAttempts ELSE CleanupAttempts

(* Failures are OCRFailure values: retryable ones are transient. *)
Failures == {"transient", "permanent"}

Outcomes == {"result", "done"} \cup Failures

(* The row of a Job.  due stands for available_at <= now; lease for        *)
(* lease_until; token counts the run_token values drawn (each is a fresh   *)
(* uuid, so equal tokens are the same draw).                               *)
Row ==
  [state    : {"absent", "pending", "running", "succeeded", "failed"},
   attempts : Nat,
   due      : BOOLEAN,
   lease    : {"none", "live", "expired"},
   token    : Nat,
   error    : {"none"} \cup Failures]

NoRow == [state |-> "absent", attempts |-> 0, due |-> FALSE,
          lease |-> "none", token |-> 0, error |-> "none"]

(* A new job, due now or (an upload intent) an hour from now. *)
NewRow(isDue) == [NoRow EXCEPT !.state = "pending", !.due = isDue]

(* The row of a Document.  text holds the run whose result was stored. *)
DocRow ==
  [status   : {"absent", "pending", "processing", "succeeded", "failed", "deleted"},
   attempts : Nat,
   error    : {"none"} \cup Failures,
   text     : SUBSET (Jobs \X Nat)]

NoDoc == [status |-> "absent", attempts |-> 0, error |-> "none", text |-> {}]

(* Slip: a deleted document still counts as there. *)
LiveEver(d) == doc[d].status # "absent"

Live(d) == doc[d].status \notin {"absent", "deleted"}

(* Rows in which the database still owes work. *)
Active == {"pending", "running"}

(* A worker is idle or inside run_job, past its claim. *)
Idle == [pc |-> "idle", job |-> NoJob, token |-> 0, outcome |-> "done"]

Calls == [pc : {"claimed", "read", "finish"}, job : Jobs, token : Nat, outcome : Outcomes]

Stages == {"new", "intent", "stored", "failing", "over"}

TypeOK ==
  /\ job \in [Jobs -> Row]
  /\ doc \in [Docs -> DocRow]
  /\ objects \subseteq Docs
  /\ worker \in [Workers -> Calls \cup {Idle}]
  /\ upload \in [Docs -> Stages]

Init ==
  /\ job = [j \in Jobs |-> NoRow]
  /\ doc = [d \in Docs |-> NoDoc]
  /\ objects = {}
  /\ worker = [w \in Workers |-> Idle]
  /\ upload = [d \in Docs |-> "new"]

-----------------------------------------------------------------------------
(* create_document: an upload from its first replay check to its answer.   *)

(* The document that already carries the key of request d: _replay. *)
Existing(d) == {e \in Docs : KeyOf[d] # NoKey /\ Live(e) /\ KeyOf[e] = KeyOf[d]}

SamePayload(d) == \E e \in Existing(d) : PrintOf[e] = PrintOf[d]

(* The key is taken before anything is written: replayed or refused. *)
AnswerEarly(d) ==
  /\ upload[d] = "new"
  /\ Existing(d) # {}
  /\ upload' = [upload EXCEPT ![d] = "over"]
  /\ UNCHANGED <<job, doc, objects, worker>>

(* The cleanup intent is committed before the object is written. *)
BeginUpload(d) ==
  /\ upload[d] = "new"
  /\ Existing(d) = {}
  /\ job' = [job EXCEPT ![Intent(d)] = NewRow(FALSE)]
  /\ upload' = [upload EXCEPT ![d] = "intent"]
  /\ UNCHANGED <<doc, objects, worker>>

StoreObject(d) ==
  /\ upload[d] = "intent"
  /\ objects' = objects \cup {d}
  /\ upload' = [upload EXCEPT ![d] = "stored"]
  /\ UNCHANGED <<job, doc, worker>>

(* default_storage.save raised: the object may be in the bucket or not. *)
StoreFails(d) ==
  /\ upload[d] = "intent"
  /\ objects' \in {objects, objects \cup {d}}
  /\ upload' = [upload EXCEPT ![d] = "failing"]
  /\ UNCHANGED <<job, doc, worker>>

(* Slip: a replayed upload closes its intent instead of making it due. *)
MadeClosed(d) == job' = [job EXCEPT ![Intent(d)].state = "succeeded"]

MadeDue(d) == job' = [job EXCEPT ![Intent(d)].due = TRUE]

(* Slip: the intent of a created document stays armed. *)
CreateIntentArmed(d) ==
  /\ doc' = [doc EXCEPT ![d] = [NoDoc EXCEPT !.status = "pending"]]
  /\ job' = [job EXCEPT ![OcrJob(d, 1)] = NewRow(TRUE)]

(* The document, its OCR job and the end of the intent, all or none.       *)
Create(d) ==
  /\ doc' = [doc EXCEPT ![d] = [NoDoc EXCEPT !.status = "pending"]]
  /\ job' = [job EXCEPT ![OcrJob(d, 1)] = NewRow(TRUE),
                        ![Intent(d)].state = "succeeded"]

(* Slip: the key is not looked up again inside the transaction. *)
CommitUnchecked(d) == Create(d)

(* What the upload transaction commits, under the owner's row lock. *)
Commit(d) ==
  \/ SamePayload(d) /\ MadeDue(d) /\ UNCHANGED doc
  \/ Existing(d) = {} /\ Create(d)

CommitUpload(d) ==
  /\ upload[d] = "stored"
  /\ Commit(d)
  /\ upload' = [upload EXCEPT ![d] = "over"]
  /\ UNCHANGED <<objects, worker>>

(* The key was taken by another payload while the object was written. *)
CommitConflict(d) ==
  /\ upload[d] = "stored"
  /\ Existing(d) # {} /\ ~SamePayload(d)
  /\ upload' = [upload EXCEPT ![d] = "failing"]
  /\ UNCHANGED <<job, doc, objects, worker>>

(* The transaction raised: rolled back, or committed with its              *)
(* acknowledgement lost, which the handler cannot tell apart.              *)
CommitRaises(d) ==
  /\ upload[d] = "stored"
  /\ Commit(d) \/ UNCHANGED <<job, doc>>
  /\ upload' = [upload EXCEPT ![d] = "failing"]
  /\ UNCHANGED <<objects, worker>>

(* The handler moves the intent's hour forward, whatever became of it. *)
Expedite(d) ==
  /\ upload[d] = "failing"
  /\ MadeDue(d)
  /\ upload' = [upload EXCEPT ![d] = "over"]
  /\ UNCHANGED <<doc, objects, worker>>

(* The API process dies, or the expediting update fails as well. *)
ApiDies(d) ==
  /\ upload[d] \in {"intent", "stored", "failing"}
  /\ objects' = objects \/ (upload[d] = "intent" /\ objects' = objects \cup {d})
  /\ upload' = [upload EXCEPT ![d] = "over"]
  /\ UNCHANGED <<job, doc, worker>>

-----------------------------------------------------------------------------
(* claim and run_job: one delivery of a job to a worker. *)

Claimed(r) == [r EXCEPT !.state = "running", !.attempts = @ + 1,
                        !.token = @ + 1, !.lease = "live"]

(* Slip: the job's state is written where a status belongs. *)
FollowState(row, r, status, text) ==
  [row EXCEPT !.status = r.state, !.attempts = r.attempts, !.error = r.error, !.text = text]

(* _transition: the document follows its job's row; a result is stored.    *)
Follow(row, r, status, text) ==
  [row EXCEPT !.status = status, !.attempts = r.attempts, !.error = r.error, !.text = text]

CanClaim(j) == job[j].state = "pending" /\ job[j].due

(* claim takes the row; an OCR job of a deleted document ends there. *)
Claim(w, j) ==
  /\ worker[w] = Idle
  /\ CanClaim(j)
  /\ LET r == Claimed(job[j]) IN
     IF IsOcr(j) /\ ~Live(j.doc)
       THEN /\ job' = [job EXCEPT ![j] = [r EXCEPT !.state = "succeeded", !.lease = "none"]]
            /\ UNCHANGED <<doc, worker>>
       ELSE /\ job' = [job EXCEPT ![j] = r]
            /\ worker' = [worker EXCEPT ![w] =
                            [pc |-> "claimed", job |-> j, token |-> r.token, outcome |-> "done"]]
            /\ doc' = IF IsOcr(j)
                        THEN [doc EXCEPT ![j.doc] = Follow(@, [r EXCEPT !.error = "none"],
                                                           "processing", @.text)]
                        ELSE doc
  /\ UNCHANGED <<objects, upload>>

Reach(w, pc, outcome) ==
  worker' = [worker EXCEPT ![w].pc = pc, ![w].outcome = outcome]

(* The document is read outside any transaction.  If it is gone the job    *)
(* is finished with neither result nor failure.                            *)
ReadDocument(w) ==
  /\ worker[w].pc = "claimed" /\ IsOcr(worker[w].job)
  /\ IF Live(worker[w].job.doc) THEN Reach(w, "read", "done") ELSE Reach(w, "finish", "done")
  /\ UNCHANGED <<job, doc, objects, upload>>

(* The object is fetched, checked and run through OCR.  A missing object   *)
(* or an unreachable store is a transient failure; a failed size or digest *)
(* check and what extract refuses are permanent ones.                      *)
Extract(w) ==
  /\ worker[w].pc = "read"
  /\ \E o \in Failures \cup {"result"} :
        /\ worker[w].job.doc \in objects \/ o = "transient"
        /\ Reach(w, "finish", o)
  /\ UNCHANGED <<job, doc, objects, upload>>

(* Slip: an error of the object store is swallowed. *)
DeleteSwallowed(w) ==
  /\ worker[w].pc = "claimed" /\ ~IsOcr(worker[w].job)
  /\ objects' \in {objects, objects \ {worker[w].job.doc}} /\ Reach(w, "finish", "done")
  /\ UNCHANGED <<job, doc, upload>>

(* default_storage.delete: done (also when the key is missing), or raised  *)
(* with the object gone or not.                                            *)
DeleteObject(w) ==
  /\ worker[w].pc = "claimed" /\ ~IsOcr(worker[w].job)
  /\ \/ objects' = objects \ {worker[w].job.doc} /\ Reach(w, "finish", "done")
     \/ objects' \in {objects, objects \ {worker[w].job.doc}} /\ Reach(w, "finish", "transient")
  /\ UNCHANGED <<job, doc, upload>>

(* Slips: one attempt too many, one too few. *)
RetriesOnceMore(j, r, o) == o = "transient" /\ r.attempts <= MaxAttempts(j)
RetriesOnceLess(j, r, o) == o = "transient" /\ r.attempts + 1 < MaxAttempts(j)

Retries(j, r, o) == o = "transient" /\ r.attempts < MaxAttempts(j)

(* finish, on the row: state, error, lease and backoff. *)
Settled(j, r, o) ==
  IF o \in Failures
    THEN [r EXCEPT !.state = IF Retries(j, r, o) THEN "pending" ELSE "failed",
                   !.error = o, !.lease = "none", !.due = FALSE]
    ELSE [r EXCEPT !.state = "succeeded", !.error = "none", !.lease = "none"]

(* finish, on row r of job j and on the document of an OCR job.  run is    *)
(* the token under which the result was computed.                          *)
Settle(j, r, o, run) ==
  /\ job' = [job EXCEPT ![j] = Settled(j, r, o)]
  /\ doc' = IF IsOcr(j) /\ Live(j.doc)
              THEN [doc EXCEPT ![j.doc] =
                      Follow(@, Settled(j, r, o), Settled(j, r, o).state,
                             IF o = "result" THEN {<<j, run>>} ELSE @.text)]
              ELSE doc

(* Slips: finish compares only the state, or only the token. *)
HoldsState(w) == job[worker[w].job].state = "running"
HoldsToken(w) == job[worker[w].job].token = worker[w].token

(* The fence: the row still carries this run's token and is running. *)
Holds(w) ==
  LET r == job[worker[w].job] IN r.token = worker[w].token /\ r.state = "running"

FinishCommits(w) ==
  LET j == worker[w].job IN
  IF Holds(w) THEN Settle(j, job[j], worker[w].outcome, worker[w].token)
              ELSE UNCHANGED <<job, doc>>

Finish(w) ==
  /\ worker[w].pc = "finish"
  /\ FinishCommits(w)
  /\ worker' = [worker EXCEPT ![w] = Idle]
  /\ UNCHANGED <<objects, upload>>

(* finish raised, its transaction committed or not.  Inside the try block  *)
(* of run_job that becomes a second finish with a retryable failure; from  *)
(* an except block it leaves run_job and the delivery ends.                *)
FinishRaises(w) ==
  /\ worker[w].pc = "finish"
  /\ FinishCommits(w) \/ UNCHANGED <<job, doc>>
  /\ IF worker[w].outcome \in Failures
       THEN worker' = [worker EXCEPT ![w] = Idle]
       ELSE Reach(w, "finish", "transient")
  /\ UNCHANGED <<objects, upload>>

(* The document cannot be read (or the soft time limit strikes): any error *)
(* that is not an OCRFailure becomes a retryable failure.                  *)
ReadFails(w) ==
  /\ worker[w].pc = "claimed" /\ IsOcr(worker[w].job)
  /\ Reach(w, "finish", "transient")
  /\ UNCHANGED <<job, doc, objects, upload>>

(* The worker process is killed: hard time limit, memory, restart. *)
WorkerDies(w) ==
  /\ worker[w] # Idle
  /\ worker' = [worker EXCEPT ![w] = Idle]
  /\ UNCHANGED <<job, doc, objects, upload>>

(* The worker service stops: all its pool processes go at once. *)
ServiceStops ==
  /\ worker' = [w \in Workers |-> Idle]
  /\ UNCHANGED <<job, doc, objects, upload>>

-----------------------------------------------------------------------------
(* Time, recovery and the calls of users and operators. *)

(* available_at is reached.  With GraceHolds no intent comes due while its *)
(* upload is still under way.                                              *)
TimePasses(j) ==
  /\ job[j].state = "pending" /\ ~job[j].due
  /\ GraceHolds /\ j.role = "intent" => upload[j.doc] = "over"
  /\ job' = [job EXCEPT ![j].due = TRUE]
  /\ UNCHANGED <<doc, objects, worker, upload>>

(* lease_until is reached, whether or not the worker is still at work. *)
LeaseExpires(j) ==
  /\ job[j].state = "running" /\ job[j].lease = "live"
  /\ job' = [job EXCEPT ![j].lease = "expired"]
  /\ UNCHANGED <<doc, objects, worker, upload>>

Lost(r) == [r EXCEPT !.token = @ + 1]

(* recover_expired, one row: a new token fences the old run off, then      *)
(* finish(worker_lost, retryable) on the same row in the same transaction. *)
CanRecover(j) == job[j].state = "running" /\ job[j].lease = "expired"

RecoverExpired(j) ==
  /\ CanRecover(j)
  /\ Settle(j, Lost(job[j]), "transient", Lost(job[j]).token)
  /\ UNCHANGED <<objects, worker, upload>>

(* Slip: the document goes without a cleanup job. *)
DeleteUnowed(d) ==
  /\ Live(d)
  /\ doc' = [doc EXCEPT ![d] = [NoDoc EXCEPT !.status = "deleted"]]
  /\ UNCHANGED <<job, objects, worker, upload>>

(* DELETE with the current revision: the row goes, a cleanup job is due. *)
DeleteDocument(d) ==
  /\ Live(d)
  /\ doc' = [doc EXCEPT ![d] = [NoDoc EXCEPT !.status = "deleted"]]
  /\ job' = [job EXCEPT ![Removal(d)] = NewRow(TRUE)]
  /\ UNCHANGED <<objects, worker, upload>>

(* Slip: the attempts of the last cycle are kept. *)
RequeuedSpent(row) == [row EXCEPT !.status = "pending", !.error = "none"]

Requeued(row) == [row EXCEPT !.status = "pending", !.attempts = 0, !.error = "none"]

(* POST reprocess with the current revision: failed documents only. *)
Reprocess(d) ==
  /\ doc[d].status = "failed"
  /\ \E n \in 1..MaxCycles :
        /\ job[OcrJob(d, n)].state = "absent"
        /\ \A m \in 1..(n - 1) : job[OcrJob(d, m)].state # "absent"
        /\ job' = [job EXCEPT ![OcrJob(d, n)] = NewRow(TRUE)]
  /\ doc' = [doc EXCEPT ![d] = Requeued(@)]
  /\ UNCHANGED <<objects, worker, upload>>

(* retry_cleanup: an operator re-arms a failed DELETE job. *)
RetryCleanup(j) ==
  /\ ~IsOcr(j) /\ job[j].state = "failed"
  /\ job[j].token < RearmBound
  /\ job' = [job EXCEPT ![j].state = "pending", ![j].attempts = 0,
                        ![j].error = "none", ![j].due = TRUE]
  /\ UNCHANGED <<doc, objects, worker, upload>>

-----------------------------------------------------------------------------
UploadStep(d) ==
  \/ AnswerEarly(d) \/ BeginUpload(d) \/ StoreObject(d) \/ StoreFails(d)
  \/ CommitUpload(d) \/ CommitConflict(d) \/ CommitRaises(d)
  \/ Expedite(d) \/ ApiDies(d)

WorkerStep(w) ==
  \/ \E j \in Jobs : Claim(w, j)
  \/ ReadDocument(w) \/ Extract(w) \/ DeleteObject(w) \/ ReadFails(w)
  \/ Finish(w) \/ FinishRaises(w) \/ WorkerDies(w)

ClockStep(j) == TimePasses(j) \/ LeaseExpires(j)

Next ==
  \/ \E d \in Docs : UploadStep(d) \/ DeleteDocument(d) \/ Reprocess(d)
  \/ \E w \in Workers : WorkerStep(w)
  \/ ServiceStops
  \/ \E j \in Jobs : ClockStep(j) \/ RecoverExpired(j) \/ RetryCleanup(j)

Spec == Init /\ [][Next]_vars

(* An upload goes on, or ends, by itself. *)
UploadMoves(d) ==
  \/ StoreObject(d) \/ StoreFails(d) \/ CommitUpload(d) \/ CommitConflict(d)
  \/ CommitRaises(d) \/ Expedite(d) \/ ApiDies(d)

-----------------------------------------------------------------------------
(* Properties. *)

(* _transition writes the document in the transaction that writes its job: *)
(* at any time at most one OCR job of a document is active, a live         *)
(* document shows exactly that job's state and attempts, and it waits      *)
(* (pending, processing) only while such a job exists to move it on.       *)
OneActiveRun ==
  \A j, k \in Jobs :
     IsOcr(j) /\ IsOcr(k) /\ j.doc = k.doc
       /\ job[j].state \in Active /\ job[k].state \in Active => j = k

ActiveRunShown ==
  \A j \in Jobs :
     IsOcr(j) /\ job[j].state \in Active /\ Live(j.doc) =>
        /\ doc[j.doc].status = IF job[j].state = "running" THEN "processing" ELSE "pending"
        /\ doc[j.doc].attempts = job[j].attempts

WaitingIsServed ==
  \A d \in Docs :
     doc[d].status \in {"pending", "processing"} =>
        \E j \in Jobs : IsOcr(j) /\ j.doc = d /\ job[j].state \in Active

StatusMatchesJob == OneActiveRun /\ ActiveRunShown /\ WaitingIsServed

(* finish is fenced: a live document has text exactly when it succeeded,   *)
(* and the text was computed by the run that ended its OCR job, never by a *)
(* run that had been recovered or finished before.                         *)
ResultFromWinner ==
  \A d \in Docs :
     /\ Live(d) => (doc[d].status = "succeeded" <=> doc[d].text # {})
     /\ \A r \in doc[d].text :
           /\ IsOcr(r[1]) /\ r[1].doc = d
           /\ job[r[1]].state = "succeeded"
           /\ job[r[1]].token = r[2]

(* The lease is exclusive: of all workers still busy with a job, at most   *)
(* one can pass the fence in finish.                                       *)
OneHolder ==
  \A w, v \in Workers :
     worker[w] # Idle /\ worker[v] # Idle /\ worker[w].job = worker[v].job
       /\ Holds(w) /\ Holds(v) => w = v

(* A job that can still be claimed has an attempt left, and no job is ever *)
(* started more often than max_attempts, however often it is delivered,    *)
(* recovered or re-armed.                                                  *)
AttemptsBounded ==
  \A j \in Jobs :
     /\ job[j].attempts <= MaxAttempts(j)
     /\ job[j].state = "pending" => job[j].attempts < MaxAttempts(j)

(* A transient failure is final only after every attempt was used: no      *)
(* document or cleanup is given up early.                                  *)
FailsOnlyWhenSpent ==
  /\ \A j \in Jobs :
        job[j].state = "failed" /\ job[j].error # "permanent" =>
           job[j].attempts = MaxAttempts(j)
  /\ \A d \in Docs :
        doc[d].status = "failed" /\ doc[d].error # "permanent" => doc[d].attempts = OcrAttempts

(* Under the one-hour assumption no cleanup, early or repeated, deletes    *)
(* the object of a document that exists.                                   *)
LiveObject == \A d \in Docs : Live(d) => d \in objects

(* The upload intent and the deletion job close the gap between bucket and *)
(* database: an object without a document is always owed a cleanup that    *)
(* is scheduled, running, or visibly failed.                               *)
OrphanOwed ==
  \A d \in Docs :
     d \in objects /\ ~Live(d) =>
        \E j \in Cleanups(d) : job[j].state \in Active \cup {"failed"}

(* Two racing uploads with one Idempotency-Key leave one document: replay  *)
(* is decided again under the owner's lock, after the object was written.  *)
OneDocumentPerKey ==
  \A d, e \in Docs :
     Live(d) /\ Live(e) /\ KeyOf[d] # NoKey /\ KeyOf[d] = KeyOf[e] => d = e

(* Seen through its documents alone the ledger is the status diagram of    *)
(* DocumentStatus: attempts never pass the limit, succeeded is final, text *)
(* appears once and with succeeded only, and a deleted document never      *)
(* comes back, whatever late results, duplicates and crashes do.  (An OCR  *)
(* row draws at most two tokens per attempt.)                              *)
Shown == INSTANCE DocumentStatus WITH
  Limit    <- OcrAttempts,
  Results  <- Jobs \X (1..2 * OcrAttempts),
  status   <- [d \in Docs |-> doc[d].status],
  attempts <- [d \in Docs |-> doc[d].attempts],
  text     <- [d \in Docs |-> doc[d].text]

Lifecycle == Shown!Spec

(* Every accepted document reaches an outcome, whatever crashes. *)
DocumentSettles ==
  \A d \in Docs :
     doc[d].status \in {"pending", "processing"} ~> doc[d].status \notin {"pending", "processing"}

(* Every object without a document is removed, or its cleanup ends up      *)
(* failed where an operator sees it.                                       *)
OrphanCleaned ==
  \A d \in Docs :
     d \in objects /\ ~Live(d) ~>
        d \notin objects \/ Live(d) \/ \E j \in Cleanups(d) : job[j].state = "failed"
=============================================================================
