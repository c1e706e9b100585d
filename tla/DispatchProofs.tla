--------------------------- MODULE DispatchProofs ---------------------------
(***************************************************************************)
(* Proofs about the dispatcher and the transport, for every number of      *)
(* dispatchers, every batch size and every bound on the envelopes: however *)
(* jobs are selected, published, lost, repeated and delivered, what        *)
(* happens to jobs, documents and objects is a behaviour of the ledger, so *)
(* all that is proved of the ledger holds here; and no token is drawn      *)
(* while a lease is live.                                                  *)
(***************************************************************************)
EXTENDS Dispatch, DocumentProofs

-----------------------------------------------------------------------------
(* Types, and the ledger inside every step. *)

(* What an iteration takes up is a part of what its query found. *)
LEMMA BatchesWithin == ASSUME NEW S, NEW B \in Batches(S) PROVE B \subseteq S
<1>1. Batches(S) = {S} \/ Batches(S) = {C \in SUBSET S : Cardinality(C) = BatchLimit}
  BY Zenon DEF Batches
<1> QED BY <1>1

LEMMA TurnType ==
  ASSUME DTypeOK, NEW x \in Dispatchers, NEW pc \in {"idle", "recover", "publish"},
         NEW todo \in SUBSET Jobs, Turn(x, pc, todo)
  PROVE  dispatcher' \in [Dispatchers -> [pc : {"idle", "recover", "publish"}, todo : SUBSET Jobs]]
BY DEF DTypeOK, Turn

(* The list of an iteration consists of jobs. *)
LEMMA ListType == ASSUME DTypeOK, NEW x \in Dispatchers PROVE dispatcher[x].todo \in SUBSET Jobs
BY DEF DTypeOK

(* An envelope more, up to the bound, or one less. *)
OneMore == \E j \in Jobs : Enqueued(j)
OneLess == \E j \in Jobs : envelopes[j] > 0 /\ Taken(j)

LEMMA EnvelopeType ==
  ASSUME DTypeOK, UNCHANGED envelopes \/ OneMore \/ OneLess
  PROVE  envelopes' \in [Jobs -> 0..MaxCopies]
<1>1. MaxCopies \in Nat /\ envelopes \in [Jobs -> 0..MaxCopies]
  BY CopiesAssumption DEF DTypeOK
<1>2. ASSUME NEW j \in Jobs, Enqueued(j) PROVE envelopes' \in [Jobs -> 0..MaxCopies]
  <2>1. Added(j) \in 0..MaxCopies
    BY <1>1 DEF Added
  <2> QED BY <1>1, <1>2, <2>1 DEF Enqueued
<1>3. ASSUME NEW j \in Jobs, envelopes[j] > 0, Taken(j) PROVE envelopes' \in [Jobs -> 0..MaxCopies]
  <2> DEFINE n == envelopes[j] - 1
  <2>1. n \in 0..MaxCopies
    BY <1>1, <1>3
  <2>2. envelopes' = [envelopes EXCEPT ![j] = n]
    BY <1>3 DEF Taken
  <2> HIDE DEF n
  <2> QED BY <1>1, <2>1, <2>2
<1> QED BY <1>1, <1>2, <1>3 DEF OneMore, OneLess

(* What a step of the transport does to its own state keeps the types. *)
TransportTyped ==
  /\ fresh' \subseteq Jobs
  /\ dispatcher' \in [Dispatchers -> [pc : {"idle", "recover", "publish"}, todo : SUBSET Jobs]]
  /\ envelopes' \in [Jobs -> 0..MaxCopies]
  /\ overdue' \in [Jobs -> 0..MaxCopies]
  /\ revoked' \subseteq Jobs

LEMMA DispatcherType ==
  ASSUME DTypeOK, NEW x \in Dispatchers, DispatcherMoves(x) PROVE TransportTyped
<1> USE DEF TransportTyped
<1>1. CASE ListExpired(x)
  <2>1. PICK B \in Batches({j \in Jobs : CanRecover(j)}) : Turn(x, "recover", B)
    BY <1>1 DEF ListExpired
  <2>2. B \in SUBSET Jobs
    BY BatchesWithin
  <2> QED BY <1>1, <2>1, <2>2, TurnType DEF ListExpired, DTypeOK
<1>2. CASE RecoverOne(x)
  <2>1. PICK j \in dispatcher[x].todo :
          /\ Turn(x, "recover", dispatcher[x].todo \ {j})
          /\ fresh' = fresh \ {j} \/ fresh' = fresh
    BY <1>2, Zenon DEF RecoverOne
  <2>2. dispatcher[x].todo \ {j} \in SUBSET Jobs
    BY ListType
  <2> QED BY <1>2, <2>1, <2>2, TurnType DEF RecoverOne, DTypeOK
<1>3. CASE SelectDue(x)
  <2>1. PICK B \in Batches(Due) :
          /\ fresh' = fresh \cup B
          /\ Turn(x, "idle", {}) \/ Turn(x, "publish", B)
    BY <1>3, Zenon DEF SelectDue
  <2>2. B \in SUBSET Jobs /\ {} \in SUBSET Jobs
    BY BatchesWithin DEF Due
  <2> QED BY <1>3, <2>1, <2>2, TurnType DEF SelectDue, DTypeOK
<1>4. CASE Publish(x)
  <2>1. PICK j \in dispatcher[x].todo :
          /\ Enqueued(j)
          /\ Turn(x, "idle", {}) \/ Turn(x, "publish", dispatcher[x].todo \ {j})
    BY <1>4, Zenon DEF Publish
  <2>2. j \in Jobs /\ dispatcher[x].todo \ {j} \in SUBSET Jobs /\ {} \in SUBSET Jobs
    BY ListType
  <2>3. envelopes' \in [Jobs -> 0..MaxCopies]
    BY <2>1, <2>2, EnvelopeType DEF OneMore
  <2> QED BY <1>4, <2>1, <2>2, <2>3, TurnType DEF Publish, DTypeOK
<1>5. CASE PublishFails(x)
  <2>1. envelopes' \in [Jobs -> 0..MaxCopies]
    BY <1>5, ListType, EnvelopeType DEF PublishFails, OneMore
  <2>2. {} \in SUBSET Jobs
    OBVIOUS
  <2> QED BY <1>5, <2>1, <2>2, TurnType DEF PublishFails, DTypeOK
<1>6. CASE DispatcherDies(x)
  <2>1. {} \in SUBSET Jobs
    OBVIOUS
  <2> QED BY <1>6, <2>1, TurnType DEF DispatcherDies, DTypeOK
<1> QED BY <1>1, <1>2, <1>3, <1>4, <1>5, <1>6 DEF DispatcherMoves

LEMMA BrokerType ==
  ASSUME DTypeOK, NEW j \in Jobs,
         BrokerMoves(j) \/ RedispatchDue(j) \/ DRetryCleanup(j) \/ \E w \in Workers : Deliver(w, j)
  PROVE  TransportTyped
<1> USE DEF TransportTyped
<1>0. MaxCopies \in Nat /\ overdue \in [Jobs -> 0..MaxCopies]
  BY CopiesAssumption DEF DTypeOK
<1>1. ASSUME envelopes[j] > 0, Taken(j) PROVE envelopes' \in [Jobs -> 0..MaxCopies]
  BY <1>1, EnvelopeType DEF OneLess
<1>2. CASE EnvelopeLost(j) \/ DiscardRevoked(j) \/ \E w \in Workers : Deliver(w, j)
  BY <1>1, <1>2 DEF EnvelopeLost, DiscardRevoked, Deliver, DTypeOK
<1>3. CASE EnvelopeRepeats(j)
  <2>1. envelopes' \in [Jobs -> 0..MaxCopies]
    BY <1>3, EnvelopeType DEF EnvelopeRepeats, OneMore
  <2> QED BY <1>3, <2>1 DEF EnvelopeRepeats, DTypeOK
<1>4. CASE EnvelopeAges(j)
  <2> DEFINE n == overdue[j] + 1
  <2>1. n \in 0..MaxCopies
    BY <1>0, <1>4 DEF EnvelopeAges
  <2>2. overdue' = [overdue EXCEPT ![j] = n]
    BY <1>4 DEF EnvelopeAges
  <2> HIDE DEF n
  <2>3. overdue' \in [Jobs -> 0..MaxCopies]
    BY <1>0, <2>1, <2>2
  <2> QED BY <1>1, <1>4, <2>3 DEF EnvelopeAges, DTypeOK
<1>5. CASE DiscardExpired(j)
  <2> DEFINE n == overdue[j] - 1
  <2>1. n \in 0..MaxCopies
    BY <1>0, <1>5 DEF DiscardExpired
  <2>2. overdue' = [overdue EXCEPT ![j] = n]
    BY <1>5 DEF DiscardExpired
  <2> HIDE DEF n
  <2>3. overdue' \in [Jobs -> 0..MaxCopies]
    BY <1>0, <2>1, <2>2
  <2> QED BY <1>5, <2>3 DEF DiscardExpired, DTypeOK
<1>6. CASE RedispatchDue(j) \/ DRetryCleanup(j)
  BY <1>6 DEF RedispatchDue, DRetryCleanup, DTypeOK
<1> QED BY <1>2, <1>3, <1>4, <1>5, <1>6 DEF BrokerMoves

LEMMA WorkersType ==
  ASSUME DTypeOK,
         \/ \E w \in Workers : Run(w) \/ DFinish(w) \/ DWorkerDies(w)
         \/ ServiceRestarts \/ Elsewhere
  PROVE  TransportTyped
<1> USE DEF TransportTyped
<1>1. CASE \E w \in Workers : Run(w) \/ DFinish(w)
  <2>1. fresh' \subseteq fresh /\ UNCHANGED <<dispatcher, envelopes, overdue, revoked>>
    BY <1>1, Zenon DEF Run, DFinish, transport
  <2> QED BY <2>1 DEF DTypeOK
<1>2. ASSUME NEW w \in Workers, DWorkerDies(w) PROVE TransportTyped
  <2>1. worker[w].job \in Jobs
    BY <1>2, Busy DEF DWorkerDies, WorkerDies, DTypeOK
  <2>2. envelopes' \in [Jobs -> 0..MaxCopies]
    BY <1>2, <2>1, EnvelopeType DEF DWorkerDies, OneMore
  <2> QED BY <1>2, <2>2 DEF DWorkerDies, DTypeOK
<1>3. CASE ServiceRestarts
  BY <1>3 DEF ServiceRestarts, DTypeOK
<1>4. CASE Elsewhere
  BY <1>4 DEF Elsewhere, transport, DTypeOK
<1> QED BY <1>1, <1>2, <1>3, <1>4

(* Every step of the composed system is a step of the ledger or leaves it  *)
(* alone.  A row is settled by the dispatcher only if it finds the lease   *)
(* expired under its own lock, and claimed by a delivery only if it is     *)
(* pending and due.                                                        *)
LEMMA LedgerStep == DTypeOK /\ [DNext]_dvars => [Next]_vars
<1> SUFFICES ASSUME DTypeOK, [DNext]_dvars PROVE [Next]_vars
  OBVIOUS
<1> USE DEF vars
<1>1. CASE UNCHANGED dvars
  BY <1>1 DEF dvars
<1>2. ASSUME NEW x \in Dispatchers, DispatcherMoves(x) PROVE [Next]_vars
  <2>1. CASE RecoverOne(x)
    <3>1. PICK j \in dispatcher[x].todo :
            IF Recheck(j) THEN Settle(j, Lost(job[j]), "transient", Lost(job[j]).token)
                          ELSE UNCHANGED <<job, doc>>
      BY <2>1, Zenon DEF RecoverOne
    <3>2. j \in Jobs
      BY ListType
    <3>3. RecoverExpired(j) \/ UNCHANGED vars
      BY <2>1, <3>1, Zenon DEF RecoverOne, Recheck, RecoverExpired
    <3> QED BY <3>2, <3>3 DEF Next
  <2>2. CASE ListExpired(x) \/ SelectDue(x) \/ Publish(x) \/ PublishFails(x) \/ DispatcherDies(x)
    BY <2>2 DEF ListExpired, SelectDue, Publish, PublishFails, DispatcherDies
  <2> QED BY <1>2, <2>1, <2>2 DEF DispatcherMoves
<1>3. ASSUME NEW j \in Jobs, BrokerMoves(j) \/ RedispatchDue(j) PROVE [Next]_vars
  BY <1>3 DEF BrokerMoves, EnvelopeLost, EnvelopeRepeats, EnvelopeAges, DiscardExpired,
              DiscardRevoked, RedispatchDue
<1>4. ASSUME NEW j \in Jobs, DRetryCleanup(j) PROVE [Next]_vars
  BY <1>4 DEF DRetryCleanup, Next
<1>5. ASSUME NEW w \in Workers, NEW j \in Jobs, Deliver(w, j) PROVE [Next]_vars
  <2>1. Claim(w, j) \/ UNCHANGED vars
    BY <1>5, Zenon DEF Deliver
  <2> QED BY <2>1 DEF Next, WorkerStep
<1>6. ASSUME NEW w \in Workers, Run(w) \/ DFinish(w) \/ DWorkerDies(w) PROVE [Next]_vars
  <2>1. WorkerStep(w)
    BY <1>6 DEF Run, DFinish, DWorkerDies, WorkerStep
  <2> QED BY <2>1 DEF Next
<1>7. CASE ServiceRestarts
  BY <1>7 DEF ServiceRestarts, Next
<1>8. CASE Elsewhere
  BY <1>8 DEF Elsewhere, Next
<1> QED BY <1>1, <1>2, <1>3, <1>4, <1>5, <1>6, <1>7, <1>8 DEF DNext

LEMMA DTypeStep == DTypeOK /\ [DNext]_dvars => DTypeOK'
<1> SUFFICES ASSUME DTypeOK, [DNext]_dvars PROVE DTypeOK'
  OBVIOUS
<1>1. TypeOK'
  <2>1. TypeOK
    BY DEF DTypeOK
  <2> QED BY <2>1, LedgerStep, NextType
<1>2. TransportTyped
  <2>1. CASE UNCHANGED dvars
    BY <2>1 DEF dvars, transport, DTypeOK, TransportTyped
  <2>2. CASE DNext
    BY <2>2, DispatcherType, BrokerType, WorkersType DEF DNext
  <2> QED BY <2>1, <2>2
<1> QED BY <1>1, <1>2 DEF DTypeOK, TransportTyped

(* Rows, stamps, lists and envelopes keep their types. *)
THEOREM DispatchTypeCorrect == DSpec => []DTypeOK
<1>1. DInit => DTypeOK
  <2> SUFFICES ASSUME DInit PROVE DTypeOK
    OBVIOUS
  <2>1. TypeOK
    BY InitType DEF DInit
  <2> QED BY <2>1, CopiesAssumption DEF DInit, DTypeOK, Resting
<1> QED BY <1>1, DTypeStep, PTL DEF DSpec

(* The dispatcher, the broker and the worker service implement the open    *)
(* delivery of the ledger, in which any idle worker may claim any due job  *)
(* at any time.                                                            *)
THEOREM DispatchImplementsLedger == DSpec => Spec
<1>1. DInit => Init
  BY DEF DInit
<1> QED BY <1>1, LedgerStep, DispatchTypeCorrect, PTL DEF DSpec, Spec

-----------------------------------------------------------------------------
(* Tokens.  A row's token is drawn anew by a claim, which takes a pending  *)
(* row, and by a recovery, which takes one whose lease ran out.            *)

LiveRun(j) == job[j].state = "running" /\ job[j].lease = "live"

SameToken(j) == job'[j].token = job[j].token

TokensKept == \A j \in Jobs : LiveRun(j) => SameToken(j)

(* One row is written: with its token, or while no lease is live on it. *)
LEMMA RowTokens ==
  ASSUME TypeOK, NEW k \in Jobs, NEW r, job' = [job EXCEPT ![k] = r],
         LiveRun(k) => r.token = job[k].token
  PROVE  TokensKept
BY DEF TokensKept, SameToken, TypeOK

LEMMA SettleTokens ==
  ASSUME TypeOK, NEW j \in Jobs, NEW r \in Row, NEW o, NEW run, Settle(j, r, o, run),
         LiveRun(j) => r.token = job[j].token
  PROVE  TokensKept
<1>1. Settled(j, r, o).token = r.token
  <2>1. CASE o \in Failures
    BY <2>1 DEF Settled, Row
  <2>2. CASE o \notin Failures
    BY <2>2 DEF Settled, Row
  <2> QED BY <2>1, <2>2
<1> QED BY <1>1, RowTokens DEF Settle

LEMMA UploadTokens ==
  ASSUME TypeOK, Known, Fresh, NEW d \in Docs, UploadStep(d) PROVE TokensKept
<1> DEFINE i == Intent(d)
           k == OcrJob(d, 1)
<1>1. i \in Jobs /\ k \in Jobs /\ i # k /\ IsOcr(k) /\ k.doc = d /\ job[i] \in Row
  BY JobNames, JobRoles DEF TypeOK, Intent, OcrJob
<1>2. CASE UNCHANGED job
  BY <1>2 DEF TokensKept, SameToken
<1>3. CASE MadeDue(d)
  <2>1. [job[i] EXCEPT !.due = TRUE].token = job[i].token
    BY <1>1 DEF Row
  <2> QED BY <1>1, <1>3, <2>1, RowTokens DEF MadeDue
<1>4. CASE Create(d) /\ upload[d] = "stored"
  <2>1. job[k].state = "absent"
    BY <1>1, <1>4 DEF Known, UploadFirst, Unborn, Early
  <2>2. job' = [[job EXCEPT ![k] = NewRow(TRUE)] EXCEPT ![i] = [job[i] EXCEPT !.state = "succeeded"]]
    BY <1>1, <1>4 DEF Create, TypeOK
  <2>3. [job[i] EXCEPT !.state = "succeeded"].token = job[i].token
    BY <1>1 DEF Row
  <2> HIDE DEF i, k
  <2>4. \A j \in Jobs : j # k => SameToken(j)
    BY <2>2, <2>3 DEF SameToken, TypeOK
  <2> QED BY <2>1, <2>4 DEF TokensKept, LiveRun
<1>5. CASE BeginUpload(d)
  <2>1. ~LiveRun(i) /\ job' = [job EXCEPT ![i] = NewRow(FALSE)]
    BY <1>5 DEF BeginUpload, Fresh, LiveRun
  <2> QED BY <1>1, <2>1, RowTokens
<1> QED BY <1>2, <1>3, <1>4, <1>5 DEF UploadStep, AnswerEarly, StoreObject, StoreFails, CommitUpload,
           CommitConflict, CommitRaises, Commit, Expedite, ApiDies

LEMMA WorkerTokens ==
  ASSUME TypeOK, NEW w \in Workers, WorkerStep(w) PROVE TokensKept
<1>1. CASE UNCHANGED job
  BY <1>1 DEF TokensKept, SameToken
<1>2. ASSUME NEW j \in Jobs, Claim(w, j) PROVE TokensKept
  <2>1. \E r : job' = [job EXCEPT ![j] = r]
    BY <1>2, Zenon DEF Claim
  <2>2. ~LiveRun(j)
    BY <1>2 DEF Claim, CanClaim, LiveRun
  <2> QED BY <2>1, <2>2, RowTokens
<1>3. ASSUME worker[w].pc = "finish", FinishCommits(w) PROVE TokensKept
  <2> DEFINE j == worker[w].job
  <2>1. CASE Holds(w)
    <3>1. Settle(j, job[j], worker[w].outcome, worker[w].token)
      BY <1>3, <2>1 DEF FinishCommits
    <3>2. j \in Jobs /\ job[j] \in Row
      BY <1>3, Busy
    <3> QED BY <3>1, <3>2, SettleTokens
  <2> QED BY <1>1, <1>3, <2>1 DEF FinishCommits
<1> QED BY <1>1, <1>2, <1>3 DEF WorkerStep, ReadDocument, Extract, DeleteObject, ReadFails, Finish,
           FinishRaises, WorkerDies

LEMMA OtherTokens ==
  ASSUME TypeOK, Known, Fresh,
         \/ \E j \in Jobs : ClockStep(j) \/ RecoverExpired(j) \/ RetryCleanup(j)
         \/ \E d \in Docs : DeleteDocument(d) \/ Reprocess(d)
  PROVE  TokensKept
<1>1. ASSUME NEW j \in Jobs, TimePasses(j) \/ RetryCleanup(j) PROVE TokensKept
  <2>1. ~LiveRun(j) /\ \E r : job' = [job EXCEPT ![j] = r]
    BY <1>1 DEF TimePasses, RetryCleanup, LiveRun, TypeOK
  <2> QED BY <2>1, RowTokens
<1>2. ASSUME NEW j \in Jobs, LeaseExpires(j) PROVE TokensKept
  <2>1. [job[j] EXCEPT !.lease = "expired"].token = job[j].token
    BY DEF TypeOK, Row
  <2> QED BY <1>2, <2>1, RowTokens DEF LeaseExpires
<1>3. ASSUME NEW j \in Jobs, RecoverExpired(j) PROVE TokensKept
  <2>1. ~LiveRun(j) /\ Lost(job[j]) \in Row
    BY <1>3, LostType DEF RecoverExpired, CanRecover, LiveRun, TypeOK
  <2> QED BY <1>3, <2>1, SettleTokens DEF RecoverExpired
<1>4. ASSUME NEW d \in Docs, DeleteDocument(d) PROVE TokensKept
  <2>1. ~LiveRun(Removal(d)) /\ job' = [job EXCEPT ![Removal(d)] = NewRow(TRUE)]
    BY <1>4 DEF DeleteDocument, Fresh, Live, LiveRun
  <2> QED BY <2>1, RowTokens, JobNames
<1>5. ASSUME NEW d \in Docs, Reprocess(d) PROVE TokensKept
  <2>1. PICK n \in 1..MaxCycles : /\ job[OcrJob(d, n)].state = "absent"
                                  /\ job' = [job EXCEPT ![OcrJob(d, n)] = NewRow(TRUE)]
    BY <1>5 DEF Reprocess
  <2> QED BY <2>1, RowTokens, JobNames DEF LiveRun
<1> QED BY <1>1, <1>2, <1>3, <1>4, <1>5 DEF ClockStep

LEMMA TokensStep ==
  ASSUME TypeOK, Known, Fresh, [Next]_vars PROVE TokensKept
<1>1. CASE UNCHANGED vars \/ ServiceStops
  BY <1>1 DEF vars, ServiceStops, TokensKept, SameToken
<1>2. CASE Next
  BY <1>1, <1>2, UploadTokens, WorkerTokens, OtherTokens DEF Next
<1> QED BY <1>1, <1>2

(* Neither a dispatcher working from an old list of candidates nor a       *)
(* second delivery takes a job from the worker whose lease on it is live.  *)
THEOREM LeaseHonouredCorrect == DSpec => LeaseHonoured
<1>1. Init => Fresh /\ Known
  BY JobNames, KnownInit DEF Init, Fresh, NoRow
<1>2. TypeOK /\ Known /\ Fresh /\ [Next]_vars => Known' /\ Fresh'
  BY KnownStep, FreshStep
<1>3. Spec => [](TypeOK /\ Known /\ Fresh)
  BY <1>1, <1>2, TypeCorrect, PTL DEF Spec
<1>4. TypeOK /\ Known /\ Fresh /\ DTypeOK /\ [DNext]_dvars =>
        [\A j \in Jobs :
            job[j].state = "running" /\ job[j].lease = "live" => job'[j].token = job[j].token]_dvars
  <2> SUFFICES ASSUME TypeOK, Known, Fresh, DTypeOK, [DNext]_dvars
               PROVE  \A j \in Jobs :
                         job[j].state = "running" /\ job[j].lease = "live" =>
                            job'[j].token = job[j].token
    OBVIOUS
  <2>1. TokensKept
    BY LedgerStep, TokensStep
  <2> QED BY <2>1 DEF TokensKept, LiveRun, SameToken
<1> QED BY <1>3, <1>4, DispatchTypeCorrect, DispatchImplementsLedger, PTL DEF DSpec, LeaseHonoured

(* The fence, the status diagram and the idempotency key hold whatever the *)
(* transport does.                                                         *)
THEOREM DispatchedSafely ==
  DSpec => [](OneHolder /\ AttemptsBounded /\ ResultFromWinner /\ OneDocumentPerKey) /\ Lifecycle
BY DispatchImplementsLedger, LeaseCorrect, AttemptsCorrect, ResultCorrect, KeyCorrect,
   LifecycleCorrect, PTL

(* So does the link between bucket and database, if uploads end within     *)
(* their hour.                                                             *)
THEOREM DispatchedObjects ==
  ASSUME GraceHolds PROVE DSpec => [](LiveObject /\ OrphanOwed)
BY DispatchImplementsLedger, ObjectsKept, OrphansOwed, PTL
=============================================================================
