---------------------------- MODULE LedgerProofs ----------------------------
(***************************************************************************)
(* Proofs about the rows of jobs, for every set of documents and workers   *)
(* and every value of the limits: types, attempts, run tokens and leases.  *)
(*                                                                         *)
(* Every step of the ledger is brought to one of seven forms, which say    *)
(* only what happened to the OCR rows and the documents; most invariants   *)
(* here and in DocumentProofs are proved over these forms.                 *)
(***************************************************************************)
EXTENDS Ledger, TLAPS

-----------------------------------------------------------------------------
(* Job names and rows. *)

(* The jobs of a document are jobs, and belong to it. *)
LEMMA JobNames ==
  /\ \A d \in Docs : /\ Intent(d) \in Jobs /\ Removal(d) \in Jobs
                     /\ OcrJob(d, 1) \in Jobs
                     /\ \A n \in 1..MaxCycles : OcrJob(d, n) \in Jobs
  /\ \A j \in Jobs : j.doc \in Docs
BY BoundsAssumption DEF Intent, Removal, OcrJob, Jobs

(* New, claimed, fenced and settled rows are rows. *)
LEMMA NewRowType == \A b \in BOOLEAN : NewRow(b) \in Row
BY DEF NewRow, NoRow, Row

LEMMA ClaimedType == ASSUME NEW r \in Row PROVE Claimed(r) \in Row
<1> DEFINE a == r.attempts + 1
           t == r.token + 1
<1>1. a \in Nat /\ t \in Nat
  BY DEF Row
<1>2. Claimed(r) = [r EXCEPT !.state = "running", !.attempts = a, !.token = t, !.lease = "live"]
  BY DEF Claimed
<1> HIDE DEF a, t
<1> QED BY <1>1, <1>2 DEF Row

LEMMA LostType == ASSUME NEW r \in Row PROVE Lost(r) \in Row
BY DEF Lost, Row

LEMMA SettledType ==
  ASSUME NEW j, NEW r \in Row, NEW o \in Outcomes
  PROVE  /\ Settled(j, r, o) \in Row
         /\ Settled(j, r, o).state \in {"pending", "failed", "succeeded"}
<1>1. CASE o \in Failures
  BY <1>1 DEF Settled, Row, Failures
<1>2. CASE o \notin Failures
  BY <1>2 DEF Settled, Row, Failures
<1> QED BY <1>1, <1>2

LEMMA FollowType ==
  ASSUME NEW row \in DocRow, NEW r \in Row, NEW t \in SUBSET (Jobs \X Nat),
         NEW s \in {"pending", "processing", "succeeded", "failed"}
  PROVE  Follow(row, r, s, t) \in DocRow
BY DEF Follow, DocRow, Row

(* finish keeps both tables well typed. *)
LEMMA SettleType ==
  ASSUME TypeOK, NEW j \in Jobs, NEW r \in Row, NEW o \in Outcomes, NEW run \in Nat,
         Settle(j, r, o, run)
  PROVE  job' \in [Jobs -> Row] /\ doc' \in [Docs -> DocRow]
<1>1. job' \in [Jobs -> Row]
  BY SettledType DEF Settle, TypeOK
<1>2. CASE IsOcr(j) /\ Live(j.doc)
  <2> DEFINE d == j.doc
             t == IF o = "result" THEN {<<j, run>>} ELSE doc[d].text
             s == Settled(j, r, o)
  <2>1. d \in Docs /\ doc[d] \in DocRow
    BY JobNames DEF TypeOK
  <2>2. t \in SUBSET (Jobs \X Nat)
    <3>1. doc[d].text \in SUBSET (Jobs \X Nat)
      BY <2>1 DEF DocRow
    <3>2. {<<j, run>>} \in SUBSET (Jobs \X Nat)
      OBVIOUS
    <3> QED BY <3>1, <3>2
  <2>3. s \in Row /\ s.state \in {"pending", "processing", "succeeded", "failed"}
    BY SettledType
  <2>4. Follow(doc[d], s, s.state, t) \in DocRow
    BY <2>1, <2>2, <2>3, FollowType
  <2>5. doc' = [doc EXCEPT ![d] = Follow(doc[d], s, s.state, t)]
    BY <1>2, Zenon DEF Settle
  <2> QED BY <1>1, <2>4, <2>5 DEF TypeOK
<1>3. CASE ~(IsOcr(j) /\ Live(j.doc))
  <2>1. doc' = doc
    BY <1>3, Zenon DEF Settle
  <2> QED BY <1>1, <2>1 DEF TypeOK
<1> QED BY <1>1, <1>2, <1>3

LEMMA ReachType ==
  ASSUME TypeOK, NEW w \in Workers, worker[w] # Idle,
         NEW pc \in {"read", "finish"}, NEW o \in Outcomes, Reach(w, pc, o)
  PROVE  worker' \in [Workers -> Calls \cup {Idle}]
<1>1. worker[w] \in Calls
  BY DEF TypeOK
<1>2. [worker[w] EXCEPT !.pc = pc, !.outcome = o] \in Calls
  BY <1>1 DEF Calls
<1>3. worker' = [worker EXCEPT ![w] = [worker[w] EXCEPT !.pc = pc, !.outcome = o]]
  BY DEF Reach, TypeOK
<1> QED BY <1>2, <1>3 DEF TypeOK

(* A worker that is not idle is inside a call. *)
LEMMA Busy ==
  ASSUME TypeOK, NEW w \in Workers, worker[w] # Idle \/ worker[w].pc # "idle"
  PROVE  /\ worker[w] # Idle /\ worker[w] \in Calls
         /\ worker[w].job \in Jobs /\ worker[w].token \in Nat /\ worker[w].outcome \in Outcomes
         /\ worker[w].job.doc \in Docs /\ job[worker[w].job] \in Row
<1>1. worker[w] # Idle
  BY DEF Idle
<1>2. worker[w] \in Calls
  BY <1>1 DEF TypeOK
<1> QED BY <1>1, <1>2, JobNames DEF Calls, TypeOK

(* Assigning one field of a row of a job, as the EXCEPTs of the actions do. *)
LEMMA SetDue ==
  ASSUME NEW r \in Row, NEW b \in BOOLEAN PROVE [r EXCEPT !.due = b] \in Row
BY DEF Row

-----------------------------------------------------------------------------
(* Type correctness. *)

LEMMA InitType == Init => TypeOK
BY DEF Init, TypeOK, NoRow, NoDoc, Row, DocRow, Stages

LEMMA UploadType ==
  ASSUME TypeOK, NEW d \in Docs, UploadStep(d) PROVE TypeOK'
<1> USE JobNames DEF Stages
<1>1. CASE AnswerEarly(d)
  BY <1>1 DEF AnswerEarly, TypeOK
<1>2. CASE BeginUpload(d)
  BY <1>2, NewRowType DEF BeginUpload, TypeOK
<1>3. CASE StoreObject(d)
  BY <1>3 DEF StoreObject, TypeOK
<1>4. CASE StoreFails(d)
  BY <1>4 DEF StoreFails, TypeOK
<1>5. ASSUME MadeDue(d) PROVE job' \in [Jobs -> Row]
  <2>1. [job[Intent(d)] EXCEPT !.due = TRUE] \in Row
    BY SetDue DEF TypeOK
  <2> QED BY <1>5, <2>1 DEF MadeDue, TypeOK
<1>6. ASSUME Create(d) PROVE job' \in [Jobs -> Row] /\ doc' \in [Docs -> DocRow]
  <2>1. [job[Intent(d)] EXCEPT !.state = "succeeded"] \in Row
    BY DEF TypeOK, Row
  <2>2. job' = [[job EXCEPT ![OcrJob(d, 1)] = NewRow(TRUE)]
                  EXCEPT ![Intent(d)] = [job[Intent(d)] EXCEPT !.state = "succeeded"]]
    BY <1>6 DEF Create, TypeOK, OcrJob, Intent
  <2>3. job' \in [Jobs -> Row]
    BY <2>1, <2>2, NewRowType DEF TypeOK
  <2>4. [NoDoc EXCEPT !.status = "pending"] \in DocRow
    BY DEF NoDoc, DocRow
  <2> QED BY <1>6, <2>3, <2>4 DEF Create, TypeOK
<1>7. ASSUME Commit(d) PROVE job' \in [Jobs -> Row] /\ doc' \in [Docs -> DocRow]
  BY <1>5, <1>6, <1>7 DEF Commit, TypeOK
<1>8. CASE CommitUpload(d)
  BY <1>7, <1>8 DEF CommitUpload, TypeOK
<1>9. CASE CommitConflict(d)
  BY <1>9 DEF CommitConflict, TypeOK
<1>10. CASE CommitRaises(d)
  BY <1>7, <1>10 DEF CommitRaises, TypeOK
<1>11. CASE Expedite(d)
  BY <1>5, <1>11 DEF Expedite, TypeOK
<1>12. CASE ApiDies(d)
  BY <1>12 DEF ApiDies, TypeOK
<1> QED BY <1>1, <1>2, <1>3, <1>4, <1>8, <1>9, <1>10, <1>11, <1>12 DEF UploadStep

LEMMA ClaimType ==
  ASSUME TypeOK, NEW w \in Workers, NEW j \in Jobs, Claim(w, j) PROVE TypeOK'
<1> DEFINE r == Claimed(job[j])
<1>1. job[j] \in Row /\ r \in Row /\ j.doc \in Docs
  BY ClaimedType, JobNames DEF TypeOK
<1>2. CASE IsOcr(j) /\ ~Live(j.doc)
  <2>1. [r EXCEPT !.state = "succeeded", !.lease = "none"] \in Row
    BY <1>1 DEF Row
  <2>2. /\ job' = [job EXCEPT ![j] = [r EXCEPT !.state = "succeeded", !.lease = "none"]]
        /\ UNCHANGED <<doc, worker, objects, upload>>
    BY <1>2, Zenon DEF Claim
  <2> HIDE DEF r
  <2> QED BY <2>1, <2>2 DEF TypeOK
<1>3. CASE ~(IsOcr(j) /\ ~Live(j.doc))
  <2> DEFINE call == [pc |-> "claimed", job |-> j, token |-> r.token, outcome |-> "done"]
             row == Follow(doc[j.doc], [r EXCEPT !.error = "none"], "processing", doc[j.doc].text)
  <2>1. /\ job' = [job EXCEPT ![j] = r]
        /\ worker' = [worker EXCEPT ![w] = call]
        /\ doc' = IF IsOcr(j) THEN [doc EXCEPT ![j.doc] = row] ELSE doc
        /\ UNCHANGED <<objects, upload>>
    BY <1>3, Zenon DEF Claim
  <2>2. call \in Calls
    BY <1>1 DEF Calls, Row, Outcomes
  <2>3. row \in DocRow
    <3>1. [r EXCEPT !.error = "none"] \in Row
      BY <1>1 DEF Row
    <3>2. doc[j.doc] \in DocRow /\ doc[j.doc].text \in SUBSET (Jobs \X Nat)
      BY <1>1 DEF TypeOK, DocRow
    <3> QED BY <3>1, <3>2, FollowType
  <2> HIDE DEF r, call, row
  <2> QED BY <1>1, <2>1, <2>2, <2>3 DEF TypeOK
<1> QED BY <1>2, <1>3

LEMMA WorkerType ==
  ASSUME TypeOK, NEW w \in Workers, WorkerStep(w) PROVE TypeOK'
<1> USE DEF Outcomes, Failures
<1>1. CASE \E j \in Jobs : Claim(w, j)
  BY <1>1, ClaimType
<1>2. CASE ReadDocument(w)
  <2>1. worker' \in [Workers -> Calls \cup {Idle}]
    BY <1>2, Busy, ReachType DEF ReadDocument, Idle
  <2> QED BY <1>2, <2>1 DEF ReadDocument, TypeOK
<1>3. CASE Extract(w)
  <2>1. worker' \in [Workers -> Calls \cup {Idle}]
    BY <1>3, Busy, ReachType DEF Extract, Idle
  <2> QED BY <1>3, <2>1 DEF Extract, TypeOK
<1>4. CASE DeleteObject(w)
  <2>1. worker' \in [Workers -> Calls \cup {Idle}]
    BY <1>4, Busy, ReachType DEF DeleteObject, Idle
  <2> QED BY <1>4, <2>1 DEF DeleteObject, TypeOK
<1>5. CASE ReadFails(w)
  <2>1. worker' \in [Workers -> Calls \cup {Idle}]
    BY <1>5, Busy, ReachType DEF ReadFails, Idle
  <2> QED BY <1>5, <2>1 DEF ReadFails, TypeOK
<1>6. ASSUME worker[w].pc = "finish", FinishCommits(w) \/ UNCHANGED <<job, doc>>
      PROVE  job' \in [Jobs -> Row] /\ doc' \in [Docs -> DocRow]
  <2>1. CASE UNCHANGED <<job, doc>>
    BY <2>1 DEF TypeOK
  <2>2. CASE ~UNCHANGED <<job, doc>>
    <3> DEFINE j == worker[w].job
    <3>1. Settle(j, job[j], worker[w].outcome, worker[w].token)
      BY <1>6, <2>2 DEF FinishCommits
    <3>2. j \in Jobs /\ job[j] \in Row /\ worker[w].outcome \in Outcomes /\ worker[w].token \in Nat
      BY <1>6, Busy
    <3> QED BY <3>1, <3>2, SettleType
  <2> QED BY <2>1, <2>2
<1>7. CASE Finish(w)
  BY <1>6, <1>7 DEF Finish, TypeOK
<1>8. CASE FinishRaises(w)
  <2>1. worker' \in [Workers -> Calls \cup {Idle}]
    BY <1>8, Busy, ReachType DEF FinishRaises, TypeOK
  <2> QED BY <1>6, <1>8, <2>1 DEF FinishRaises, TypeOK
<1>9. CASE WorkerDies(w)
  BY <1>9 DEF WorkerDies, TypeOK
<1> QED BY <1>1, <1>2, <1>3, <1>4, <1>5, <1>7, <1>8, <1>9 DEF WorkerStep

LEMMA RowStepType ==
  ASSUME TypeOK, NEW j \in Jobs, ClockStep(j) \/ RecoverExpired(j) \/ RetryCleanup(j)
  PROVE  TypeOK'
<1>1. CASE TimePasses(j)
  BY <1>1, SetDue DEF TimePasses, TypeOK
<1>2. CASE LeaseExpires(j)
  <2>1. [job[j] EXCEPT !.lease = "expired"] \in Row
    BY DEF TypeOK, Row
  <2> QED BY <1>2, <2>1 DEF LeaseExpires, TypeOK
<1>3. CASE RecoverExpired(j)
  <2> DEFINE r == Lost(job[j])
  <2>1. r \in Row /\ r.token \in Nat /\ "transient" \in Outcomes
    BY LostType DEF TypeOK, Row, Outcomes, Failures
  <2>2. Settle(j, r, "transient", r.token)
    BY <1>3 DEF RecoverExpired
  <2>3. job' \in [Jobs -> Row] /\ doc' \in [Docs -> DocRow]
    BY <2>1, <2>2, SettleType
  <2> QED BY <1>3, <2>3 DEF RecoverExpired, TypeOK
<1>4. CASE RetryCleanup(j)
  <2> DEFINE r == [job[j] EXCEPT !.state = "pending", !.attempts = 0, !.error = "none", !.due = TRUE]
  <2>1. r \in Row
    BY DEF TypeOK, Row
  <2>2. job' = [job EXCEPT ![j] = r]
    BY <1>4 DEF RetryCleanup, TypeOK
  <2> QED BY <1>4, <2>1, <2>2 DEF RetryCleanup, TypeOK
<1> QED BY <1>1, <1>2, <1>3, <1>4 DEF ClockStep

LEMMA UserType ==
  ASSUME TypeOK, NEW d \in Docs, DeleteDocument(d) \/ Reprocess(d) PROVE TypeOK'
<1>1. CASE DeleteDocument(d)
  <2>1. [NoDoc EXCEPT !.status = "deleted"] \in DocRow
    BY DEF NoDoc, DocRow
  <2> QED BY <1>1, <2>1, JobNames, NewRowType DEF DeleteDocument, TypeOK
<1>2. CASE Reprocess(d)
  <2>1. Requeued(doc[d]) \in DocRow
    BY DEF Requeued, TypeOK, DocRow
  <2> QED BY <1>2, <2>1, JobNames, NewRowType DEF Reprocess, TypeOK
<1> QED BY <1>1, <1>2

LEMMA StopType == ASSUME TypeOK, ServiceStops PROVE TypeOK'
BY DEF ServiceStops, TypeOK

LEMMA NextType == TypeOK /\ [Next]_vars => TypeOK'
<1> SUFFICES ASSUME TypeOK, [Next]_vars PROVE TypeOK'
  OBVIOUS
<1>1. CASE UNCHANGED vars
  BY <1>1 DEF vars, TypeOK
<1>2. CASE Next
  BY <1>2, UploadType, UserType, WorkerType, RowStepType, StopType DEF Next
<1> QED BY <1>1, <1>2

(* Every row, document, object, worker and upload keeps its type. *)
THEOREM TypeCorrect == Spec => []TypeOK
BY InitType, NextType, PTL DEF Spec

-----------------------------------------------------------------------------
(* Attempts.  RowSpent and DocSpent are AttemptsBounded and                *)
(* FailsOnlyWhenSpent for one row; every action is checked on the row it   *)
(* writes.                                                                 *)

RowSpent(j, r) ==
  /\ r.attempts <= MaxAttempts(j)
  /\ r.state = "pending" => r.attempts < MaxAttempts(j)
  /\ r.state = "failed" /\ r.error # "permanent" => r.attempts = MaxAttempts(j)

DocSpent(row) == row.status = "failed" /\ row.error # "permanent" => row.attempts = OcrAttempts

Spent == (\A j \in Jobs : RowSpent(j, job[j])) /\ (\A d \in Docs : DocSpent(doc[d]))

LEMMA SpentMeans == Spent <=> AttemptsBounded /\ FailsOnlyWhenSpent
BY DEF Spent, RowSpent, DocSpent, AttemptsBounded, FailsOnlyWhenSpent

LEMMA MaxType == ASSUME NEW j PROVE MaxAttempts(j) \in Nat \ {0}
BY AttemptsAssumption DEF MaxAttempts

LEMMA NewRowSpent == ASSUME NEW j, NEW b \in BOOLEAN PROVE RowSpent(j, NewRow(b))
BY MaxType DEF RowSpent, NewRow, NoRow

LEMMA ClaimedSpent ==
  ASSUME NEW j \in Jobs, NEW r \in Row, r.state = "pending", RowSpent(j, r)
  PROVE  /\ RowSpent(j, Claimed(r))
         /\ RowSpent(j, [Claimed(r) EXCEPT !.state = "succeeded", !.lease = "none"])
<1>1. r.attempts \in Nat /\ MaxAttempts(j) \in Nat
  BY MaxType DEF Row
<1>2. Claimed(r).attempts = r.attempts + 1 /\ Claimed(r).state = "running"
  BY DEF Claimed, Row
<1>3. Claimed(r) \in Row
  BY ClaimedType
<1> DEFINE s == [Claimed(r) EXCEPT !.state = "succeeded", !.lease = "none"]
<1>4. s.attempts = Claimed(r).attempts /\ s.state = "succeeded"
  BY <1>3 DEF Row
<1> HIDE DEF s
<1> QED BY <1>1, <1>2, <1>4 DEF RowSpent, s

LEMMA SettledSpent ==
  ASSUME NEW j \in Jobs, NEW r \in Row, NEW o \in Outcomes, r.attempts <= MaxAttempts(j)
  PROVE  /\ RowSpent(j, Settled(j, r, o))
         /\ Settled(j, r, o).attempts = r.attempts
<1>1. r.attempts \in Nat /\ MaxAttempts(j) \in Nat
  BY MaxType DEF Row
<1>2. CASE o \in Failures
  BY <1>1, <1>2 DEF Settled, Row, Failures, Retries, RowSpent
<1>3. CASE o \notin Failures
  BY <1>1, <1>3 DEF Settled, Row, RowSpent
<1> QED BY <1>2, <1>3

LEMMA SettleSpent ==
  ASSUME TypeOK, Spent, NEW j \in Jobs, NEW r \in Row, r.attempts = job[j].attempts,
         NEW o \in Outcomes, NEW run, Settle(j, r, o, run)
  PROVE  Spent'
<1> DEFINE s == Settled(j, r, o)
<1>1. RowSpent(j, s) /\ s \in Row
  BY SettledSpent, SettledType DEF Spent, RowSpent
<1>2. \A k \in Jobs : RowSpent(k, job'[k])
  BY <1>1 DEF Settle, Spent, TypeOK
<1>3. CASE IsOcr(j) /\ Live(j.doc)
  <2> DEFINE d == j.doc
             t == IF o = "result" THEN {<<j, run>>} ELSE doc[d].text
             row == Follow(doc[d], s, s.state, t)
  <2>1. d \in Docs /\ doc[d] \in DocRow
    BY JobNames DEF TypeOK
  <2>2. row.status = s.state /\ row.attempts = s.attempts /\ row.error = s.error
    BY <2>1 DEF Follow, DocRow
  <2>3. DocSpent(row)
    BY <1>1, <1>3, <2>2 DEF RowSpent, DocSpent, MaxAttempts
  <2>4. doc' = [doc EXCEPT ![d] = row]
    BY <1>3, Zenon DEF Settle
  <2> HIDE DEF row
  <2> QED BY <1>2, <2>1, <2>3, <2>4 DEF Spent, TypeOK
<1>4. CASE ~(IsOcr(j) /\ Live(j.doc))
  <2>1. doc' = doc
    BY <1>4, Zenon DEF Settle
  <2> QED BY <1>2, <2>1 DEF Spent
<1> QED BY <1>3, <1>4

LEMMA SetDueSpent ==
  ASSUME NEW j, NEW r \in Row, RowSpent(j, r)
  PROVE  /\ RowSpent(j, [r EXCEPT !.due = TRUE])
         /\ RowSpent(j, [r EXCEPT !.lease = "expired"])
         /\ RowSpent(j, [r EXCEPT !.state = "succeeded"])
BY DEF RowSpent, Row

LEMMA UploadSpent ==
  ASSUME TypeOK, Spent, NEW d \in Docs, UploadStep(d) PROVE Spent'
<1> USE JobNames
<1>1. ASSUME UNCHANGED <<job, doc>> PROVE Spent'
  BY <1>1 DEF Spent
<1>2. ASSUME MadeDue(d), UNCHANGED doc PROVE Spent'
  <2>1. RowSpent(Intent(d), [job[Intent(d)] EXCEPT !.due = TRUE])
    BY SetDueSpent DEF Spent, TypeOK
  <2>2. \A k \in Jobs : RowSpent(k, job'[k])
    BY <1>2, <2>1 DEF MadeDue, Spent, TypeOK
  <2> QED BY <1>2, <2>2 DEF Spent
<1>3. ASSUME Create(d) PROVE Spent'
  <2> DEFINE s == [job[Intent(d)] EXCEPT !.state = "succeeded"]
  <2>1. RowSpent(Intent(d), s) /\ RowSpent(OcrJob(d, 1), NewRow(TRUE))
    BY SetDueSpent, NewRowSpent DEF Spent, TypeOK
  <2>2. job' = [[job EXCEPT ![OcrJob(d, 1)] = NewRow(TRUE)] EXCEPT ![Intent(d)] = s]
    BY <1>3 DEF Create, TypeOK, OcrJob, Intent
  <2> HIDE DEF s
  <2>3. \A k \in Jobs : RowSpent(k, job'[k])
    BY <2>1, <2>2 DEF Spent, TypeOK
  <2>4. DocSpent([NoDoc EXCEPT !.status = "pending"])
    BY DEF NoDoc, DocSpent
  <2> QED BY <1>3, <2>3, <2>4 DEF Spent, Create, TypeOK
<1>4. CASE BeginUpload(d)
  <2>1. RowSpent(Intent(d), NewRow(FALSE))
    BY NewRowSpent
  <2>2. \A k \in Jobs : RowSpent(k, job'[k])
    BY <1>4, <2>1 DEF BeginUpload, Spent, TypeOK
  <2> QED BY <1>4, <2>2 DEF BeginUpload, Spent
<1>5. CASE CommitUpload(d)
  BY <1>2, <1>3, <1>5 DEF CommitUpload, Commit
<1>6. CASE CommitRaises(d)
  BY <1>1, <1>2, <1>3, <1>6 DEF CommitRaises, Commit
<1>7. CASE Expedite(d)
  BY <1>2, <1>7 DEF Expedite
<1>8. CASE AnswerEarly(d) \/ StoreObject(d) \/ StoreFails(d) \/ CommitConflict(d) \/ ApiDies(d)
  BY <1>1, <1>8 DEF AnswerEarly, StoreObject, StoreFails, CommitConflict, ApiDies
<1> QED BY <1>4, <1>5, <1>6, <1>7, <1>8 DEF UploadStep

LEMMA ClaimSpent ==
  ASSUME TypeOK, Spent, NEW w \in Workers, NEW j \in Jobs, Claim(w, j) PROVE Spent'
<1> DEFINE r == Claimed(job[j])
           s == [r EXCEPT !.state = "succeeded", !.lease = "none"]
<1>1. job[j] \in Row /\ j.doc \in Docs /\ RowSpent(j, r) /\ RowSpent(j, s)
  BY JobNames, ClaimedSpent DEF TypeOK, Spent, Claim, CanClaim
<1>2. CASE IsOcr(j) /\ ~Live(j.doc)
  <2>1. job' = [job EXCEPT ![j] = s] /\ doc' = doc
    BY <1>2, Zenon DEF Claim
  <2> HIDE DEF s
  <2> QED BY <1>1, <2>1 DEF Spent, TypeOK
<1>3. CASE ~(IsOcr(j) /\ ~Live(j.doc))
  <2> DEFINE row == Follow(doc[j.doc], [r EXCEPT !.error = "none"], "processing", doc[j.doc].text)
  <2>1. /\ job' = [job EXCEPT ![j] = r]
        /\ doc' = IF IsOcr(j) THEN [doc EXCEPT ![j.doc] = row] ELSE doc
    BY <1>3, Zenon DEF Claim
  <2>2. DocSpent(row)
    BY <1>1 DEF DocSpent, Follow, TypeOK, DocRow
  <2> HIDE DEF r, row
  <2> QED BY <1>1, <2>1, <2>2 DEF Spent, TypeOK
<1> QED BY <1>2, <1>3

LEMMA FinishSpent ==
  ASSUME TypeOK, Spent, NEW w \in Workers, worker[w].pc = "finish", FinishCommits(w)
  PROVE  Spent'
<1> DEFINE j == worker[w].job
<1>1. j \in Jobs /\ job[j] \in Row /\ worker[w].outcome \in Outcomes
  BY Busy
<1>2. Settle(j, job[j], worker[w].outcome, worker[w].token) \/ UNCHANGED <<job, doc>>
  BY DEF FinishCommits
<1> QED BY <1>1, <1>2, SettleSpent DEF Spent

LEMMA RowStepSpent ==
  ASSUME TypeOK, Spent, NEW j \in Jobs, ClockStep(j) \/ RecoverExpired(j) \/ RetryCleanup(j)
  PROVE  Spent'
<1>1. job[j] \in Row /\ RowSpent(j, job[j])
  BY DEF TypeOK, Spent
<1>2. CASE TimePasses(j)
  <2>1. RowSpent(j, [job[j] EXCEPT !.due = TRUE])
    BY <1>1, SetDueSpent
  <2> QED BY <1>2, <2>1 DEF TimePasses, Spent, TypeOK
<1>3. CASE LeaseExpires(j)
  <2>1. RowSpent(j, [job[j] EXCEPT !.lease = "expired"])
    BY <1>1, SetDueSpent
  <2> QED BY <1>3, <2>1 DEF LeaseExpires, Spent, TypeOK
<1>4. CASE RecoverExpired(j)
  <2>1. Lost(job[j]) \in Row /\ Lost(job[j]).attempts = job[j].attempts
    BY <1>1, LostType DEF Lost, Row
  <2>2. Settle(j, Lost(job[j]), "transient", Lost(job[j]).token) /\ "transient" \in Outcomes
    BY <1>4 DEF RecoverExpired, Outcomes, Failures
  <2> QED BY <2>1, <2>2, SettleSpent
<1>5. CASE RetryCleanup(j)
  <2> DEFINE r == [job[j] EXCEPT !.state = "pending", !.attempts = 0, !.error = "none", !.due = TRUE]
  <2>1. RowSpent(j, r)
    BY <1>1, MaxType DEF RowSpent, Row
  <2>2. job' = [job EXCEPT ![j] = r] /\ doc' = doc
    BY <1>5 DEF RetryCleanup, TypeOK
  <2> HIDE DEF r
  <2> QED BY <2>1, <2>2 DEF Spent, TypeOK
<1> QED BY <1>2, <1>3, <1>4, <1>5 DEF ClockStep

LEMMA UserSpent ==
  ASSUME TypeOK, Spent, NEW d \in Docs, DeleteDocument(d) \/ Reprocess(d) PROVE Spent'
<1>1. CASE DeleteDocument(d)
  <2>1. RowSpent(Removal(d), NewRow(TRUE)) /\ DocSpent([NoDoc EXCEPT !.status = "deleted"])
    BY NewRowSpent DEF DocSpent, NoDoc
  <2> QED BY <1>1, <2>1, JobNames DEF DeleteDocument, Spent, TypeOK
<1>2. CASE Reprocess(d)
  <2>1. DocSpent(Requeued(doc[d]))
    BY DEF DocSpent, Requeued, TypeOK, DocRow
  <2>2. PICK n \in 1..MaxCycles : job' = [job EXCEPT ![OcrJob(d, n)] = NewRow(TRUE)]
    BY <1>2 DEF Reprocess
  <2>3. RowSpent(OcrJob(d, n), NewRow(TRUE)) /\ OcrJob(d, n) \in Jobs
    BY NewRowSpent, JobNames
  <2> QED BY <1>2, <2>1, <2>2, <2>3 DEF Reprocess, Spent, TypeOK
<1> QED BY <1>1, <1>2

LEMMA SpentAlways == Spec => []Spent
<1>1. Init => Spent
  <2>1. \A j : RowSpent(j, NoRow)
    BY MaxType DEF RowSpent, NoRow
  <2> QED BY <2>1 DEF Init, Spent, DocSpent, NoDoc
<1>2. TypeOK /\ Spent /\ [Next]_vars => Spent'
  <2> SUFFICES ASSUME TypeOK, Spent, [Next]_vars PROVE Spent'
    OBVIOUS
  <2>1. CASE UNCHANGED vars
    BY <2>1 DEF vars, Spent
  <2>2. ASSUME NEW w \in Workers, WorkerStep(w) PROVE Spent'
    <3>1. CASE \E j \in Jobs : Claim(w, j)
      BY <3>1, ClaimSpent
    <3>2. CASE Finish(w) \/ FinishRaises(w)
      BY <3>2, FinishSpent DEF Finish, FinishRaises, Spent
    <3>3. CASE ReadDocument(w) \/ Extract(w) \/ DeleteObject(w) \/ ReadFails(w) \/ WorkerDies(w)
      BY <3>3 DEF ReadDocument, Extract, DeleteObject, ReadFails, WorkerDies, Spent
    <3> QED BY <2>2, <3>1, <3>2, <3>3 DEF WorkerStep
  <2>3. CASE ServiceStops
    BY <2>3 DEF ServiceStops, Spent
  <2>4. CASE Next
    BY <2>2, <2>3, <2>4, UploadSpent, UserSpent, RowStepSpent DEF Next
  <2> QED BY <2>1, <2>4
<1> QED BY <1>1, <1>2, TypeCorrect, PTL DEF Spec

(* However often a job is delivered, recovered or re-armed, it never       *)
(* starts more often than max_attempts, and one that can be claimed has an *)
(* attempt left (claim, finish).                                           *)
THEOREM AttemptsCorrect == Spec => []AttemptsBounded
BY SpentAlways, SpentMeans, PTL

(* A transient failure is final, on the job and on its document, only      *)
(* when no attempt is left (finish, recover_expired).                      *)
THEOREM FailuresCorrect == Spec => []FailsOnlyWhenSpent
BY SpentAlways, SpentMeans, PTL

-----------------------------------------------------------------------------
(* The seven forms of a step. *)

SameRun(k) ==
  /\ job'[k].state = job[k].state
  /\ job'[k].attempts = job[k].attempts
  /\ job'[k].token = job[k].token

SameRuns == \A k \in Jobs : IsOcr(k) => SameRun(k)

OnlyRun(j) == \A k \in Jobs : IsOcr(k) /\ k # j => SameRun(k)

OnlyDoc(d, status, attempts, text) ==
  /\ doc'[d].status = status
  /\ doc'[d].attempts = attempts
  /\ doc'[d].text = text
  /\ \A e \in Docs : e # d => doc'[e] = doc[e]

Quiet == SameRuns /\ doc' = doc

Gone(d) ==
  /\ Live(d) /\ SameRuns /\ job'[Removal(d)] = NewRow(TRUE)
  /\ OnlyDoc(d, "deleted", 0, {})

Born(d) ==
  /\ upload[d] = "stored" /\ Existing(d) = {}
  /\ upload'[d] \in {"over", "failing"}
  /\ OnlyRun(OcrJob(d, 1)) /\ job'[OcrJob(d, 1)] = NewRow(TRUE)
  /\ job'[Intent(d)].state = "succeeded"
  /\ OnlyDoc(d, "pending", 0, {})

Again(d, n) ==
  /\ doc[d].status = "failed" /\ job[OcrJob(d, n)].state = "absent"
  /\ OnlyRun(OcrJob(d, n)) /\ job'[OcrJob(d, n)] = NewRow(TRUE)
  /\ OnlyDoc(d, "pending", 0, doc[d].text)

Started(j) ==
  /\ IsOcr(j) /\ job[j].state = "pending" /\ Live(j.doc)
  /\ OnlyRun(j)
  /\ job'[j].state = "running"
  /\ job'[j].attempts = job[j].attempts + 1
  /\ job'[j].token = job[j].token + 1
  /\ OnlyDoc(j.doc, "processing", job'[j].attempts, doc[j.doc].text)

Dropped(j) ==
  /\ IsOcr(j) /\ job[j].state = "pending" /\ ~Live(j.doc)
  /\ OnlyRun(j) /\ job'[j].state = "succeeded"
  /\ job'[j].attempts = job[j].attempts + 1
  /\ job'[j].token = job[j].token + 1
  /\ doc' = doc

(* A run that found its document missing reports neither text nor failure. *)
FoundNothing(j) ==
  \E w \in Workers : /\ worker[w].pc = "finish" /\ worker[w].job = j
                     /\ worker[w].outcome = "done"

Ended(j, s, text) ==
  /\ IsOcr(j) /\ job[j].state = "running"
  /\ OnlyRun(j)
  /\ s \in {"pending", "failed", "succeeded"}
  /\ job'[j].state = s
  /\ job'[j].attempts = job[j].attempts
  /\ job'[j].token \in {job[j].token, job[j].token + 1}
  /\ \/ s = "succeeded" /\ text = {<<j, job'[j].token>>}
     \/ text = doc[j.doc].text /\ (s = "succeeded" => FoundNothing(j))
  /\ \/ Live(j.doc) /\ OnlyDoc(j.doc, s, job'[j].attempts, text)
     \/ ~Live(j.doc) /\ doc' = doc

StepForm ==
  \/ Quiet
  \/ \E d \in Docs : Gone(d) \/ Born(d) \/ \E n \in 1..MaxCycles : Again(d, n)
  \/ \E j \in Jobs : \/ Started(j) \/ Dropped(j)
                     \/ \E s, t : Ended(j, s, t)

-----------------------------------------------------------------------------
(* Every step has one of the forms. *)

LEMMA JobRoles ==
  /\ \A d \in Docs : ~IsOcr(Intent(d)) /\ ~IsOcr(Removal(d))
  /\ \A d \in Docs, n \in 1..MaxCycles : IsOcr(OcrJob(d, n)) /\ OcrJob(d, n).doc = d
  /\ 1 \in 1..MaxCycles
BY BoundsAssumption DEF IsOcr, Intent, Removal, OcrJob

(* Writing the row of a cleanup job disturbs no run. *)
LEMMA CleanupRow ==
  ASSUME TypeOK, NEW j \in Jobs, ~IsOcr(j), NEW r, job' = [job EXCEPT ![j] = r]
  PROVE  SameRuns
BY DEF SameRuns, SameRun, TypeOK

LEMMA UploadForm ==
  ASSUME TypeOK, NEW d \in Docs, UploadStep(d) PROVE StepForm
<1>1. ASSUME UNCHANGED <<job, doc>> PROVE StepForm
  BY <1>1 DEF StepForm, Quiet, SameRuns, SameRun
<1>2. ASSUME NEW r, job' = [job EXCEPT ![Intent(d)] = r], doc' = doc PROVE StepForm
  BY <1>2, CleanupRow, JobRoles, JobNames DEF StepForm, Quiet
<1>3. ASSUME MadeDue(d), doc' = doc PROVE StepForm
  <2>1. job' = [job EXCEPT ![Intent(d)] = [job[Intent(d)] EXCEPT !.due = TRUE]]
    BY <1>3 DEF MadeDue
  <2> QED BY <1>2, <1>3, <2>1
<1>4. ASSUME Create(d), Existing(d) = {},
             upload[d] = "stored", upload'[d] \in {"over", "failing"}
      PROVE  StepForm
  <2> DEFINE j == OcrJob(d, 1)
  <2>1. j \in Jobs /\ Intent(d) \in Jobs /\ j # Intent(d) /\ ~IsOcr(Intent(d))
    BY JobNames, JobRoles
  <2>2. job' = [[job EXCEPT ![j] = NewRow(TRUE)]
                  EXCEPT ![Intent(d)] = [job[Intent(d)] EXCEPT !.state = "succeeded"]]
    BY <1>4, <2>1 DEF Create, TypeOK
  <2>3. job'[j] = NewRow(TRUE) /\ OnlyRun(j)
    BY <2>1, <2>2 DEF OnlyRun, SameRun, TypeOK
  <2>4. job'[Intent(d)].state = "succeeded"
    BY <2>1, <2>2 DEF TypeOK, Row
  <2>5. OnlyDoc(d, "pending", 0, {})
    BY <1>4 DEF Create, OnlyDoc, NoDoc, TypeOK
  <2> QED BY <1>4, <2>3, <2>4, <2>5 DEF StepForm, Born
<1>5. CASE AnswerEarly(d) \/ StoreObject(d) \/ StoreFails(d) \/ CommitConflict(d) \/ ApiDies(d)
  BY <1>1, <1>5 DEF AnswerEarly, StoreObject, StoreFails, CommitConflict, ApiDies
<1>6. CASE BeginUpload(d)
  BY <1>2, <1>6 DEF BeginUpload
<1>7. CASE CommitUpload(d)
  <2>1. upload[d] = "stored" /\ upload'[d] \in {"over", "failing"}
    BY <1>7 DEF CommitUpload, TypeOK
  <2> QED BY <1>3, <1>4, <1>7, <2>1 DEF CommitUpload, Commit
<1>8. CASE CommitRaises(d)
  <2>1. upload[d] = "stored" /\ upload'[d] \in {"over", "failing"}
    BY <1>8 DEF CommitRaises, TypeOK
  <2> QED BY <1>1, <1>3, <1>4, <1>8, <2>1 DEF CommitRaises, Commit
<1>9. CASE Expedite(d)
  BY <1>3, <1>9 DEF Expedite
<1> QED BY <1>5, <1>6, <1>7, <1>8, <1>9 DEF UploadStep

LEMMA ClaimForm ==
  ASSUME TypeOK, NEW w \in Workers, NEW j \in Jobs, Claim(w, j) PROVE StepForm
<1> DEFINE r == Claimed(job[j])
<1>1. job[j] \in Row /\ r \in Row /\ j.doc \in Docs /\ job[j].state = "pending"
  BY ClaimedType, JobNames DEF TypeOK, Claim, CanClaim
<1>2. /\ r.state = "running" /\ r.attempts = job[j].attempts + 1
      /\ r.token = job[j].token + 1
  BY <1>1 DEF Claimed, Row
<1>3. CASE ~IsOcr(j)
  <2>1. job' = [job EXCEPT ![j] = r] /\ doc' = doc
    BY <1>3, Zenon DEF Claim
  <2> QED BY <1>3, <2>1, CleanupRow DEF StepForm, Quiet
<1>4. CASE IsOcr(j) /\ ~Live(j.doc)
  <2> DEFINE s == [r EXCEPT !.state = "succeeded", !.lease = "none"]
  <2>1. s.state = "succeeded" /\ s.attempts = r.attempts /\ s.token = job[j].token + 1
    BY <1>1, <1>2 DEF Row
  <2>2. job' = [job EXCEPT ![j] = s] /\ doc' = doc
    BY <1>4, Zenon DEF Claim
  <2> HIDE DEF s
  <2>3. Dropped(j)
    BY <1>1, <1>2, <1>4, <2>1, <2>2 DEF Dropped, OnlyRun, SameRun, TypeOK
  <2> QED BY <2>3 DEF StepForm
<1>5. CASE IsOcr(j) /\ Live(j.doc)
  <2> DEFINE d == j.doc
             row == Follow(doc[d], [r EXCEPT !.error = "none"], "processing", doc[d].text)
  <2>1. job' = [job EXCEPT ![j] = r] /\ doc' = [doc EXCEPT ![d] = row]
    BY <1>5, Zenon DEF Claim
  <2>2. row.status = "processing" /\ row.attempts = r.attempts /\ row.text = doc[d].text
    BY <1>1 DEF Follow, TypeOK, DocRow, Row
  <2> HIDE DEF r, row
  <2>3. Started(j)
    BY <1>1, <1>2, <1>5, <2>1, <2>2 DEF Started, OnlyRun, SameRun, OnlyDoc, TypeOK
  <2> QED BY <2>3 DEF StepForm
<1> QED BY <1>3, <1>4, <1>5

(* finish ends the run of a running row. *)
LEMMA SettleForm ==
  ASSUME TypeOK, NEW j \in Jobs, job[j].state = "running", NEW r \in Row,
         r.attempts = job[j].attempts, r.token \in {job[j].token, job[j].token + 1},
         NEW o \in Outcomes, o = "done" => FoundNothing(j), Settle(j, r, o, r.token)
  PROVE  StepForm
<1> DEFINE s == Settled(j, r, o)
           d == j.doc
           t == IF o = "result" THEN {<<j, r.token>>} ELSE doc[d].text
<1>1. /\ s \in Row /\ s.state \in {"pending", "failed", "succeeded"}
      /\ s.attempts = r.attempts /\ s.token = r.token
  <2>1. s \in Row /\ s.state \in {"pending", "failed", "succeeded"}
    BY SettledType
  <2>2. CASE o \in Failures
    BY <2>1, <2>2 DEF Settled, Row
  <2>3. CASE o \notin Failures
    BY <2>1, <2>3 DEF Settled, Row
  <2> QED BY <2>1, <2>2, <2>3
<1>2. s.state = "succeeded" <=> o \in {"result", "done"}
  BY DEF Settled, Row, Failures, Outcomes
<1>3. job' = [job EXCEPT ![j] = s]
  BY DEF Settle
<1>4. d \in Docs
  BY JobNames
<1>5. CASE ~IsOcr(j)
  <2>1. doc' = doc
    BY <1>5, Zenon DEF Settle
  <2> QED BY <1>3, <1>5, <2>1, CleanupRow DEF StepForm, Quiet
<1>6. CASE IsOcr(j)
  <2>1. \/ Live(d) /\ OnlyDoc(d, s.state, s.attempts, t)
        \/ ~Live(d) /\ doc' = doc
    <3>1. CASE ~Live(d)
      BY <1>6, <3>1, Zenon DEF Settle
    <3>2. CASE Live(d)
      <4> DEFINE row == Follow(doc[d], s, s.state, t)
      <4>1. doc' = [doc EXCEPT ![d] = row]
        BY <1>6, <3>2, Zenon DEF Settle
      <4>2. row.status = s.state /\ row.attempts = s.attempts /\ row.text = t
        BY <1>4 DEF Follow, TypeOK, DocRow
      <4> HIDE DEF row
      <4> QED BY <1>4, <3>2, <4>1, <4>2 DEF OnlyDoc, TypeOK
    <3> QED BY <3>1, <3>2
  <2>2. \/ s.state = "succeeded" /\ t = {<<j, s.token>>}
        \/ t = doc[d].text /\ (s.state = "succeeded" => FoundNothing(j))
    BY <1>1, <1>2
  <2>3. job'[j] = s /\ OnlyRun(j)
    BY <1>3 DEF OnlyRun, SameRun, TypeOK
  <2> HIDE DEF s, t
  <2>4. Ended(j, s.state, t)
    BY <1>1, <1>6, <2>1, <2>2, <2>3 DEF Ended
  <2> QED BY <2>4 DEF StepForm
<1> QED BY <1>5, <1>6

LEMMA WorkerForm ==
  ASSUME TypeOK, NEW w \in Workers, WorkerStep(w) PROVE StepForm
<1>1. ASSUME UNCHANGED <<job, doc>> PROVE StepForm
  BY <1>1 DEF StepForm, Quiet, SameRuns, SameRun
<1>2. ASSUME worker[w].pc = "finish", FinishCommits(w) PROVE StepForm
  <2> DEFINE j == worker[w].job
  <2>1. CASE UNCHANGED <<job, doc>>
    BY <1>1, <2>1
  <2>2. CASE ~UNCHANGED <<job, doc>>
    <3>1. /\ Settle(j, job[j], worker[w].outcome, worker[w].token)
          /\ job[j].token = worker[w].token /\ job[j].state = "running"
      BY <1>2, <2>2 DEF FinishCommits, Holds
    <3>2. j \in Jobs /\ job[j] \in Row /\ worker[w].outcome \in Outcomes
      BY <1>2, Busy
    <3>3. worker[w].outcome = "done" => FoundNothing(j)
      BY <1>2 DEF FoundNothing
    <3> QED BY <3>1, <3>2, <3>3, SettleForm
  <2> QED BY <2>1, <2>2
<1>3. CASE \E j \in Jobs : Claim(w, j)
  BY <1>3, ClaimForm
<1>4. CASE Finish(w) \/ FinishRaises(w)
  BY <1>1, <1>2, <1>4 DEF Finish, FinishRaises
<1>5. CASE ReadDocument(w) \/ Extract(w) \/ DeleteObject(w) \/ ReadFails(w) \/ WorkerDies(w)
  BY <1>1, <1>5 DEF ReadDocument, Extract, DeleteObject, ReadFails, WorkerDies
<1> QED BY <1>3, <1>4, <1>5 DEF WorkerStep

LEMMA RowStepForm ==
  ASSUME TypeOK, NEW j \in Jobs, ClockStep(j) \/ RecoverExpired(j) \/ RetryCleanup(j)
  PROVE  StepForm
<1>1. job[j] \in Row
  BY DEF TypeOK
<1>2. CASE TimePasses(j)
  BY <1>1, <1>2 DEF TimePasses, StepForm, Quiet, SameRuns, SameRun, TypeOK, Row
<1>3. CASE LeaseExpires(j)
  BY <1>1, <1>3 DEF LeaseExpires, StepForm, Quiet, SameRuns, SameRun, TypeOK, Row
<1>4. CASE RecoverExpired(j)
  <2> DEFINE r == Lost(job[j])
  <2>1. r \in Row /\ r.attempts = job[j].attempts /\ r.token = job[j].token + 1
    BY <1>1, LostType DEF Lost, Row
  <2>2. /\ Settle(j, r, "transient", r.token) /\ "transient" \in Outcomes
        /\ job[j].state = "running"
    BY <1>4 DEF RecoverExpired, CanRecover, Outcomes, Failures
  <2> HIDE DEF r
  <2> QED BY <2>1, <2>2, SettleForm
<1>5. CASE RetryCleanup(j)
  <2> DEFINE r == [job[j] EXCEPT !.state = "pending", !.attempts = 0, !.error = "none", !.due = TRUE]
  <2>1. job' = [job EXCEPT ![j] = r] /\ doc' = doc /\ ~IsOcr(j)
    BY <1>5 DEF RetryCleanup, TypeOK
  <2> HIDE DEF r
  <2> QED BY <2>1, CleanupRow DEF StepForm, Quiet
<1> QED BY <1>2, <1>3, <1>4, <1>5 DEF ClockStep

LEMMA UserForm ==
  ASSUME TypeOK, NEW d \in Docs, DeleteDocument(d) \/ Reprocess(d) PROVE StepForm
<1>1. CASE DeleteDocument(d)
  <2>1. SameRuns
    BY <1>1, CleanupRow, JobRoles, JobNames DEF DeleteDocument
  <2>2. Live(d) /\ OnlyDoc(d, "deleted", 0, {})
    BY <1>1 DEF DeleteDocument, OnlyDoc, NoDoc, TypeOK
  <2>3. job'[Removal(d)] = NewRow(TRUE)
    BY <1>1, JobNames DEF DeleteDocument, TypeOK
  <2> QED BY <2>1, <2>2, <2>3 DEF StepForm, Gone
<1>2. CASE Reprocess(d)
  <2>1. PICK n \in 1..MaxCycles : /\ job[OcrJob(d, n)].state = "absent"
                                  /\ job' = [job EXCEPT ![OcrJob(d, n)] = NewRow(TRUE)]
    BY <1>2 DEF Reprocess
  <2>2. job'[OcrJob(d, n)] = NewRow(TRUE) /\ OnlyRun(OcrJob(d, n))
    BY <2>1, JobNames DEF OnlyRun, SameRun, TypeOK
  <2>3. doc[d].status = "failed" /\ OnlyDoc(d, "pending", 0, doc[d].text)
    BY <1>2 DEF Reprocess, Requeued, OnlyDoc, TypeOK, DocRow
  <2> QED BY <2>1, <2>2, <2>3 DEF StepForm, Again
<1> QED BY <1>1, <1>2

LEMMA StepHasForm == TypeOK /\ [Next]_vars => StepForm
<1> SUFFICES ASSUME TypeOK, [Next]_vars PROVE StepForm
  OBVIOUS
<1>1. CASE UNCHANGED vars \/ ServiceStops
  BY <1>1 DEF vars, ServiceStops, StepForm, Quiet, SameRuns, SameRun
<1>2. CASE Next
  BY <1>1, <1>2, UploadForm, UserForm, WorkerForm, RowStepForm DEF Next
<1> QED BY <1>1, <1>2

-----------------------------------------------------------------------------
(* Documents, uploads and runs that have begun. *)

Early == {"new", "intent", "stored"}

(* An upload that has not reached its transaction has no document, and a   *)
(* document that does not exist yet has no OCR job and no run; only a run  *)
(* whose document was deleted ends with neither text nor failure.          *)
UploadFirst == \A d \in Docs : upload[d] \in Early => doc[d].status = "absent"

Unborn ==
  \A j \in Jobs : IsOcr(j) /\ doc[j.doc].status = "absent" => job[j].state = "absent"

RunsKnown ==
  \A w \in Workers : worker[w] # Idle /\ IsOcr(worker[w].job) =>
     /\ doc[worker[w].job.doc].status # "absent"
     /\ worker[w].pc = "finish" /\ worker[w].outcome = "done" => ~Live(worker[w].job.doc)

Known == UploadFirst /\ Unborn /\ RunsKnown

(* Documents come into being once, and deletion is final. *)
LEMMA DocumentsMove ==
  ASSUME TypeOK, Known, StepForm, NEW d \in Docs
  PROVE  /\ doc[d].status # "absent" => doc'[d].status # "absent"
         /\ doc[d].status = "deleted" => doc'[d] = doc[d]
         /\ \/ doc[d].status # "absent" \/ doc'[d] = doc[d]
            \/ upload[d] = "stored" /\ upload'[d] \notin Early
<1> USE DEF OnlyDoc, Live
<1>1. CASE doc' = doc
  BY <1>1
<1>2. ASSUME NEW e \in Docs, Gone(e) \/ (\E n \in 1..MaxCycles : Again(e, n)), e = d
      PROVE  doc[d].status \notin {"absent", "deleted"} /\ doc'[d].status # "absent"
  BY <1>2 DEF Gone, Again
<1>3. ASSUME NEW e \in Docs, Born(e), e = d
      PROVE  /\ doc[d].status = "absent"
             /\ upload[d] = "stored" /\ upload'[d] \notin Early
  BY <1>3 DEF Born, Known, UploadFirst, Early
<1>4. ASSUME NEW e \in Docs,
             Gone(e) \/ Born(e) \/ (\E n \in 1..MaxCycles : Again(e, n)), e # d
      PROVE  doc'[d] = doc[d]
  BY <1>4 DEF Gone, Born, Again
<1>5. ASSUME NEW j \in Jobs, NEW s, NEW t, Started(j) \/ Ended(j, s, t), doc' # doc
      PROVE  \/ d # j.doc /\ doc'[d] = doc[d]
             \/ doc[d].status \notin {"absent", "deleted"} /\ doc'[d].status # "absent"
  BY <1>5 DEF Started, Ended
<1> QED BY <1>1, <1>2, <1>3, <1>4, <1>5 DEF StepForm, Quiet, Dropped

(* No upload goes back. *)
LEMMA UploadsMove ==
  ASSUME TypeOK, [Next]_vars, NEW d \in Docs, upload'[d] \in Early
  PROVE  upload[d] \in Early
<1> USE DEF Early, TypeOK
<1>1. CASE UNCHANGED upload
  BY <1>1
<1>2. ASSUME NEW e \in Docs, UploadStep(e) PROVE upload[d] \in Early
  BY <1>2 DEF UploadStep, AnswerEarly, BeginUpload, StoreObject, StoreFails, CommitUpload,
              CommitConflict, CommitRaises, Expedite, ApiDies
<1>3. CASE UNCHANGED vars
  BY <1>3 DEF vars
<1>4. CASE Next
  BY <1>1, <1>2, <1>4 DEF Next, DeleteDocument, Reprocess, WorkerStep, Claim, ReadDocument,
     Extract, DeleteObject, ReadFails, Finish, FinishRaises, WorkerDies, ServiceStops, ClockStep,
     TimePasses, LeaseExpires, RecoverExpired, RetryCleanup
<1> QED BY <1>3, <1>4

(* A run begins on a live document, keeps its job, and reports nothing     *)
(* only once it has seen that the document is gone.                        *)
LEMMA RunsMove ==
  ASSUME TypeOK, [Next]_vars, NEW w \in Workers, worker'[w] # Idle, IsOcr(worker'[w].job)
  PROVE  \/ Live(worker'[w].job.doc) /\ worker'[w].pc = "claimed"
         \/ /\ worker[w] # Idle /\ worker'[w].job = worker[w].job
            /\ worker'[w].pc = "finish" /\ worker'[w].outcome = "done" =>
                  \/ worker[w].pc = "finish" /\ worker[w].outcome = "done"
                  \/ ~Live(worker[w].job.doc)
<1> DEFINE Kept == /\ worker[w] # Idle /\ worker'[w].job = worker[w].job
                   /\ worker'[w].pc = "finish" /\ worker'[w].outcome = "done" =>
                         \/ worker[w].pc = "finish" /\ worker[w].outcome = "done"
                         \/ ~Live(worker[w].job.doc)
<1>1. CASE worker'[w] = worker[w]
  BY <1>1
<1>2. ASSUME NEW v \in Workers, WorkerStep(v), v # w PROVE worker'[w] = worker[w]
  BY <1>2 DEF WorkerStep, Claim, ReadDocument, Extract, DeleteObject, ReadFails, Finish,
              FinishRaises, WorkerDies, Reach, TypeOK
<1>3. CASE WorkerStep(w)
  <2>1. CASE \E j \in Jobs : Claim(w, j)
    <3>1. PICK j \in Jobs : Claim(w, j)
      BY <2>1
    <3>2. CASE worker' = worker
      BY <1>1, <3>2
    <3>3. CASE worker' # worker
      <4>1. /\ ~(IsOcr(j) /\ ~Live(j.doc))
            /\ worker' = [worker EXCEPT ![w] = [pc |-> "claimed", job |-> j,
                                   token |-> Claimed(job[j]).token, outcome |-> "done"]]
        BY <3>1, <3>3, Zenon DEF Claim
      <4>2. worker'[w].job = j /\ worker'[w].pc = "claimed"
        BY <4>1 DEF TypeOK
      <4> QED BY <4>1, <4>2
    <3> QED BY <3>2, <3>3
  <2>2. ASSUME NEW pc \in {"read", "finish"}, NEW o \in Outcomes,
               worker[w].pc # "idle", Reach(w, pc, o)
        PROVE  /\ worker[w] # Idle /\ worker'[w].job = worker[w].job
               /\ worker'[w].pc = pc /\ worker'[w].outcome = o
    <3>1. worker[w] \in Calls /\ worker[w] # Idle
      BY <2>2, Busy
    <3>2. worker' = [worker EXCEPT ![w] = [worker[w] EXCEPT !.pc = pc, !.outcome = o]]
      BY <2>2 DEF Reach, TypeOK
    <3> QED BY <3>1, <3>2 DEF TypeOK, Calls
  <2> USE DEF Outcomes, Failures
  <2>3. CASE ReadDocument(w)
    <3>1. CASE Live(worker[w].job.doc)
      BY <2>2, <2>3, <3>1 DEF ReadDocument
    <3>2. CASE ~Live(worker[w].job.doc)
      BY <2>2, <2>3, <3>2 DEF ReadDocument
    <3> QED BY <3>1, <3>2
  <2>4. CASE Extract(w) \/ ReadFails(w)
    BY <2>2, <2>4 DEF Extract, ReadFails
  <2>5. CASE DeleteObject(w)
    <3>1. worker'[w].job = worker[w].job /\ ~IsOcr(worker[w].job)
      BY <2>2, <2>5 DEF DeleteObject
    <3> QED BY <3>1
  <2>6. CASE Finish(w) \/ WorkerDies(w)
    BY <2>6 DEF Finish, WorkerDies, TypeOK
  <2>7. CASE FinishRaises(w)
    BY <2>2, <2>7 DEF FinishRaises, TypeOK
  <2> QED BY <1>3, <2>1, <2>3, <2>4, <2>5, <2>6, <2>7 DEF WorkerStep
<1>4. CASE UNCHANGED vars \/ ServiceStops
  BY <1>1, <1>4 DEF vars, ServiceStops
<1>5. CASE Next
  BY <1>1, <1>2, <1>3, <1>4, <1>5 DEF Next, UploadStep, DeleteDocument, Reprocess, AnswerEarly,
     BeginUpload, StoreObject, StoreFails, CommitUpload, CommitConflict, CommitRaises, Expedite,
     ApiDies, ClockStep, TimePasses, LeaseExpires, RecoverExpired, RetryCleanup
<1> QED BY <1>4, <1>5

LEMMA KnownStep ==
  ASSUME TypeOK, Known, [Next]_vars PROVE Known'
<1>1. StepForm
  BY StepHasForm
<1>2. UploadFirst'
  <2> SUFFICES ASSUME NEW d \in Docs, upload'[d] \in Early PROVE doc'[d].status = "absent"
    BY DEF UploadFirst
  <2>1. upload[d] \in Early /\ doc[d].status = "absent"
    BY UploadsMove DEF Known, UploadFirst
  <2> QED BY <1>1, <2>1, DocumentsMove
<1>3. Unborn'
  <2> SUFFICES ASSUME NEW j \in Jobs, IsOcr(j), doc'[j.doc].status = "absent"
               PROVE  job'[j].state = "absent"
    BY DEF Unborn
  <2>1. j.doc \in Docs /\ doc[j.doc].status = "absent" /\ job[j].state = "absent"
    BY <1>1, JobNames, DocumentsMove DEF Known, Unborn
  <2>2. ASSUME NEW k \in Jobs, k # j, OnlyRun(k) PROVE job'[j].state = "absent"
    BY <2>1, <2>2 DEF OnlyRun, SameRun
  <2>3. CASE SameRuns
    BY <2>1, <2>3 DEF SameRuns, SameRun
  <2>4. ASSUME NEW d \in Docs, Born(d) \/ (\E n \in 1..MaxCycles : Again(d, n))
        PROVE  job'[j].state = "absent"
    <3>1. PICK n \in 1..MaxCycles : OnlyRun(OcrJob(d, n)) /\ doc'[d].status = "pending"
      BY <2>4, JobRoles DEF Born, Again, OnlyDoc
    <3>2. OcrJob(d, n) \in Jobs /\ OcrJob(d, n) # j
      BY <3>1, JobNames, JobRoles
    <3> QED BY <2>2, <3>1, <3>2
  <2>5. ASSUME NEW k \in Jobs, NEW s, NEW t, Started(k) \/ Dropped(k) \/ Ended(k, s, t)
        PROVE  job'[j].state = "absent"
    <3>1. k # j /\ OnlyRun(k)
      BY <2>1, <2>5 DEF Started, Dropped, Ended
    <3> QED BY <2>2, <3>1
  <2> QED BY <1>1, <2>3, <2>4, <2>5 DEF StepForm, Quiet, Gone
<1>4. RunsKnown'
  <2> SUFFICES ASSUME NEW w \in Workers, worker'[w] # Idle, IsOcr(worker'[w].job)
               PROVE  /\ doc'[worker'[w].job.doc].status # "absent"
                      /\ worker'[w].pc = "finish" /\ worker'[w].outcome = "done" =>
                            doc'[worker'[w].job.doc].status \in {"absent", "deleted"}
    BY DEF RunsKnown, Live
  <2>1. CASE Live(worker'[w].job.doc) /\ worker'[w].pc = "claimed"
    <3>1. worker'[w].job.doc \in Docs
      <4>1. worker'[w] \in Calls \cup {Idle}
        BY NextType DEF TypeOK
      <4> QED BY <4>1, JobNames DEF Calls
    <3> QED BY <1>1, <2>1, <3>1, DocumentsMove DEF Live
  <2>2. CASE /\ worker[w] # Idle /\ worker'[w].job = worker[w].job
             /\ worker'[w].pc = "finish" /\ worker'[w].outcome = "done" =>
                   \/ worker[w].pc = "finish" /\ worker[w].outcome = "done"
                   \/ ~Live(worker[w].job.doc)
    <3> DEFINE d == worker[w].job.doc
    <3>1. d \in Docs /\ doc[d].status # "absent"
      BY <2>2, Busy DEF Known, RunsKnown
    <3>2. worker'[w].pc = "finish" /\ worker'[w].outcome = "done" => doc[d].status = "deleted"
      BY <2>2, <3>1 DEF Known, RunsKnown, Live
    <3> QED BY <1>1, <2>2, <3>1, <3>2, DocumentsMove
  <2> QED BY <2>1, <2>2, RunsMove
<1> QED BY <1>2, <1>3, <1>4 DEF Known

LEMMA KnownInit == Init => Known
BY DEF Init, Known, UploadFirst, Unborn, RunsKnown, NoDoc, NoRow

-----------------------------------------------------------------------------
(* Rows are created once and their tokens only grow. *)

(* The intent of an upload and the removal of a document do not exist      *)
(* before the call that creates them.                                      *)
Fresh ==
  \A d \in Docs :
     /\ upload[d] = "new" => job[Intent(d)].state = "absent"
     /\ doc[d].status # "deleted" => job[Removal(d)].state = "absent"

RowMoved(j) ==
  /\ job[j].state # "absent" => job'[j].state # "absent" /\ job'[j].token >= job[j].token
  /\ job[j].state = "absent" /\ job'[j].state # "absent" =>
        \/ IsOcr(j)
        \/ j.role = "intent" /\ upload'[j.doc] # "new"
        \/ j.role = "removal" /\ doc'[j.doc].status = "deleted"

RowsMoved == \A j \in Jobs : RowMoved(j)

LEMMA RoleNames ==
  /\ \A j \in Jobs : /\ j.role = "intent" => j = Intent(j.doc)
                     /\ j.role = "removal" => j = Removal(j.doc)
  /\ \A d \in Docs : /\ Intent(d).role = "intent" /\ Intent(d).doc = d
                     /\ Removal(d).role = "removal" /\ Removal(d).doc = d
BY DEF Jobs, Intent, Removal

LEMMA SameJobs == ASSUME TypeOK, job' = job PROVE RowsMoved
BY DEF RowsMoved, RowMoved, TypeOK, Row

(* One row is written, and it was there. *)
LEMMA RowWritten ==
  ASSUME TypeOK, NEW j \in Jobs, NEW r \in Row, job' = [job EXCEPT ![j] = r],
         job[j].state # "absent" => r.state # "absent" /\ (r.token = job[j].token \/ r.token > job[j].token),
         job[j].state = "absent" /\ r.state # "absent" =>
            \/ IsOcr(j)
            \/ j.role = "intent" /\ upload'[j.doc] # "new"
            \/ j.role = "removal" /\ doc'[j.doc].status = "deleted"
  PROVE  RowsMoved
<1>1. \A k \in Jobs : job[k].token \in Nat /\ job[k].token >= job[k].token
  BY DEF TypeOK, Row
<1>2. r.token \in Nat
  BY DEF Row
<1>3. job[j].state # "absent" => r.token >= job[j].token
  BY <1>1, <1>2
<1>4. job'[j] = r /\ \A k \in Jobs : k # j => job'[k] = job[k]
  BY DEF TypeOK
<1>5. RowMoved(j)
  BY <1>3, <1>4 DEF RowMoved
<1>6. \A k \in Jobs : k # j => RowMoved(k)
  BY <1>1, <1>4 DEF RowMoved
<1> QED BY <1>5, <1>6 DEF RowsMoved

LEMMA UploadRows ==
  ASSUME TypeOK, Known, Fresh, NEW d \in Docs, UploadStep(d) PROVE RowsMoved
<1> DEFINE j == Intent(d)
<1>0. j \in Jobs /\ job[j] \in Row /\ j.role = "intent" /\ j.doc = d
  BY JobNames, RoleNames DEF TypeOK
<1>1. ASSUME MadeDue(d) PROVE RowsMoved
  <2> DEFINE r == [job[j] EXCEPT !.due = TRUE]
  <2>1. r \in Row /\ r.state = job[j].state /\ r.token = job[j].token
    BY <1>0 DEF Row
  <2>2. job' = [job EXCEPT ![j] = r]
    BY <1>1 DEF MadeDue
  <2> HIDE DEF r, j
  <2> QED BY <1>0, <2>1, <2>2, RowWritten
<1>2. ASSUME Create(d), upload[d] = "stored", upload'[d] # "new" PROVE RowsMoved
  <2> DEFINE k == OcrJob(d, 1)
             r == [job[j] EXCEPT !.state = "succeeded"]
  <2>1. k \in Jobs /\ k # j /\ IsOcr(k) /\ k.doc = d
    BY <1>0, JobNames, JobRoles
  <2>2. job[k].state = "absent"
    BY <1>2, <2>1 DEF Known, UploadFirst, Unborn, Early
  <2>3. r.state = "succeeded" /\ r.token = job[j].token
    BY <1>0 DEF Row
  <2>4. job' = [[job EXCEPT ![k] = NewRow(TRUE)] EXCEPT ![j] = r]
    BY <1>2, <2>1 DEF Create, TypeOK
  <2>5. \A i \in Jobs : job[i].token \in Nat
    BY DEF TypeOK, Row
  <2> HIDE DEF r, j, k
  <2>6. ASSUME NEW i \in Jobs PROVE RowMoved(i)
    <3>1. CASE i = k
      BY <2>1, <2>2, <3>1 DEF RowMoved
    <3>2. CASE i = j
      <4>1. job'[i] = r
        BY <2>4, <3>2 DEF TypeOK
      <4> QED BY <1>0, <1>2, <2>3, <2>5, <3>2, <4>1 DEF RowMoved
    <3>3. CASE i # k /\ i # j
      <4>1. job'[i] = job[i]
        BY <2>4, <3>3 DEF TypeOK
      <4> QED BY <2>5, <4>1 DEF RowMoved
    <3> QED BY <3>1, <3>2, <3>3
  <2> QED BY <2>6 DEF RowsMoved
<1>3. CASE BeginUpload(d)
  <2>1. /\ job[j].state = "absent" /\ upload'[d] # "new"
        /\ job' = [job EXCEPT ![j] = NewRow(FALSE)]
    BY <1>3 DEF BeginUpload, Fresh, TypeOK
  <2> QED BY <1>0, <2>1, NewRowType, RowWritten
<1>4. CASE CommitUpload(d) \/ CommitRaises(d)
  <2>1. upload[d] = "stored" /\ upload'[d] # "new"
    BY <1>4 DEF CommitUpload, CommitRaises, TypeOK
  <2> QED BY <1>1, <1>2, <1>4, <2>1, SameJobs DEF CommitUpload, CommitRaises, Commit
<1>5. CASE Expedite(d)
  BY <1>1, <1>5 DEF Expedite
<1>6. CASE \/ AnswerEarly(d) \/ StoreObject(d) \/ StoreFails(d) \/ CommitConflict(d)
           \/ ApiDies(d)
  BY <1>6, SameJobs DEF AnswerEarly, StoreObject, StoreFails, CommitConflict, ApiDies
<1> QED BY <1>3, <1>4, <1>5, <1>6 DEF UploadStep

LEMMA SettleRows ==
  ASSUME TypeOK, NEW j \in Jobs, job[j].state # "absent", NEW r \in Row,
         r.token = job[j].token \/ r.token > job[j].token, NEW o \in Outcomes, NEW run, Settle(j, r, o, run)
  PROVE  RowsMoved
<1> DEFINE s == Settled(j, r, o)
<1>1. s \in Row /\ s.state \in {"pending", "failed", "succeeded"}
  BY SettledType
<1>2. s.token = r.token
  <2>1. CASE o \in Failures
    BY <2>1 DEF Settled, Row
  <2>2. CASE o \notin Failures
    BY <2>2 DEF Settled, Row
  <2> QED BY <2>1, <2>2
<1>3. job' = [job EXCEPT ![j] = s]
  BY DEF Settle
<1> HIDE DEF s
<1> QED BY <1>1, <1>2, <1>3, RowWritten

LEMMA WorkerRows ==
  ASSUME TypeOK, NEW w \in Workers, WorkerStep(w) PROVE RowsMoved
<1>1. ASSUME NEW j \in Jobs, Claim(w, j) PROVE RowsMoved
  <2> DEFINE r == Claimed(job[j])
             s == [r EXCEPT !.state = "succeeded", !.lease = "none"]
  <2>1. job[j] \in Row /\ r \in Row /\ job[j].state = "pending" /\ job[j].token \in Nat
    BY <1>1, ClaimedType DEF TypeOK, Claim, CanClaim, Row
  <2>2. r.state = "running" /\ r.token = job[j].token + 1
    BY <2>1 DEF Claimed, Row
  <2>3. s \in Row /\ s.state = "succeeded" /\ s.token = r.token
    BY <2>1 DEF Row
  <2>4. job' = [job EXCEPT ![j] = r] \/ job' = [job EXCEPT ![j] = s]
    BY <1>1, Zenon DEF Claim
  <2> HIDE DEF r, s
  <2> QED BY <2>1, <2>2, <2>3, <2>4, RowWritten
<1>2. ASSUME worker[w].pc = "finish", FinishCommits(w) PROVE RowsMoved
  <2> DEFINE j == worker[w].job
  <2>1. CASE ~Holds(w)
    BY <1>2, <2>1, SameJobs DEF FinishCommits
  <2>2. CASE Holds(w)
    <3>1. /\ Settle(j, job[j], worker[w].outcome, worker[w].token)
          /\ job[j].state = "running"
      BY <1>2, <2>2 DEF FinishCommits, Holds
    <3>2. j \in Jobs /\ job[j] \in Row /\ worker[w].outcome \in Outcomes
      BY <1>2, Busy
    <3> QED BY <3>1, <3>2, SettleRows
  <2> QED BY <2>1, <2>2
<1>3. CASE Finish(w) \/ FinishRaises(w)
  BY <1>2, <1>3, SameJobs DEF Finish, FinishRaises
<1>4. CASE ReadDocument(w) \/ Extract(w) \/ DeleteObject(w) \/ ReadFails(w) \/ WorkerDies(w)
  BY <1>4, SameJobs DEF ReadDocument, Extract, DeleteObject, ReadFails, WorkerDies
<1> QED BY <1>1, <1>3, <1>4 DEF WorkerStep

LEMMA OtherRows ==
  ASSUME TypeOK, Fresh,
         \/ \E j \in Jobs : ClockStep(j) \/ RecoverExpired(j) \/ RetryCleanup(j)
         \/ \E d \in Docs : DeleteDocument(d) \/ Reprocess(d)
  PROVE  RowsMoved
<1>1. ASSUME NEW j \in Jobs, TimePasses(j) \/ LeaseExpires(j) \/ RetryCleanup(j) PROVE RowsMoved
  <2>1. job[j] \in Row /\ job[j].token \in Nat /\ job[j].state # "absent"
    BY <1>1 DEF TypeOK, Row, TimePasses, LeaseExpires, RetryCleanup
  <2>2. CASE TimePasses(j)
    <3>1. job' = [job EXCEPT ![j] = [job[j] EXCEPT !.due = TRUE]]
      BY <2>2 DEF TimePasses
    <3>2. /\ [job[j] EXCEPT !.due = TRUE] \in Row
          /\ [job[j] EXCEPT !.due = TRUE].state = job[j].state
          /\ [job[j] EXCEPT !.due = TRUE].token = job[j].token
      BY <2>1 DEF Row
    <3> QED BY <2>1, <3>1, <3>2, RowWritten
  <2>3. CASE LeaseExpires(j)
    <3>1. job' = [job EXCEPT ![j] = [job[j] EXCEPT !.lease = "expired"]]
      BY <2>3 DEF LeaseExpires
    <3>2. /\ [job[j] EXCEPT !.lease = "expired"] \in Row
          /\ [job[j] EXCEPT !.lease = "expired"].state = job[j].state
          /\ [job[j] EXCEPT !.lease = "expired"].token = job[j].token
      BY <2>1 DEF Row
    <3> QED BY <2>1, <3>1, <3>2, RowWritten
  <2>4. CASE RetryCleanup(j)
    <3> DEFINE r == [job[j] EXCEPT !.state = "pending", !.attempts = 0, !.error = "none", !.due = TRUE]
    <3>1. job' = [job EXCEPT ![j] = r]
      BY <2>4 DEF RetryCleanup, TypeOK
    <3>2. r \in Row /\ r.state = "pending" /\ r.token = job[j].token
      BY <2>1 DEF Row
    <3> HIDE DEF r
    <3> QED BY <2>1, <3>1, <3>2, RowWritten
  <2> QED BY <1>1, <2>2, <2>3, <2>4
<1>2. ASSUME NEW j \in Jobs, RecoverExpired(j) PROVE RowsMoved
  <2> DEFINE r == Lost(job[j])
  <2>1. r \in Row /\ r.token = job[j].token + 1 /\ job[j].token \in Nat
    BY LostType DEF Lost, Row, TypeOK
  <2>2. /\ Settle(j, r, "transient", r.token) /\ "transient" \in Outcomes
        /\ job[j].state # "absent"
    BY <1>2 DEF RecoverExpired, CanRecover, Outcomes, Failures
  <2> HIDE DEF r
  <2> QED BY <2>1, <2>2, SettleRows
<1>3. ASSUME NEW d \in Docs, DeleteDocument(d) PROVE RowsMoved
  <2>1. /\ job[Removal(d)].state = "absent" /\ doc'[d].status = "deleted"
        /\ job' = [job EXCEPT ![Removal(d)] = NewRow(TRUE)]
    BY <1>3 DEF DeleteDocument, Fresh, Live, TypeOK, NoDoc
  <2> QED BY <2>1, NewRowType, RowWritten, JobNames, RoleNames
<1>4. ASSUME NEW d \in Docs, Reprocess(d) PROVE RowsMoved
  <2>1. PICK n \in 1..MaxCycles : /\ job[OcrJob(d, n)].state = "absent"
                                  /\ job' = [job EXCEPT ![OcrJob(d, n)] = NewRow(TRUE)]
    BY <1>4 DEF Reprocess
  <2> QED BY <2>1, NewRowType, RowWritten, JobNames, JobRoles
<1> QED BY <1>1, <1>2, <1>3, <1>4 DEF ClockStep

LEMMA RowsMove ==
  ASSUME TypeOK, Known, Fresh, [Next]_vars PROVE RowsMoved
<1>1. CASE UNCHANGED vars \/ ServiceStops
  BY <1>1, SameJobs DEF vars, ServiceStops
<1>2. CASE Next
  BY <1>1, <1>2, UploadRows, WorkerRows, OtherRows DEF Next
<1> QED BY <1>1, <1>2

LEMMA FreshStep ==
  ASSUME TypeOK, Known, Fresh, [Next]_vars PROVE Fresh'
<1> SUFFICES ASSUME NEW d \in Docs
             PROVE  /\ upload'[d] = "new" => job'[Intent(d)].state = "absent"
                    /\ doc'[d].status # "deleted" => job'[Removal(d)].state = "absent"
  BY DEF Fresh, Intent, Removal
<1>1. /\ RowMoved(Intent(d)) /\ RowMoved(Removal(d))
      /\ Intent(d).role = "intent" /\ Intent(d).doc = d /\ ~IsOcr(Intent(d))
      /\ Removal(d).role = "removal" /\ Removal(d).doc = d /\ ~IsOcr(Removal(d))
  BY RowsMove, JobNames, JobRoles, RoleNames DEF RowsMoved
<1>2. doc'[d].status # "deleted" => doc[d].status # "deleted"
  BY StepHasForm, DocumentsMove
<1>3. upload'[d] = "new" => upload[d] = "new"
  <2>1. CASE UNCHANGED upload
    BY <2>1
  <2>2. ASSUME NEW e \in Docs, UploadStep(e) PROVE upload'[d] = "new" => upload[d] = "new"
    BY <2>2 DEF UploadStep, AnswerEarly, BeginUpload, StoreObject, StoreFails, CommitUpload,
                CommitConflict, CommitRaises, Expedite, ApiDies, TypeOK
  <2>3. CASE UNCHANGED vars
    BY <2>3 DEF vars
  <2>4. CASE Next
    BY <2>1, <2>2, <2>4 DEF Next, DeleteDocument, Reprocess, WorkerStep, Claim, ReadDocument,
       Extract, DeleteObject, ReadFails, Finish, FinishRaises, WorkerDies, ServiceStops, ClockStep,
       TimePasses, LeaseExpires, RecoverExpired, RetryCleanup
  <2> QED BY <2>3, <2>4
<1> QED BY <1>1, <1>2, <1>3 DEF Fresh, RowMoved

-----------------------------------------------------------------------------
(* Two workers on one job hold different tokens. *)

TokensDrawn ==
  /\ \A w \in Workers : worker[w] # Idle =>
        /\ job[worker[w].job].state # "absent"
        /\ worker[w].token <= job[worker[w].job].token
  /\ \A w, v \in Workers :
        w # v /\ worker[w] # Idle /\ worker[v] # Idle /\ worker[w].job = worker[v].job =>
           worker[w].token # worker[v].token

(* A worker keeps its job and token until it is idle again; a claim draws  *)
(* a token that no other worker has.                                       *)
SameCall(w) ==
  worker'[w] # Idle =>
     worker[w] # Idle /\ worker'[w].job = worker[w].job /\ worker'[w].token = worker[w].token

Drawn(w, j) ==
  /\ worker'[w].job = j /\ worker'[w].token = job[j].token + 1
  /\ job'[j].token = job[j].token + 1
  /\ job[j].state = "pending" /\ job'[j].state # "absent"

LEMMA CallsMove ==
  ASSUME TypeOK, [Next]_vars
  PROVE  \/ \A w \in Workers : SameCall(w)
         \/ \E w \in Workers, j \in Jobs :
               Drawn(w, j) /\ \A v \in Workers : v # w => SameCall(v)
<1>1. CASE worker' = worker
  BY <1>1 DEF SameCall
<1>2. ASSUME NEW w \in Workers, WorkerStep(w)
      PROVE  \A v \in Workers : v # w => SameCall(v)
  BY <1>2 DEF WorkerStep, Claim, ReadDocument, Extract, DeleteObject, ReadFails, Finish,
              FinishRaises, WorkerDies, Reach, TypeOK, SameCall
<1>3. ASSUME NEW w \in Workers, WorkerStep(w)
      PROVE  SameCall(w) \/ \E j \in Jobs : Drawn(w, j)
  <2>1. ASSUME NEW j \in Jobs, Claim(w, j) PROVE SameCall(w) \/ Drawn(w, j)
    <3> DEFINE r == Claimed(job[j])
    <3>1. CASE IsOcr(j) /\ ~Live(j.doc)
      <4>1. worker' = worker
        BY <2>1, <3>1, Zenon DEF Claim
      <4> QED BY <4>1 DEF SameCall
    <3>2. CASE ~(IsOcr(j) /\ ~Live(j.doc))
      <4>1. /\ job' = [job EXCEPT ![j] = r]
            /\ worker' = [worker EXCEPT ![w] =
                             [pc |-> "claimed", job |-> j, token |-> r.token, outcome |-> "done"]]
        BY <2>1, <3>2, Zenon DEF Claim
      <4>2. r.token = job[j].token + 1 /\ r.state = "running" /\ job[j].state = "pending"
        BY <2>1 DEF Claimed, TypeOK, Row, Claim, CanClaim
      <4> HIDE DEF r
      <4> QED BY <4>1, <4>2 DEF Drawn, TypeOK
    <3> QED BY <3>1, <3>2
  <2>2. ASSUME NEW pc, NEW o, worker[w].pc # "idle", Reach(w, pc, o) PROVE SameCall(w)
    <3>1. worker[w] \in Calls /\ worker[w] # Idle
      BY <2>2, Busy
    <3>2. worker'[w] = [worker[w] EXCEPT !.pc = pc, !.outcome = o]
      BY <2>2 DEF Reach, TypeOK
    <3> QED BY <3>1, <3>2 DEF SameCall, Calls
  <2>3. CASE \E j \in Jobs : Claim(w, j)
    BY <2>1, <2>3
  <2>4. CASE ReadDocument(w) \/ Extract(w) \/ DeleteObject(w) \/ ReadFails(w)
    BY <2>2, <2>4 DEF ReadDocument, Extract, DeleteObject, ReadFails
  <2>5. CASE Finish(w) \/ WorkerDies(w)
    BY <2>5 DEF Finish, WorkerDies, TypeOK, SameCall
  <2>6. CASE FinishRaises(w)
    <3>1. CASE worker' = [worker EXCEPT ![w] = Idle]
      BY <3>1 DEF TypeOK, SameCall
    <3>2. CASE Reach(w, "finish", "transient")
      BY <2>2, <2>6, <3>2 DEF FinishRaises
    <3> QED BY <2>6, <3>1, <3>2 DEF FinishRaises
  <2> QED BY <1>3, <2>3, <2>4, <2>5, <2>6 DEF WorkerStep
<1>4. CASE UNCHANGED vars \/ ServiceStops
  BY <1>1, <1>4 DEF vars, ServiceStops, SameCall
<1>5. ASSUME NEW w \in Workers, WorkerStep(w)
      PROVE  \/ \A v \in Workers : SameCall(v)
             \/ \E j \in Jobs : Drawn(w, j) /\ \A v \in Workers : v # w => SameCall(v)
  BY <1>2, <1>3, <1>5
<1>6. CASE Next
  BY <1>1, <1>4, <1>5, <1>6 DEF Next, UploadStep, DeleteDocument, Reprocess, AnswerEarly, BeginUpload,
     StoreObject, StoreFails, CommitUpload, CommitConflict, CommitRaises, Expedite, ApiDies,
     ClockStep, TimePasses, LeaseExpires, RecoverExpired, RetryCleanup
<1> QED BY <1>4, <1>6

LEMMA DrawnStep ==
  ASSUME TypeOK, Known, Fresh, TokensDrawn, [Next]_vars PROVE TokensDrawn'
<1>1. RowsMoved
  BY RowsMove
<1>2. \A w \in Workers : worker[w] # Idle =>
         worker[w].job \in Jobs /\ worker[w].token \in Nat
  BY Busy
<1>3. \A j \in Jobs : job[j].token \in Nat /\ job'[j].token \in Nat
  BY NextType DEF TypeOK, Row
<1>4. ASSUME NEW w \in Workers, SameCall(w), worker'[w] # Idle
      PROVE  /\ job'[worker'[w].job].state # "absent"
             /\ worker'[w].token <= job'[worker'[w].job].token
  <2> DEFINE j == worker[w].job
  <2>1. /\ worker[w] # Idle /\ worker'[w].job = j /\ worker'[w].token = worker[w].token
        /\ j \in Jobs /\ worker[w].token \in Nat
    BY <1>2, <1>4 DEF SameCall
  <2>2. job[j].state # "absent" /\ worker[w].token <= job[j].token
    BY <2>1 DEF TokensDrawn
  <2>3. job'[j].state # "absent" /\ job'[j].token >= job[j].token
    BY <1>1, <2>1, <2>2 DEF RowsMoved, RowMoved
  <2> HIDE DEF j
  <2> QED BY <1>3, <2>1, <2>2, <2>3
<1>5. CASE \A w \in Workers : SameCall(w)
  <2>1. \A w, v \in Workers :
          w # v /\ worker'[w] # Idle /\ worker'[v] # Idle /\ worker'[w].job = worker'[v].job =>
             worker'[w].token # worker'[v].token
    BY <1>5 DEF SameCall, TokensDrawn
  <2> QED BY <1>4, <1>5, <2>1 DEF TokensDrawn
<1>6. ASSUME NEW w \in Workers, NEW j \in Jobs, Drawn(w, j),
             \A v \in Workers : v # w => SameCall(v)
      PROVE  TokensDrawn'
  <2>1. /\ job'[worker'[w].job].state # "absent"
        /\ worker'[w].token <= job'[worker'[w].job].token
    BY <1>3, <1>6 DEF Drawn
  <2>2. ASSUME NEW v \in Workers, v # w, worker'[v] # Idle, worker'[v].job = worker'[w].job
        PROVE  worker'[v].token # worker'[w].token
    <3>1. worker[v] # Idle /\ worker[v].job = j /\ worker'[v].token = worker[v].token
      BY <1>6, <2>2 DEF SameCall, Drawn
    <3>2. worker[v].token <= job[j].token /\ worker[v].token \in Nat
      BY <1>2, <3>1 DEF TokensDrawn
    <3> QED BY <1>3, <1>6, <3>1, <3>2 DEF Drawn
  <2>3. \A u, v \in Workers :
          u # v /\ u # w /\ v # w /\ worker'[u] # Idle /\ worker'[v] # Idle
            /\ worker'[u].job = worker'[v].job => worker'[u].token # worker'[v].token
    BY <1>6 DEF SameCall, TokensDrawn
  <2> QED BY <1>4, <1>6, <2>1, <2>2, <2>3 DEF TokensDrawn
<1> QED BY <1>5, <1>6, CallsMove

(* Of all workers busy with a job at most one can pass the fence.          *)
THEOREM LeaseCorrect == Spec => []OneHolder
<1>1. Init => Fresh /\ TokensDrawn
  BY JobNames DEF Init, Fresh, TokensDrawn, NoRow
<1>2. TypeOK /\ Known /\ Fresh /\ TokensDrawn /\ [Next]_vars => Known' /\ Fresh' /\ TokensDrawn'
  BY KnownStep, FreshStep, DrawnStep
<1>3. TokensDrawn => OneHolder
  BY DEF TokensDrawn, OneHolder, Holds
<1> QED BY <1>1, <1>2, <1>3, KnownInit, TypeCorrect, PTL DEF Spec
=============================================================================
