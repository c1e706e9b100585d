--------------------------- MODULE DocumentProofs ---------------------------
(***************************************************************************)
(* Proofs about documents: they agree with their OCR jobs, text comes from *)
(* the run that ended the job, a key belongs to one document, the ledger   *)
(* implements the status diagram of DocumentStatus, and bucket and         *)
(* documents agree as far as cleanups can make them.                       *)
(***************************************************************************)
EXTENDS LedgerProofs

-----------------------------------------------------------------------------
(* The document shows its job. *)

(* If no other job of its document is active, job j may change together    *)
(* with the document as long as the two agree afterwards.                  *)
LEMMA StatusMove ==
  ASSUME TypeOK, StatusMatchesJob, NEW j \in Jobs, IsOcr(j), OnlyRun(j),
         \A e \in Docs : e # j.doc => doc'[e] = doc[e],
         \A k \in Jobs : IsOcr(k) /\ k # j /\ k.doc = j.doc => job[k].state \notin Active,
         doc'[j.doc].status \notin {"absent", "deleted"} =>
           /\ job'[j].state \in Active =>
                /\ doc'[j.doc].status = IF job'[j].state = "running" THEN "processing" ELSE "pending"
                /\ doc'[j.doc].attempts = job'[j].attempts
           /\ doc'[j.doc].status \in {"pending", "processing"} => job'[j].state \in Active
  PROVE  StatusMatchesJob'
<1>1. \A k \in Jobs : k.doc \in Docs
  BY JobNames
<1>2. \A k \in Jobs : IsOcr(k) /\ k # j => SameRun(k)
  BY DEF OnlyRun
<1>3. OneActiveRun'
  BY <1>2 DEF OneActiveRun, StatusMatchesJob, SameRun
<1>4. ActiveRunShown'
  <2> SUFFICES ASSUME NEW k \in Jobs, IsOcr(k), job'[k].state \in Active,
                      doc'[k.doc].status \notin {"absent", "deleted"}
               PROVE  /\ doc'[k.doc].status = IF job'[k].state = "running" THEN "processing" ELSE "pending"
                      /\ doc'[k.doc].attempts = job'[k].attempts
    BY DEF ActiveRunShown, Live
  <2>1. CASE k = j
    BY <2>1
  <2>2. CASE k # j
    <3>1. SameRun(k) /\ k.doc # j.doc /\ doc'[k.doc] = doc[k.doc]
      BY <1>1, <1>2, <2>2 DEF SameRun
    <3> QED BY <3>1 DEF StatusMatchesJob, ActiveRunShown, SameRun, Live
  <2> QED BY <2>1, <2>2
<1>5. WaitingIsServed'
  <2> SUFFICES ASSUME NEW d \in Docs, doc'[d].status \in {"pending", "processing"}
               PROVE  \E k \in Jobs : IsOcr(k) /\ k.doc = d /\ job'[k].state \in Active
    BY DEF WaitingIsServed
  <2>1. CASE d = j.doc
    BY <2>1
  <2>2. CASE d # j.doc
    <3>1. PICK k \in Jobs : IsOcr(k) /\ k.doc = d /\ job[k].state \in Active
      BY <2>2 DEF StatusMatchesJob, WaitingIsServed
    <3>2. SameRun(k)
      BY <1>2, <2>2, <3>1
    <3> QED BY <3>1, <3>2 DEF SameRun
  <2> QED BY <2>1, <2>2
<1> QED BY <1>3, <1>4, <1>5 DEF StatusMatchesJob

LEMMA StatusStep ==
  ASSUME TypeOK, Known, StatusMatchesJob, [Next]_vars PROVE StatusMatchesJob'
<1>1. StepForm
  BY StepHasForm
<1>2. ASSUME SameRuns, \A d \in Docs : doc'[d] = doc[d] \/ doc'[d].status = "deleted"
      PROVE  StatusMatchesJob'
  <2>1. \A k \in Jobs : k.doc \in Docs
    BY JobNames
  <2>2. OneActiveRun'
    BY <1>2 DEF SameRuns, SameRun, StatusMatchesJob, OneActiveRun
  <2>3. ActiveRunShown'
    BY <1>2, <2>1 DEF SameRuns, SameRun, StatusMatchesJob, ActiveRunShown, Live
  <2>4. WaitingIsServed'
    BY <1>2 DEF SameRuns, SameRun, StatusMatchesJob, WaitingIsServed
  <2> QED BY <2>2, <2>3, <2>4 DEF StatusMatchesJob
<1>3. CASE Quiet
  BY <1>2, <1>3 DEF Quiet
<1>4. ASSUME NEW d \in Docs, Gone(d) PROVE StatusMatchesJob'
  BY <1>2, <1>4 DEF Gone, OnlyDoc
<1>5. ASSUME NEW d \in Docs, NEW n \in 1..MaxCycles, OnlyRun(OcrJob(d, n)),
             job'[OcrJob(d, n)] = NewRow(TRUE),
             \A e \in Docs : e # d => doc'[e] = doc[e],
             doc'[d].status = "pending", doc'[d].attempts = 0,
             \A k \in Jobs : IsOcr(k) /\ k.doc = d => job[k].state \notin Active
      PROVE  StatusMatchesJob'
  <2>1. OcrJob(d, n) \in Jobs /\ IsOcr(OcrJob(d, n)) /\ OcrJob(d, n).doc = d
    BY JobNames, JobRoles
  <2>2. job'[OcrJob(d, n)].state = "pending" /\ job'[OcrJob(d, n)].attempts = 0
    BY <1>5 DEF NewRow, NoRow
  <2> QED BY <1>5, <2>1, <2>2, StatusMove DEF Active
<1>6. ASSUME NEW d \in Docs, Born(d) PROVE StatusMatchesJob'
  <2>1. \A k \in Jobs : IsOcr(k) /\ k.doc = d => job[k].state \notin Active
    BY <1>6 DEF Born, Known, UploadFirst, Unborn, Early, Active
  <2> QED BY <1>5, <1>6, <2>1, JobRoles DEF Born, OnlyDoc
<1>7. ASSUME NEW d \in Docs, NEW n \in 1..MaxCycles, Again(d, n) PROVE StatusMatchesJob'
  <2>1. \A k \in Jobs : IsOcr(k) /\ k.doc = d => job[k].state \notin Active
    BY <1>7 DEF Again, StatusMatchesJob, ActiveRunShown, Live, Active
  <2> QED BY <1>5, <1>7, <2>1 DEF Again, OnlyDoc
<1>8. ASSUME NEW j \in Jobs, IsOcr(j), job[j].state \in Active
      PROVE  \A k \in Jobs : IsOcr(k) /\ k # j /\ k.doc = j.doc => job[k].state \notin Active
  BY <1>8 DEF StatusMatchesJob, OneActiveRun
<1>9. ASSUME NEW j \in Jobs, Started(j) PROVE StatusMatchesJob'
  BY <1>8, <1>9, StatusMove DEF Started, OnlyDoc, Active
<1>10. ASSUME NEW j \in Jobs, Dropped(j) PROVE StatusMatchesJob'
  BY <1>8, <1>10, StatusMove DEF Dropped, Live, Active
<1>11. ASSUME NEW j \in Jobs, NEW s, NEW t, Ended(j, s, t) PROVE StatusMatchesJob'
  BY <1>8, <1>11, StatusMove DEF Ended, OnlyDoc, Live, Active
<1> QED BY <1>1, <1>3, <1>4, <1>6, <1>7, <1>9, <1>10, <1>11 DEF StepForm

(* At any time at most one OCR job of a document is active, a live         *)
(* document shows that job's state and attempts, and a waiting one has it. *)
THEOREM StatusCorrect == Spec => []StatusMatchesJob
<1>1. Init => StatusMatchesJob
  BY DEF Init, StatusMatchesJob, OneActiveRun, ActiveRunShown, WaitingIsServed, NoRow, NoDoc, Active
<1>2. TypeOK /\ Known /\ StatusMatchesJob /\ [Next]_vars => Known' /\ StatusMatchesJob'
  BY KnownStep, StatusStep
<1> QED BY <1>1, <1>2, KnownInit, TypeCorrect, PTL DEF Spec

-----------------------------------------------------------------------------
(* Text comes from the run that ended the job. *)

(* Documents other than d and jobs that had not succeeded do not matter to *)
(* the text that is already there.                                         *)
LEMMA TextKept ==
  ASSUME TypeOK, ResultFromWinner, NEW j \in Jobs, OnlyRun(j), IsOcr(j),
         job[j].state # "succeeded",
         NEW d \in Docs, doc'[d] = doc[d]
  PROVE  /\ doc'[d].status \notin {"absent", "deleted"} =>
              (doc'[d].status = "succeeded" <=> doc'[d].text # {})
         /\ \A r \in doc'[d].text :
              /\ IsOcr(r[1]) /\ r[1].doc = d
              /\ job'[r[1]].state = "succeeded"
              /\ job'[r[1]].token = r[2]
<1>1. \A r \in doc[d].text : r[1] \in Jobs
  BY DEF TypeOK, DocRow
<1>2. \A r \in doc[d].text : r[1] # j /\ SameRun(r[1])
  BY <1>1 DEF ResultFromWinner, OnlyRun
<1> QED BY <1>2 DEF ResultFromWinner, SameRun, Live

LEMMA ResultStep ==
  ASSUME TypeOK, Known, StatusMatchesJob, ResultFromWinner, [Next]_vars
  PROVE  ResultFromWinner'
<1>1. StepForm
  BY StepHasForm
<1> DEFINE Good(d) ==
      /\ doc'[d].status \notin {"absent", "deleted"} =>
           (doc'[d].status = "succeeded" <=> doc'[d].text # {})
      /\ \A r \in doc'[d].text :
           /\ IsOcr(r[1]) /\ r[1].doc = d
           /\ job'[r[1]].state = "succeeded"
           /\ job'[r[1]].token = r[2]
<1> SUFFICES ASSUME NEW d \in Docs PROVE Good(d)
  BY DEF ResultFromWinner, Live
<1>2. ASSUME SameRuns, doc'[d] = doc[d] PROVE Good(d)
  <2>1. \A r \in doc[d].text : r[1] \in Jobs
    BY DEF TypeOK, DocRow
  <2> QED BY <1>2, <2>1 DEF ResultFromWinner, SameRuns, SameRun, Live
<1>3. ASSUME doc'[d].text = {}, doc'[d].status # "succeeded" PROVE Good(d)
  BY <1>3
<1>4. Live(d) /\ doc[d].status # "succeeded" => doc[d].text = {}
  BY DEF ResultFromWinner
<1>5. CASE Quiet
  BY <1>2, <1>5 DEF Quiet
<1>6. ASSUME NEW e \in Docs, Gone(e) PROVE Good(d)
  BY <1>2, <1>3, <1>6 DEF Gone, OnlyDoc
<1>7. ASSUME NEW e \in Docs, NEW n \in 1..MaxCycles, OnlyRun(OcrJob(e, n)),
             job[OcrJob(e, n)].state = "absent", d # e, doc'[d] = doc[d]
      PROVE  Good(d)
  BY <1>7, TextKept, JobNames, JobRoles
<1>8. ASSUME NEW e \in Docs, Born(e) PROVE Good(d)
  <2>1. job[OcrJob(e, 1)].state = "absent"
    BY <1>8, JobNames, JobRoles DEF Born, Known, UploadFirst, Unborn, Early
  <2>2. CASE d = e
    BY <1>3, <1>8, <2>2 DEF Born, OnlyDoc
  <2>3. CASE d # e
    BY <1>7, <1>8, <2>1, <2>3, JobRoles DEF Born, OnlyDoc
  <2> QED BY <2>2, <2>3
<1>9. ASSUME NEW e \in Docs, NEW n \in 1..MaxCycles, Again(e, n) PROVE Good(d)
  <2>1. CASE d = e
    BY <1>3, <1>4, <1>9, <2>1 DEF Again, OnlyDoc, Live
  <2>2. CASE d # e
    BY <1>7, <1>9, <2>2 DEF Again, OnlyDoc
  <2> QED BY <2>1, <2>2
<1>10. ASSUME NEW j \in Jobs, IsOcr(j), job[j].state \in Active, Live(j.doc), d = j.doc
       PROVE  doc[d].status # "succeeded" /\ doc[d].text = {}
  <2>1. doc[d].status # "succeeded"
    BY <1>10 DEF StatusMatchesJob, ActiveRunShown
  <2> QED BY <1>4, <1>10, <2>1
<1>11. ASSUME NEW j \in Jobs, Started(j) PROVE Good(d)
  <2>1. CASE d = j.doc
    BY <1>3, <1>10, <1>11, <2>1 DEF Started, OnlyDoc, Active
  <2>2. CASE d # j.doc
    BY <1>11, <2>2, TextKept DEF Started, OnlyDoc
  <2> QED BY <2>1, <2>2
<1>12. ASSUME NEW j \in Jobs, Dropped(j) PROVE Good(d)
  BY <1>12, TextKept DEF Dropped
<1>13. ASSUME NEW j \in Jobs, NEW s, NEW t, Ended(j, s, t) PROVE Good(d)
  <2>1. CASE doc'[d] = doc[d]
    BY <1>13, <2>1, TextKept DEF Ended
  <2>2. CASE doc'[d] # doc[d]
    <3>1. d = j.doc /\ Live(d) /\ OnlyDoc(d, s, job'[j].attempts, t)
      BY <1>13, <2>2 DEF Ended, OnlyDoc
    <3>2. ~FoundNothing(j)
      BY <1>13, <3>1 DEF FoundNothing, Known, RunsKnown, Ended, Idle
    <3>3. CASE t = {<<j, job'[j].token>>} /\ s = "succeeded"
      BY <1>13, <3>1, <3>3 DEF Ended, OnlyDoc
    <3>4. CASE t = doc[d].text /\ s # "succeeded"
      <4>1. doc[d].text = {}
        BY <1>10, <1>13, <3>1 DEF Ended, Active
      <4> QED BY <1>3, <3>1, <3>4, <4>1 DEF OnlyDoc
    <3> QED BY <1>13, <3>1, <3>2, <3>3, <3>4 DEF Ended
  <2> QED BY <2>1, <2>2
<1> QED BY <1>1, <1>5, <1>6, <1>8, <1>9, <1>11, <1>12, <1>13 DEF StepForm

(* A live document has text exactly when it succeeded, and the text was    *)
(* computed under the token with which its job ended.                      *)
THEOREM ResultCorrect == Spec => []ResultFromWinner
<1>1. Init => ResultFromWinner /\ StatusMatchesJob
  BY DEF Init, ResultFromWinner, StatusMatchesJob, OneActiveRun, ActiveRunShown, WaitingIsServed,
         Live, NoRow, NoDoc, Active
<1>2. TypeOK /\ Known /\ StatusMatchesJob /\ ResultFromWinner /\ [Next]_vars
        => Known' /\ ResultFromWinner'
  BY KnownStep, ResultStep
<1> QED BY <1>1, <1>2, KnownInit, TypeCorrect, StatusCorrect, PTL DEF Spec

-----------------------------------------------------------------------------
(* An OCR row draws at most two tokens per attempt: one when it is claimed *)
(* and one if the run is lost.                                             *)

TokenBound ==
  \A j \in Jobs : IsOcr(j) =>
     /\ job[j].token <= 2 * job[j].attempts
     /\ job[j].state = "running" => job[j].token >= 1 /\ job[j].token + 1 <= 2 * job[j].attempts

LEMMA RowNumbers ==
  ASSUME TypeOK, [Next]_vars
  PROVE  \A j \in Jobs : /\ job[j].token \in Nat /\ job[j].attempts \in Nat
                         /\ job'[j].token \in Nat /\ job'[j].attempts \in Nat
BY NextType DEF TypeOK, Row

LEMMA TokenStep ==
  ASSUME TypeOK, TokenBound, [Next]_vars PROVE TokenBound'
<1> DEFINE Within(j) ==
      /\ job'[j].token <= 2 * job'[j].attempts
      /\ job'[j].state = "running" => job'[j].token >= 1 /\ job'[j].token + 1 <= 2 * job'[j].attempts
<1> SUFFICES ASSUME NEW j \in Jobs, IsOcr(j) PROVE Within(j)
  BY DEF TokenBound
<1>1. CASE SameRun(j)
  BY <1>1 DEF SameRun, TokenBound
<1>2. CASE job'[j] = NewRow(TRUE)
  BY <1>2 DEF NewRow, NoRow
<1>3. CASE Started(j)
  BY <1>3, RowNumbers DEF Started, TokenBound
<1>4. CASE Dropped(j)
  BY <1>4, RowNumbers DEF Dropped, TokenBound
<1>5. ASSUME NEW s, NEW t, Ended(j, s, t) PROVE Within(j)
  BY <1>5, RowNumbers DEF Ended, TokenBound
<1>6. ASSUME NEW k \in Jobs, OnlyRun(k), k # j PROVE SameRun(j)
  BY <1>6 DEF OnlyRun
<1>7. ASSUME NEW d \in Docs, NEW n \in 1..MaxCycles, OnlyRun(OcrJob(d, n)),
             job'[OcrJob(d, n)] = NewRow(TRUE)
      PROVE  Within(j)
  BY <1>1, <1>2, <1>6, <1>7, JobNames
<1>8. CASE SameRuns
  BY <1>1, <1>8 DEF SameRuns
<1>9. ASSUME NEW d \in Docs, Born(d) \/ \E n \in 1..MaxCycles : Again(d, n) PROVE Within(j)
  BY <1>7, <1>9, JobRoles DEF Born, Again
<1>10. ASSUME NEW k \in Jobs, NEW s, NEW t, Started(k) \/ Dropped(k) \/ Ended(k, s, t)
       PROVE  Within(j)
  <2>1. CASE k = j
    BY <1>3, <1>4, <1>5, <1>10, <2>1
  <2>2. CASE k # j
    BY <1>1, <1>6, <1>10, <2>2 DEF Started, Dropped, Ended
  <2> QED BY <2>1, <2>2
<1> QED BY <1>8, <1>9, <1>10, StepHasForm DEF StepForm, Quiet, Gone

-----------------------------------------------------------------------------
(* Each form of a step is a step of the status diagram or changes nothing  *)
(* a client sees.                                                          *)

(* Changing one document is Becomes. *)
LEMMA OneBecomes ==
  ASSUME TypeOK, [Next]_vars, NEW d \in Docs, NEW s, NEW n, NEW t, OnlyDoc(d, s, n, t)
  PROVE  Shown!Becomes(d, s, n, t)
BY NextType DEF OnlyDoc, Shown!Becomes, TypeOK

LEMMA SameView == ASSUME doc' = doc PROVE UNCHANGED Shown!view
BY DEF Shown!view

LEMMA ShownInit == Init => Shown!Init
BY DEF Init, Shown!Init, NoDoc

LEMMA ShownStep ==
  ASSUME TypeOK, AttemptsBounded, AttemptsBounded', StatusMatchesJob, Known, TokenBound,
         TokenBound', [Next]_vars
  PROVE  [Shown!Next]_(Shown!view)
<1>1. \A j \in Jobs : j.doc \in Docs
  BY JobNames
<1>2. CASE doc' = doc
  BY <1>2, SameView
<1>3. ASSUME NEW d \in Docs, Gone(d) PROVE Shown!Delete(d)
  BY <1>3, OneBecomes DEF Gone, Shown!Delete, Live
<1>4. ASSUME NEW d \in Docs, Born(d) PROVE Shown!Accept(d)
  BY <1>4, OneBecomes DEF Born, Shown!Accept, Known, UploadFirst, Early
<1>5. ASSUME NEW d \in Docs, NEW n \in 1..MaxCycles, Again(d, n) PROVE Shown!Reprocess(d)
  <2>1. PICK t : t = doc[d].text /\ doc[d].status = "failed" /\ OnlyDoc(d, "pending", 0, t)
    BY <1>5 DEF Again
  <2>2. Shown!Becomes(d, "pending", 0, t)
    BY <2>1, OneBecomes
  <2> QED BY <2>1, <2>2 DEF Shown!Reprocess, Shown!Becomes
<1>6. ASSUME NEW j \in Jobs, Started(j) PROVE Shown!Start(j.doc)
  <2> DEFINE d == j.doc
  <2>1. doc[d].status = "pending" /\ doc[d].attempts = job[j].attempts
    BY <1>6 DEF Started, StatusMatchesJob, ActiveRunShown, Active
  <2>2. job[j].attempts < OcrAttempts
    BY <1>6 DEF Started, AttemptsBounded, MaxAttempts
  <2>3. PICK n, t : /\ n = doc[d].attempts + 1 /\ t = doc[d].text
                    /\ OnlyDoc(d, "processing", n, t)
    BY <1>6, <2>1 DEF Started
  <2>4. Shown!Becomes(d, "processing", n, t)
    BY <1>1, <2>3, OneBecomes
  <2> QED BY <1>1, <2>1, <2>2, <2>3, <2>4 DEF Shown!Start, Shown!Becomes
<1>7. ASSUME NEW j \in Jobs, NEW s, NEW t, Ended(j, s, t), doc' # doc
      PROVE  Shown!Step(j.doc)
  <2> DEFINE d == j.doc
             n == job[j].attempts
  <2>1. d \in Docs /\ Live(d) /\ OnlyDoc(d, s, n, t)
    BY <1>1, <1>7 DEF Ended
  <2>2. doc[d].status = "processing" /\ doc[d].attempts = n
    BY <1>7, <2>1 DEF Ended, StatusMatchesJob, ActiveRunShown, Active
  <2>3. Shown!Becomes(d, s, n, t)
    BY <2>1, OneBecomes
  <2>4. ~FoundNothing(j)
    BY <1>7, <2>1 DEF FoundNothing, Known, RunsKnown, Ended, Idle
  <2>5. CASE s = "succeeded"
    <3> DEFINE r == <<j, job'[j].token>>
    <3>1. t = {r}
      BY <1>7, <2>4, <2>5 DEF Ended
    <3>2. job'[j].token \in 1..2 * OcrAttempts
      <4>1. /\ job[j].token >= 1 /\ job[j].token + 1 <= 2 * job[j].attempts
            /\ job'[j].token \in {job[j].token, job[j].token + 1}
            /\ job'[j].attempts = job[j].attempts /\ job'[j].attempts <= OcrAttempts
        BY <1>7 DEF Ended, TokenBound, AttemptsBounded, MaxAttempts
      <4> QED BY <4>1, RowNumbers, AttemptsAssumption
    <3>3. r \in Jobs \X (1..2 * OcrAttempts)
      BY <3>2
    <3>4. Shown!Succeed(d)
      BY <2>1, <2>2, <2>3, <2>5, <3>1, <3>3 DEF Shown!Succeed
    <3> QED BY <3>4 DEF Shown!Step
  <2>6. CASE s = "pending"
    <3>1. n < OcrAttempts
      BY <1>7, <2>6 DEF Ended, AttemptsBounded, MaxAttempts
    <3>2. t = doc[d].text
      BY <1>7, <2>6 DEF Ended
    <3> HIDE DEF n
    <3>3. Shown!Retry(d)
      BY <2>1, <2>2, <2>3, <2>6, <3>1, <3>2 DEF Shown!Retry, Shown!Becomes
    <3> QED BY <3>3 DEF Shown!Step
  <2>7. CASE s = "failed"
    <3>1. t = doc[d].text
      BY <1>7, <2>7 DEF Ended
    <3> HIDE DEF n
    <3>2. Shown!Fail(d)
      BY <2>1, <2>2, <2>3, <2>7, <3>1 DEF Shown!Fail, Shown!Becomes
    <3> QED BY <3>2 DEF Shown!Step
  <2> QED BY <1>7, <2>5, <2>6, <2>7 DEF Ended
<1>8. ASSUME NEW d \in Docs, Shown!Step(d) PROVE [Shown!Next]_(Shown!view)
  BY <1>8 DEF Shown!Next
<1>9. CASE Quiet \/ \E j \in Jobs : Dropped(j)
  BY <1>2, <1>9 DEF Quiet, Dropped
<1>10. CASE \E d \in Docs : Gone(d) \/ Born(d) \/ \E n \in 1..MaxCycles : Again(d, n)
  <2>1. PICK d \in Docs : Gone(d) \/ Born(d) \/ \E n \in 1..MaxCycles : Again(d, n)
    BY <1>10
  <2>2. Shown!Step(d)
    BY <1>3, <1>4, <1>5, <2>1 DEF Shown!Step
  <2> QED BY <1>8, <2>2
<1>11. ASSUME NEW j \in Jobs, Started(j) PROVE [Shown!Next]_(Shown!view)
  BY <1>1, <1>6, <1>8, <1>11 DEF Shown!Step
<1>12. ASSUME NEW j \in Jobs, NEW s, NEW t, Ended(j, s, t) PROVE [Shown!Next]_(Shown!view)
  BY <1>1, <1>2, <1>7, <1>8, <1>12
<1> QED BY <1>9, <1>10, <1>11, <1>12, StepHasForm DEF StepForm

(* Seen through its documents alone, the ledger takes only the steps of    *)
(* the status diagram: success is final, text is written once, and a       *)
(* deleted document never comes back.                                      *)
THEOREM LifecycleCorrect == Spec => Lifecycle
<1>1. Init => TokenBound
  BY DEF Init, TokenBound, NoRow
<1>2. TypeOK /\ Known /\ TokenBound /\ [Next]_vars => Known' /\ TokenBound'
  BY KnownStep, TokenStep
<1>3. Spec => [](Known /\ TokenBound)
  BY <1>1, <1>2, KnownInit, TypeCorrect, PTL DEF Spec
<1>4. (/\ TypeOK /\ AttemptsBounded /\ StatusMatchesJob /\ Known /\ TokenBound
       /\ AttemptsBounded' /\ TokenBound' /\ [Next]_vars)
        => [Shown!Next]_(Shown!view)
  BY ShownStep
<1>5. Spec => [][Shown!Next]_(Shown!view)
  BY <1>3, <1>4, TypeCorrect, AttemptsCorrect, StatusCorrect, PTL DEF Spec
<1> QED BY <1>5, ShownInit, PTL DEF Spec, Lifecycle, Shown!Spec

-----------------------------------------------------------------------------
(* A key belongs to one document. *)

(* No step but its birth gives life to a document. *)
LEMMA LifeGiven ==
  ASSUME TypeOK, StepForm, NEW d \in Docs, Live(d)', ~Live(d) PROVE Born(d)
<1>1. \A j \in Jobs : j.doc \in Docs
  BY JobNames
<1> QED BY <1>1 DEF StepForm, Quiet, Gone, Again, Started, Dropped, Ended, Born, OnlyDoc, Live

(* A document is only born where no live one has its key. *)
LEMMA KeyStep ==
  ASSUME TypeOK, OneDocumentPerKey, [Next]_vars PROVE OneDocumentPerKey'
<1>1. StepForm
  BY StepHasForm
<1>2. \A d \in Docs : Live(d)' /\ ~Live(d) => Born(d)
  BY <1>1, LifeGiven
<1>3. ASSUME NEW d \in Docs, NEW e \in Docs, Born(d), Live(e)',
             KeyOf[d] # NoKey, KeyOf[d] = KeyOf[e]
      PROVE  d = e
  BY <1>3 DEF Born, OnlyDoc, Existing, Live
<1> QED BY <1>2, <1>3 DEF OneDocumentPerKey

(* However many uploads with one Idempotency-Key race, and wherever they   *)
(* are interrupted, the key never belongs to two documents.                *)
THEOREM KeyCorrect == Spec => []OneDocumentPerKey
<1>1. Init => OneDocumentPerKey
  BY DEF Init, OneDocumentPerKey, Live, NoDoc
<1>2. TypeOK /\ OneDocumentPerKey /\ [Next]_vars => OneDocumentPerKey'
  BY KeyStep
<1> QED BY <1>1, <1>2, TypeCorrect, PTL DEF Spec

-----------------------------------------------------------------------------
(* Bucket and documents.  Again every step is brought to a form first: what *)
(* it may do to the row of a cleanup job, to an object and to the call of a *)
(* worker.                                                                  *)

Underway == {"intent", "stored"}

Owing == Active \cup {"failed"}

(* A worker is about to report that the object of cleanup job k is gone.    *)
ReportsGone(k) ==
  \E w \in Workers : /\ worker[w].pc = "finish" /\ worker[w].job = k
                     /\ worker[w].outcome \notin Failures

Opened(k) ==
  \/ k = Intent(k.doc) /\ upload[k.doc] = "new" /\ job'[k] = NewRow(FALSE)
  \/ k = Removal(k.doc) /\ Live(k.doc) /\ doc'[k.doc].status = "deleted" /\ job'[k] = NewRow(TRUE)

Served(k) ==
  /\ job[k].state \in Owing /\ job'[k].state \in Owing
  /\ job[k].state = "pending" => job[k].due

CleanupMoved(k) ==
  \/ /\ job'[k].state = job[k].state
     /\ job'[k].due = job[k].due \/ upload'[k.doc] \notin Underway \/ k # Intent(k.doc)
  \/ Opened(k)
  \/ Served(k)
  \/ job[k].state = "running" /\ job'[k].state = "succeeded" /\ ReportsGone(k)
  \/ k = Intent(k.doc) /\ upload'[k.doc] \notin Underway /\ Live(k.doc)'
       /\ job'[k].state = "succeeded"

CleanupsMoved == \A k \in Jobs : ~IsOcr(k) => CleanupMoved(k)

AtWorkOn(d) == \E w \in Workers : worker[w] # Idle /\ ~IsOcr(worker[w].job) /\ worker[w].job.doc = d

ObjectMoved(d) ==
  /\ d \in objects' => d \in objects \/ upload[d] = "intent"
  /\ d \in objects => d \in objects' \/ AtWorkOn(d)
  /\ upload'[d] = "stored" => upload[d] = "stored" \/ d \in objects'
  /\ upload'[d] \in Underway =>
        upload[d] \in Underway \/ (upload[d] = "new" /\ job'[Intent(d)] = NewRow(FALSE))

CallMoved(w) ==
  worker'[w] # Idle /\ ~IsOcr(worker'[w].job) =>
     \/ worker'[w] = worker[w]
     \/ /\ worker[w] # Idle /\ worker'[w].job = worker[w].job /\ worker'[w].pc = "finish"
        /\ \/ worker'[w].outcome = "transient"
           \/ worker'[w].outcome = "done" /\ worker[w].job.doc \notin objects'
     \/ /\ CanClaim(worker'[w].job)
        /\ worker'[w].pc = "claimed" /\ worker'[w].outcome = "done"

-----------------------------------------------------------------------------
(* Rows of cleanup jobs. *)

LEMMA SameCleanups == ASSUME TypeOK, job' = job PROVE CleanupsMoved
BY DEF CleanupsMoved, CleanupMoved

LEMMA OneCleanup ==
  ASSUME TypeOK, NEW j \in Jobs, NEW r, job' = [job EXCEPT ![j] = r], IsOcr(j) \/ CleanupMoved(j)
  PROVE  CleanupsMoved
<1> SUFFICES ASSUME NEW k \in Jobs, ~IsOcr(k) PROVE CleanupMoved(k)
  BY DEF CleanupsMoved
<1>1. CASE k = j
  BY <1>1
<1>2. CASE k # j
  <2>1. job'[k] = job[k]
    BY <1>2 DEF TypeOK
  <2> QED BY <2>1 DEF CleanupMoved
<1> QED BY <1>1, <1>2

LEMMA UploadCleanups ==
  ASSUME TypeOK, NEW d \in Docs, UploadStep(d) PROVE CleanupsMoved
<1> DEFINE k == Intent(d)
<1>1. k \in Jobs /\ ~IsOcr(k) /\ k.doc = d /\ k = Intent(k.doc) /\ job[k] \in Row
  BY JobNames, JobRoles, RoleNames DEF TypeOK
<1>2. ASSUME MadeDue(d), upload'[d] \notin Underway PROVE CleanupsMoved
  <2> DEFINE r == [job[k] EXCEPT !.due = TRUE]
  <2>1. job' = [job EXCEPT ![k] = r] /\ r.state = job[k].state
    BY <1>1, <1>2 DEF MadeDue, Row
  <2>2. job'[k] = r
    BY <1>1, <2>1 DEF TypeOK
  <2> HIDE DEF k, r
  <2> QED BY <1>1, <1>2, <2>1, <2>2, OneCleanup DEF CleanupMoved
<1>3. ASSUME Create(d), upload'[d] \notin Underway PROVE CleanupsMoved
  <2> DEFINE j == OcrJob(d, 1)
             r == [job[k] EXCEPT !.state = "succeeded"]
  <2>1. j \in Jobs /\ IsOcr(j) /\ j # k
    BY <1>1, JobNames, JobRoles
  <2>2. job' = [[job EXCEPT ![j] = NewRow(TRUE)] EXCEPT ![k] = r]
    BY <1>3, <2>1 DEF Create, TypeOK
  <2>3. r.state = "succeeded"
    BY <1>1 DEF Row
  <2>4. doc'[d].status = "pending"
    BY <1>3 DEF Create, NoDoc, TypeOK
  <2> HIDE DEF k, j, r
  <2>5. \A i \in Jobs : job'[i] = IF i = k THEN r ELSE IF i = j THEN NewRow(TRUE) ELSE job[i]
    BY <1>1, <2>1, <2>2 DEF TypeOK
  <2>6. CleanupMoved(k)
    BY <1>1, <1>3, <2>3, <2>4, <2>5 DEF CleanupMoved, Live
  <2> QED BY <1>1, <2>1, <2>5, <2>6 DEF CleanupsMoved, CleanupMoved
<1>4. CASE BeginUpload(d)
  <2>1. job' = [job EXCEPT ![k] = NewRow(FALSE)] /\ upload[d] = "new"
    BY <1>4 DEF BeginUpload
  <2>2. job'[k] = NewRow(FALSE)
    BY <1>1, <2>1 DEF TypeOK
  <2> HIDE DEF k
  <2> QED BY <1>1, <2>1, <2>2, OneCleanup DEF CleanupMoved, Opened
<1>5. CASE CommitUpload(d) \/ CommitRaises(d)
  <2>1. upload'[d] \notin Underway
    BY <1>5 DEF CommitUpload, CommitRaises, TypeOK, Underway
  <2> QED BY <1>2, <1>3, <1>5, <2>1, SameCleanups DEF CommitUpload, CommitRaises, Commit
<1>6. CASE Expedite(d)
  <2>1. upload'[d] \notin Underway
    BY <1>6 DEF Expedite, TypeOK, Underway
  <2> QED BY <1>2, <1>6, <2>1 DEF Expedite
<1>7. CASE AnswerEarly(d) \/ StoreObject(d) \/ StoreFails(d) \/ CommitConflict(d) \/ ApiDies(d)
  BY <1>7, SameCleanups DEF AnswerEarly, StoreObject, StoreFails, CommitConflict, ApiDies
<1> QED BY <1>4, <1>5, <1>6, <1>7 DEF UploadStep

(* finish ends a cleanup as done only for a worker that reports so. *)
LEMMA SettleCleanups ==
  ASSUME TypeOK, NEW j \in Jobs, job[j].state = "running", NEW r \in Row, NEW o \in Outcomes,
         o \notin Failures => ReportsGone(j), NEW run, Settle(j, r, o, run)
  PROVE  CleanupsMoved
<1> DEFINE s == Settled(j, r, o)
<1>1. s.state \in {"pending", "failed"} \/ (s.state = "succeeded" /\ o \notin Failures)
  BY DEF Settled, Row
<1>2. job' = [job EXCEPT ![j] = s]
  BY DEF Settle
<1>3. job'[j] = s
  BY <1>2 DEF TypeOK
<1> HIDE DEF s
<1>4. CleanupMoved(j)
  BY <1>1, <1>3 DEF CleanupMoved, Served, Owing, Active
<1> QED BY <1>2, <1>4, OneCleanup

LEMMA WorkerCleanups ==
  ASSUME TypeOK, NEW w \in Workers, WorkerStep(w) PROVE CleanupsMoved
<1>1. ASSUME NEW j \in Jobs, Claim(w, j) PROVE CleanupsMoved
  <2> DEFINE r == Claimed(job[j])
             s == [r EXCEPT !.state = "succeeded", !.lease = "none"]
  <2>1. /\ job[j].state = "pending" /\ job[j].due
        /\ r.state = "running"
    BY <1>1 DEF Claim, CanClaim, Claimed, TypeOK, Row
  <2>2. CASE IsOcr(j)
    <3>1. job' = [job EXCEPT ![j] = r] \/ job' = [job EXCEPT ![j] = s]
      BY <1>1, Zenon DEF Claim
    <3> HIDE DEF r, s
    <3> QED BY <2>2, <3>1, OneCleanup
  <2>3. CASE ~IsOcr(j)
    <3>1. job' = [job EXCEPT ![j] = r]
      BY <1>1, <2>3, Zenon DEF Claim
    <3> HIDE DEF r
    <3>2. job'[j] = r
      BY <3>1 DEF TypeOK
    <3>3. CleanupMoved(j)
      BY <2>1, <3>2 DEF CleanupMoved, Served, Owing, Active
    <3> QED BY <3>1, <3>3, OneCleanup
  <2> QED BY <2>2, <2>3
<1>2. ASSUME worker[w].pc = "finish", FinishCommits(w) PROVE CleanupsMoved
  <2> DEFINE j == worker[w].job
  <2>1. CASE ~Holds(w)
    BY <1>2, <2>1, SameCleanups DEF FinishCommits
  <2>2. CASE Holds(w)
    <3>1. /\ Settle(j, job[j], worker[w].outcome, worker[w].token)
          /\ job[j].state = "running"
      BY <1>2, <2>2 DEF FinishCommits, Holds
    <3>2. j \in Jobs /\ job[j] \in Row /\ worker[w].outcome \in Outcomes
      BY <1>2, Busy
    <3>3. worker[w].outcome \notin Failures => ReportsGone(j)
      BY <1>2 DEF ReportsGone
    <3> QED BY <3>1, <3>2, <3>3, SettleCleanups
  <2> QED BY <2>1, <2>2
<1>3. CASE Finish(w) \/ FinishRaises(w)
  BY <1>2, <1>3, SameCleanups DEF Finish, FinishRaises
<1>4. CASE ReadDocument(w) \/ Extract(w) \/ DeleteObject(w) \/ ReadFails(w) \/ WorkerDies(w)
  BY <1>4, SameCleanups DEF ReadDocument, Extract, DeleteObject, ReadFails, WorkerDies
<1> QED BY <1>1, <1>3, <1>4 DEF WorkerStep

(* Here the hour of grace counts: no intent comes due under an upload. *)
LEMMA RowStepCleanups ==
  ASSUME GraceHolds, TypeOK, NEW j \in Jobs, ClockStep(j) \/ RecoverExpired(j) \/ RetryCleanup(j)
  PROVE  CleanupsMoved
<1>1. job[j] \in Row
  BY DEF TypeOK
<1>2. CASE TimePasses(j)
  <2> DEFINE r == [job[j] EXCEPT !.due = TRUE]
  <2>1. job' = [job EXCEPT ![j] = r] /\ r.state = job[j].state
    BY <1>1, <1>2 DEF TimePasses, Row
  <2>2. j # Intent(j.doc) \/ upload'[j.doc] \notin Underway
    BY <1>2 DEF TimePasses, Intent, Underway
  <2>3. job'[j] = r
    BY <2>1 DEF TypeOK
  <2> HIDE DEF r
  <2> QED BY <2>1, <2>2, <2>3, OneCleanup DEF CleanupMoved
<1>3. CASE LeaseExpires(j)
  <2> DEFINE r == [job[j] EXCEPT !.lease = "expired"]
  <2>1. job' = [job EXCEPT ![j] = r] /\ r.state = job[j].state /\ r.due = job[j].due
    BY <1>1, <1>3 DEF LeaseExpires, Row
  <2>2. job'[j] = r
    BY <2>1 DEF TypeOK
  <2> HIDE DEF r
  <2> QED BY <2>1, <2>2, OneCleanup DEF CleanupMoved
<1>4. CASE RecoverExpired(j)
  <2>1. Lost(job[j]) \in Row /\ job[j].state = "running"
    BY <1>1, <1>4, LostType DEF RecoverExpired, CanRecover
  <2>2. /\ Settle(j, Lost(job[j]), "transient", Lost(job[j]).token)
        /\ "transient" \in Outcomes /\ "transient" \in Failures
    BY <1>4 DEF RecoverExpired, Outcomes, Failures
  <2> QED BY <2>1, <2>2, SettleCleanups
<1>5. CASE RetryCleanup(j)
  <2> DEFINE r == [job[j] EXCEPT !.state = "pending", !.attempts = 0, !.error = "none", !.due = TRUE]
  <2>1. job' = [job EXCEPT ![j] = r] /\ r.state = "pending" /\ job[j].state = "failed"
    BY <1>1, <1>5 DEF RetryCleanup, TypeOK, Row
  <2>2. job'[j] = r
    BY <2>1 DEF TypeOK
  <2> HIDE DEF r
  <2> QED BY <2>1, <2>2, OneCleanup DEF CleanupMoved, Served, Owing, Active
<1> QED BY <1>2, <1>3, <1>4, <1>5 DEF ClockStep

LEMMA UserCleanups ==
  ASSUME TypeOK, NEW d \in Docs, DeleteDocument(d) \/ Reprocess(d) PROVE CleanupsMoved
<1>1. CASE DeleteDocument(d)
  <2> DEFINE k == Removal(d)
  <2>1. k \in Jobs /\ k.doc = d /\ k = Removal(k.doc)
    BY JobNames, RoleNames
  <2>2. /\ job' = [job EXCEPT ![k] = NewRow(TRUE)]
        /\ Live(d) /\ doc'[d].status = "deleted"
    BY <1>1 DEF DeleteDocument, NoDoc, TypeOK
  <2>3. job'[k] = NewRow(TRUE)
    BY <2>1, <2>2 DEF TypeOK
  <2> HIDE DEF k
  <2> QED BY <2>1, <2>2, <2>3, OneCleanup DEF CleanupMoved, Opened
<1>2. CASE Reprocess(d)
  <2>1. PICK n \in 1..MaxCycles : job' = [job EXCEPT ![OcrJob(d, n)] = NewRow(TRUE)]
    BY <1>2 DEF Reprocess
  <2> QED BY <2>1, OneCleanup, JobNames, JobRoles
<1> QED BY <1>1, <1>2

LEMMA CleanupsMove ==
  ASSUME GraceHolds, TypeOK, [Next]_vars PROVE CleanupsMoved
<1>1. CASE UNCHANGED vars \/ ServiceStops
  BY <1>1, SameCleanups DEF vars, ServiceStops
<1>2. CASE Next
  BY <1>1, <1>2, UploadCleanups, WorkerCleanups, RowStepCleanups, UserCleanups DEF Next
<1> QED BY <1>1, <1>2

-----------------------------------------------------------------------------
(* The invariant.                                                          *)

(* While its upload is under way an intent waits, undue, and a stored      *)
(* object is there; the intent of a document is closed for good; a worker  *)
(* on a cleanup has neither an upload nor a document against it, and does  *)
(* not report before the object is gone; what is in the bucket without a   *)
(* document has its row.                                                   *)
Unarmed ==
  \A d \in Docs : upload[d] \in Underway => job[Intent(d)].state = "pending" /\ ~job[Intent(d)].due

StoredFirst == \A d \in Docs : upload[d] = "stored" => d \in objects

Disarmed == \A d \in Docs : doc[d].status # "absent" => job[Intent(d)].state = "succeeded"

(* One call of a worker on a cleanup job of document d. *)
MayDelete(call, d) ==
  /\ upload[d] \notin Early /\ ~Live(d)
  /\ call.pc \in {"claimed", "finish"} /\ call.outcome # "result"
  /\ call.pc = "finish" /\ call.outcome = "done" => d \notin objects

Attended ==
  \A w \in Workers : worker[w] # Idle /\ ~IsOcr(worker[w].job) => MayDelete(worker[w], worker[w].job.doc)

Owed ==
  \A d \in Docs : d \in objects =>
     /\ doc[d].status = "absent" => job[Intent(d)].state \in Owing
     /\ doc[d].status = "deleted" => job[Removal(d)].state \in Owing

Guarded == Unarmed /\ StoredFirst /\ Disarmed /\ Attended /\ Owed /\ LiveObject

-----------------------------------------------------------------------------
(* Objects and calls. *)

LEMMA ObjectsMove ==
  ASSUME TypeOK, Attended, [Next]_vars, NEW d \in Docs PROVE ObjectMoved(d)
<1> USE DEF Underway
<1>1. CASE UNCHANGED <<objects, upload>>
  BY <1>1 DEF ObjectMoved
<1>2. ASSUME NEW e \in Docs, UploadStep(e) PROVE ObjectMoved(d)
  <2>1. CASE BeginUpload(e)
    BY <2>1, JobNames DEF BeginUpload, ObjectMoved, TypeOK
  <2>2. CASE StoreObject(e) \/ StoreFails(e) \/ ApiDies(e)
    BY <2>2 DEF StoreObject, StoreFails, ApiDies, ObjectMoved, TypeOK
  <2>3. CASE \/ AnswerEarly(e) \/ CommitUpload(e) \/ CommitConflict(e) \/ CommitRaises(e)
             \/ Expedite(e)
    BY <2>3 DEF AnswerEarly, CommitUpload, CommitConflict, CommitRaises, Expedite, ObjectMoved, TypeOK
  <2> QED BY <1>2, <2>1, <2>2, <2>3 DEF UploadStep
<1>3. ASSUME NEW w \in Workers, DeleteObject(w) PROVE ObjectMoved(d)
  <2>1. worker[w] # Idle /\ ~IsOcr(worker[w].job) /\ UNCHANGED upload
    BY <1>3, Busy DEF DeleteObject
  <2>2. objects' = objects \/ objects' = objects \ {worker[w].job.doc}
    BY <1>3 DEF DeleteObject
  <2> QED BY <2>1, <2>2 DEF ObjectMoved, AtWorkOn
<1>4. ASSUME NEW w \in Workers, WorkerStep(w) PROVE ObjectMoved(d)
  BY <1>1, <1>3, <1>4 DEF WorkerStep, Claim, ReadDocument, Extract, ReadFails, Finish, FinishRaises,
     WorkerDies
<1>5. CASE UNCHANGED vars \/ ServiceStops
  BY <1>1, <1>5 DEF vars, ServiceStops
<1>6. CASE Next
  BY <1>1, <1>2, <1>4, <1>5, <1>6 DEF Next, DeleteDocument, Reprocess, ClockStep, TimePasses,
     LeaseExpires, RecoverExpired, RetryCleanup
<1> QED BY <1>5, <1>6

LEMMA CallsMoveOn ==
  ASSUME TypeOK, Attended, [Next]_vars, NEW w \in Workers PROVE CallMoved(w)
<1>1. CASE worker'[w] = worker[w]
  BY <1>1 DEF CallMoved
<1>2. ASSUME NEW v \in Workers, WorkerStep(v), v # w PROVE worker'[w] = worker[w]
  BY <1>2 DEF WorkerStep, Claim, ReadDocument, Extract, DeleteObject, ReadFails, Finish,
              FinishRaises, WorkerDies, Reach, TypeOK
<1>3. CASE WorkerStep(w)
  <2>1. ASSUME NEW j \in Jobs, Claim(w, j) PROVE CallMoved(w)
    <3> DEFINE call == [pc |-> "claimed", job |-> j, token |-> Claimed(job[j]).token,
                        outcome |-> "done"]
    <3>1. worker' = worker \/ worker' = [worker EXCEPT ![w] = call]
      BY <2>1, Zenon DEF Claim
    <3>2. CASE worker' = [worker EXCEPT ![w] = call]
      <4>1. worker'[w].job = j /\ worker'[w].pc = "claimed" /\ worker'[w].outcome = "done"
        BY <3>2 DEF TypeOK
      <4>2. CanClaim(j)
        BY <2>1 DEF Claim
      <4> HIDE DEF call
      <4> QED BY <4>1, <4>2 DEF CallMoved
    <3> QED BY <1>1, <3>1, <3>2
  <2>2. ASSUME NEW pc \in {"read", "finish"}, NEW o \in Outcomes,
               worker[w].pc # "idle", Reach(w, pc, o)
        PROVE  /\ worker[w] # Idle /\ worker'[w].job = worker[w].job
               /\ worker'[w].pc = pc /\ worker'[w].outcome = o
    <3>1. worker[w] \in Calls /\ worker[w] # Idle
      BY <2>2, Busy
    <3>2. worker' = [worker EXCEPT ![w] = [worker[w] EXCEPT !.pc = pc, !.outcome = o]]
      BY <2>2 DEF Reach, TypeOK
    <3> QED BY <3>1, <3>2 DEF TypeOK, Calls
  <2> USE DEF Outcomes, Failures
  <2>3. CASE ReadDocument(w) \/ ReadFails(w)
    <3>1. IsOcr(worker[w].job) /\ worker'[w].job = worker[w].job
      BY <2>2, <2>3 DEF ReadDocument, ReadFails
    <3> QED BY <3>1 DEF CallMoved
  <2>4. CASE Extract(w)
    <3>1. worker[w].pc = "read" /\ worker[w] # Idle /\ worker'[w].job = worker[w].job
      BY <2>2, <2>4 DEF Extract
    <3>2. IsOcr(worker[w].job)
      BY <3>1 DEF Attended, MayDelete
    <3> QED BY <3>1, <3>2 DEF CallMoved
  <2>5. CASE DeleteObject(w)
    <3>1. /\ worker[w] # Idle /\ worker'[w].job = worker[w].job /\ worker'[w].pc = "finish"
          /\ \/ worker'[w].outcome = "transient"
             \/ worker'[w].outcome = "done" /\ objects' = objects \ {worker[w].job.doc}
      BY <2>2, <2>5 DEF DeleteObject
    <3> QED BY <3>1 DEF CallMoved
  <2>6. CASE Finish(w) \/ WorkerDies(w)
    BY <2>6 DEF Finish, WorkerDies, TypeOK, CallMoved
  <2>7. CASE FinishRaises(w)
    <3>1. CASE worker' = [worker EXCEPT ![w] = Idle]
      BY <3>1 DEF TypeOK, CallMoved
    <3>2. CASE Reach(w, "finish", "transient")
      <4>1. /\ worker[w] # Idle /\ worker'[w].job = worker[w].job
            /\ worker'[w].pc = "finish" /\ worker'[w].outcome = "transient"
        BY <2>2, <2>7, <3>2 DEF FinishRaises
      <4> QED BY <4>1 DEF CallMoved
    <3> QED BY <2>7, <3>1, <3>2 DEF FinishRaises
  <2> QED BY <1>3, <2>1, <2>3, <2>4, <2>5, <2>6, <2>7 DEF WorkerStep
<1>4. CASE UNCHANGED vars \/ ServiceStops
  BY <1>1, <1>4 DEF vars, ServiceStops, CallMoved
<1>5. CASE Next
  BY <1>1, <1>2, <1>3, <1>4, <1>5 DEF Next, UploadStep, DeleteDocument, Reprocess, AnswerEarly,
     BeginUpload, StoreObject, StoreFails, CommitUpload, CommitConflict, CommitRaises, Expedite,
     ApiDies, ClockStep, TimePasses, LeaseExpires, RecoverExpired, RetryCleanup
<1> QED BY <1>4, <1>5

-----------------------------------------------------------------------------
(* Every part of the invariant survives every form of a step. *)

(* What has been deleted, or was not made by its upload, stays without a   *)
(* document.                                                               *)
LEMMA StaysGone ==
  ASSUME TypeOK, StepForm, NEW d \in Docs, upload[d] # "stored", ~Live(d)
  PROVE  ~Live(d)'
BY LifeGiven DEF Born

LEMMA GuardedStep ==
  ASSUME GraceHolds, TypeOK, Known, Fresh, Guarded, [Next]_vars PROVE Guarded'
<1>1. StepForm /\ CleanupsMoved /\ (\A d \in Docs : ObjectMoved(d)) /\ (\A w \in Workers : CallMoved(w))
  BY StepHasForm, CleanupsMove, ObjectsMove, CallsMoveOn DEF Guarded
<1>2. /\ \A d \in Docs : /\ Intent(d) \in Jobs /\ ~IsOcr(Intent(d)) /\ Intent(d).doc = d
                         /\ Removal(d) \in Jobs /\ ~IsOcr(Removal(d)) /\ Removal(d).doc = d
                         /\ Intent(d) # Removal(d)
      /\ \A k \in Jobs : k.doc \in Docs /\ (~IsOcr(k) => k \in {Intent(k.doc), Removal(k.doc)})
  BY JobNames, JobRoles, RoleNames DEF Jobs, IsOcr
<1>3. \A d \in Docs : CleanupMoved(Intent(d)) /\ CleanupMoved(Removal(d))
  BY <1>1, <1>2 DEF CleanupsMoved
<1>4. Known'
  BY KnownStep
<1>5. \A d \in Docs : AtWorkOn(d) => upload[d] \notin Early /\ ~Live(d)
  BY DEF Guarded, Attended, AtWorkOn, MayDelete
<1>6. \A k \in Jobs : ~IsOcr(k) /\ ReportsGone(k) => k.doc \notin objects
  <2> SUFFICES ASSUME NEW w \in Workers, ~IsOcr(worker[w].job), worker[w].pc = "finish",
                      worker[w].outcome \notin Failures
               PROVE  worker[w].job.doc \notin objects
    BY DEF ReportsGone
  <2>1. worker[w] # Idle /\ worker[w].outcome \in Outcomes
    BY Busy
  <2>2. MayDelete(worker[w], worker[w].job.doc)
    BY <2>1 DEF Guarded, Attended
  <2> QED BY <2>1, <2>2 DEF MayDelete, Outcomes
<1>7. Unarmed'
  <2> SUFFICES ASSUME NEW d \in Docs, upload'[d] \in Underway
               PROVE  job'[Intent(d)].state = "pending" /\ ~job'[Intent(d)].due
    BY DEF Unarmed, Intent
  <2>1. ~Live(d)'
    BY <1>4 DEF Known, UploadFirst, Underway, Early, Live
  <2>2. CASE upload[d] \in Underway
    <3>1. job[Intent(d)].state = "pending" /\ ~job[Intent(d)].due /\ upload[d] # "new"
      BY <2>2 DEF Guarded, Unarmed, Underway
    <3> QED BY <1>2, <1>3, <2>1, <3>1 DEF CleanupMoved, Opened, Served
  <2>3. CASE job'[Intent(d)] = NewRow(FALSE)
    BY <2>3 DEF NewRow, NoRow
  <2> QED BY <1>1, <2>2, <2>3 DEF ObjectMoved
<1>8. StoredFirst'
  <2> SUFFICES ASSUME NEW d \in Docs, upload'[d] = "stored" PROVE d \in objects'
    BY DEF StoredFirst
  <2>1. CASE upload[d] = "stored"
    BY <1>1, <1>5, <2>1 DEF Guarded, StoredFirst, ObjectMoved, Early
  <2> QED BY <1>1, <2>1 DEF ObjectMoved
<1>9. Disarmed'
  <2> SUFFICES ASSUME NEW d \in Docs, doc'[d].status # "absent"
               PROVE  job'[Intent(d)].state = "succeeded"
    BY DEF Disarmed, Intent
  <2>1. CASE doc[d].status = "absent"
    <3>1. doc'[d].status \in {"pending", "processing", "succeeded", "failed"} \/ doc'[d].status = "deleted"
      BY NextType DEF TypeOK, DocRow
    <3>2. CASE Live(d)'
      BY <1>1, <2>1, <3>2, LifeGiven DEF Born, Live
    <3>3. CASE doc'[d].status = "deleted"
      <4>1. doc'[d] = doc[d] \/ upload[d] = "stored"
        BY <1>1, <2>1, DocumentsMove
      <4> QED BY <1>1, <2>1, <3>3 DEF StepForm, Quiet, Gone, Again, Started, Dropped, Ended, Born, OnlyDoc, Live
    <3> QED BY <3>1, <3>2, <3>3 DEF Live
  <2>2. CASE doc[d].status # "absent"
    <3>1. job[Intent(d)].state = "succeeded" /\ upload[d] # "new"
      BY <2>2 DEF Guarded, Disarmed, Known, UploadFirst, Early
    <3> QED BY <1>2, <1>3, <3>1 DEF CleanupMoved, Opened, Served, Owing, Active
  <2> QED BY <2>1, <2>2
<1>10. Attended'
  <2> SUFFICES ASSUME NEW w \in Workers, worker'[w] # Idle, ~IsOcr(worker'[w].job)
               PROVE  /\ upload'[worker'[w].job.doc] \notin Early
                      /\ doc'[worker'[w].job.doc].status \in {"absent", "deleted"}
                      /\ worker'[w].pc \in {"claimed", "finish"} /\ worker'[w].outcome # "result"
                      /\ worker'[w].pc = "finish" /\ worker'[w].outcome = "done" =>
                            worker'[w].job.doc \notin objects'
    BY DEF Attended, MayDelete, Live
  <2> DEFINE d == worker'[w].job.doc
  <2>1. worker'[w].job \in Jobs /\ d \in Docs
    <3>1. worker'[w] \in Calls
      BY NextType DEF TypeOK
    <3> QED BY <1>2, <3>1 DEF Calls
  <2>2. ASSUME upload[d] \notin Early, ~Live(d)
        PROVE  upload'[d] \notin Early /\ doc'[d].status \in {"absent", "deleted"}
    <3>1. ASSUME NEW e \in Docs, upload[e] \notin Early, ~Live(e)
          PROVE  upload'[e] \notin Early /\ doc'[e].status \in {"absent", "deleted"}
      <4>1. ~Live(e)'
        BY <1>1, <3>1, StaysGone DEF Early
      <4> QED BY <3>1, <4>1, UploadsMove DEF Live
    <3> QED BY <2>1, <2>2, <3>1
  <2>3. CASE worker[w] # Idle /\ worker'[w].job = worker[w].job
    <3>1. MayDelete(worker[w], d)
      BY <2>3 DEF Guarded, Attended
    <3>2. d \notin objects => d \notin objects'
      BY <1>1, <2>1, <3>1 DEF ObjectMoved, MayDelete, Early
    <3>3. CASE worker'[w] = worker[w]
      BY <2>2, <3>1, <3>2, <3>3 DEF MayDelete
    <3>4. CASE /\ worker'[w].pc = "finish"
               /\ \/ worker'[w].outcome = "transient"
                  \/ worker'[w].outcome = "done" /\ d \notin objects'
      BY <2>2, <3>1, <3>4 DEF MayDelete
    <3>5. CASE worker'[w].pc = "claimed" /\ worker'[w].outcome = "done"
      BY <2>2, <3>1, <3>5 DEF MayDelete
    <3> QED BY <1>1, <2>3, <3>3, <3>4, <3>5 DEF CallMoved
  <2>4. CASE CanClaim(worker'[w].job) /\ worker'[w].pc = "claimed" /\ worker'[w].outcome = "done"
    <3>1. upload[d] \notin Early /\ ~Live(d)
      <4>1. CASE worker'[w].job = Intent(d)
        <5>1. job[Intent(d)].state = "pending" /\ job[Intent(d)].due
          BY <2>4, <4>1 DEF CanClaim
        <5>2. upload[d] # "new" /\ upload[d] \notin Underway /\ doc[d].status = "absent"
          BY <2>1, <5>1 DEF Fresh, Guarded, Unarmed, Disarmed
        <5> QED BY <5>2 DEF Underway, Early, Live
      <4>2. CASE worker'[w].job = Removal(d)
        <5>1. doc[d].status = "deleted"
          BY <2>1, <2>4, <4>2 DEF CanClaim, Fresh
        <5> QED BY <2>1, <5>1 DEF Known, UploadFirst, Live
      <4> QED BY <1>2, <2>1, <4>1, <4>2
    <3> QED BY <2>2, <2>4, <3>1
  <2>5. CASE worker'[w] = worker[w]
    BY <2>3, <2>5
  <2> QED BY <1>1, <2>3, <2>4, <2>5 DEF CallMoved
<1>11. Owed'
  <2> SUFFICES ASSUME NEW d \in Docs, d \in objects'
               PROVE  /\ doc'[d].status = "absent" => job'[Intent(d)].state \in Owing
                      /\ doc'[d].status = "deleted" => job'[Removal(d)].state \in Owing
    BY DEF Owed, Intent, Removal
  <2> USE DEF Owing, Active
  <2>1. d \in objects \/ upload[d] = "intent"
    BY <1>1 DEF ObjectMoved
  <2>2. CASE doc'[d].status = "absent"
    <3>1. doc[d].status = "absent" /\ ~Live(d)'
      BY <1>1, <2>2, DocumentsMove DEF Live
    <3>2. job[Intent(d)].state \in Owing /\ (d \in objects \/ job[Intent(d)].state = "pending")
      BY <2>1, <3>1 DEF Guarded, Owed, Unarmed, Underway
    <3>3. d \in objects => ~ReportsGone(Intent(d))
      BY <1>2, <1>6
    <3>4. job'[Intent(d)].state \in Owing
      BY <1>2, <1>3, <3>1, <3>2, <3>3 DEF CleanupMoved, Opened, Served, NewRow, NoRow
    <3> QED BY <2>2, <3>4
  <2>3. CASE doc'[d].status = "deleted"
    <3>1. CASE doc[d].status = "deleted"
      <4>1. d \in objects /\ ~Live(d)
        BY <2>1, <3>1 DEF Known, UploadFirst, Early, Live
      <4>2. job[Removal(d)].state \in Owing /\ ~ReportsGone(Removal(d))
        BY <1>2, <1>6, <3>1, <4>1 DEF Guarded, Owed
      <4>3. job'[Removal(d)].state \in Owing
        BY <1>2, <1>3, <4>1, <4>2 DEF CleanupMoved, Opened, Served
      <4> QED BY <2>3, <4>3
    <3>2. CASE doc[d].status # "deleted"
      <4>1. job'[Removal(d)] = NewRow(TRUE)
        <5>1. Gone(d)
          BY <1>1, <1>2, <2>3, <3>2 DEF StepForm, Quiet, Gone, Again, Started, Dropped, Ended, Born, OnlyDoc
        <5> QED BY <5>1 DEF Gone
      <4> QED BY <2>3, <4>1 DEF NewRow, NoRow
    <3> QED BY <3>1, <3>2
  <2> QED BY <2>2, <2>3
<1>12. LiveObject'
  <2> SUFFICES ASSUME NEW d \in Docs, Live(d)' PROVE d \in objects'
    BY DEF LiveObject
  <2>1. CASE Live(d)
    BY <1>1, <1>5, <2>1 DEF Guarded, LiveObject, ObjectMoved
  <2>2. CASE ~Live(d)
    <3>1. upload[d] = "stored"
      BY <1>1, <2>2, LifeGiven DEF Born
    <3> QED BY <1>1, <1>5, <3>1 DEF Guarded, StoredFirst, ObjectMoved, Early
  <2> QED BY <2>1, <2>2
<1> QED BY <1>7, <1>8, <1>9, <1>10, <1>11, <1>12 DEF Guarded

LEMMA GuardedAlways == ASSUME GraceHolds PROVE Spec => []Guarded
<1>1. Init => Fresh /\ Guarded
  BY JobNames DEF Init, Fresh, NoRow, NoDoc, Guarded, Unarmed, Underway, StoredFirst, Disarmed,
     Attended, Owed, LiveObject, Live
<1>2. TypeOK /\ Known /\ Fresh /\ Guarded /\ [Next]_vars => Known' /\ Fresh' /\ Guarded'
  BY KnownStep, FreshStep, GuardedStep
<1> QED BY <1>1, <1>2, KnownInit, TypeCorrect, PTL DEF Spec

(* If every upload ends within the hour its intent waits, no cleanup ever  *)
(* takes the object of a document that exists: neither an early intent nor *)
(* a second delivery, a late worker or a re-armed job.                     *)
THEOREM ObjectsKept == ASSUME GraceHolds PROVE Spec => []LiveObject
<1>1. Guarded => LiveObject
  BY DEF Guarded
<1> QED BY <1>1, GuardedAlways, PTL

(* Under the same assumption an object without a document always has a     *)
(* cleanup that is scheduled, running or visibly failed, wherever an       *)
(* upload, a commit or a worker broke off.                                 *)
THEOREM OrphansOwed == ASSUME GraceHolds PROVE Spec => []OrphanOwed
<1>1. TypeOK /\ Guarded => OrphanOwed
  <2> SUFFICES ASSUME TypeOK, Guarded, NEW d \in Docs, d \in objects, ~Live(d)
               PROVE  \E j \in Cleanups(d) : job[j].state \in Active \cup {"failed"}
    BY DEF OrphanOwed
  <2>1. doc[d].status \in {"absent", "deleted"}
    BY DEF Live
  <2> QED BY <2>1 DEF Guarded, Owed, Owing, Cleanups
<1> QED BY <1>1, GuardedAlways, TypeCorrect, PTL
=============================================================================
