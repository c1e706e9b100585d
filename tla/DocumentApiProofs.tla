-------------------------- MODULE DocumentApiProofs --------------------------
(***************************************************************************)
(* Proofs about the document API: however many clients, fields and values  *)
(* there are, no write is lost or repeated, an ETag stands for one state   *)
(* of the metadata, and the trail and the readers agree with the row.      *)
(***************************************************************************)
EXTENDS DocumentApi, TLAPS

(* Whoever has loaded the row has it locked, and it is still what it was. *)
Locked ==
  \A a \in Actors : copy[a] # NoCopy => holder = a /\ Live /\ row = copy[a]

(* An ETag that was handed out tells the metadata of its revision, and no  *)
(* revision is ahead of the row.                                           *)
Informed ==
  /\ \A q \in Calls : call[q] # Unsent => call[q].etag \in given
  /\ Live => \A e \in given : /\ e.revision <= row.revision
                              /\ e.revision = row.revision => e.meta = row.meta

(* A call that was applied is behind the row for ever. *)
Spent ==
  \A q \in applied : call[q] # Unsent /\ (Live => call[q].etag.revision < row.revision)

(* What a reader is in the middle of.  Only what has succeeded has text. *)
Reading ==
  /\ Live => (row.status = "succeeded" <=> row.text = "extracted")
  /\ \A r \in Readers :
        Half(reader[r]) =>
          /\ reader[r].status # "unread" /\ reader[r].text = "unread"
          /\ Live /\ reader[r].status = "succeeded" => row.status = "succeeded"

-----------------------------------------------------------------------------
(* Rows. *)

LEMMA GoneIsNoRow == Gone \notin Rows
BY DEF Gone, Rows

LEMMA TransitionRow ==
  ASSUME NEW r \in Rows, NEW s \in Statuses, NEW t \in Texts
  PROVE  /\ Transition(r, s, t) \in Rows
         /\ Transition(r, s, t).revision = r.revision /\ Transition(r, s, t).meta = r.meta
         /\ Transition(r, s, t).status = s /\ Transition(r, s, t).text = t
BY DEF Transition, Rows

LEMMA RequeuedRow ==
  ASSUME NEW r \in Rows
  PROVE  /\ Requeued(r) \in Rows
         /\ Requeued(r).revision = r.revision + 1 /\ Requeued(r).meta = r.meta
         /\ Requeued(r).status = "pending" /\ Requeued(r).text = r.text
<1> DEFINE n == r.revision + 1
<1>1. n \in Nat
  BY DEF Rows
<1>2. Requeued(r) = [r EXCEPT !.status = "pending", !.revision = n]
  BY DEF Requeued
<1>3. n = r.revision + 1
  OBVIOUS
<1> HIDE DEF n
<1> QED BY <1>1, <1>2, <1>3 DEF Rows, Statuses

LEMMA PatchedRow ==
  ASSUME NEW r \in Rows, NEW body \in Bodies
  PROVE  /\ Patched(r, body) \in Rows
         /\ Patched(r, body).revision = r.revision + 1
         /\ Patched(r, body).status = r.status /\ Patched(r, body).text = r.text
<1> DEFINE m == [f \in Fields |-> IF f \in DOMAIN body THEN body[f] ELSE r.meta[f]]
<1>1. r.meta \in Metadata
  BY DEF Rows
<1>2. PICK supplied \in SUBSET Fields : body \in [supplied -> Values]
  BY DEF Bodies
<1>3. m \in Metadata
  BY <1>1, <1>2 DEF Metadata
<1> DEFINE n == r.revision + 1
<1>4. n \in Nat
  BY DEF Rows
<1>5. Patched(r, body) = [r EXCEPT !.meta = m, !.revision = n]
  BY DEF Patched
<1>6. n = r.revision + 1
  OBVIOUS
<1> HIDE DEF m, n
<1> QED BY <1>3, <1>4, <1>5, <1>6 DEF Rows

-----------------------------------------------------------------------------
(* What a step can be, as far as the row is concerned.                     *)

(* A reader asks, or is answered. *)
Reads(r) ==
  /\ AskText(r) \/ GetText(r)
  /\ UNCHANGED <<row, holder, copy, call, given, applied, trail>>

Begins(a) == Load(a) /\ UNCHANGED <<row, call, given, applied, reader, trail>>

(* The transaction of a ends, with or without a commit. *)
Abandons(a) ==
  /\ Release(a)
  /\ given' \in {given, given \cup {EtagOf(row)}}
  /\ UNCHANGED <<row, call, applied, reader, trail>>

Edits(q, r) ==
  /\ Release(q) /\ call[q] # Unsent /\ RevisionHolds(q)
  /\ r \in Rows /\ r.revision = row.revision + 1 /\ r.text = row.text
  /\ \/ /\ r.status = row.status
        /\ trail' = [trail EXCEPT !.revision = row.revision + 1]
     \/ /\ r.meta = row.meta /\ row.status = "failed" /\ r.status = "pending"
        /\ trail' = [trail EXCEPT !.status = "pending", !.revision = @ + 1]
  /\ row' = r /\ applied' = applied \cup {q} /\ Answered(r)
  /\ UNCHANGED <<call, reader>>

Removes(q) ==
  /\ Release(q) /\ call[q] # Unsent /\ RevisionHolds(q)
  /\ row' = Gone /\ trail' = [trail EXCEPT !.deleted = TRUE] /\ applied' = applied \cup {q}
  /\ UNCHANGED <<call, given, reader>>

Runs(s, t) ==
  /\ Release(Worker)
  /\ row.status \in {"pending", "processing"} /\ s \in Statuses /\ t \in Texts
  /\ (s = "succeeded" /\ t = "extracted") \/ (s # "succeeded" /\ t = row.text)
  /\ row' = Transition(row, s, t)
  /\ trail' = [trail EXCEPT !.status = s, !.chained = @ /\ row.status = trail.status]
  /\ UNCHANGED <<call, given, applied, reader>>

(* A loaded copy is a row, and a call that has one was sent. *)
LEMMA Loaded ==
  ASSUME TypeOK, Locked, NEW a \in Actors, copy[a] # NoCopy
  PROVE  row \in Rows /\ copy[a] = row /\ holder = a /\ Live
BY DEF TypeOK, Locked, Live

LEMMA StepHasForm ==
  ASSUME TypeOK, Locked, Next
  PROVE  \/ Retrieve
         \/ \E q \in Calls : Send(q)
         \/ \E r \in Readers : Reads(r)
         \/ \E a \in Actors : Begins(a) \/ Abandons(a)
         \/ \E q \in Calls : Removes(q) \/ \E r \in Rows : Edits(q, r)
         \/ \E s \in Statuses, t \in Texts : Runs(s, t)
<1>1. ASSUME NEW q \in Calls, Arrive(q) PROVE Begins(q)
  BY <1>1 DEF Arrive, Begins
<1>2. ASSUME WorkerLoads PROVE Begins(Worker)
  BY <1>2 DEF WorkerLoads, Begins
<1>3. ASSUME NEW a \in Actors, RollBack(a) PROVE Abandons(a)
  BY <1>3 DEF RollBack, Abandons
<1>4. ASSUME NEW q \in Calls, Decide(q)
      PROVE Abandons(q) \/ Removes(q) \/ \E r \in Rows : Edits(q, r)
  <2>1. Release(q) /\ UNCHANGED <<call, reader>> /\ copy[q] # NoCopy /\ q \in Actors
    BY <1>4 DEF Decide, Release, Actors
  <2>2. row \in Rows /\ copy[q] = row
    BY <2>1, Loaded
  <2>3. CASE Patch(q)
    <3> DEFINE r == Patched(row, call[q].body)
    <3>1. call[q].body \in Bodies
      BY <2>3 DEF Patch, TypeOK, Asked, Unsent
    <3>2. CASE Changes(copy[q], call[q].body)
      <4>1. /\ r \in Rows /\ r.revision = row.revision + 1
            /\ r.status = row.status /\ r.text = row.text
        BY <3>1, <2>2, PatchedRow
      <4>2. /\ RevisionHolds(q) /\ row' = r /\ applied' = applied \cup {q}
            /\ Answered(r) /\ trail' = [trail EXCEPT !.revision = row.revision + 1]
        BY <2>3, <3>2, <2>2 DEF Patch, Write
      <4>3. call[q] # Unsent
        BY <2>3 DEF Patch, Unsent
      <4> HIDE DEF r
      <4> QED BY <4>1, <4>2, <4>3, <2>1 DEF Edits
    <3>3. CASE ~Changes(copy[q], call[q].body)
      BY <2>3, <3>3, <2>1, <2>2 DEF Patch, Answered, Abandons
    <3> QED BY <3>2, <3>3
  <2>4. CASE Delete(q)
    BY <2>4, <2>1 DEF Delete, Removes, Unsent
  <2>5. CASE Reprocess(q)
    <3> DEFINE r == Requeued(row)
    <3>1. /\ r \in Rows /\ r.revision = row.revision + 1
          /\ r.meta = row.meta /\ r.status = "pending" /\ r.text = row.text
      BY <2>2, RequeuedRow
    <3>2. /\ call[q] # Unsent /\ RevisionHolds(q) /\ row.status = "failed" /\ row' = r
          /\ applied' = applied \cup {q} /\ Answered(r)
          /\ trail' = [trail EXCEPT !.status = "pending", !.revision = @ + 1]
      BY <2>5, <2>2 DEF Reprocess, Reprocessable, Write, Unsent
    <3> HIDE DEF r
    <3> QED BY <3>1, <3>2, <2>1 DEF Edits
  <2>6. CASE Refuse(q)
    BY <2>6, <2>1 DEF Refuse, Abandons
  <2> QED BY <1>4, <2>3, <2>4, <2>5, <2>6 DEF Decide
<1>5. ASSUME WorkerSaves PROVE \E s \in Statuses, t \in Texts : Runs(s, t)
  <2>1. /\ Release(Worker) /\ UNCHANGED <<call, given, applied, reader>>
        /\ copy[Worker] # NoCopy /\ Worker \in Actors
    BY <1>5 DEF WorkerSaves, Release, Actors
  <2>2. row \in Rows /\ copy[Worker] = row
    BY <2>1, Loaded
  <2>3. row.text \in Texts
    BY <2>2 DEF Rows
  <2>4. PICK s \in Statuses, t \in Texts :
          /\ row.status \in {"pending", "processing"}
          /\ (s = "succeeded" /\ t = "extracted") \/ (s # "succeeded" /\ t = row.text)
          /\ MovesTo(s, t)
    BY <1>5, <2>2, <2>3 DEF WorkerSaves, Statuses, Texts
  <2> QED BY <2>1, <2>2, <2>4 DEF MovesTo, Runs
<1>6. ASSUME NEW r \in Readers, AskText(r) \/ GetText(r) PROVE Reads(r)
  BY <1>6 DEF Reads, AskText, GetText
<1> QED BY <1>1, <1>2, <1>3, <1>4, <1>5, <1>6 DEF Next, Actors

LEMMA LockedStep == ASSUME TypeOK, Locked, Next PROVE Locked'
<1>1. NoOne \notin Actors
  BY ActorsAssumption DEF Actors
<1>2. ASSUME UNCHANGED <<row, holder, copy>> PROVE Locked'
  BY <1>2 DEF Locked, Live
<1>3. ASSUME NEW a \in Actors, Begins(a) PROVE Locked'
  BY <1>3, <1>1 DEF Begins, Load, Lockable, Locked, Live, TypeOK
<1>4. ASSUME NEW a \in Actors, Release(a) PROVE Locked'
  BY <1>4 DEF Release, Locked, TypeOK
<1>5. Worker \in Actors /\ Calls \subseteq Actors
  BY DEF Actors
<1>6. CASE Retrieve \/ (\E q \in Calls : Send(q)) \/ \E r \in Readers : Reads(r)
  BY <1>6, <1>2 DEF Retrieve, Send, Reads
<1> QED BY <1>2, <1>3, <1>4, <1>5, <1>6, StepHasForm DEF Abandons, Removes, Edits, Runs

-----------------------------------------------------------------------------
(* The inductive invariant, step by step.                                  *)

LEMMA EtagType == ASSUME NEW r \in Rows PROVE EtagOf(r) \in Etags
BY DEF EtagOf, Etags, Rows

LEMMA TrailTypes ==
  ASSUME trail \in Trails, NEW n \in Nat, NEW s \in Statuses, NEW b \in BOOLEAN
  PROVE  /\ [trail EXCEPT !.revision = n] \in Trails
         /\ [trail EXCEPT !.status = s, !.revision = n] \in Trails
         /\ [trail EXCEPT !.status = s, !.chained = b] \in Trails
         /\ [trail EXCEPT !.deleted = TRUE] \in Trails
BY DEF Trails

LEMMA TypeStep == ASSUME TypeOK, Locked, Next PROVE TypeOK'
<1>1. ASSUME NEW a \in Actors, Release(a)
      PROVE  /\ row \in Rows /\ holder' \in Actors \cup {NoOne}
             /\ copy' \in [Actors -> Rows \cup {NoCopy}]
  BY <1>1, Loaded DEF Release, TypeOK
<1>2. CASE Retrieve
  <2>1. row \in Rows
    BY <1>2 DEF Retrieve, TypeOK, Live
  <2> QED BY <1>2, <2>1, EtagType DEF Retrieve, TypeOK
<1>3. ASSUME NEW q \in Calls, Send(q) PROVE TypeOK'
  BY <1>3 DEF Send, TypeOK, Asked
<1>4. ASSUME NEW r \in Readers, Reads(r) PROVE TypeOK'
  <2>1. reader' \in [Readers -> Answers]
    <3>1. reader \in [Readers -> Answers] /\ reader[r] \in Answers /\ (Live => row \in Rows)
      BY DEF TypeOK, Live
    <3>2. Unavailable \in Answers
      BY DEF Unavailable, NoAnswer, Answers
    <3>3. CASE AskText(r)
      BY <3>1, <3>2, <3>3 DEF AskText, FirstRead, Answers, Rows
    <3>4. CASE GetText(r)
      <4>1. Live => Completed(reader[r]) \in Answers
        BY <3>1 DEF Completed, Answers, Rows
      <4>2. [reader[r] EXCEPT !.code = "error"] \in Answers
        BY <3>1 DEF Answers
      <4> QED BY <3>1, <3>2, <3>4, <4>1, <4>2 DEF GetText
    <3> QED BY <1>4, <3>3, <3>4 DEF Reads
  <2> QED BY <1>4, <2>1 DEF Reads, TypeOK
<1>5. ASSUME NEW a \in Actors, Begins(a) PROVE TypeOK'
  BY <1>5 DEF Begins, Load, Lockable, Live, TypeOK
<1>6. ASSUME NEW a \in Actors, Abandons(a) PROVE TypeOK'
  <2>1. EtagOf(row) \in Etags
    BY <1>6, <1>1, EtagType DEF Abandons
  <2> QED BY <1>6, <1>1, <2>1 DEF Abandons, TypeOK
<1>7. ASSUME NEW q \in Calls, Removes(q) PROVE TypeOK'
  <2>1. q \in Actors /\ trail' \in Trails
    BY <1>7 DEF Removes, TypeOK, Trails, Actors
  <2> QED BY <1>7, <1>1, <2>1 DEF Removes, TypeOK
<1>8. ASSUME NEW q \in Calls, NEW r \in Rows, Edits(q, r) PROVE TypeOK'
  <2>1. q \in Actors /\ row \in Rows
    BY <1>8, <1>1 DEF Edits, Actors
  <2>2. row.revision + 1 \in Nat /\ trail.revision + 1 \in Nat /\ "pending" \in Statuses
    BY <2>1 DEF TypeOK, Trails, Rows, Statuses
  <2>3. trail \in Trails
    BY DEF TypeOK
  <2>4. trail' \in Trails
    BY <1>8, <2>2, <2>3, TrailTypes DEF Edits
  <2>5. given' \subseteq Etags
    BY <1>8, EtagType DEF Edits, Answered, TypeOK
  <2>6. row' \in Rows
    BY <1>8 DEF Edits
  <2> QED BY <1>8, <1>1, <2>1, <2>4, <2>5, <2>6 DEF Edits, TypeOK
<1>9. ASSUME NEW s \in Statuses, NEW t \in Texts, Runs(s, t) PROVE TypeOK'
  <2>1. Worker \in Actors /\ row \in Rows
    BY <1>9, <1>1 DEF Runs, Actors
  <2>2. row' \in Rows
    BY <1>9, <2>1, TransitionRow DEF Runs
  <2>3. (trail.chained /\ row.status = trail.status) \in BOOLEAN
    OBVIOUS
  <2>4. trail' \in Trails
    BY <1>9, <2>3, TrailTypes DEF Runs, TypeOK, Trails
  <2> QED BY <1>9, <1>1, <2>1, <2>2, <2>4 DEF Runs, TypeOK
<1> QED
  BY <1>2, <1>3, <1>4, <1>5, <1>6, <1>7, <1>8, <1>9, StepHasForm

(* A commit changes the revision of the row by one, or not at all. *)
LEMMA Commits ==
  ASSUME TypeOK, Locked
  PROVE  /\ \A q \in Calls : Removes(q) => row \in Rows /\ Live /\ ~Live' /\ copy[q] # NoCopy
         /\ \A q \in Calls, r \in Rows :
               Edits(q, r) => /\ row \in Rows /\ Live /\ copy[q] = row /\ copy[q] # NoCopy
                              /\ row' \in Rows /\ row'.revision = row.revision + 1
                              /\ row'.meta = r.meta /\ row'.status = r.status
                              /\ row'.text = row.text
         /\ \A s \in Statuses, t \in Texts :
               Runs(s, t) => /\ row \in Rows /\ Live
                             /\ row' \in Rows /\ row'.revision = row.revision
                             /\ row'.meta = row.meta /\ row'.status = s
                             /\ row'.text = t
<1>1. ASSUME NEW a \in Actors, Release(a)
      PROVE  row \in Rows /\ Live /\ copy[a] = row /\ copy[a] # NoCopy
  BY <1>1, Loaded DEF Release
<1>2. Calls \subseteq Actors /\ Worker \in Actors
  BY DEF Actors
<1>3. ASSUME NEW q \in Calls, Removes(q)
      PROVE  row \in Rows /\ Live /\ ~Live' /\ copy[q] # NoCopy
  BY <1>1, <1>2, <1>3 DEF Removes, Live
<1>4. ASSUME NEW q \in Calls, NEW r \in Rows, Edits(q, r)
      PROVE  /\ row \in Rows /\ Live /\ copy[q] = row /\ copy[q] # NoCopy
             /\ row' \in Rows /\ row'.revision = row.revision + 1
             /\ row'.meta = r.meta /\ row'.status = r.status
             /\ row'.text = row.text
  BY <1>1, <1>2, <1>4 DEF Edits
<1>5. ASSUME NEW s \in Statuses, NEW t \in Texts, Runs(s, t)
      PROVE  /\ row \in Rows /\ Live
             /\ row' \in Rows /\ row'.revision = row.revision
             /\ row'.meta = row.meta /\ row'.status = s
             /\ row'.text = t
  <2>1. row \in Rows /\ Live
    BY <1>1, <1>2, <1>5 DEF Runs
  <2> DEFINE n == Transition(row, s, t)
  <2>2. n \in Rows /\ n.revision = row.revision /\ n.meta = row.meta /\ n.status = s /\ n.text = t
    BY <2>1, TransitionRow
  <2>3. row' = n
    BY <1>5 DEF Runs
  <2> HIDE DEF n
  <2> QED BY <2>1, <2>2, <2>3
<1> QED BY <1>3, <1>4, <1>5

LEMMA InformedStep == ASSUME TypeOK, Locked, Informed, Next PROVE Informed'
<1>1. CASE Retrieve
  <2>1. row \in Rows /\ EtagOf(row).revision = row.revision /\ EtagOf(row).meta = row.meta
    BY <1>1 DEF Retrieve, TypeOK, Live, EtagOf
  <2> QED BY <1>1, <2>1 DEF Retrieve, Informed, Live, Rows
<1>2. ASSUME NEW q \in Calls, Send(q) PROVE Informed'
  <2>1. call'[q].etag \in given /\ \A p \in Calls \ {q} : call'[p] = call[p]
    BY <1>2 DEF Send, TypeOK
  <2> QED BY <1>2, <2>1 DEF Send, Informed, Live
<1>3. ASSUME NEW r \in Readers, Reads(r) PROVE Informed'
  BY <1>3 DEF Reads, Informed, Live
<1>4. ASSUME NEW a \in Actors, Begins(a) PROVE Informed'
  BY <1>4 DEF Begins, Informed, Live
<1>5. ASSUME NEW a \in Actors, Abandons(a) PROVE Informed'
  <2>1. row \in Rows /\ EtagOf(row).revision = row.revision /\ EtagOf(row).meta = row.meta
    BY <1>5, Loaded DEF Abandons, Release, EtagOf
  <2> QED BY <1>5, <2>1 DEF Abandons, Informed, Live, Rows
<1>6. ASSUME NEW q \in Calls, Removes(q) PROVE Informed'
  BY <1>6, Commits DEF Removes, Informed
<1>7. ASSUME NEW q \in Calls, NEW r \in Rows, Edits(q, r) PROVE Informed'
  <2>1. /\ row.revision \in Nat /\ Live /\ row'.revision = row.revision + 1 /\ row'.meta = r.meta
        /\ EtagOf(r).revision = row.revision + 1 /\ EtagOf(r).meta = r.meta
    BY <1>7, Commits DEF Edits, EtagOf, Rows
  <2>2. given' \in {given, given \cup {EtagOf(r)}} /\ call' = call
    BY <1>7 DEF Edits, Answered
  <2>3. \A e \in given : e.revision \in Nat /\ e.revision <= row.revision
    BY <2>1 DEF TypeOK, Etags, Informed
  <2> QED BY <2>1, <2>2, <2>3 DEF Informed
<1>8. ASSUME NEW s \in Statuses, NEW t \in Texts, Runs(s, t) PROVE Informed'
  BY <1>8, Commits DEF Runs, Informed
<1> QED BY <1>1, <1>2, <1>3, <1>4, <1>5, <1>6, <1>7, <1>8, StepHasForm

(* What is handed out next agrees with what was handed out before. *)
LEMMA EtagsStep == ASSUME TypeOK, Locked, Informed, EtagsTrue, Next PROVE EtagsTrue'
<1>1. ASSUME NEW g, given' \subseteq given \cup {g},
             \A e \in given : e.revision = g.revision => e.meta = g.meta
      PROVE  EtagsTrue'
  BY <1>1 DEF EtagsTrue
<1>2. CASE given' = given
  BY <1>2 DEF EtagsTrue
<1>3. ASSUME row \in Rows, Live, given' \subseteq given \cup {EtagOf(row)} PROVE EtagsTrue'
  BY <1>1, <1>3 DEF EtagOf, Informed
<1>4. ASSUME NEW a \in Actors, Abandons(a) PROVE EtagsTrue'
  <2>1. row \in Rows /\ Live
    BY <1>4, Loaded DEF Abandons, Release
  <2> QED BY <1>3, <1>4, <2>1 DEF Abandons
<1>5. ASSUME NEW q \in Calls, NEW r \in Rows, Edits(q, r) PROVE EtagsTrue'
  <2>1. row.revision \in Nat /\ Live /\ r.revision = row.revision + 1
    BY <1>5, Commits DEF Edits, Rows
  <2>2. \A e \in given : e.revision \in Nat /\ e.revision <= row.revision
    BY <2>1 DEF TypeOK, Etags, Informed
  <2>3. given' \subseteq given \cup {EtagOf(r)} /\ EtagOf(r).revision = row.revision + 1
    BY <1>5, <2>1 DEF Edits, Answered, EtagOf
  <2>4. \A e \in given : e.revision # EtagOf(r).revision
    BY <2>1, <2>2, <2>3
  <2> QED BY <1>1, <2>3, <2>4
<1>6. CASE Retrieve
  BY <1>3, <1>6 DEF Retrieve, TypeOK, Live
<1> QED
  BY <1>2, <1>4, <1>5, <1>6, StepHasForm DEF Send, Reads, Begins, Removes, Runs

(* The call that commits is about the committed row. *)
LEMMA Current ==
  ASSUME TypeOK, Locked, NEW q \in Calls, RevisionHolds(q), copy[q] # NoCopy
  PROVE  call[q].etag.revision = row.revision
BY Loaded DEF RevisionHolds, Actors

LEMMA SpentStep == ASSUME TypeOK, Locked, Spent, Next PROVE Spent'
<1>1. \A q \in applied : q \in Calls
  BY DEF TypeOK
<1>2. CASE UNCHANGED <<row, applied, call>>
  BY <1>2 DEF Spent, Live
<1>3. ASSUME NEW q \in Calls, Send(q) PROVE Spent'
  BY <1>3, <1>1 DEF Send, Spent, Live, TypeOK
<1>4. ASSUME NEW q \in Calls, Removes(q) PROVE Spent'
  BY <1>4, Commits DEF Removes, Spent
<1>5. ASSUME NEW q \in Calls, NEW r \in Rows, Edits(q, r) PROVE Spent'
  <2>1. /\ row.revision \in Nat /\ row'.revision = row.revision + 1
        /\ call[q].etag.revision = row.revision /\ call[q] # Unsent /\ Live
        /\ call' = call /\ applied' = applied \cup {q}
    BY <1>5, Commits, Current DEF Edits, Rows
  <2>2. \A p \in applied : call[p] # Unsent /\ call[p].etag.revision \in Nat
    BY <1>1 DEF Spent, TypeOK, Asked, Etags
  <2> QED BY <2>1, <2>2 DEF Spent
<1>6. ASSUME NEW s \in Statuses, NEW t \in Texts, Runs(s, t) PROVE Spent'
  BY <1>6, Commits DEF Runs, Spent
<1> QED
  BY <1>2, <1>3, <1>4, <1>5, <1>6, StepHasForm DEF Retrieve, Reads, Begins, Abandons

(* A document that is gone stays gone; one that has succeeded stays so,    *)
(* with its text, and no other has any.                                    *)
LEMMA RowMoves ==
  ASSUME TypeOK, Locked, Reading, Next, Live'
  PROVE  /\ Live
         /\ row.status = "succeeded" => row'.status = "succeeded"
         /\ row'.status = "succeeded" <=> row'.text = "extracted"
<1> DEFINE Moves ==
       /\ Live
       /\ row.status = "succeeded" => row'.status = "succeeded"
       /\ row'.status = "succeeded" <=> row'.text = "extracted"
<1>1. CASE row' = row
  BY <1>1 DEF Live, Reading
<1>2. ASSUME NEW q \in Calls, NEW r \in Rows, Edits(q, r) PROVE Moves
  BY <1>2, Commits DEF Edits, Reading
<1>3. ASSUME NEW s \in Statuses, NEW t \in Texts, Runs(s, t) PROVE Moves
  BY <1>3, Commits DEF Runs, Reading
<1> QED
  BY <1>1, <1>2, <1>3, Commits, StepHasForm DEF Retrieve, Send, Reads, Begins, Abandons

LEMMA ReadingStep ==
  ASSUME TypeOK, Locked, Reading, TextOfSuccess, TextStays, Next
  PROVE  Reading' /\ TextOfSuccess' /\ TextStays'
<1> DEFINE Good(a) ==
       /\ Half(a) => /\ a.status # "unread" /\ a.text = "unread"
                     /\ Live' /\ a.status = "succeeded" => row'.status = "succeeded"
       /\ a.code = "ok" /\ a.status = "succeeded" => a.text = "extracted"
       /\ Live' /\ a.code = "ok" /\ a.text = "extracted" =>
             row'.status = "succeeded" /\ row'.text = "extracted"
<1>1. (\A r \in Readers : Good(reader'[r])) => Reading' /\ TextOfSuccess' /\ TextStays'
  BY RowMoves DEF Reading, TextOfSuccess, TextStays, Half
<1>2. ASSUME NEW r \in Readers PROVE Good(reader[r])
  BY RowMoves DEF Reading, TextOfSuccess, TextStays
<1>3. CASE reader' = reader
  <2> HIDE DEF Good
  <2> QED BY <1>1, <1>2, <1>3
<1>4. ASSUME NEW r \in Readers, Reads(r) PROVE \A p \in Readers : Good(reader'[p])
  <2>1. reader \in [Readers -> Answers] /\ reader[r] \in Answers /\ (Live => row \in Rows)
    BY DEF TypeOK, Live
  <2>2. row' = row /\ (Live' <=> Live)
    BY <1>4 DEF Reads, Live
  <2>3. \A p \in Readers \ {r} : reader'[p] = reader[p]
    BY <1>4, <2>1 DEF Reads, AskText, GetText
  <2>4. Good(Unavailable)
    BY DEF Unavailable, NoAnswer, Half
  <2>5. Good(reader'[r])
    <3>1. CASE reader'[r] = Unavailable
      <4> HIDE DEF Good
      <4> QED BY <2>4, <3>1
    <3>2. CASE Live /\ AskText(r) /\ reader'[r] = FirstRead
      <4>1. row.status \in Statuses
        BY <3>2, <2>1 DEF Rows
      <4> QED BY <3>2, <4>1, <2>2 DEF FirstRead, Half, Statuses
    <3>3. CASE Live /\ GetText(r) /\ reader'[r] = Completed(reader[r])
      <4>1. /\ reader'[r].code = "ok" /\ reader'[r].text = row.text
            /\ reader'[r].status = reader[r].status
        BY <3>3 DEF GetText, Completed, Reading
      <4> QED BY <4>1, <3>3, <2>2 DEF GetText, Reading, Half
    <3>4. CASE ~Live /\ GetText(r) /\ reader'[r] = [reader[r] EXCEPT !.code = "error"]
      <4>1. reader'[r].code = "error"
        BY <3>4, <2>1 DEF Answers
      <4> QED BY <4>1 DEF Half
    <3> QED BY <1>4, <2>1, <3>1, <3>2, <3>3, <3>4 DEF Reads, AskText, GetText
  <2> HIDE DEF Good
  <2> QED BY <1>2, <2>3, <2>5
<1>5. CASE \E r \in Readers : Reads(r)
  <2> HIDE DEF Good
  <2> QED BY <1>1, <1>4, <1>5
<1> QED
  BY <1>3, <1>5, StepHasForm DEF Retrieve, Send, Begins, Abandons, Removes, Edits, Runs

LEMMA TrailStep == ASSUME TypeOK, Locked, TrailTells, Next PROVE TrailTells'
<1>1. trail \in Trails
  BY DEF TypeOK
<1>2. CASE UNCHANGED <<row, trail>>
  BY <1>2 DEF TrailTells, Live
<1>3. ASSUME NEW q \in Calls, Removes(q) PROVE TrailTells'
  BY <1>1, <1>3, Commits DEF Removes, TrailTells, Trails
<1>4. ASSUME NEW q \in Calls, NEW r \in Rows, Edits(q, r) PROVE TrailTells'
  <2>1. /\ row.revision \in Nat /\ Live /\ row'.revision = row.revision + 1
        /\ row'.status = r.status
    BY <1>4, Commits DEF Rows
  <2>2. /\ trail.status = row.status /\ trail.revision = row.revision
        /\ ~trail.deleted /\ trail.chained
    BY <2>1 DEF TrailTells
  <2>3. /\ trail'.revision = row.revision + 1 /\ trail'.status = r.status
        /\ ~trail'.deleted /\ trail'.chained
    BY <1>1, <1>4, <2>1, <2>2 DEF Edits, Trails
  <2>4. Live'
    BY <1>4, Commits, GoneIsNoRow DEF Live
  <2> QED BY <2>1, <2>3, <2>4 DEF TrailTells
<1>5. ASSUME NEW s \in Statuses, NEW t \in Texts, Runs(s, t) PROVE TrailTells'
  <2>1. /\ Live /\ row'.revision = row.revision /\ row'.status = s /\ Live'
    BY <1>5, Commits, GoneIsNoRow DEF Live
  <2>2. /\ trail'.revision = row.revision /\ trail'.status = s
        /\ ~trail'.deleted /\ trail'.chained
    BY <1>1, <1>5, <2>1 DEF Runs, Trails, TrailTells
  <2> QED BY <2>1, <2>2 DEF TrailTells
<1> QED
  BY <1>2, <1>3, <1>4, <1>5, StepHasForm DEF Retrieve, Send, Reads, Begins, Abandons

-----------------------------------------------------------------------------
(* The theorems.                                                           *)

IInv ==
  /\ TypeOK /\ Locked /\ Informed /\ Spent /\ Reading
  /\ EtagsTrue /\ TrailTells /\ TextOfSuccess /\ TextStays

LEMMA InvInit == Init => IInv
<1> SUFFICES ASSUME Init PROVE IInv
  OBVIOUS
<1>1. PICK m \in Metadata :
        /\ row = [revision |-> 1, meta |-> m, status |-> "pending", text |-> "none"]
        /\ given = {[revision |-> 1, meta |-> m]}
  BY DEF Init
<1>2. /\ holder = NoOne /\ copy = [a \in Actors |-> NoCopy] /\ call = [q \in Calls |-> Unsent]
      /\ applied = {} /\ reader = [r \in Readers |-> NoAnswer]
      /\ trail = [status |-> "pending", revision |-> 1, chained |-> TRUE, deleted |-> FALSE]
  BY DEF Init
<1>3. row \in Rows /\ Live /\ trail \in Trails /\ given \subseteq Etags
  BY <1>1, <1>2, GoneIsNoRow DEF Rows, Live, Trails, Etags, Statuses, Texts
<1>4. NoAnswer \in Answers
  BY DEF NoAnswer, Answers
<1>5. TypeOK
  BY <1>2, <1>3, <1>4 DEF TypeOK
<1>6. Locked /\ Informed /\ Spent
  BY <1>1, <1>2 DEF Locked, Informed, Spent
<1>7. Reading /\ TextOfSuccess /\ TextStays
  BY <1>1, <1>2 DEF Reading, TextOfSuccess, TextStays, NoAnswer, Half
<1>8. EtagsTrue /\ TrailTells
  BY <1>1, <1>2, <1>3 DEF EtagsTrue, TrailTells
<1> QED BY <1>5, <1>6, <1>7, <1>8 DEF IInv

LEMMA InvStep == IInv /\ [Next]_vars => IInv'
<1> SUFFICES ASSUME IInv, [Next]_vars PROVE IInv'
  OBVIOUS
<1>1. CASE Next
  BY <1>1, TypeStep, LockedStep, InformedStep, SpentStep, ReadingStep, TrailStep, EtagsStep
  DEF IInv
<1>2. CASE UNCHANGED vars
  BY <1>2 DEF vars, IInv, TypeOK, Locked, Informed, Spent, Reading, EtagsTrue, TrailTells,
     TextOfSuccess, TextStays, Live
<1> QED BY <1>1, <1>2

LEMMA Inductive == Spec => []IInv
BY InvInit, InvStep, PTL DEF Spec

(* Row, calls, copies, answers and trail keep their types: a revision only *)
(* grows, and a patched row has a legal value in every field.              *)
THEOREM TypeCorrect == Spec => []TypeOK
<1>1. IInv => TypeOK
  BY DEF IInv
<1> QED BY <1>1, Inductive, PTL

(* Whoever is given the same revision is shown the same metadata. *)
THEOREM EtagsAgree == Spec => []EtagsTrue
<1>1. IInv => EtagsTrue
  BY DEF IInv
<1> QED BY <1>1, Inductive, PTL

(* However the worker and the text endpoint interleave, an answer that     *)
(* says succeeded carries the text.                                        *)
THEOREM TextFollowsStatus == Spec => []TextOfSuccess
<1>1. IInv => TextOfSuccess
  BY DEF IInv
<1> QED BY <1>1, Inductive, PTL

(* The audit events add up to the committed row, through any number of     *)
(* edits, deletions, reprocess calls and runs of the worker.               *)
THEOREM TrailComplete == Spec => []TrailTells
<1>1. IInv => TrailTells
  BY DEF IInv
<1> QED BY <1>1, Inductive, PTL

(* Text that was handed out is never taken back, replaced or hidden by the *)
(* status, except by a deletion.                                           *)
THEOREM TextFinal == Spec => []TextStays
<1>1. IInv => TextStays
  BY DEF IInv
<1> QED BY <1>1, Inductive, PTL

-----------------------------------------------------------------------------
(* A step changes the row by an edit, a removal or a run of the worker.    *)
LEMMA RowChanges ==
  ASSUME TypeOK, Locked, [Next]_vars
  PROVE  \/ row' = row /\ (Live' <=> Live)
         \/ \E q \in Calls : Removes(q) \/ \E r \in Rows : Edits(q, r)
         \/ \E s \in Statuses, t \in Texts : Runs(s, t)
BY StepHasForm DEF vars, Live, Retrieve, Send, Reads, Begins, Abandons

(* Nobody overwrites metadata that he has not seen, whatever he and others *)
(* send, repeat or roll back.                                              *)
THEOREM EditsInformed == Spec => NoSilentOverwrite
<1>1. ASSUME TypeOK, Locked, Informed, [Next]_vars PROVE InformedEdit
  <2> SUFFICES ASSUME Live, row' # Gone, row'.meta # row.meta
               PROVE  \E q \in Calls : /\ copy[q] # NoCopy /\ copy'[q] = NoCopy
                                       /\ call[q].etag.meta = row.meta
    BY DEF InformedEdit
  <2>1. ~\E q \in Calls : Removes(q)
    BY DEF Removes
  <2>2. ~\E s \in Statuses, t \in Texts : Runs(s, t)
    BY <1>1, Commits
  <2>3. PICK q \in Calls : \E r \in Rows : Edits(q, r)
    BY <1>1, <2>1, <2>2, RowChanges
  <2>4. copy[q] # NoCopy /\ RevisionHolds(q) /\ call[q] # Unsent /\ copy'[q] = NoCopy
    BY <1>1, <2>3 DEF Edits, Release, TypeOK, Actors
  <2>5. call[q].etag.revision = row.revision
    BY <1>1, <2>4, Current
  <2>6. call[q].etag.meta = row.meta
    BY <1>1, <2>4, <2>5 DEF Informed
  <2> QED BY <2>4, <2>6
<1>2. IInv /\ [Next]_vars => InformedEdit
  BY <1>1 DEF IInv
<1>3. IInv /\ [Next]_vars => [InformedEdit]_vars
  BY <1>2
<1> QED BY <1>3, Inductive, PTL DEF Spec, NoSilentOverwrite

(* Every save writes the whole row, and none undoes what another wrote. *)
THEOREM NothingLost == Spec => SavesKeepOthers
<1>1. ASSUME TypeOK, Locked, [Next]_vars, Live, row' # Gone PROVE KeepsEdit \/ KeepsRun
  <2>1. CASE row' = row
    BY <2>1 DEF KeepsEdit
  <2>2. ASSUME NEW q \in Calls, NEW r \in Rows, Edits(q, r) PROVE KeepsRun
    <3>1. /\ row'.revision = row.revision + 1 /\ row'.text = row.text
          /\ row'.status = r.status /\ row'.meta = r.meta
      BY <1>1, <2>2, Commits
    <3>2. \/ r.status = row.status
          \/ r.meta = row.meta /\ row.status = "failed" /\ r.status = "pending"
      BY <2>2 DEF Edits
    <3> QED BY <3>1, <3>2 DEF KeepsRun
  <2>3. ASSUME NEW s \in Statuses, NEW t \in Texts, Runs(s, t) PROVE KeepsEdit
    BY <1>1, <2>3, Commits DEF KeepsEdit
  <2>4. ~\E q \in Calls : Removes(q)
    BY <1>1 DEF Removes
  <2> QED BY <1>1, <2>1, <2>2, <2>3, <2>4, RowChanges
<1>2. IInv /\ [Next]_vars => [Live /\ row' # Gone => KeepsEdit \/ KeepsRun]_vars
  BY <1>1 DEF IInv
<1> QED BY <1>2, Inductive, PTL DEF Spec, SavesKeepOthers

(* A call that has changed the row never changes it again. *)
THEOREM NoSecondEffect == Spec => AppliedOnce
<1>1. ASSUME TypeOK, Locked, Spent, [Next]_vars,
             NEW q \in applied, copy[q] # NoCopy, copy'[q] = NoCopy
      PROVE  row' = row
  <2>1. q \in Calls /\ q \in Actors /\ q # Worker
    BY <1>1, ActorsAssumption DEF TypeOK, Actors
  <2>2. row \in Rows /\ Live
    BY <1>1, <2>1, Loaded
  <2>3. /\ call[q] # Unsent /\ call[q].etag.revision < row.revision
        /\ call[q].etag.revision \in Nat /\ row.revision \in Nat
    BY <1>1, <2>1, <2>2 DEF Spent, TypeOK, Asked, Etags, Rows
  <2>4. ~RevisionHolds(q)
    BY <1>1, <2>1, <2>3, Current
  <2>5. ASSUME NEW a \in Actors, a # q PROVE ~Release(a)
    BY <1>1, <2>1, <2>5 DEF Release, TypeOK
  <2>6. ~\E s \in Statuses, t \in Texts : Runs(s, t)
    BY <2>1, <2>5 DEF Runs, Actors
  <2>7. ~\E p \in Calls : Removes(p) \/ \E r \in Rows : Edits(p, r)
    BY <2>4, <2>5 DEF Removes, Edits, Actors
  <2> QED BY <1>1, <2>6, <2>7, RowChanges
<1> DEFINE Once ==
       \A q \in applied : copy[q] # NoCopy /\ copy'[q] = NoCopy => row' = row
<1>2. IInv /\ [Next]_vars => [Once]_vars
  BY <1>1 DEF IInv
<1> QED BY <1>2, Inductive, PTL DEF Spec, AppliedOnce
=============================================================================
