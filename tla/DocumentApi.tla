----------------------------- MODULE DocumentApi -----------------------------
(***************************************************************************)
(* One document, the API calls that change it under an If-Match revision   *)
(* (documents/views.py, documents/services.py), the worker that moves its  *)
(* status, readers of its text, and its audit trail.                       *)
(*                                                                         *)
(* Ledger takes a transaction as one step.  Here a transaction is two: it  *)
(* locks and loads the row, and it commits.  Every save of a Document      *)
(* writes the whole row, so what was loaded earlier overwrites whatever    *)
(* was written in between; the row lock is all that prevents it.  Reads    *)
(* take no lock and see what was committed last.                           *)
(***************************************************************************)
EXTENDS Integers

CONSTANTS
  Calls,    \* PATCH, DELETE and reprocess calls, each sent once and repeated at will
  Readers,  \* clients of the text endpoint
  Fields,   \* metadata fields
  Values,   \* values of a metadata field
  Worker,   \* whoever holds the job of the document: a worker, or lease recovery
  NoOne     \* the row is not locked

ASSUME ActorsAssumption == Worker \notin Calls /\ NoOne \notin Calls /\ NoOne # Worker

VARIABLES
  row,     \* the committed row of the document
  holder,  \* the transaction that has locked the row
  copy,    \* copy[a]: the model instance that the transaction of a has loaded
  call,    \* call[q]: what call q asks for
  given,   \* revisions handed out to clients, with the metadata shown beside them
  applied, \* calls that have changed the row
  reader,  \* reader[r]: the last answer r was given, or half of the next one
  trail    \* what the audit events of the document add up to

vars == <<row, holder, copy, call, given, applied, reader, trail>>

-----------------------------------------------------------------------------
Actors == Calls \cup {Worker}

Metadata == [Fields -> Values]

Statuses == {"pending", "processing", "succeeded", "failed"}

Texts == {"none", "extracted"}

(* Columns that follow from these, as search_text does, are left out. *)
Rows == [revision : Nat, meta : Metadata, status : Statuses, text : Texts]

Gone == [gone |-> TRUE]

Live == row # Gone

NoCopy == [loaded |-> FALSE]

(* An ETag is the revision; meta is the metadata it came with. *)
Etags == [revision : Nat, meta : Metadata]

EtagOf(r) == [revision |-> r.revision, meta |-> r.meta]

(* What MetadataSerializer makes of the body of a PATCH: the supplied      *)
(* fields only, each with a legal value.  A body it rejects changes nothing. *)
Bodies == UNION {[supplied -> Values] : supplied \in SUBSET Fields}

Asked == [op : {"patch"}, body : Bodies, etag : Etags]
           \cup [op : {"delete", "reprocess"}, etag : Etags]

Unsent == [op |-> "unsent"]

Answers ==
  [status : Statuses \cup {"unread"}, text : Texts \cup {"unread"},
   code : {"none", "ok", "error", "unavailable"}]

NoAnswer == [status |-> "unread", text |-> "unread", code |-> "none"]

(* 503: the database or the cache cannot be reached; it tells nothing of   *)
(* the document.                                                           *)
Unavailable == [NoAnswer EXCEPT !.code = "unavailable"]

(* The last status and revision that an event tells of; chained, as long   *)
(* as every change of status starts from the status told before.           *)
Trails == [status : Statuses, revision : Nat, chained : BOOLEAN, deleted : BOOLEAN]

TypeOK ==
  /\ row \in Rows \cup {Gone}
  /\ holder \in Actors \cup {NoOne}
  /\ copy \in [Actors -> Rows \cup {NoCopy}]
  /\ call \in [Calls -> Asked \cup {Unsent}]
  /\ given \subseteq Etags
  /\ applied \subseteq Calls
  /\ reader \in [Readers -> Answers]
  /\ trail \in Trails

(* The document was just created; the 201 answer carried its first ETag. *)
Init ==
  /\ \E m \in Metadata :
        /\ row = [revision |-> 1, meta |-> m, status |-> "pending", text |-> "none"]
        /\ given = {[revision |-> 1, meta |-> m]}
  /\ holder = NoOne
  /\ copy = [a \in Actors |-> NoCopy]
  /\ call = [q \in Calls |-> Unsent]
  /\ applied = {}
  /\ reader = [r \in Readers |-> NoAnswer]
  /\ trail = [status |-> "pending", revision |-> 1, chained |-> TRUE, deleted |-> FALSE]

-----------------------------------------------------------------------------
(* Row locks. *)

(* Slip: the row is read without select_for_update. *)
Unguarded == Live

(* select_for_update waits for the transaction that holds the row. *)
Lockable == Live /\ holder = NoOne

Load(a) ==
  /\ copy[a] = NoCopy
  /\ Lockable
  /\ holder' = a
  /\ copy' = [copy EXCEPT ![a] = row]

Release(a) ==
  /\ copy[a] # NoCopy
  /\ holder' = NoOne
  /\ copy' = [copy EXCEPT ![a] = NoCopy]

(* A transaction rolls back: an error, a timeout, a dead process. *)
RollBack(a) ==
  /\ Release(a)
  /\ UNCHANGED <<row, call, given, applied, reader, trail>>

-----------------------------------------------------------------------------
(* Clients. *)

(* GET answers with the revision and the metadata of one read. *)
Retrieve ==
  /\ Live
  /\ given' = given \cup {EtagOf(row)}
  /\ UNCHANGED <<row, holder, copy, call, applied, reader, trail>>

(* A client asks for a change of what it has seen.  (Without If-Match, or  *)
(* with any other value, the answer is 428 or 412 and nothing changes.)    *)
Send(q) ==
  /\ call[q] = Unsent
  /\ \E e \in given :
        \/ \E b \in Bodies :
              call' = [call EXCEPT ![q] = [op |-> "patch", body |-> b, etag |-> e]]
        \/ \E o \in {"delete", "reprocess"} :
              call' = [call EXCEPT ![q] = [op |-> o, etag |-> e]]
  /\ UNCHANGED <<row, holder, copy, given, applied, reader, trail>>

(* A call that was sent may reach the API any number of times: answers get *)
(* lost, and clients and proxies repeat what they have no answer to.       *)
Arrive(q) ==
  /\ call[q] # Unsent
  /\ Load(q)
  /\ UNCHANGED <<row, call, given, applied, reader, trail>>

(* Slip: any revision up to the current one is accepted. *)
RevisionNotAhead(q) == call[q].etag.revision <= copy[q].revision

(* check_revision *)
RevisionHolds(q) == call[q].etag.revision = copy[q].revision

(* Slip: reprocess leaves the revision alone. *)
RequeuedSilently(r) == [r EXCEPT !.status = "pending"]

Requeued(r) == [r EXCEPT !.status = "pending", !.revision = @ + 1]

(* Fields that are not supplied keep their values. *)
Patched(r, body) ==
  [r EXCEPT !.meta = [f \in Fields |-> IF f \in DOMAIN body THEN body[f] ELSE r.meta[f]],
            !.revision = @ + 1]

Changes(r, body) == \E f \in DOMAIN body : body[f] # r.meta[f]

(* The answer, if it arrives, carries the revision and the metadata. *)
Answered(r) == given' \in {given, given \cup {EtagOf(r)}}

(* A row is written, and an audit event beside it.                         *)
Write(q, r, told) ==
  /\ row' = r
  /\ trail' = told
  /\ applied' = applied \cup {q}
  /\ Answered(r)

Patch(q) ==
  /\ call[q].op = "patch"
  /\ RevisionHolds(q)
  /\ IF Changes(copy[q], call[q].body)
       THEN Write(q, Patched(copy[q], call[q].body),
                  [trail EXCEPT !.revision = copy[q].revision + 1])
       ELSE Answered(copy[q]) /\ UNCHANGED <<row, applied, trail>>

Delete(q) ==
  /\ call[q].op = "delete"
  /\ RevisionHolds(q)
  /\ row' = Gone
  /\ trail' = [trail EXCEPT !.deleted = TRUE]
  /\ applied' = applied \cup {q}
  /\ UNCHANGED given

(* Slip: whatever has ended can be reprocessed. *)
ReprocessableEnded(r) == r.status \in {"failed", "succeeded"}

Reprocessable(r) == r.status = "failed"

(* Its event does not name the revision, which one has to count. *)
Reprocess(q) ==
  /\ call[q].op = "reprocess"
  /\ RevisionHolds(q)
  /\ Reprocessable(copy[q])
  /\ Write(q, Requeued(copy[q]), [trail EXCEPT !.status = "pending", !.revision = @ + 1])

(* Stale revision, or nothing to reprocess: 412 or 409. *)
Refuse(q) ==
  /\ ~RevisionHolds(q) \/ (call[q].op = "reprocess" /\ ~Reprocessable(copy[q]))
  /\ UNCHANGED <<row, given, applied, trail>>

Decide(q) ==
  /\ Release(q)
  /\ Patch(q) \/ Delete(q) \/ Reprocess(q) \/ Refuse(q)
  /\ UNCHANGED <<call, reader>>

-----------------------------------------------------------------------------
(* The worker: claim and finish lock the document after the job, and       *)
(* _transition saves it.  What may follow what is the business of Ledger.  *)

WorkerLoads ==
  /\ Live /\ row.status \in {"pending", "processing"}
  /\ Load(Worker)
  /\ UNCHANGED <<row, call, given, applied, reader, trail>>

Transition(r, s, t) == [r EXCEPT !.status = s, !.text = t]

(* The event tells the status that was loaded and the one that follows. *)
MovesTo(s, t) ==
  /\ row' = Transition(copy[Worker], s, t)
  /\ trail' = [trail EXCEPT !.status = s, !.chained = @ /\ copy[Worker].status = trail.status]

WorkerSaves ==
  /\ Release(Worker)
  /\ \/ copy[Worker].status = "pending" /\ MovesTo("processing", copy[Worker].text)
     \/ /\ copy[Worker].status = "processing"
        /\ \/ MovesTo("succeeded", "extracted")
           \/ \E s \in {"pending", "failed"} : MovesTo(s, copy[Worker].text)
  /\ UNCHANGED <<call, given, applied, reader>>

-----------------------------------------------------------------------------
(* GET .../text/: get_object defers extracted_text, so the answer takes    *)
(* two reads outside any transaction, the status first.                    *)

(* Slip: the text is read first. *)
FirstReadText == [status |-> "unread", text |-> row.text, code |-> "none"]

FirstRead == [status |-> row.status, text |-> "unread", code |-> "none"]

Half(a) == a.code = "none" /\ a # NoAnswer

(* A document that is not there is answered 404, which leaves no trace.    *)
AskText(r) ==
  /\ ~Half(reader[r])
  /\ \/ Live /\ reader' = [reader EXCEPT ![r] = FirstRead]
     \/ reader' = [reader EXCEPT ![r] = Unavailable]
  /\ UNCHANGED <<row, holder, copy, call, given, applied, trail>>

(* What was not read before is read now. *)
Completed(a) ==
  [status |-> IF a.status = "unread" THEN row.status ELSE a.status,
   text   |-> IF a.text = "unread" THEN row.text ELSE a.text,
   code   |-> "ok"]

(* The deferred field of a document that is gone by now cannot be loaded:  *)
(* Document.DoesNotExist, which exception_handler answers with 500.  What  *)
(* it answers with 503 may happen to any document.                         *)
GetText(r) ==
  /\ Half(reader[r])
  /\ \/ Live /\ reader' = [reader EXCEPT ![r] = Completed(@)]
     \/ ~Live /\ reader' = [reader EXCEPT ![r].code = "error"]
     \/ reader' = [reader EXCEPT ![r] = Unavailable]
  /\ UNCHANGED <<row, holder, copy, call, given, applied, trail>>

-----------------------------------------------------------------------------
Next ==
  \/ Retrieve
  \/ \E q \in Calls : Send(q) \/ Arrive(q) \/ Decide(q) \/ RollBack(q)
  \/ WorkerLoads \/ WorkerSaves \/ RollBack(Worker)
  \/ \E r \in Readers : AskText(r) \/ GetText(r)

Spec == Init /\ [][Next]_vars

-----------------------------------------------------------------------------
(* "Two tabs cannot silently overwrite a concurrent metadata edit": the    *)
(* metadata changes only by a call whose sender had seen, with the         *)
(* revision it sent, exactly the metadata that it replaces.                *)
InformedEdit ==
  Live /\ row' # Gone /\ row'.meta # row.meta =>
     \E q \in Calls : copy[q] # NoCopy /\ copy'[q] = NoCopy /\ call[q].etag.meta = row.meta

NoSilentOverwrite == [][InformedEdit]_vars

(* Saves write whole rows, yet each changes what it is about and nothing   *)
(* else: a worker status and text, an edit metadata, a reprocess call the  *)
(* status, the last two counted by the revision.  No write is undone.      *)
KeepsEdit == row'.meta = row.meta /\ row'.revision = row.revision
KeepsRun ==
  /\ row'.revision = row.revision + 1
  /\ row'.text = row.text
  /\ \/ row'.status = row.status
     \/ row'.meta = row.meta /\ row.status = "failed" /\ row'.status = "pending"

SavesKeepOthers == [][Live /\ row' # Gone => KeepsEdit \/ KeepsRun]_vars

(* A repeated call has no second effect, whatever happened between. *)
AppliedOnce ==
  [][\A q \in applied : copy[q] # NoCopy /\ copy'[q] = NoCopy => row' = row]_vars

(* An ETag stands for one state of the metadata: whoever is given the same *)
(* revision, in whichever answer, is shown the same.  (If-Match and every  *)
(* comparison of revisions rest on it.)                                    *)
EtagsTrue == \A e, f \in given : e.revision = f.revision => e.meta = f.meta

(* Who is told that a document succeeded is given its text. *)
TextOfSuccess ==
  \A r \in Readers :
     reader[r].code = "ok" /\ reader[r].status = "succeeded" => reader[r].text = "extracted"

(* The audit trail can be trusted: what its events tell adds up to the     *)
(* committed row, without a gap, and outlives it.                          *)
TrailTells ==
  trail.chained /\ IF Live
                     THEN trail.status = row.status /\ trail.revision = row.revision /\ ~trail.deleted
                     ELSE trail.deleted

(* Text that a client was given is final: as long as the document is there *)
(* it is shown as succeeded and with its text, whatever calls, repetitions *)
(* and runs of other workers come after it.                                *)
TextStays ==
  Live => \A r \in Readers :
     reader[r].code = "ok" /\ reader[r].text = "extracted" =>
        row.status = "succeeded" /\ row.text = "extracted"

(* A deleted document "immediately disappears from the API": who asks for  *)
(* it is told that it is not there, never that the service has failed.     *)
AbsentNotFailed == \A r \in Readers : reader[r].code # "error"
=============================================================================
