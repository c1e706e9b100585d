------------------------------ MODULE RowLocks ------------------------------
(***************************************************************************)
(* The row locks that the transactions of the service take, and in which   *)
(* order: PostgreSQL grants a lock when no other transaction holds a       *)
(* conflicting one on the row, otherwise the transaction waits.  A lock is *)
(* kept until its transaction ends, which it may do at any point: early    *)
(* returns, errors, timeouts and dead processes release everything.        *)
(*                                                                         *)
(* What the transactions read and write is the business of Ledger.         *)
(***************************************************************************)
EXTENDS Sequences, Integers

CONSTANTS
  Sessions,  \* database connections: workers, API processes, dispatchers, commands
  Docs,      \* upload requests, which name a document, its OCR job and its intent
  Users,     \* accounts
  OwnerOf    \* OwnerOf[d]: the owner of document d

ASSUME OwnersAssumption == OwnerOf \in [Docs -> Users]

VARIABLES
  plan,  \* plan[s]: locks the transaction of s has yet to take, in order
  held   \* held[s]: locks the transaction of s holds

vars == <<plan, held>>

-----------------------------------------------------------------------------
(* Rows, and how they are locked: select_for_update and DELETE exclude     *)
(* everything; an UPDATE that leaves the key alone excludes other writers; *)
(* a row that refers to a user, checked when its transaction commits, only *)
(* keeps the user from being locked for update.                            *)
Row == [table : {"job", "document", "cleanup"}, of : Docs] \cup [table : {"user"}, of : Users]

Job(d)      == [table |-> "job", of |-> d]
Document(d) == [table |-> "document", of |-> d]
Cleanup(d)  == [table |-> "cleanup", of |-> d]
User(u)     == [table |-> "user", of |-> u]

Modes == {"update", "write", "keyshare"}

Conflict == {<<"update", m>> : m \in Modes} \cup {<<m, "update">> : m \in Modes}
              \cup {<<"write", "write">>}

(* skip: SKIP LOCKED, the row is left out instead of waited for. *)
Lock == [row : Row, mode : Modes, skip : BOOLEAN]

ForUpdate(r)  == [row |-> r, mode |-> "update", skip |-> FALSE]
SkipLocked(r) == [row |-> r, mode |-> "update", skip |-> TRUE]
Update(r)     == [row |-> r, mode |-> "write", skip |-> FALSE]

Refer(r) == [row |-> r, mode |-> "keyshare", skip |-> FALSE]

-----------------------------------------------------------------------------
(* The transactions.  An audit event refers to the owner and to the actor. *)

(* Slip: finish locks the document before it looks at the job. *)
FinishDocumentFirst(d) ==
  <<ForUpdate(Document(d)), ForUpdate(Job(d)), Refer(User(OwnerOf[d]))>>

Claim(d)  == <<ForUpdate(Job(d)), ForUpdate(Document(d)), Refer(User(OwnerOf[d]))>>
Finish(d) == <<ForUpdate(Job(d)), ForUpdate(Document(d)), Refer(User(OwnerOf[d]))>>

(* recover_expired ends in finish, which locks the job once more. *)
Recover(d) ==
  <<SkipLocked(Job(d)), ForUpdate(Job(d)), ForUpdate(Document(d)), Refer(User(OwnerOf[d]))>>

(* claim and finish of a DELETE job, and retry_cleanup *)
RunCleanup(d) == <<ForUpdate(Cleanup(d))>>
RecoverCleanup(d) == <<SkipLocked(Cleanup(d)), ForUpdate(Cleanup(d))>>

(* Slip: dispatch_once waits for the rows it selects. *)
DispatchWaiting(d, e) ==
  <<ForUpdate(Job(d)), ForUpdate(Cleanup(d)), ForUpdate(Job(e)), ForUpdate(Cleanup(e))>>

(* dispatch_once locks what it can get and stamps it. *)
Dispatch(d, e) ==
  <<SkipLocked(Job(d)), SkipLocked(Cleanup(d)), SkipLocked(Job(e)), SkipLocked(Cleanup(e))>>

(* PATCH, DELETE and reprocess by the owner or by staff *)
Change(d, actor) == <<ForUpdate(Document(d)), Refer(User(OwnerOf[d])), Refer(User(actor))>>

(* Upload: the owner is locked, then the intent is closed or made due.     *)
(* (What the new rows refer to is the owner, who is locked already.)       *)
Create(d) == <<ForUpdate(User(OwnerOf[d])), Update(Cleanup(d))>>

Expedite(d) == <<Update(Cleanup(d))>>

WorkerPlans == {Claim(d) : d \in Docs} \cup {Finish(d) : d \in Docs} \cup {Recover(d) : d \in Docs}

CleanupPlans == {RunCleanup(d) : d \in Docs} \cup {RecoverCleanup(d) : d \in Docs}

ApiPlans ==
  {Create(d) : d \in Docs} \cup {Expedite(d) : d \in Docs}
    \cup {Change(d, u) : d \in Docs, u \in Users}

Plans == WorkerPlans \cup CleanupPlans \cup ApiPlans \cup {Dispatch(d, e) : d, e \in Docs}

-----------------------------------------------------------------------------
Locks == {[row |-> r, mode |-> m] : r \in Row, m \in Modes}

TypeOK ==
  /\ plan \in [Sessions -> Seq(Lock)]
  /\ held \in [Sessions -> SUBSET Locks]

Init ==
  /\ plan = [s \in Sessions |-> <<>>]
  /\ held = [s \in Sessions |-> {}]

(* t holds what l asks for. *)
Against(t, l) == \E h \in held[t] : h.row = l.row /\ <<h.mode, l.mode>> \in Conflict

Granted(s, l) == \A t \in Sessions \ {s} : ~Against(t, l)

Begin(s) ==
  /\ plan[s] = <<>> /\ held[s] = {}
  /\ \E p \in Plans : plan' = [plan EXCEPT ![s] = p]
  /\ UNCHANGED held

Acquire(s) ==
  /\ plan[s] # <<>>
  /\ LET l == Head(plan[s]) IN
     /\ Granted(s, l)
     /\ held' = [held EXCEPT ![s] = @ \cup {[row |-> l.row, mode |-> l.mode]}]
  /\ plan' = [plan EXCEPT ![s] = Tail(@)]

(* A locked row is left out.  dispatch_once goes on to the next one; a     *)
(* recovery has nothing left to do in this transaction.                    *)
Skip(s) ==
  /\ plan[s] # <<>>
  /\ Head(plan[s]).skip /\ ~Granted(s, Head(plan[s]))
  /\ plan' = [plan EXCEPT ![s] =
                IF Len(plan[s]) > 1 /\ plan[s][2].skip THEN Tail(plan[s]) ELSE <<>>]
  /\ UNCHANGED held

(* Commit, rollback, or the end of the connection. *)
End(s) ==
  /\ plan[s] # <<>> \/ held[s] # {}
  /\ plan' = [plan EXCEPT ![s] = <<>>]
  /\ held' = [held EXCEPT ![s] = {}]

Next == \E s \in Sessions : Begin(s) \/ Acquire(s) \/ Skip(s) \/ End(s)

Spec == Init /\ [][Next]_vars

-----------------------------------------------------------------------------
(* s cannot go on before t has ended. *)
WaitsFor(s, t) ==
  s # t /\ plan[s] # <<>> /\ ~Head(plan[s]).skip /\ Against(t, Head(plan[s]))

(* No group of transactions ever waits in a circle: job before document,   *)
(* document before user, user before cleanup job, whatever workers,        *)
(* recovery, dispatchers, uploads, edits and operators do at once.         *)
NoDeadlock ==
  \A S \in (SUBSET Sessions) \ {{}} : \E s \in S : \A t \in S : ~WaitsFor(s, t)

(* Whoever keeps a job locked while it waits, waits for that job's own     *)
(* document or for the owner of it: a slow lock on one document never      *)
(* holds up the jobs of another, and a dispatcher that has many jobs       *)
(* locked waits for nobody.                                                *)
WaitsStayLocal ==
  \A s, t \in Sessions :
     WaitsFor(s, t) =>
        \A h \in held[s] :
           h.row.table = "job" =>
              Head(plan[s]).row \in {Document(h.row.of), User(OwnerOf[h.row.of])}
=============================================================================
