--------------------------- MODULE DocumentStatus ---------------------------
(***************************************************************************)
(* What the service promises about one document, and no more: the status   *)
(* diagram a client sees (Document.Status), with the number of attempts    *)
(* and the text that come with it.  There are no jobs, tokens, leases or   *)
(* workers here; module Ledger is shown to implement it.                   *)
(***************************************************************************)
EXTENDS Integers

CONSTANTS
  Docs,     \* documents
  Limit,    \* processing attempts per request for processing
  Results   \* what a run may extract

VARIABLES
  status,    \* status[d]: what GET .../status shows, or absent or deleted
  attempts,  \* attempts[d]: attempts started since the last request
  text       \* text[d]: the extracted text: empty, or one result

view == <<status, attempts, text>>

Waiting == {"pending", "processing"}

Becomes(d, s, n, t) ==
  /\ status' = [status EXCEPT ![d] = s]
  /\ attempts' = [attempts EXCEPT ![d] = n]
  /\ text' = [text EXCEPT ![d] = t]

Init ==
  /\ status = [d \in Docs |-> "absent"]
  /\ attempts = [d \in Docs |-> 0]
  /\ text = [d \in Docs |-> {}]

(* An accepted upload. *)
Accept(d) == status[d] = "absent" /\ Becomes(d, "pending", 0, {})

(* claim and lease *)
Start(d) ==
  /\ status[d] = "pending" /\ attempts[d] < Limit
  /\ Becomes(d, "processing", attempts[d] + 1, text[d])

(* fenced result commit: the only step that stores text *)
Succeed(d) ==
  /\ status[d] = "processing"
  /\ \E r \in Results : Becomes(d, "succeeded", attempts[d], {r})

(* transient failure or lost worker *)
Retry(d) ==
  /\ status[d] = "processing" /\ attempts[d] < Limit
  /\ Becomes(d, "pending", attempts[d], text[d])

(* permanent error or attempts exhausted *)
Fail(d) == status[d] = "processing" /\ Becomes(d, "failed", attempts[d], text[d])

(* authorized manual reprocess *)
Reprocess(d) == status[d] = "failed" /\ Becomes(d, "pending", 0, text[d])

(* Deletion is final: no later step brings the document back. *)
Delete(d) == status[d] \notin {"absent", "deleted"} /\ Becomes(d, "deleted", 0, {})

Step(d) ==
  \/ Accept(d) \/ Start(d) \/ Succeed(d) \/ Retry(d) \/ Fail(d)
  \/ Reprocess(d) \/ Delete(d)

Next == \E d \in Docs : Step(d)

Spec == Init /\ [][Next]_view
=============================================================================
