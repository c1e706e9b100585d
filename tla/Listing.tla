------------------------------ MODULE Listing ------------------------------
(***************************************************************************)
(* A client pages through a list of the API, newest first, while jobs and  *)
(* documents move (documents/views.py, core/pagination.py).                *)
(*                                                                         *)
(* A page takes two queries outside any transaction, the count and then    *)
(* the slice, and a client takes one page after the other: what it sees in *)
(* the end is a mixture of many moments.  Entries are numbered by          *)
(* created_at and appear in that order, as those of one owner do, whose    *)
(* row is locked before created_at is drawn.                               *)
(***************************************************************************)
EXTENDS Backlog

CONSTANTS
  Lists,    \* the lists considered: "jobs", "pending", "documents"
  PageSize  \* page_size

ASSUME ListsAssumption ==
  Lists \subseteq {"jobs", "pending", "documents"} /\ PageSize \in Nat \ {0}

VARIABLE walk  \* one client on its way through one list

lvars == <<vars, walk>>

-----------------------------------------------------------------------------
(* The views.  Pending covers what waits for its back-off and what is due. *)
AllJobs == {j \in Jobs : state[j] # "absent"}
PendingJobs == {j \in Jobs : state[j] \in {"waiting", "due"}}
Documents == live

Listed(l) ==
  CASE l = "jobs"      -> AllJobs
    [] l = "pending"   -> PendingJobs
    [] l = "documents" -> Documents

(* Slip: what is due comes first. *)
DueFirst(k, j) == IF IsDue(k) <=> IsDue(j) THEN k >= j ELSE IsDue(k)

(* order_by("-created_at", "-id") *)
NotAfter(k, j) == k >= j

(* The number of j in list l. *)
Position(l, j) == Cardinality({k \in Listed(l) : NotAfter(k, j)})

(* count is of the page asked for last.  The rest serves the properties:   *)
(* unseen, entries listed from the start on and not shown yet; shown, all  *)
(* entries shown; repeats, those shown again; gone and come, how often     *)
(* entries have left and joined the list, late since the last count.       *)
(* All are counted up to N.                                                *)
Walks ==
  [pc : {"off", "counted", "next", "over", "refused"}, list : Lists, page : 1..N + 1,
   count : 0..N, unseen : SUBSET Jobs, shown : SUBSET Jobs,
   repeats : 0..N, gone : 0..N, come : 0..N, late : 0..N]

LTypeOK == TypeOK /\ walk \in Walks

LInit ==
  /\ Init
  /\ \E l \in Lists :
       walk = [pc |-> "off", list |-> l, page |-> 1, count |-> 0, unseen |-> {}, shown |-> {},
               repeats |-> 0, gone |-> 0, come |-> 0, late |-> 0]

Plus(n, S) == IF n + Cardinality(S) <= N THEN n + Cardinality(S) ELSE N

Walking == walk.pc \in {"counted", "next"}

(* A step of the service, as the list of the walk sees it. *)
Moves ==
  /\ Next
  /\ \E l \in {walk.list} :
       LET left   == Listed(l) \ Listed(l)'
           joined == Listed(l)' \ Listed(l) IN
       walk' = IF Walking
                 THEN [walk EXCEPT !.unseen = @ \ left, !.gone = Plus(@, left),
                                   !.come = Plus(@, joined),
                                   !.late = IF walk.pc = "counted" THEN Plus(@, joined) ELSE @]
                 ELSE walk

Counted(w) == [w EXCEPT !.pc = "counted", !.count = Cardinality(Listed(w.list)), !.late = 0]

Start ==
  /\ walk.pc = "off"
  /\ walk' = Counted([walk EXCEPT !.unseen = Listed(walk.list)])
  /\ UNCHANGED vars

(* There is always a first page; any other has at least one entry. *)
Valid(page, count) == page = 1 \/ (page - 1) * PageSize < count

(* Slip: a full last page has a successor. *)
HasNextTouching(page, count) == page * PageSize <= count

HasNext(page, count) == page * PageSize < count

(* The client follows the link to the next page: 404 if it is not there.   *)
Ask ==
  /\ walk.pc = "next"
  /\ walk' = IF Valid(walk.page, Cardinality(Listed(walk.list)))
               THEN Counted(walk) ELSE [walk EXCEPT !.pc = "refused"]
  /\ UNCHANGED vars

(* The slice ends with the page or the count, whichever comes first.       *)
Slice(page, count) ==
  {j \in Listed(walk.list) :
     LET p == Position(walk.list, j) IN
     p > (page - 1) * PageSize /\ p <= page * PageSize /\ p <= count}

Fetch ==
  /\ walk.pc = "counted"
  /\ \E these \in {Slice(walk.page, walk.count)} :
       walk' = [walk EXCEPT
         !.unseen = @ \ these, !.shown = @ \cup these,
         !.repeats = Plus(@, walk.shown \cap these),
         !.pc = IF HasNext(walk.page, walk.count) THEN "next" ELSE "over",
         !.page = @ + 1, !.count = 0]
  /\ UNCHANGED vars

LNext == Moves \/ Start \/ Ask \/ Fetch

LSpec == LInit /\ [][LNext]_lvars

-----------------------------------------------------------------------------
(* What a client has missed at the end of its walk, although it was there  *)
(* all the time, is at most what left the list meanwhile and what joined   *)
(* between the two queries of the last page.                               *)
MissedBounded ==
  walk.pc \in {"over", "refused"} => Cardinality(walk.unseen) <= walk.gone + walk.late

(* Entries are shown twice only because others have joined the list. *)
RepeatsBounded == walk.repeats <= walk.come

(* Who follows a link to the next page is told that there is none only if  *)
(* entries have left the list.                                             *)
LinkHolds == walk.pc = "refused" => walk.gone > 0
=============================================================================
