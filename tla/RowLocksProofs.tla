--------------------------- MODULE RowLocksProofs ---------------------------
(***************************************************************************)
(* No set of transactions of RowLocks is ever deadlocked, whatever the     *)
(* sessions, documents, users and owners are.                              *)
(***************************************************************************)
EXTENDS RowLocks, TLAPS

(* What a transaction waits for: its place in the locking order. *)
Asks(l) ==
  CASE l.row.table = "job" -> 1
    [] l.row.table = "document" -> 2
    [] l.row.table = "user" /\ l.mode = "update" -> 3
    [] l.row.table = "user" /\ l.mode # "update" -> 4
    [] OTHER -> 5

(* What a lock that is held counts for: a user is a user. *)
Counts(h) ==
  CASE h.row.table = "job" -> 1
    [] h.row.table = "document" -> 2
    [] h.row.table = "user" -> 4
    [] OTHER -> 5

(* Who has a job asks only for what belongs to it. *)
Near(h, l) ==
  h.row.table = "job" => l.row \in {h.row, Document(h.row.of), User(OwnerOf[h.row.of])}

(* h may be held when l is asked for. *)
Before(h, l) ==
  \/ l.skip
  \/ /\ Near(h, l)
     /\ \/ Counts(h) < Asks(l)
        \/ h.row = l.row /\ h.mode = "update"
        \/ /\ h.row.table = "user" /\ h.mode = "keyshare"
           /\ l.row.table = "user" /\ l.mode = "keyshare"

Sorted(p) == \A i, j \in 1..Len(p) : i < j => Before(p[i], p[j])

Ordered == \A s \in Sessions : Sorted(plan[s]) /\ \A h \in held[s], i \in 1..Len(plan[s]) :
                                                     Before(h, plan[s][i])

(* Locks that are held agree with each other. *)
Compatible ==
  \A s, t \in Sessions : s # t =>
     \A h \in held[s], k \in held[t] : h.row = k.row => <<h.mode, k.mode>> \notin Conflict

IInv == TypeOK /\ Ordered /\ Compatible

-----------------------------------------------------------------------------
(* Every transaction of the service asks for its locks in order. *)
LEMMA PlansSorted == \A p \in Plans : p \in Seq(Lock) /\ Sorted(p)
<1> DEFINE Good(p) == p \in Seq(Lock) /\ Sorted(p)
<1>1. ASSUME NEW d \in Docs PROVE Good(Claim(d)) /\ Good(Finish(d))
  BY OwnersAssumption DEF Claim, Finish, ForUpdate, Refer, Job, Document, User,
     Lock, Row, Modes, Sorted, Before, Near, Asks, Counts
<1>2. ASSUME NEW d \in Docs PROVE Good(Recover(d))
  BY OwnersAssumption DEF Recover, SkipLocked, ForUpdate, Refer, Job, Document, User,
     Lock, Row, Modes, Sorted, Before, Near, Asks, Counts
<1>3. ASSUME NEW d \in Docs
      PROVE Good(RunCleanup(d)) /\ Good(RecoverCleanup(d)) /\ Good(Expedite(d))
  BY DEF RunCleanup, RecoverCleanup, Expedite, SkipLocked, ForUpdate, Update, Cleanup,
     Lock, Row, Modes, Sorted, Before, Near
<1>4. ASSUME NEW d \in Docs PROVE Good(Create(d))
  BY OwnersAssumption DEF Create, ForUpdate, Update, Cleanup, User,
     Lock, Row, Modes, Sorted, Before, Near, Asks, Counts
<1>5. ASSUME NEW d \in Docs, NEW e \in Docs PROVE Good(Dispatch(d, e))
  BY DEF Dispatch, SkipLocked, Job, Cleanup, Lock, Row, Modes, Sorted, Before, Near
<1>6. ASSUME NEW d \in Docs, NEW u \in Users PROVE Good(Change(d, u))
  BY OwnersAssumption DEF Change, ForUpdate, Refer, Document, User,
     Lock, Row, Modes, Sorted, Before, Near, Asks, Counts
<1> HIDE DEF Good
<1>7. ASSUME NEW p \in Plans PROVE Good(p)
  BY <1>1, <1>2, <1>3, <1>4, <1>5, <1>6 DEF Plans, WorkerPlans, CleanupPlans, ApiPlans
<1> QED
  BY <1>7 DEF Good

-----------------------------------------------------------------------------
(* What becomes of a session's plan and locks in one step. *)
Begins(s)   == held[s] = {} /\ plan'[s] \in Plans /\ held'[s] = {}
Acquires(s) == /\ plan[s] # <<>> /\ Granted(s, Head(plan[s]))
               /\ plan'[s] = Tail(plan[s])
               /\ held'[s] = held[s] \cup {[row |-> Head(plan[s]).row, mode |-> Head(plan[s]).mode]}
Drops(s)    == plan[s] # <<>> /\ plan'[s] \in {<<>>, Tail(plan[s])} /\ held'[s] = held[s]
Ends(s)     == plan'[s] = <<>> /\ held'[s] = {}

LEMMA StepOfOne ==
  ASSUME TypeOK, Next
  PROVE  \E s \in Sessions :
            /\ Begins(s) \/ Acquires(s) \/ Drops(s) \/ Ends(s)
            /\ \A t \in Sessions \ {s} : plan'[t] = plan[t] /\ held'[t] = held[t]
            /\ plan' = [plan EXCEPT ![s] = plan'[s]] /\ held' = [held EXCEPT ![s] = held'[s]]
<1>1. PICK s \in Sessions : Begin(s) \/ Acquire(s) \/ Skip(s) \/ End(s)
  BY DEF Next
<1>2. CASE Begin(s)
  BY <1>1, <1>2 DEF Begin, TypeOK, Begins
<1>3. CASE Acquire(s)
  BY <1>1, <1>3 DEF Acquire, TypeOK, Acquires
<1>4. CASE Skip(s)
  BY <1>1, <1>4 DEF Skip, TypeOK, Drops
<1>5. CASE End(s)
  BY <1>1, <1>5 DEF End, TypeOK, Ends
<1> QED
  BY <1>1, <1>2, <1>3, <1>4, <1>5

(* The first request of a sorted plan may leave it. *)
LEMMA TailSorted ==
  ASSUME NEW p \in Seq(Lock), p # <<>>, Sorted(p)
  PROVE  /\ Tail(p) \in Seq(Lock) /\ Sorted(Tail(p))
         /\ Head(p) \in Lock /\ Head(p) = p[1]
         /\ \A i \in 1..Len(Tail(p)) : Tail(p)[i] = p[i + 1] /\ i + 1 \in 1..Len(p)
         /\ \A i \in 1..Len(Tail(p)) : Before(Head(p), Tail(p)[i])
<1>1. Len(p) \in Nat /\ Len(p) > 0 /\ Head(p) = p[1] /\ Head(p) \in Lock
  OBVIOUS
<1>2. Tail(p) \in Seq(Lock) /\ Len(Tail(p)) = Len(p) - 1
  OBVIOUS
<1>3. \A i \in 1..Len(Tail(p)) : Tail(p)[i] = p[i + 1] /\ i + 1 \in 1..Len(p)
  BY <1>1, <1>2
<1>4. \A i \in 1..Len(Tail(p)) : Before(p[1], p[i + 1])
  BY <1>1, <1>3 DEF Sorted
<1>5. Sorted(Tail(p))
  BY <1>1, <1>2, <1>3 DEF Sorted
<1> QED
  BY <1>1, <1>2, <1>3, <1>4, <1>5

LEMMA TypesKept == ASSUME TypeOK, Ordered, Next PROVE TypeOK'
<1>1. PICK s \in Sessions :
        /\ Begins(s) \/ Acquires(s) \/ Drops(s) \/ Ends(s)
        /\ plan' = [plan EXCEPT ![s] = plan'[s]] /\ held' = [held EXCEPT ![s] = held'[s]]
  BY StepOfOne
<1>2. plan[s] \in Seq(Lock) /\ held[s] \in SUBSET Locks /\ Sorted(plan[s])
  BY DEF TypeOK, Ordered
<1>3. plan[s] # <<>> => Tail(plan[s]) \in Seq(Lock) /\ Head(plan[s]) \in Lock
  BY <1>2, TailSorted
<1>4. plan'[s] \in Seq(Lock)
  <2>1. <<>> \in Seq(Lock)
    OBVIOUS
  <2>2. CASE Begins(s)
    BY <2>2, PlansSorted DEF Begins
  <2> QED
    BY <2>1, <2>2, <1>1, <1>3 DEF Acquires, Drops, Ends
<1>5. plan[s] # <<>> => [row |-> Head(plan[s]).row, mode |-> Head(plan[s]).mode] \in Locks
  BY <1>3 DEF Lock, Locks
<1>6. held'[s] \in SUBSET Locks
  BY <1>1, <1>2, <1>5 DEF Begins, Acquires, Drops, Ends
<1> QED
  BY <1>1, <1>4, <1>6 DEF TypeOK

(* A granted lock is one that nobody else's lock is against.               *)
LEMMA CompatibleKept == ASSUME TypeOK, Compatible, Next PROVE Compatible'
<1>1. PICK s \in Sessions :
        /\ Begins(s) \/ Acquires(s) \/ Drops(s) \/ Ends(s)
        /\ \A t \in Sessions \ {s} : plan'[t] = plan[t] /\ held'[t] = held[t]
  BY StepOfOne
<1> DEFINE l == Head(plan[s])
           new == [row |-> l.row, mode |-> l.mode]
<1>2. \A h, k \in Modes : <<h, k>> \in Conflict <=> <<k, h>> \in Conflict
  BY DEF Conflict, Modes
<1>3. held'[s] \subseteq held[s] \/ (Granted(s, l) /\ held'[s] = held[s] \cup {new} /\ plan[s] # <<>>)
  BY <1>1 DEF Begins, Acquires, Drops, Ends
<1>4. ASSUME NEW t \in Sessions \ {s}, NEW h \in held'[s], NEW k \in held[t], h.row = k.row
      PROVE  <<h.mode, k.mode>> \notin Conflict /\ <<k.mode, h.mode>> \notin Conflict
  <2>1. CASE h \in held[s]
    BY <2>1, <1>4 DEF Compatible
  <2>2. CASE h = new /\ Granted(s, l) /\ plan[s] # <<>>
    <3>1. l \in Lock
      BY <2>2 DEF TypeOK
    <3>2. l.mode \in Modes /\ k.mode \in Modes
      BY <3>1 DEF TypeOK, Lock, Locks
    <3>3. ~Against(t, l)
      BY <2>2 DEF Granted
    <3>4. <<k.mode, l.mode>> \notin Conflict
      BY <3>3, <2>2, <1>4 DEF Against
    <3> QED
      BY <3>2, <3>4, <2>2, <1>2
  <2> QED
    BY <2>1, <2>2, <1>3
<1> QED
  BY <1>1, <1>4 DEF Compatible

LEMMA OrderedKept == ASSUME TypeOK, Ordered, Next PROVE Ordered'
<1>1. PICK s \in Sessions :
        /\ Begins(s) \/ Acquires(s) \/ Drops(s) \/ Ends(s)
        /\ \A t \in Sessions \ {s} : plan'[t] = plan[t] /\ held'[t] = held[t]
  BY StepOfOne
<1> DEFINE Fine(p, H) == Sorted(p) /\ \A h \in H, i \in 1..Len(p) : Before(h, p[i])
<1>2. \A t \in Sessions : Fine(plan[t], held[t])
  BY DEF Ordered
<1>3. \A H : Fine(<<>>, H)
  BY DEF Sorted
<1>4. CASE Begins(s)
  <2>1. Fine(plan'[s], held'[s])
    BY <1>4, PlansSorted DEF Begins
  <2> QED
    BY <2>1, <1>1, <1>2 DEF Ordered
<1>5. CASE Acquires(s)
  <2> DEFINE p == plan[s]
             new == [row |-> Head(p).row, mode |-> Head(p).mode]
  <2>1. p \in Seq(Lock) /\ p # <<>> /\ Sorted(p)
    BY <1>5, <1>2 DEF TypeOK, Acquires
  <2>2. /\ Sorted(Tail(p))
        /\ \A i \in 1..Len(Tail(p)) : Tail(p)[i] = p[i + 1] /\ i + 1 \in 1..Len(p)
        /\ \A i \in 1..Len(Tail(p)) : Before(Head(p), Tail(p)[i])
    BY <2>1, TailSorted
  <2>3. \A i \in 1..Len(Tail(p)) : Before(new, Tail(p)[i])
    BY <2>2 DEF Before, Near, Counts
  <2>4. \A h \in held[s], i \in 1..Len(Tail(p)) : Before(h, Tail(p)[i])
    BY <2>2, <1>2
  <2>5. Fine(plan'[s], held'[s])
    BY <2>2, <2>3, <2>4, <1>5 DEF Acquires
  <2> QED
    BY <2>5, <1>1, <1>2 DEF Ordered
<1>6. CASE Drops(s)
  <2>1. plan[s] \in Seq(Lock) /\ plan[s] # <<>> /\ Sorted(plan[s])
    BY <1>6, <1>2 DEF TypeOK, Drops
  <2>2. Fine(Tail(plan[s]), held[s])
    BY <2>1, <1>2, TailSorted
  <2>3. Fine(plan'[s], held'[s])
    BY <2>2, <1>3, <1>6 DEF Drops
  <2> QED
    BY <2>3, <1>1, <1>2 DEF Ordered
<1>7. CASE Ends(s)
  <2>1. Fine(plan'[s], held'[s])
    BY <1>3, <1>7 DEF Ends
  <2> QED
    BY <2>1, <1>1, <1>2 DEF Ordered
<1> QED
  BY <1>1, <1>4, <1>5, <1>6, <1>7

-----------------------------------------------------------------------------
(* Who is waited for and waits as well, waits for something later.         *)
Place(s) == Asks(Head(plan[s]))

LEMMA WaitsGoUp ==
  ASSUME IInv, NEW s \in Sessions, NEW t \in Sessions, NEW u \in Sessions,
         WaitsFor(s, t), WaitsFor(t, u)
  PROVE  Place(s) < Place(t)
<1> DEFINE l == Head(plan[s])
           m == Head(plan[t])
<1>1. l \in Lock /\ m \in Lock /\ ~m.skip /\ m = plan[t][1] /\ 1 \in 1..Len(plan[t])
  BY DEF IInv, TypeOK, WaitsFor
<1>2. PICK h \in held[t] : h.row = l.row /\ <<h.mode, l.mode>> \in Conflict
  BY DEF WaitsFor, Against
<1>3. PICK k \in held[u] : k.row = m.row /\ <<k.mode, m.mode>> \in Conflict
  BY DEF WaitsFor, Against
<1>4. h \in Locks /\ k \in Locks /\ u # t
  BY <1>2, <1>3 DEF IInv, TypeOK, WaitsFor
<1>5. Before(h, m)
  BY <1>1 DEF IInv, Ordered
<1>6. ~(h.row = m.row /\ h.mode = "update")
  <2> SUFFICES ASSUME h.row = m.row, h.mode = "update" PROVE FALSE
    OBVIOUS
  <2>1. <<h.mode, k.mode>> \notin Conflict
    BY <1>3, <1>4 DEF IInv, Compatible
  <2>2. <<h.mode, k.mode>> \in Conflict
    BY <1>4 DEF Conflict, Locks
  <2> QED
    BY <2>1, <2>2
<1>7. CASE Counts(h) < Asks(m)
  <2>1. Asks(l) <= Counts(h)
    BY <1>1, <1>2, <1>4 DEF Asks, Counts, Lock, Locks, Row
  <2> QED
    BY <2>1, <1>7, <1>1, <1>4 DEF Place, Asks, Counts
<1>8. CASE h.row.table = "user" /\ h.mode = "keyshare" /\ m.row.table = "user" /\ m.mode = "keyshare"
  <2>1. l.mode = "update"
    BY <1>8, <1>2, <1>1 DEF Conflict, Lock, Modes
  <2> QED
    BY <2>1, <1>8, <1>2 DEF Place, Asks
<1> QED
  BY <1>1, <1>5, <1>6, <1>7, <1>8 DEF Before

LEMMA NoCircle == IInv => NoDeadlock
<1> SUFFICES ASSUME IInv, NEW S \in SUBSET Sessions, S # {},
                    \A s \in S : \E t \in S : WaitsFor(s, t)
             PROVE  FALSE
  BY DEF NoDeadlock
<1> DEFINE Some(n) == \E s \in S : Place(s) = n
<1>1. \A s \in S : Place(s) \in 1..5
  BY DEF Place, Asks
<1>2. \A s \in S : \E t \in S : Place(s) < Place(t)
  BY WaitsGoUp
<1>3. ~Some(5)
  BY <1>1, <1>2
<1>4. ~Some(4)
  BY <1>1, <1>2, <1>3
<1>5. ~Some(3)
  BY <1>1, <1>2, <1>3, <1>4
<1>6. ~Some(2)
  BY <1>1, <1>2, <1>3, <1>4, <1>5
<1>7. ~Some(1)
  BY <1>1, <1>2, <1>3, <1>4, <1>5, <1>6
<1> QED
  BY <1>1, <1>3, <1>4, <1>5, <1>6, <1>7

LEMMA Inductive == Spec => []IInv
<1>1. Init => IInv
  BY DEF Init, IInv, TypeOK, Ordered, Sorted, Compatible
<1>2. IInv /\ [Next]_vars => IInv'
  <2> SUFFICES ASSUME IInv, [Next]_vars PROVE IInv'
    OBVIOUS
  <2>1. CASE Next
    BY <2>1, TypesKept, OrderedKept, CompatibleKept DEF IInv
  <2>2. CASE UNCHANGED vars
    BY <2>2 DEF vars, IInv, TypeOK, Ordered, Sorted, Compatible
  <2> QED
    BY <2>1, <2>2
<1> QED
  BY <1>1, <1>2, PTL DEF Spec

(* Transactions of the service never wait for each other in a circle: each *)
(* takes its locks in the order job, document, user, cleanup job, and who  *)
(* does not (dispatch_once) never waits.                                   *)
THEOREM DeadlockFree == Spec => []NoDeadlock
<1>1. IInv => NoDeadlock
  BY NoCircle
<1> QED
  BY <1>1, Inductive, PTL

(* Plans and locks keep their types, whatever is skipped or cut short. *)
THEOREM TypeCorrect == Spec => []TypeOK
<1>1. IInv => TypeOK
  BY DEF IInv
<1> QED
  BY <1>1, Inductive, PTL

(* Who has a job locked and waits, waits for that job's document or owner: *)
(* it asks for nothing else, and never waits for a row that it has.        *)
THEOREM WaitsLocal == Spec => []WaitsStayLocal
<1>1. ASSUME IInv, NEW s \in Sessions, NEW t \in Sessions, WaitsFor(s, t),
             NEW h \in held[s], h.row.table = "job"
      PROVE  Head(plan[s]).row \in {Document(h.row.of), User(OwnerOf[h.row.of])}
  <2> DEFINE l == Head(plan[s])
  <2>1. l \in Lock /\ ~l.skip /\ l = plan[s][1] /\ 1 \in 1..Len(plan[s]) /\ s # t
    BY <1>1 DEF IInv, TypeOK, WaitsFor
  <2>2. Before(h, l)
    BY <1>1, <2>1 DEF IInv, Ordered
  <2>3. PICK k \in held[t] : k.row = l.row
    BY <1>1 DEF WaitsFor, Against
  <2>4. h.mode \in Modes /\ k.mode \in Modes
    BY <1>1, <2>3 DEF IInv, TypeOK, Locks
  <2>5. ASSUME l.row = h.row PROVE FALSE
    <3>1. h.mode = "update"
      BY <1>1, <2>1, <2>2, <2>5 DEF Before, Counts, Asks
    <3>2. <<h.mode, k.mode>> \notin Conflict
      BY <1>1, <2>1, <2>3, <2>5 DEF IInv, Compatible
    <3> QED
      BY <2>4, <3>1, <3>2 DEF Conflict
  <2> QED
    BY <1>1, <2>1, <2>2, <2>5 DEF Before, Near
<1>2. IInv => WaitsStayLocal
  BY <1>1 DEF WaitsStayLocal
<1> QED
  BY <1>2, Inductive, PTL
=============================================================================
