---------------------------- MODULE TimingProofs ----------------------------
(***************************************************************************)
(* For all time limits with Hard + Slack < Lease, any number of processes  *)
(* and attempts: no worker ever loses its job to another, and no job is    *)
(* seen running longer than its lease and one pause of the dispatcher.     *)
(***************************************************************************)
EXTENDS Timing, TLAPS

(* The lease and the age of the task that took it grow apart by the same   *)
(* clock: what is left of the lease and the age are a whole lease or more. *)
Covered ==
  \A p \in Procs :
     /\ proc[p].age <= Hard + Slack
     /\ Working(p) => job.lease + proc[p].age >= Lease

(* Until it runs out the lease tells when the job was claimed; after that  *)
(* the dispatcher is due.                                                  *)
Counted ==
  /\ round <= Pause
  /\ job.state = "running" =>
       /\ job.lease > 0 => since + job.lease = Lease
       /\ job.lease = 0 => since <= Lease + round

IInv == TypeOK /\ WorkersHold /\ Covered /\ Counted

-----------------------------------------------------------------------------
(* What a retryable failure makes of a row. *)
LEMMA FailedType ==
  ASSUME NEW r \in Row, NEW x \in Failed(r)
  PROVE  x \in Row /\ x.state # "running" /\ x.token = r.token
<1>1. CASE r.attempts < MaxAttempts
  <2>1. PICK n \in Backoff(r.attempts) :
               x = [r EXCEPT !.state = "pending", !.lease = 0, !.wait = n]
    BY <1>1 DEF Failed
  <2>2. n \in Nat
    BY TimesAssumption DEF Backoff
  <2> QED
    BY <2>1, <2>2 DEF Row
<1>2. CASE ~(r.attempts < MaxAttempts)
  <2>1. x = [r EXCEPT !.state = "failed", !.lease = 0]
    BY <1>2 DEF Failed
  <2> QED
    BY <2>1 DEF Row
<1> QED
  BY <1>1, <1>2

LEMMA EndedType ==
  ASSUME NEW r \in Row, NEW x \in Ended(r)
  PROVE  x \in Row /\ x.state # "running"
<1>1. CASE x \in Failed(r)
  BY <1>1, FailedType
<1>2. CASE x \in {[r EXCEPT !.state = s, !.lease = 0] : s \in {"succeeded", "failed"}}
  <2>1. PICK s \in {"succeeded", "failed"} : x = [r EXCEPT !.state = s, !.lease = 0]
    BY <1>2
  <2> QED
    BY <2>1 DEF Row
<1> QED
  BY <1>1, <1>2 DEF Ended

(* Whoever works holds the lease: it has not run out. *)
LEMMA LeaseLeft == ASSUME IInv, NEW p \in Procs, Working(p) PROVE job.lease > 0
<1>1. job.lease \in Nat /\ proc[p].age \in Nat
  BY DEF IInv, TypeOK, Row, Tasks, Idle
<1> QED
  BY <1>1, TimesAssumption, LimitsAssumption DEF IInv, Covered

-----------------------------------------------------------------------------
LEMMA StartKeeps == ASSUME IInv, NEW p \in Procs, Start(p) PROVE IInv'
<1> USE DEF IInv
<1>1. TypeOK'
  BY DEF Start, TypeOK, Tasks
<1>2. \A q \in Procs : Working(q)' => q # p /\ Working(q) /\ proc'[q] = proc[q]
  BY DEF Start, TypeOK, Working
<1>3. WorkersHold'
  BY <1>2 DEF Start, WorkersHold
<1>4. Covered'
  BY <1>2, TimesAssumption DEF Start, Covered, TypeOK
<1>5. Counted'
  BY DEF Start, Counted
<1> QED
  BY <1>1, <1>3, <1>4, <1>5

LEMMA ClaimKeeps == ASSUME IInv, NEW p \in Procs, Claim(p) PROVE IInv'
<1> USE DEF IInv
<1>1. CASE job.state = "pending" /\ job.wait = 0
  <2>1. /\ job' = Claimed(job) /\ since' = 0 /\ round' = round
        /\ proc' = [proc EXCEPT ![p].pc = "working", ![p].token = job.token + 1]
    BY <1>1 DEF Claim
  <2>2. /\ proc[p] \in Tasks
        /\ proc'[p] = [proc[p] EXCEPT !.pc = "working", !.token = job.token + 1]
        /\ \A q \in Procs : q # p => proc'[q] = proc[q]
    BY <2>1 DEF Claim, TypeOK, Idle
  <2>3. /\ job' \in Row /\ job'.state = "running" /\ job'.token = job.token + 1
        /\ job'.lease = Lease
    <3>1. job' = [job EXCEPT !.state = "running", !.attempts = job.attempts + 1,
                             !.token = job.token + 1, !.lease = Lease]
      BY <2>1 DEF Claimed
    <3>2. job \in Row /\ job.attempts + 1 \in Nat /\ job.token + 1 \in Nat
      BY DEF TypeOK, Row
    <3>3. Lease \in Nat
      BY TimesAssumption
    <3> QED
      BY <3>1, <3>2, <3>3 DEF Row
  <2>4. \A q \in Procs : ~Working(q)
    BY <1>1 DEF WorkersHold
  <2>5. TypeOK'
    BY <2>1, <2>2, <2>3 DEF TypeOK, Tasks, Row
  <2>6. \A q \in Procs : Working(q)' => q = p
    BY <2>2, <2>4 DEF Working
  <2>7. WorkersHold'
    BY <2>2, <2>3, <2>6 DEF WorkersHold, Tasks
  <2>8. Covered'
    <3>1. proc'[p].age = proc[p].age /\ proc[p].age \in Nat
      BY <2>2 DEF Tasks
    <3>2. ASSUME NEW q \in Procs
          PROVE  /\ proc'[q].age <= Hard + Slack
                 /\ Working(q)' => job'.lease + proc'[q].age >= Lease
      <4>1. proc'[q].age <= Hard + Slack
        BY <3>1, <2>2 DEF Covered
      <4>2. CASE q = p
        BY <4>1, <4>2, <3>1, <2>3, TimesAssumption
      <4>3. CASE q # p
        BY <4>1, <4>3, <2>6
      <4> QED
        BY <4>2, <4>3
    <3> QED
      BY <3>2 DEF Covered
  <2>9. Counted'
    BY <2>1, <2>3, TimesAssumption DEF Counted, TypeOK
  <2> QED
    BY <2>5, <2>7, <2>8, <2>9
<1>2. CASE ~(job.state = "pending" /\ job.wait = 0)
  <2>1. proc' = [proc EXCEPT ![p] = Idle] /\ UNCHANGED <<job, since, round>>
    BY <1>2 DEF Claim
  <2>2. \A q \in Procs : Working(q)' => q # p /\ Working(q) /\ proc'[q] = proc[q]
    BY <2>1 DEF TypeOK, Working, Idle
  <2>3. TypeOK' /\ WorkersHold' /\ Counted'
    BY <2>1, <2>2 DEF TypeOK, WorkersHold, Counted
  <2>4. Covered'
    BY <2>1, <2>2, TimesAssumption DEF Covered, TypeOK, Idle
  <2> QED
    BY <2>3, <2>4
<1> QED
  BY <1>1, <1>2

LEMMA FinishKeeps == ASSUME IInv, NEW p \in Procs, Finish(p) PROVE IInv'
<1> USE DEF IInv
<1>1. job.state = "running" /\ job.token = proc[p].token /\ Working(p)
  BY DEF Finish, WorkersHold
<1>2. /\ job' \in Ended(job) /\ UNCHANGED <<since, round>>
      /\ proc' = [proc EXCEPT ![p] = Idle]
  BY <1>1 DEF Finish
<1>3. job' \in Row /\ job'.state # "running"
  BY <1>2, EndedType DEF TypeOK
<1>4. \A q \in Procs : ~Working(q)'
  BY <1>1, <1>2 DEF WorkersHold, Working, TypeOK, Idle
<1>5. TypeOK' /\ WorkersHold' /\ Counted'
  BY <1>2, <1>3, <1>4 DEF TypeOK, WorkersHold, Counted
<1>6. Covered'
  BY <1>2, <1>4, TimesAssumption DEF Covered, TypeOK, Idle
<1> QED
  BY <1>5, <1>6

LEMMA DiesKeeps == ASSUME IInv, NEW p \in Procs, Dies(p) PROVE IInv'
<1> USE DEF IInv
<1>1. proc' = [proc EXCEPT ![p] = Idle] /\ UNCHANGED <<job, since, round>>
  BY DEF Dies
<1>2. \A q \in Procs : Working(q)' => q # p /\ Working(q) /\ proc'[q] = proc[q]
  BY <1>1 DEF TypeOK, Working, Idle
<1>3. TypeOK' /\ WorkersHold' /\ Counted'
  BY <1>1, <1>2 DEF TypeOK, WorkersHold, Counted
<1>4. Covered'
  BY <1>1, <1>2, TimesAssumption DEF Covered, TypeOK, Idle
<1> QED
  BY <1>3, <1>4

LEMMA RoundKeeps == ASSUME IInv, Round PROVE IInv'
<1> USE DEF IInv
<1>1. UNCHANGED <<since, proc>> /\ round' = 0
  BY DEF Round
<1>2. CASE Expired
  <2>1. \A p \in Procs : ~Working(p)
    <3> SUFFICES ASSUME NEW p \in Procs, Working(p) PROVE FALSE
      OBVIOUS
    <3>1. job.lease > 0
      BY LeaseLeft
    <3> QED
      BY <3>1, <1>2 DEF Expired
  <2>2. [job EXCEPT !.token = @ + 1] \in Row
    BY DEF TypeOK, Row
  <2>3. job' \in Row /\ job'.state # "running"
    BY <1>2, <2>2, FailedType DEF Round
  <2>4. \A p \in Procs : ~Working(p)'
    BY <2>1, <1>1 DEF Working
  <2> QED
    BY <1>1, <2>3, <2>4, TimesAssumption DEF TypeOK, WorkersHold, Covered, Counted
<1>3. CASE ~Expired
  <2>1. job' = job
    BY <1>3 DEF Round
  <2>2. TypeOK' /\ WorkersHold' /\ Covered'
    BY <2>1, <1>1 DEF TypeOK, WorkersHold, Covered, Working
  <2>3. Counted'
    BY <2>1, <1>1, <1>3, TimesAssumption DEF Counted, Expired
  <2> QED
    BY <2>2, <2>3
<1> QED
  BY <1>2, <1>3

LEMMA TickKeeps == ASSUME IInv, Tick PROVE IInv'
<1> USE DEF IInv
<1>1. /\ proc' = [p \in Procs |-> IF proc[p] = Idle THEN Idle
                                   ELSE [proc[p] EXCEPT !.age = @ + 1]]
      /\ round' = round + 1 /\ round < Pause
      /\ \A p \in Procs : proc[p] # Idle => proc[p].age < Hard + Slack
  BY DEF Tick, MayRunOn
<1>2. /\ job' \in Row /\ job'.state = job.state /\ job'.token = job.token
      /\ job'.lease = Less(job.lease) /\ job.lease \in Nat
  <2>1. job \in Row
    BY DEF TypeOK
  <2>2. job' = [job EXCEPT !.lease = Less(job.lease), !.wait = Less(job.wait)]
    BY DEF Tick
  <2>3. \A n \in Nat : Less(n) \in Nat
    BY DEF Less
  <2>4. Less(job.lease) \in Nat /\ Less(job.wait) \in Nat
    BY <2>1, <2>3 DEF Row
  <2> QED
    BY <2>1, <2>2, <2>4 DEF Row
<1>3. \A p \in Procs : proc[p] # Idle =>
         /\ proc[p] \in Tasks /\ proc'[p] \in Tasks
         /\ proc'[p].pc = proc[p].pc /\ proc'[p].token = proc[p].token
         /\ proc'[p].age = proc[p].age + 1 /\ proc[p].age \in Nat
  BY <1>1 DEF TypeOK, Tasks
<1>4. \A p \in Procs : proc[p] = Idle => proc'[p] = Idle
  BY <1>1
<1>5. \A p \in Procs : Working(p)' <=> Working(p)
  BY <1>3, <1>4 DEF Working
<1>6. TypeOK'
  <2>1. proc' \in [Procs -> Tasks \cup {Idle}]
    BY <1>1, <1>3, <1>4
  <2>2. since' \in Nat
    BY DEF Tick, TypeOK
  <2>3. round' \in Nat
    BY <1>1 DEF TypeOK
  <2> QED
    BY <1>2, <2>1, <2>2, <2>3 DEF TypeOK
<1>7. WorkersHold'
  <2> SUFFICES ASSUME NEW p \in Procs, Working(p)'
               PROVE  /\ job'.state = "running" /\ job'.token = proc'[p].token
                      /\ \A q \in Procs : Working(q)' => q = p
    BY DEF WorkersHold
  <2>1. Working(p) /\ proc[p] # Idle
    BY <1>5 DEF Working, Idle
  <2> QED
    BY <2>1, <1>2, <1>3, <1>5 DEF WorkersHold
<1>8. Covered'
  <2> SUFFICES ASSUME NEW p \in Procs
               PROVE  /\ proc'[p].age <= Hard + Slack
                      /\ Working(p)' => job'.lease + proc'[p].age >= Lease
    BY TimesAssumption DEF Covered
  <2>1. CASE proc[p] = Idle
    BY <2>1, <1>4, TimesAssumption DEF Idle, Working
  <2>2. CASE proc[p] # Idle
    <3>1. proc'[p].age <= Hard + Slack
      BY <2>2, <1>1, <1>3, TimesAssumption
    <3>2. ASSUME Working(p)' PROVE job'.lease + proc'[p].age >= Lease
      <4>1. job.lease > 0 /\ job.lease + proc[p].age >= Lease
        BY <3>2, <1>5, LeaseLeft DEF Covered
      <4>2. job'.lease = job.lease - 1
        BY <4>1, <1>2 DEF Less
      <4> QED
        BY <4>1, <4>2, <2>2, <1>2, <1>3, TimesAssumption
    <3> QED
      BY <3>1, <3>2
  <2> QED
    BY <2>1, <2>2
<1>9. Counted'
  <2>1. round' <= Pause
    BY <1>1, TimesAssumption DEF TypeOK
  <2>2. ASSUME job.state = "running"
        PROVE  /\ job'.lease > 0 => since' + job'.lease = Lease
               /\ job'.lease = 0 => since' <= Lease + round'
    <3>1. since' = since + 1 /\ since \in Nat /\ round \in Nat
      BY <2>2 DEF Tick, TypeOK
    <3> QED
      BY <3>1, <2>2, <1>1, <1>2, TimesAssumption DEF Counted, Less
  <2> QED
    BY <2>1, <2>2, <1>2 DEF Counted
<1> QED
  BY <1>6, <1>7, <1>8, <1>9

-----------------------------------------------------------------------------
LEMMA Inductive == Spec => []IInv
<1>1. Init => IInv
  BY TimesAssumption DEF Init, IInv, TypeOK, Row, Idle, WorkersHold, Working, Covered, Counted
<1>2. IInv /\ [Next]_vars => IInv'
  <2> SUFFICES ASSUME IInv, [Next]_vars PROVE IInv'
    OBVIOUS
  <2>1. ASSUME NEW p \in Procs, Start(p) \/ Claim(p) \/ Finish(p) \/ Dies(p) PROVE IInv'
    BY <2>1, StartKeeps, ClaimKeeps, FinishKeeps, DiesKeeps
  <2>2. CASE Round
    BY <2>2, RoundKeeps
  <2>3. CASE Tick
    BY <2>3, TickKeeps
  <2>4. CASE UNCHANGED vars
    BY <2>4 DEF vars, IInv, TypeOK, WorkersHold, Working, Covered, Counted
  <2> QED
    BY <2>1, <2>2, <2>3, <2>4 DEF Next
<1> QED
  BY <1>1, <1>2, PTL DEF Spec

(* With a hard limit well below the lease a run always reports under the   *)
(* token it claimed, and is the only one at work on its job.               *)
THEOREM WorkersHoldCorrect == Spec => []WorkersHold
<1>1. IInv => WorkersHold
  BY DEF IInv
<1> QED
  BY <1>1, Inductive, PTL

(* While a dispatcher runs, no job stays running for longer than its lease *)
(* and one pause, whatever became of its worker.                           *)
THEOREM ProcessingCorrect == Spec => []ProcessingBounded
<1>1. IInv => ProcessingBounded
  <2> SUFFICES ASSUME IInv, job.state = "running" PROVE since <= Lease + Pause
    BY DEF ProcessingBounded
  <2>1. /\ job.lease \in Nat /\ since \in Nat /\ round \in Nat /\ round <= Pause
        /\ job.lease > 0 => since + job.lease = Lease
        /\ job.lease = 0 => since <= Lease + round
    BY DEF IInv, TypeOK, Row, Counted
  <2> QED
    BY <2>1, TimesAssumption
<1> QED
  BY <1>1, Inductive, PTL

(* Clocks, lease and tasks keep their types: none runs below zero. *)
THEOREM TypeCorrect == Spec => []TypeOK
<1>1. IInv => TypeOK
  BY DEF IInv
<1> QED
  BY <1>1, Inductive, PTL
=============================================================================
