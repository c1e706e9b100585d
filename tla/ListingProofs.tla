---------------------------- MODULE ListingProofs ----------------------------
(***************************************************************************)
(* Proofs about the line of due jobs (Backlog) and a client's walk through *)
(* a list that changes (Listing), for every number of jobs, every batch    *)
(* and page size and every interval of re-publication.                     *)
(***************************************************************************)
EXTENDS Listing, FiniteSetTheorems, TLAPS

-----------------------------------------------------------------------------
(* Sets of jobs are finite. *)
LEMMA JobSets == \A S \in SUBSET Jobs : IsFiniteSet(S) /\ Cardinality(S) \in 0..N
<1>1. N \in Nat \ {0}
  BY SizesAssumption
<1>2. IsFiniteSet(Jobs) /\ Cardinality(Jobs) = N
  BY <1>1, FS_Interval DEF Jobs
<1> SUFFICES ASSUME NEW S \in SUBSET Jobs PROVE IsFiniteSet(S) /\ Cardinality(S) \in 0..N
  OBVIOUS
<1>3. IsFiniteSet(S) /\ Cardinality(S) <= N
  BY <1>2, FS_Subset
<1>4. Cardinality(S) \in Nat
  BY <1>3, FS_CardinalityType
<1> QED BY <1>1, <1>3, <1>4

LEMMA Smaller ==
  ASSUME NEW S \in SUBSET Jobs, NEW T \in SUBSET S
  PROVE  /\ Cardinality(T) <= Cardinality(S)
         /\ T # S => Cardinality(T) < Cardinality(S)
<1>1. IsFiniteSet(S) /\ Cardinality(S) \in Nat /\ Cardinality(T) \in Nat
  BY JobSets
<1> QED BY <1>1, FS_Subset

(* Sets that differ by at most one element. *)
LEMMA OneApart ==
  ASSUME NEW S \in SUBSET Jobs, NEW T \in SUBSET Jobs, NEW X \in SUBSET Jobs,
         T \subseteq S \cup X, Cardinality(X) <= 1
  PROVE  Cardinality(T) <= Cardinality(S) + 1
<1>1. /\ IsFiniteSet(S) /\ IsFiniteSet(X) /\ S \cup X \in SUBSET Jobs /\ S \cap X \in SUBSET Jobs
      /\ Cardinality(S) \in Nat /\ Cardinality(X) \in Nat
      /\ Cardinality(S \cup X) \in Nat /\ Cardinality(S \cap X) \in Nat /\ Cardinality(T) \in Nat
  <2>1. S \cup X \in SUBSET Jobs /\ S \cap X \in SUBSET Jobs
    OBVIOUS
  <2> QED BY <2>1, JobSets
<1>2. Cardinality(S \cup X) = Cardinality(S) + Cardinality(X) - Cardinality(S \cap X)
  BY <1>1, FS_Union
<1>3. Cardinality(T) <= Cardinality(S \cup X)
  BY <1>1, Smaller
<1> QED BY <1>1, <1>2, <1>3

-----------------------------------------------------------------------------
(* The line.  What a step does to it: nothing, or a job joins or leaves.   *)

LineTyped ==
  /\ ahead \in [Jobs -> SUBSET DueJobs]
  /\ \A j \in Jobs : j \notin ahead[j] /\ (~IsDue(j) => ahead[j] = {})
  /\ InLine

LEMMA LineSame ==
  ASSUME LineTyped, UNCHANGED ahead, \A j \in Jobs : IsDue(j)' <=> IsDue(j)
  PROVE  LineTyped'
<1>1. DueJobs' = DueJobs
  BY DEF DueJobs
<1> QED BY <1>1 DEF LineTyped, InLine

(* What is counted up to Full. *)
LEMMA FullType ==
  /\ Full \in Nat \ {0}
  /\ \A n \in Nat : UpToFull(n) \in 0..Full /\ (UpToFull(n) < Full => UpToFull(n) = n)
<1>1. Full \in Nat \ {0}
  BY SizesAssumption DEF Full
<1> QED BY <1>1 DEF UpToFull

LEMMA LineJoined ==
  ASSUME TypeOK, NEW j \in Jobs, ~IsDue(j), JoinsLine(j)
  PROVE  /\ LineTyped'
         /\ state' \in [Jobs -> States] /\ front' \in [Jobs -> 0..Full]
<1>1. state' = [state EXCEPT ![j] = "due"] /\ state' \in [Jobs -> States]
  BY DEF JoinsLine, Became, TypeOK, States
<1>2. DueJobs' = DueJobs \cup {j} /\ DueJobs \subseteq Jobs /\ j \notin DueJobs
  BY <1>1 DEF DueJobs, IsDue, TypeOK
<1>3. PICK before \in SUBSET DueJobs :
        /\ \A i \in before : ahead[i] \subseteq before
        /\ ahead' = [i \in Jobs |->
             IF i = j THEN before ELSE IF i \in DueJobs \ before THEN ahead[i] \cup {j} ELSE ahead[i]]
        /\ front' = [i \in Jobs |->
             IF i = j THEN UpToFull(Cardinality(before))
             ELSE IF i \in DueJobs \ before THEN UpToFull(front[i] + 1) ELSE front[i]]
  BY DEF JoinsLine
<1>4. /\ ahead \in [Jobs -> SUBSET DueJobs] /\ ahead[j] = {}
      /\ \A i \in Jobs : i \notin ahead[i] /\ (~IsDue(i) => ahead[i] = {})
      /\ InLine
  BY DEF TypeOK
<1>5. /\ ahead'[j] = before
      /\ \A i \in before : ahead'[i] = ahead[i]
      /\ \A i \in DueJobs \ before : ahead'[i] = ahead[i] \cup {j}
      /\ \A i \in Jobs \ DueJobs : i # j => ahead'[i] = ahead[i]
  BY <1>2, <1>3
<1>6. front' \in [Jobs -> 0..Full]
  <2>1. Cardinality(before) \in Nat /\ \A i \in Jobs : front[i] \in 0..Full /\ front[i] + 1 \in Nat
    BY <1>2, <1>3, JobSets, FullType DEF TypeOK
  <2> QED BY <1>3, <2>1, FullType
<1>7. ahead' \in [Jobs -> SUBSET DueJobs']
  BY <1>2, <1>3, <1>4
<1>8. \A i \in Jobs : i \notin ahead'[i] /\ (~IsDue(i)' => ahead'[i] = {})
  <2>1. \A i \in Jobs : IsDue(i)' <=> i \in DueJobs \cup {j}
    BY <1>1 DEF IsDue, DueJobs, TypeOK
  <2>2. \A i \in Jobs \ DueJobs : ahead[i] = {}
    BY <1>4 DEF DueJobs
  <2> QED BY <1>2, <1>3, <1>4, <1>5, <2>1, <2>2
<1>9. \A i, k \in DueJobs : i # k => (i \in ahead[k] <=> k \notin ahead[i])
  BY <1>4 DEF InLine
<1>10. \A i, k \in DueJobs : i \in ahead[k] => ahead[i] \subseteq ahead[k]
  BY <1>4 DEF InLine
<1>11. \A k \in DueJobs \ before : before \subseteq ahead[k]
  BY <1>3, <1>9
<1>12. InLine'
  <2>1. \A i, k \in DueJobs' : i # k => (i \in ahead'[k] <=> k \notin ahead'[i])
    BY <1>2, <1>3, <1>4, <1>5, <1>9
  <2>2. ASSUME NEW i \in DueJobs', NEW k \in DueJobs', i \in ahead'[k] PROVE ahead'[i] \subseteq ahead'[k]
    <3>1. CASE k = j
      BY <1>2, <1>3, <1>5, <2>2, <3>1
    <3>2. CASE k # j /\ i = j
      BY <1>2, <1>3, <1>4, <1>5, <1>11, <2>2, <3>2
    <3>3. CASE k # j /\ i # j
      <4>1. i \in DueJobs /\ k \in DueJobs /\ i \in ahead[k] /\ ahead[i] \subseteq ahead[k]
        BY <1>2, <1>3, <1>5, <1>10, <2>2, <3>3
      <4>2. k \in before => i \in before
        BY <1>3, <4>1
      <4> QED BY <1>5, <4>1, <4>2
    <3> QED BY <3>1, <3>2, <3>3
  <2> QED BY <2>1, <2>2 DEF InLine
<1> QED BY <1>1, <1>6, <1>7, <1>8, <1>12 DEF LineTyped

LEMMA LineLeft ==
  ASSUME TypeOK, NEW j \in Jobs, Claim(j)
  PROVE  /\ LineTyped'
         /\ state' \in [Jobs -> States]
<1>1. state' = [state EXCEPT ![j] = "running"] /\ state' \in [Jobs -> States]
  BY DEF Claim, Became, TypeOK, States
<1>2. DueJobs' = DueJobs \ {j} /\ DueJobs \subseteq Jobs
  BY <1>1 DEF DueJobs, IsDue, TypeOK
<1>3. ahead'[j] = {} /\ \A i \in Jobs : i # j => ahead'[i] = ahead[i] \ {j}
  BY DEF Claim
<1>4. ahead' \in [Jobs -> SUBSET DueJobs'] /\ ahead \in [Jobs -> SUBSET DueJobs]
  BY <1>2 DEF Claim, TypeOK
<1>5. \A i \in Jobs : i \notin ahead'[i] /\ (~IsDue(i)' => ahead'[i] = {})
  BY <1>1, <1>3 DEF TypeOK, IsDue
<1>6. InLine'
  <2>1. \A i, k \in DueJobs' : i # k => (i \in ahead'[k] <=> k \notin ahead'[i])
    BY <1>2, <1>3 DEF TypeOK, InLine
  <2>2. \A i, k \in DueJobs' : i \in ahead'[k] => ahead'[i] \subseteq ahead'[k]
    BY <1>2, <1>3 DEF TypeOK, InLine
  <2> QED BY <2>1, <2>2 DEF InLine
<1> QED BY <1>1, <1>4, <1>5, <1>6 DEF LineTyped

LEMMA OlderType ==
  ASSUME TypeOK, NEW j \in Jobs PROVE Older(j) \in 0..Rounds
BY SizesAssumption DEF Older, TypeOK

LEMMA RestartsType ==
  ASSUME TypeOK, NEW J, Restarts(J)
  PROVE  front' \in [Jobs -> 0..Full] /\ waited' \in [Jobs -> 0..Rounds]
<1>1. /\ Rounds \in Nat
      /\ \A j \in Jobs : Cardinality(ahead[j]) \in Nat /\ front[j] \in 0..Full /\ waited[j] \in 0..Rounds
  BY JobSets, SizesAssumption DEF TypeOK, DueJobs
<1>2. front' \in [Jobs -> 0..Full]
  BY <1>1, FullType DEF Restarts
<1>3. \A j \in Jobs :
        (IF j \in J \/ ~IsDue(j) THEN 0
         ELSE IF waited[j] < Rounds THEN waited[j] + 1 ELSE Rounds) \in 0..Rounds
  BY <1>1
<1> QED BY <1>2, <1>3 DEF Restarts

LEMMA BacklogTypeStep == TypeOK /\ [Next]_vars => TypeOK'
<1> SUFFICES ASSUME TypeOK, [Next]_vars PROVE TypeOK'
  OBVIOUS
<1>0. LineTyped /\ live \subseteq Jobs /\ 0 \in 0..Full /\ 0 \in 0..Rounds /\ Rounds \in 0..Rounds
  BY SizesAssumption, FullType DEF TypeOK, LineTyped
<1>1. CASE UNCHANGED vars
  BY <1>1 DEF vars, TypeOK, InLine, DueJobs, IsDue
<1>2. ASSUME NEW j \in Jobs, Upload(j) PROVE TypeOK'
  <2>1. ~IsDue(j) /\ JoinsLine(j)
    BY <1>2 DEF Upload, IsNext, IsDue
  <2>2. live' \subseteq {i \in Jobs : state'[i] # "absent"}
    BY <1>2 DEF Upload, JoinsLine, Became, TypeOK
  <2> QED BY <1>2, <2>1, <2>2, LineJoined DEF Upload, JoinsLine, LineTyped, TypeOK
<1>3. ASSUME NEW d \in Jobs, NEW j \in Jobs, Delete(d, j) PROVE TypeOK'
  <2>1. ~IsDue(j) /\ JoinsLine(j)
    BY <1>3 DEF Delete, IsNext, IsDue
  <2>2. live' \subseteq {i \in Jobs : state'[i] # "absent"}
    BY <1>3 DEF Delete, JoinsLine, Became, TypeOK
  <2> QED BY <1>3, <2>1, <2>2, LineJoined DEF Delete, JoinsLine, LineTyped, TypeOK
<1>4. ASSUME NEW j \in Jobs, ComesDue(j) PROVE TypeOK'
  <2>1. ~IsDue(j) /\ JoinsLine(j)
    BY <1>4 DEF ComesDue, IsDue
  <2>2. live' \subseteq {i \in Jobs : state'[i] # "absent"}
    BY <1>4 DEF ComesDue, JoinsLine, Became, TypeOK
  <2> QED BY <1>4, <2>1, <2>2, LineJoined DEF ComesDue, JoinsLine, LineTyped, TypeOK
<1>5. ASSUME NEW j \in Jobs, Claim(j) PROVE TypeOK'
  <2>1. live' \subseteq {i \in Jobs : state'[i] # "absent"}
    BY <1>5 DEF Claim, Became, TypeOK
  <2>2. waited' \in [Jobs -> 0..Rounds] /\ front' \in [Jobs -> 0..Full]
    BY <1>0, <1>5 DEF Claim, TypeOK
  <2> QED BY <1>5, <2>1, <2>2, LineLeft DEF Claim, LineTyped, TypeOK
<1>6. ASSUME NEW j \in Jobs, Finish(j) PROVE TypeOK'
  <2>1. PICK s \in {"waiting", "ended"} : state' = [state EXCEPT ![j] = s]
    BY <1>6 DEF Finish, Became
  <2>2. state' \in [Jobs -> States] /\ live' \subseteq {i \in Jobs : state'[i] # "absent"}
    BY <1>6, <2>1 DEF Finish, TypeOK, States
  <2>3. \A i \in Jobs : IsDue(i)' <=> IsDue(i)
    BY <1>6, <2>1 DEF Finish, IsDue, TypeOK
  <2>4. LineTyped'
    BY <1>0, <1>6, <2>3, LineSame DEF Finish
  <2>5. age' \in [Jobs -> 0..Rounds]
    BY <1>0, <1>6 DEF Finish, TypeOK
  <2> QED BY <1>6, <2>2, <2>4, <2>5 DEF Finish, LineTyped, TypeOK
<1>7. CASE Iterate \/ IterationFails
  <2>1. UNCHANGED <<state, live, ahead>> /\ \E J : Restarts(J)
    BY <1>7 DEF Iterate, IterationFails
  <2>2. age' \in [Jobs -> 0..Rounds]
    BY <1>0, <1>7, OlderType DEF Iterate, IterationFails
  <2>3. LineTyped'
    BY <1>0, <2>1, LineSame DEF IsDue
  <2> QED BY <2>1, <2>2, <2>3, RestartsType DEF LineTyped, TypeOK
<1>8. ASSUME NEW j \in Jobs, Rearm(j) PROVE TypeOK'
  <2>1. ~IsDue(j) /\ JoinsLine(j)
    BY <1>8 DEF Rearm, IsDue
  <2>2. live' \subseteq {i \in Jobs : state'[i] # "absent"}
    BY <1>8 DEF Rearm, JoinsLine, Became, TypeOK
  <2>3. age' \in [Jobs -> 0..Rounds]
    BY <1>0, <1>8 DEF Rearm, TypeOK
  <2> QED BY <1>8, <2>1, <2>2, <2>3, LineJoined DEF Rearm, JoinsLine, LineTyped, TypeOK
<1> QED BY <1>1, <1>2, <1>3, <1>4, <1>5, <1>6, <1>7, <1>8 DEF Next

LEMMA BacklogInit == Init => TypeOK
<1>1. Full \in Nat /\ Rounds \in Nat
  BY SizesAssumption, FullType
<1> QED BY <1>1 DEF Init, TypeOK, InLine, DueJobs, IsDue, States
-----------------------------------------------------------------------------
(* Nobody starves.  NotYet(j) are the jobs before j that have not been     *)
(* taken since j waits: each iteration that passes j over takes Limit of   *)
(* them, and none of the others before Rounds iterations are over.         *)

NotYet(j) == {i \in ahead[j] : age[i] >= waited[j]}

WaitPaid(j) ==
  /\ ~IsDue(j) => waited[j] = 0
  /\ IsDue(j) /\ front[j] < Full =>
        waited[j] * Limit + Cardinality(NotYet(j)) <= front[j]

WaitsPaid == \A j \in Jobs : WaitPaid(j)

LEMMA NotYetSets ==
  ASSUME TypeOK, NEW j \in Jobs
  PROVE  /\ ahead[j] \in SUBSET Jobs /\ NotYet(j) \in SUBSET ahead[j] /\ NotYet(j) \in SUBSET Jobs
         /\ Cardinality(NotYet(j)) \in 0..N
<1>1. ahead[j] \in SUBSET Jobs
  BY DEF TypeOK, DueJobs
<1>2. NotYet(j) \in SUBSET ahead[j]
  BY DEF NotYet
<1> QED BY <1>1, <1>2, JobSets

(* A step that only takes jobs out of a line, or none, pays for itself.    *)
LEMMA WaitKept ==
  ASSUME TypeOK, NEW j \in Jobs, WaitPaid(j), IsDue(j)' <=> IsDue(j),
         waited'[j] = waited[j], front'[j] = front[j], NotYet(j)' \subseteq NotYet(j)
  PROVE  WaitPaid(j)'
<1>1. /\ NotYet(j) \in SUBSET Jobs /\ NotYet(j)' \in SUBSET NotYet(j)
      /\ Cardinality(NotYet(j)) \in Nat /\ Cardinality(NotYet(j)') \in Nat
  <2>1. NotYet(j) \in SUBSET Jobs /\ NotYet(j)' \in SUBSET NotYet(j)
    BY NotYetSets
  <2> QED BY <2>1, JobSets
<1>2. Cardinality(NotYet(j)') <= Cardinality(NotYet(j))
  BY <1>1, Smaller
<1>3. waited[j] \in Nat /\ front[j] \in Nat /\ Limit \in Nat /\ Full \in Nat
  BY SizesAssumption, FullType DEF TypeOK
<1>4. waited[j] * Limit \in Nat
  BY <1>3
<1> HIDE DEF NotYet
<1> QED BY <1>1, <1>2, <1>3, <1>4 DEF WaitPaid

(* A wait that begins now owes nothing. *)
LEMMA WaitBegun ==
  ASSUME NEW j \in Jobs, ahead'[j] \in SUBSET Jobs, waited'[j] = 0,
         IsDue(j)' => front'[j] = UpToFull(Cardinality(ahead'[j]))
  PROVE  WaitPaid(j)'
<1>1. NotYet(j)' \in SUBSET ahead'[j]
  BY DEF NotYet
<1>2. /\ Cardinality(NotYet(j)') <= Cardinality(ahead'[j])
      /\ Cardinality(NotYet(j)') \in Nat /\ Cardinality(ahead'[j]) \in Nat
  BY <1>1, Smaller, JobSets
<1>3. waited'[j] * Limit = 0
  BY SizesAssumption
<1>4. IsDue(j)' /\ front'[j] < Full => front'[j] = Cardinality(ahead'[j])
  BY <1>2, FullType
<1>5. Full' = Full /\ Limit' = Limit
  BY DEF Full
<1> QED BY <1>2, <1>3, <1>4, <1>5 DEF WaitPaid

LEMMA TimesMore ==
  ASSUME NEW a \in Nat, NEW b \in Nat, NEW c \in Nat, a <= b PROVE c * a <= c * b
<1>1. PICK d \in Nat : b = a + d
  <2>1. b - a \in Nat /\ b = a + (b - a)
    OBVIOUS
  <2> QED BY <2>1
<1>2. c * b = c * a + c * d /\ c * d \in Nat /\ c * a \in Nat
  BY <1>1
<1> QED BY <1>2

(* An iteration passes j over. *)
LEMMA WaitPays ==
  ASSUME TypeOK, NEW j \in Jobs, WaitPaid(j), IsDue(j), Eligible(j),
         NEW locked, j \notin locked, NEW B \in Batch(locked), j \notin B,
         UNCHANGED <<state, ahead>>,
         age' = [i \in Jobs |-> IF i \in B THEN 0 ELSE Older(i)],
         front'[j] = front[j],
         waited'[j] = IF waited[j] < Rounds THEN waited[j] + 1 ELSE Rounds
  PROVE  WaitPaid(j)'
<1> DEFINE S == NotYet(j)
           T == {i \in ahead[j] : age'[i] >= waited[j] + 1}
           w == waited[j]
           f == front[j]
<1>1. /\ Limit \in Nat \ {0} /\ Rounds \in Nat \ {0}
      /\ w \in 0..Rounds /\ f \in 0..Full /\ Full \in Nat /\ Full = Limit * Rounds
      /\ \A i \in Jobs : age[i] \in 0..Rounds
  BY SizesAssumption, FullType DEF TypeOK, Full
<1>2. SUFFICES ASSUME f < Limit * Rounds PROVE waited'[j] * Limit + Cardinality(NotYet(j)') <= f
  BY <1>1 DEF WaitPaid, IsDue, Full
<1>3. w * Limit + Cardinality(S) <= f
  BY <1>1, <1>2 DEF WaitPaid
<1>4. S \in SUBSET Jobs /\ Cardinality(S) \in Nat /\ S \in SUBSET ahead[j] /\ ahead[j] \in SUBSET Jobs
  BY NotYetSets
<1>5. B \subseteq ahead[j] /\ Cardinality(B) = Limit /\ \A i \in B : Eligible(i)
  BY DEF Batch, Oldest, DueJobs
<1>6. w < Rounds
  <2>1. SUFFICES ASSUME Rounds <= w PROVE FALSE
    BY <1>1
  <2>2. Limit * Rounds <= Limit * w
    BY <1>1, <2>1, TimesMore
  <2>3. Limit * w = w * Limit /\ w * Limit \in Nat /\ Limit * Rounds \in Nat
    BY <1>1
  <2> HIDE DEF S
  <2> QED BY <1>1, <1>2, <1>3, <1>4, <2>2, <2>3
<1>7. B \in SUBSET S
  <2>1. SUFFICES ASSUME NEW i \in B PROVE age[i] >= w
    BY <1>5 DEF NotYet
  <2>2. i \in Jobs /\ age[i] \in 0..Rounds /\ Eligible(i)
    BY <1>1, <1>4, <1>5
  <2> QED BY <1>1, <1>6, <2>2 DEF Eligible, Older
<1>8. T \in SUBSET (S \ B)
  <2>1. SUFFICES ASSUME NEW i \in ahead[j], age'[i] >= w + 1 PROVE i \notin B /\ age[i] >= w
    BY DEF NotYet
  <2>2. i \in Jobs /\ age[i] \in 0..Rounds
    BY <1>1, <1>4
  <2> QED BY <1>1, <2>1, <2>2 DEF Older
<1>9. Cardinality(S \ B) = Cardinality(S) - Limit
  <2>1. IsFiniteSet(S) /\ S \cap B = B
    BY <1>4, <1>7, JobSets
  <2> QED BY <1>5, <2>1, FS_Difference
<1>10. Cardinality(T) <= Cardinality(S) - Limit /\ Cardinality(T) \in Nat
  <2>1. S \ B \in SUBSET Jobs /\ T \in SUBSET Jobs
    BY <1>4, <1>8
  <2>2. Cardinality(T) <= Cardinality(S \ B)
    BY <1>8, <2>1, Smaller
  <2> HIDE DEF S, T
  <2> QED BY <1>9, <2>1, <2>2, JobSets
<1>11. waited'[j] = w + 1
  BY <1>1, <1>6
<1>12. NotYet(j)' = T
  BY <1>11 DEF NotYet
<1>13. (w + 1) * Limit = w * Limit + Limit /\ w * Limit \in Nat
  BY <1>1
<1> HIDE DEF S, T
<1> QED BY <1>1, <1>3, <1>4, <1>10, <1>11, <1>12, <1>13

LEMMA JoinedPaid ==
  ASSUME TypeOK, WaitsPaid, NEW j \in Jobs, ~IsDue(j), JoinsLine(j),
         \A i \in Jobs : i # j => age'[i] = age[i]
  PROVE  WaitsPaid'
<1>1. PICK before \in SUBSET DueJobs :
        /\ ahead' = [i \in Jobs |->
             IF i = j THEN before ELSE IF i \in DueJobs \ before THEN ahead[i] \cup {j} ELSE ahead[i]]
        /\ front' = [i \in Jobs |->
             IF i = j THEN UpToFull(Cardinality(before))
             ELSE IF i \in DueJobs \ before THEN UpToFull(front[i] + 1) ELSE front[i]]
  BY DEF JoinsLine
<1>2. state' = [state EXCEPT ![j] = "due"] /\ waited' = waited /\ before \in SUBSET Jobs
  BY DEF JoinsLine, Became, DueJobs
<1>3. WaitPaid(j)'
  <2>1. waited'[j] = 0 /\ ahead'[j] = before /\ front'[j] = UpToFull(Cardinality(before))
    BY <1>1, <1>2 DEF WaitsPaid, WaitPaid
  <2> QED BY <1>2, <2>1, WaitBegun
<1>4. ASSUME NEW i \in Jobs, i # j PROVE WaitPaid(i)'
  <2>1. (IsDue(i)' <=> IsDue(i)) /\ waited'[i] = waited[i] /\ WaitPaid(i)
    BY <1>2, <1>4 DEF IsDue, TypeOK, WaitsPaid
  <2>2. \A k \in ahead[i] : k # j /\ k \in Jobs /\ age'[k] = age[k]
    BY DEF TypeOK, DueJobs
  <2>3. CASE i \notin DueJobs \ before
    <3>1. front'[i] = front[i] /\ ahead'[i] = ahead[i]
      BY <1>1, <1>4, <2>3
    <3>2. NotYet(i)' \subseteq NotYet(i)
      BY <2>1, <2>2, <3>1 DEF NotYet
    <3> QED BY <2>1, <3>1, <3>2, WaitKept
  <2>4. CASE i \in DueJobs \ before
    <3>1. front'[i] = UpToFull(front[i] + 1) /\ ahead'[i] = ahead[i] \cup {j}
      BY <1>1, <1>4, <2>4
    <3>2. NotYet(i)' \subseteq NotYet(i) \cup {j}
      BY <2>1, <2>2, <3>1 DEF NotYet
    <3>3. /\ NotYet(i) \in SUBSET Jobs /\ NotYet(i)' \in SUBSET Jobs
          /\ Cardinality(NotYet(i)) \in Nat /\ Cardinality(NotYet(i)') \in Nat
          /\ Cardinality(NotYet(i)') <= Cardinality(NotYet(i)) + 1
      <4>1. NotYet(i) \in SUBSET Jobs
        BY NotYetSets
      <4>2. NotYet(i)' \in SUBSET Jobs /\ {j} \in SUBSET Jobs /\ Cardinality({j}) <= 1
        BY <3>2, <4>1, FS_Singleton
      <4> HIDE DEF NotYet
      <4> QED BY <3>2, <4>1, <4>2, OneApart, JobSets
    <3>4. front[i] \in Nat /\ front[i] + 1 \in Nat /\ waited[i] \in Nat /\ Limit \in Nat /\ Full \in Nat
      BY SizesAssumption, FullType DEF TypeOK
    <3>5. front'[i] < Full => front'[i] = front[i] + 1
      BY <3>1, <3>4, FullType
    <3>6. waited[i] * Limit \in Nat
      BY <3>4
    <3>7. IsDue(i) /\ front'[i] < Full => waited'[i] * Limit + Cardinality(NotYet(i)') <= front'[i]
      <4> HIDE DEF NotYet
      <4> QED BY <2>1, <3>3, <3>4, <3>5, <3>6 DEF WaitPaid
    <3>8. Full' = Full /\ Limit' = Limit
      BY DEF Full
    <3> QED BY <2>1, <3>7, <3>8 DEF WaitPaid
  <2> QED BY <2>3, <2>4
<1> QED BY <1>3, <1>4 DEF WaitsPaid

LEMMA WaitsStep == TypeOK /\ WaitsPaid /\ [Next]_vars => WaitsPaid'
<1> SUFFICES ASSUME TypeOK, WaitsPaid, [Next]_vars PROVE WaitsPaid'
  OBVIOUS
<1>0. TypeOK'
  BY BacklogTypeStep
<1>1. CASE UNCHANGED vars
  BY <1>1 DEF vars, WaitsPaid, WaitPaid, NotYet, IsDue
<1>2. ASSUME NEW j \in Jobs, Upload(j) \/ ComesDue(j) \/ Rearm(j) \/ \E d \in Jobs : Delete(d, j)
      PROVE  WaitsPaid'
  <2>1. ~IsDue(j) /\ JoinsLine(j) /\ \A i \in Jobs : i # j => age'[i] = age[i]
    BY <1>2 DEF Upload, ComesDue, Rearm, Delete, IsNext, IsDue, TypeOK
  <2> QED BY <2>1, JoinedPaid
<1>3. ASSUME NEW j \in Jobs, Claim(j) PROVE WaitsPaid'
  <2>1. WaitPaid(j)'
    <3>1. ~IsDue(j)' /\ waited'[j] = 0
      BY <1>3 DEF Claim, Became, IsDue, TypeOK
    <3> QED BY <3>1 DEF WaitPaid
  <2>2. ASSUME NEW i \in Jobs, i # j PROVE WaitPaid(i)'
    <3>1. /\ IsDue(i)' <=> IsDue(i)
          /\ waited'[i] = waited[i] /\ front'[i] = front[i]
          /\ ahead'[i] \subseteq ahead[i] /\ age' = age
      BY <1>3, <2>2 DEF Claim, Became, IsDue, TypeOK
    <3>2. NotYet(i)' \subseteq NotYet(i)
      BY <3>1 DEF NotYet
    <3> QED BY <3>1, <3>2, WaitKept DEF WaitsPaid
  <2> QED BY <2>1, <2>2 DEF WaitsPaid
<1>4. ASSUME NEW j \in Jobs, Finish(j) PROVE WaitsPaid'
  <2> SUFFICES ASSUME NEW i \in Jobs PROVE WaitPaid(i)'
    BY DEF WaitsPaid
  <2>1. /\ IsDue(i)' <=> IsDue(i)
        /\ waited'[i] = waited[i] /\ front'[i] = front[i] /\ ahead'[i] = ahead[i]
    BY <1>4 DEF Finish, Became, IsDue, TypeOK
  <2>2. \A k \in ahead[i] : age'[k] = age[k]
    BY <1>4 DEF Finish, TypeOK, DueJobs, IsDue
  <2>3. NotYet(i)' \subseteq NotYet(i)
    BY <2>1, <2>2 DEF NotYet
  <2> QED BY <2>1, <2>3, WaitKept DEF WaitsPaid
<1>5. ASSUME NEW J, Restarts(J), UNCHANGED <<state, ahead>>, NEW j \in Jobs, j \in J \/ ~IsDue(j)
      PROVE  WaitPaid(j)'
  <2>1. /\ waited'[j] = 0
        /\ IsDue(j)' => front'[j] = UpToFull(Cardinality(ahead'[j]))
    BY <1>5 DEF Restarts, IsDue
  <2>2. ahead'[j] \in SUBSET Jobs
    BY <1>5, NotYetSets
  <2> QED BY <2>1, <2>2, WaitBegun
<1>6. CASE Iterate
  <2>1. PICK locked \in SUBSET DueJobs : \E B \in Batch(locked) :
          /\ age' = [j \in Jobs |-> IF j \in B THEN 0 ELSE Older(j)]
          /\ Restarts({j \in Jobs : j \in B \cup locked \/ ~Eligible(j)})
    BY <1>6 DEF Iterate
  <2>2. PICK B \in Batch(locked) :
          /\ age' = [j \in Jobs |-> IF j \in B THEN 0 ELSE Older(j)]
          /\ Restarts({j \in Jobs : j \in B \cup locked \/ ~Eligible(j)})
    BY <2>1
  <2>3. UNCHANGED <<state, ahead>>
    BY <1>6 DEF Iterate
  <2> DEFINE J == {i \in Jobs : i \in B \cup locked \/ ~Eligible(i)}
  <2> SUFFICES ASSUME NEW j \in Jobs PROVE WaitPaid(j)'
    BY DEF WaitsPaid
  <2>4. CASE j \in J \/ ~IsDue(j)
    BY <1>5, <2>2, <2>3, <2>4
  <2>5. CASE j \notin J /\ IsDue(j)
    <3>1. j \notin B /\ j \notin locked /\ Eligible(j)
      BY <2>5
    <3>2. /\ front'[j] = front[j]
          /\ waited'[j] = IF waited[j] < Rounds THEN waited[j] + 1 ELSE Rounds
      BY <2>2, <2>5 DEF Restarts
    <3> QED BY <2>2, <2>3, <2>5, <3>1, <3>2, WaitPays DEF WaitsPaid
  <2> QED BY <2>4, <2>5
<1>7. CASE IterationFails
  BY <1>5, <1>7 DEF IterationFails, WaitsPaid
<1> QED BY <1>1, <1>2, <1>3, <1>4, <1>6, <1>7 DEF Next

LEMMA WaitsInit == Init => WaitsPaid
BY DEF Init, WaitsPaid, WaitPaid, IsDue

(* The service of the list is the backlog, whoever reads. *)
LEMMA BacklogAlways == LSpec => [](TypeOK /\ WaitsPaid)
<1>1. LInit => TypeOK /\ WaitsPaid
  BY BacklogInit, WaitsInit DEF LInit
<1>2. [LNext]_lvars => [Next]_vars
  BY DEF LNext, Moves, Start, Ask, Fetch, lvars
<1> QED BY <1>1, <1>2, BacklogTypeStep, WaitsStep, PTL DEF LSpec

(* A due job that is not locked is passed over only while jobs before it   *)
(* are taken, Limit at a time: with fewer than Full of them each is taken  *)
(* once before any is taken again.                                         *)
THEOREM TurnCorrect == LSpec => []TakenInTurn
<1>1. TypeOK /\ WaitsPaid => TakenInTurn
  <2> SUFFICES ASSUME TypeOK, WaitsPaid, NEW j \in Jobs, IsDue(j), front[j] < Full
               PROVE  waited[j] * Limit <= front[j]
    BY DEF TakenInTurn
  <2>1. waited[j] * Limit + Cardinality(NotYet(j)) <= front[j]
    BY DEF WaitsPaid, WaitPaid
  <2>2. Cardinality(NotYet(j)) \in Nat /\ waited[j] * Limit \in Nat /\ front[j] \in Nat
    BY NotYetSets, SizesAssumption DEF TypeOK
  <2> QED BY <2>1, <2>2
<1> QED BY <1>1, BacklogAlways, PTL
-----------------------------------------------------------------------------
(* Positions in a list of jobs, newest first. *)

Rank(S, j) == Cardinality({k \in S : k >= j})

LEMMA RankType ==
  ASSUME NEW S \in SUBSET Jobs, NEW j \in Jobs
  PROVE  /\ Rank(S, j) \in 0..Cardinality(S)
         /\ j \in S => Rank(S, j) >= 1
<1> DEFINE T == {k \in S : k >= j}
<1>1. Cardinality(T) \in Nat /\ Cardinality(S) \in Nat /\ Cardinality(T) <= Cardinality(S) /\ IsFiniteSet(T)
  BY JobSets, Smaller
<1>2. j \in S => T # {}
  BY DEF Jobs
<1>3. j \in S => Cardinality(T) # 0
  BY <1>1, <1>2, FS_EmptySet
<1> HIDE DEF T
<1>4. Rank(S, j) = Cardinality(T)
  BY DEF Rank, T
<1> QED BY <1>1, <1>3, <1>4

(* The newer of two entries comes first. *)
LEMMA RankOrder ==
  ASSUME NEW S \in SUBSET Jobs, NEW i \in S, NEW j \in S, i > j
  PROVE  Rank(S, i) < Rank(S, j)
<1> DEFINE T == {k \in S : k >= i}
           U == {k \in S : k >= j}
<1>1. S \subseteq Int /\ i \in Int /\ j \in Int
  BY SizesAssumption DEF Jobs
<1>2. j \in U /\ j \notin T
  BY <1>1
<1>3. T \in SUBSET U
  <2>1. ASSUME NEW k \in S, k >= i PROVE k >= j
    BY <1>1, <2>1
  <2> QED BY <2>1
<1>4. U \in SUBSET Jobs
  OBVIOUS
<1>5. Cardinality(T) < Cardinality(U)
  BY <1>2, <1>3, <1>4, Smaller
<1> QED BY <1>5 DEF Rank

LEMMA RankInjective ==
  ASSUME NEW S \in SUBSET Jobs, NEW i \in S, NEW j \in S, Rank(S, i) = Rank(S, j)
  PROVE  i = j
<1>1. i \in Int /\ j \in Int /\ Rank(S, i) \in Nat /\ Rank(S, j) \in Nat
  BY RankType, JobSets DEF Jobs
<1>2. ~(i > j) /\ ~(j > i)
  BY <1>1, RankOrder
<1> QED BY <1>1, <1>2

(* An entry that leaves or joins moves those after it by one. *)
LEMMA RankRest ==
  ASSUME NEW S \in SUBSET Jobs, NEW x \in S, NEW j \in Jobs
  PROVE  Rank(S \ {x}, j) = IF x >= j THEN Rank(S, j) - 1 ELSE Rank(S, j)
<1> DEFINE T == {k \in S : k >= j}
           U == {k \in S \ {x} : k >= j}
<1>1. IsFiniteSet(T)
  BY JobSets
<1>2. U = T \ {x}
  OBVIOUS
<1>3. x \in T <=> x >= j
  OBVIOUS
<1>4. Cardinality(U) = IF x \in T THEN Cardinality(T) - 1 ELSE Cardinality(T)
  BY <1>1, <1>2, FS_RemoveElement
<1>5. Rank(S, j) = Cardinality(T) /\ Rank(S \ {x}, j) = Cardinality(U)
  BY DEF Rank
<1> HIDE DEF T, U
<1> QED BY <1>3, <1>4, <1>5

LEMMA OneAtRank ==
  ASSUME NEW S \in SUBSET Jobs, NEW r
  PROVE  Cardinality({j \in S : Rank(S, j) = r}) <= 1
<1> DEFINE T == {j \in S : Rank(S, j) = r}
<1>1. CASE T = {}
  BY <1>1, FS_EmptySet
<1>2. CASE T # {}
  <2>1. PICK j \in T : TRUE
    BY <1>2
  <2>2. T = {j}
    BY <2>1, RankInjective
  <2>3. Cardinality({j}) = 1
    BY FS_Singleton
  <2> QED BY <2>2, <2>3
<1> QED BY <1>1, <1>2

(* What lies beyond a count is no more than what exceeds it. *)
LEMMA Beyond ==
  ASSUME NEW S \in SUBSET Jobs, NEW c \in Nat, NEW n \in Nat, Cardinality(S) <= c + n
  PROVE  Cardinality({j \in S : Rank(S, j) > c}) <= n
<1> DEFINE T == {j \in S : Rank(S, j) > c}
           top == Cardinality(S)
           f == [j \in T |-> Rank(S, j)]
<1>1. top \in Nat /\ T \in SUBSET Jobs /\ Cardinality(T) \in Nat
  BY JobSets
<1>2. \A j \in T : Rank(S, j) \in c + 1..top
  BY <1>1, RankType
<1>3. f \in Injection(T, c + 1..top)
  <2>1. f \in [T -> c + 1..top]
    BY <1>2
  <2>2. IsInjective(f)
    BY RankInjective DEF IsInjective
  <2> QED BY <2>1, <2>2 DEF Injection
<1>4. IsFiniteSet(c + 1..top) /\ Cardinality(c + 1..top) = IF c + 1 > top THEN 0 ELSE top - (c + 1) + 1
  <2> DEFINE a == c + 1
  <2>1. a \in Int /\ top \in Int
    BY <1>1
  <2> HIDE DEF a, top
  <2>2. IsFiniteSet(a..top) /\ Cardinality(a..top) = IF a > top THEN 0 ELSE top - a + 1
    BY <2>1, FS_Interval
  <2> QED BY <2>2 DEF a
<1>5. Cardinality(T) <= Cardinality(c + 1..top)
  BY <1>3, <1>4, FS_Injection
<1> HIDE DEF T, f
<1>6. Cardinality(T) <= n
  BY <1>1, <1>4, <1>5
<1> QED BY <1>6 DEF T

-----------------------------------------------------------------------------
(* The list under the walk.  A step of the service lets at most one entry  *)
(* leave or join.                                                          *)

Cur == Listed(walk.list)

Capped(n) == IF n < N THEN n + 1 ELSE N

Stays ==
  /\ Cur' = Cur
  /\ walk'.unseen = walk.unseen /\ walk'.gone = walk.gone
  /\ walk'.come = walk.come /\ walk'.late = walk.late

Leaves(x) ==
  /\ x \in Cur /\ Cur' = Cur \ {x}
  /\ walk'.unseen = walk.unseen \ {x} /\ walk'.gone = Capped(walk.gone)
  /\ walk'.come = walk.come /\ walk'.late = walk.late

Joins(x) ==
  /\ x \notin Cur /\ Cur' = Cur \cup {x}
  /\ walk'.unseen = walk.unseen /\ walk'.gone = walk.gone
  /\ walk'.come = Capped(walk.come)
  /\ walk'.late = IF walk.pc = "counted" THEN Capped(walk.late) ELSE walk.late

SameView ==
  /\ walk'.pc = walk.pc /\ walk'.list = walk.list /\ walk'.page = walk.page
  /\ walk'.count = walk.count /\ walk'.shown = walk.shown /\ walk'.repeats = walk.repeats

LEMMA ListMoves ==
  ASSUME TypeOK, Next, NEW l \in Lists
  PROVE  \/ Listed(l)' = Listed(l)
         \/ \E x \in Jobs : x \in Listed(l) /\ Listed(l)' = Listed(l) \ {x}
         \/ \E x \in Jobs : x \notin Listed(l) /\ Listed(l)' = Listed(l) \cup {x}
<1> DEFINE Form(S, T) ==
      \/ T = S
      \/ \E x \in Jobs : x \in S /\ T = S \ {x}
      \/ \E x \in Jobs : x \notin S /\ T = S \cup {x}
<1> USE DEF AllJobs, PendingJobs, Documents, IsDue, Became, TypeOK
<1>1. ASSUME NEW j \in Jobs, Upload(j)
      PROVE  Form(AllJobs, AllJobs') /\ Form(PendingJobs, PendingJobs') /\ Form(Documents, Documents')
  <2>1. state[j] = "absent" /\ state' = [state EXCEPT ![j] = "due"]
        /\ (live' = live \/ live' = live \cup {j}) /\ j \notin live
    BY <1>1 DEF Upload, IsNext, JoinsLine
  <2>2. AllJobs' = AllJobs \cup {j} /\ PendingJobs' = PendingJobs \cup {j}
    BY <2>1
  <2>3. j \notin AllJobs /\ j \notin PendingJobs
    BY <2>1
  <2> QED BY <2>1, <2>2, <2>3
<1>2. ASSUME NEW d \in Jobs, NEW j \in Jobs, Delete(d, j)
      PROVE  Form(AllJobs, AllJobs') /\ Form(PendingJobs, PendingJobs') /\ Form(Documents, Documents')
  <2>1. state[j] = "absent" /\ state' = [state EXCEPT ![j] = "due"]
        /\ live' = live \ {d} /\ d \in live
    BY <1>2 DEF Delete, IsNext, JoinsLine
  <2>2. AllJobs' = AllJobs \cup {j} /\ PendingJobs' = PendingJobs \cup {j}
    BY <2>1
  <2>3. j \notin AllJobs /\ j \notin PendingJobs
    BY <2>1
  <2> QED BY <2>1, <2>2, <2>3
<1>3. ASSUME NEW j \in Jobs, ComesDue(j)
      PROVE  Form(AllJobs, AllJobs') /\ Form(PendingJobs, PendingJobs') /\ Form(Documents, Documents')
  <2>1. state[j] = "waiting" /\ state' = [state EXCEPT ![j] = "due"] /\ live' = live
    BY <1>3 DEF ComesDue, JoinsLine
  <2>2. AllJobs' = AllJobs /\ PendingJobs' = PendingJobs
    BY <2>1
  <2> QED BY <2>1, <2>2
<1>4. ASSUME NEW j \in Jobs, Claim(j)
      PROVE  Form(AllJobs, AllJobs') /\ Form(PendingJobs, PendingJobs') /\ Form(Documents, Documents')
  <2>1. state[j] = "due" /\ state' = [state EXCEPT ![j] = "running"] /\ live' = live
    BY <1>4 DEF Claim
  <2>2. AllJobs' = AllJobs /\ PendingJobs' = PendingJobs \ {j} /\ j \in PendingJobs
    BY <2>1
  <2> QED BY <2>1, <2>2
<1>5. ASSUME NEW j \in Jobs, Finish(j)
      PROVE  Form(AllJobs, AllJobs') /\ Form(PendingJobs, PendingJobs') /\ Form(Documents, Documents')
  <2>1. PICK s \in {"waiting", "ended"} : state' = [state EXCEPT ![j] = s]
    BY <1>5 DEF Finish
  <2>2. state[j] = "running" /\ live' = live
    BY <1>5 DEF Finish
  <2>3. AllJobs' = AllJobs /\ j \notin PendingJobs
    BY <2>1, <2>2
  <2>4. PendingJobs' = PendingJobs \/ PendingJobs' = PendingJobs \cup {j}
    BY <2>1, <2>2
  <2> QED BY <2>2, <2>3, <2>4
<1>6. ASSUME NEW j \in Jobs, Rearm(j)
      PROVE  Form(AllJobs, AllJobs') /\ Form(PendingJobs, PendingJobs') /\ Form(Documents, Documents')
  <2>1. state[j] = "ended" /\ state' = [state EXCEPT ![j] = "due"] /\ live' = live
    BY <1>6 DEF Rearm, JoinsLine
  <2>2. AllJobs' = AllJobs /\ PendingJobs' = PendingJobs \cup {j} /\ j \notin PendingJobs
    BY <2>1
  <2> QED BY <2>1, <2>2
<1>7. CASE Iterate \/ IterationFails
  <2>1. UNCHANGED <<state, live>>
    BY <1>7 DEF Iterate, IterationFails
  <2> QED BY <2>1 DEF Listed
<1>8. l \in {"jobs", "pending", "documents"}
  BY ListsAssumption
<1>9. /\ Form(AllJobs, AllJobs') /\ Form(PendingJobs, PendingJobs') /\ Form(Documents, Documents')
      => Form(Listed(l), Listed(l)')
  <2> HIDE DEF Form
  <2> QED BY <1>8 DEF Listed
<1>10. \/ Form(AllJobs, AllJobs') /\ Form(PendingJobs, PendingJobs') /\ Form(Documents, Documents')
      \/ Iterate \/ IterationFails
  <2> HIDE DEF Form
  <2> QED BY <1>1, <1>2, <1>3, <1>4, <1>5, <1>6 DEF Next
<1> QED BY <1>7, <1>9, <1>10
-----------------------------------------------------------------------------
(* The walk.  Base entries have been asked for before this page.  Owed by  *)
(* what left the list: entries that moved up before Base unseen.  Owed by  *)
(* what joined: shown entries that moved down behind Base.                 *)

Base == (walk.page - 1) * PageSize

Passed == {u \in walk.unseen : Rank(Cur, u) <= Base}

Again == {u \in walk.shown \cap Cur : Rank(Cur, u) > Base}

Unstarted == walk.pc = "off" => walk.page = 1 /\ walk.shown = {} /\ walk.repeats = 0

MissOwed ==
  /\ Walking => walk.unseen \subseteq Cur /\ Cardinality(Passed) <= walk.gone
  /\ walk.pc = "counted" => Cardinality(Cur) <= walk.count + walk.late

RepeatOwed ==
  Walking => walk.come = N \/ walk.repeats + Cardinality(Again) <= walk.come

LinkOwed ==
  /\ walk.pc = "counted" =>
        /\ walk.page = 1 \/ Base < walk.count
        /\ walk.gone = 0 => walk.count <= Cardinality(Cur)
  /\ walk.pc = "next" =>
        /\ walk.page # 1
        /\ walk.gone = 0 => Base < Cardinality(Cur)

Accounts ==
  /\ Unstarted /\ MissOwed /\ RepeatOwed /\ LinkOwed
  /\ MissedBounded /\ RepeatsBounded /\ LinkHolds
LEMMA CurType ==
  ASSUME LTypeOK PROVE Cur \in SUBSET Jobs /\ Cardinality(Cur) \in 0..N /\ walk.list \in Lists
<1>1. walk.list \in Lists
  BY DEF LTypeOK, Walks
<1>2. walk.list \in {"jobs", "pending", "documents"}
  BY <1>1, ListsAssumption
<1>3. Cur \in SUBSET Jobs
  BY <1>2 DEF Cur, Listed, AllJobs, PendingJobs, Documents, LTypeOK, TypeOK
<1> QED BY <1>1, <1>3, JobSets

LEMMA PlusType ==
  ASSUME NEW n \in 0..N
  PROVE  /\ Plus(n, {}) = n
         /\ \A x : Plus(n, {x}) = Capped(n)
         /\ \A S \in SUBSET Jobs : /\ Plus(n, S) \in 0..N
                                  /\ Plus(n, S) <= n + Cardinality(S)
<1>1. N \in Nat /\ n \in Nat /\ n <= N
  BY SizesAssumption
<1>2. Cardinality({}) = 0 /\ \A x : Cardinality({x}) = 1
  BY FS_EmptySet, FS_Singleton
<1>3. Plus(n, {}) = n
  BY <1>1, <1>2 DEF Plus
<1>4. ASSUME NEW x PROVE Plus(n, {x}) = Capped(n)
  <2>1. Plus(n, {x}) = IF n + 1 <= N THEN n + 1 ELSE N
    BY <1>2 DEF Plus
  <2> QED BY <1>1, <2>1 DEF Capped
<1>5. ASSUME NEW S \in SUBSET Jobs PROVE Plus(n, S) \in 0..N /\ Plus(n, S) <= n + Cardinality(S)
  BY <1>1, JobSets DEF Plus
<1> QED BY <1>3, <1>4, <1>5

(* What a step of the service does to the walk. *)
LEMMA MovesForm ==
  ASSUME LTypeOK, Moves
  PROVE  \/ ~Walking /\ walk' = walk
         \/ /\ Walking /\ SameView /\ walk' \in Walks
            /\ Stays \/ \E x \in Jobs : Leaves(x) \/ Joins(x)
<1>1. PICK l \in {walk.list} :
        walk' = IF Walking
                  THEN [walk EXCEPT !.unseen = @ \ (Listed(l) \ Listed(l)'),
                                    !.gone = Plus(@, Listed(l) \ Listed(l)'),
                                    !.come = Plus(@, Listed(l)' \ Listed(l)),
                                    !.late = IF walk.pc = "counted"
                                               THEN Plus(@, Listed(l)' \ Listed(l)) ELSE @]
                  ELSE walk
  BY DEF Moves
<1>2. SUFFICES ASSUME Walking
               PROVE  /\ SameView /\ walk' \in Walks
                      /\ Stays \/ \E x \in Jobs : Leaves(x) \/ Joins(x)
  BY <1>1
<1>3. /\ walk \in Walks /\ l \in Lists /\ Listed(l) \in SUBSET Jobs /\ Cur = Listed(l)
      /\ walk.gone \in 0..N /\ walk.come \in 0..N /\ walk.late \in 0..N
      /\ walk.unseen \in SUBSET Jobs
  <2>1. l = walk.list
    OBVIOUS
  <2> QED BY <2>1, CurType DEF LTypeOK, Walks, Cur
<1>4. Listed(l)' \in SUBSET Jobs
  <2>1. TypeOK' /\ l \in {"jobs", "pending", "documents"}
    BY <1>3, BacklogTypeStep, ListsAssumption DEF LTypeOK, Moves
  <2> QED BY <2>1 DEF Listed, AllJobs, PendingJobs, Documents, TypeOK
<1> DEFINE left == Listed(l) \ Listed(l)'
           joined == Listed(l)' \ Listed(l)
           u == walk.unseen \ left
           g == Plus(walk.gone, left)
           c == Plus(walk.come, joined)
           t == IF walk.pc = "counted" THEN Plus(walk.late, joined) ELSE walk.late
<1>5. walk' = [walk EXCEPT !.unseen = u, !.gone = g, !.come = c, !.late = t]
  BY <1>1, <1>2
<1>6. left \in SUBSET Jobs /\ joined \in SUBSET Jobs
  BY <1>3, <1>4
<1>7. u \in SUBSET Jobs /\ g \in 0..N /\ c \in 0..N /\ t \in 0..N
  <2> HIDE DEF left, joined
  <2> QED BY <1>3, <1>6, PlusType
<1>8. /\ SameView /\ walk' \in Walks
      /\ walk'.unseen = u /\ walk'.gone = g /\ walk'.come = c /\ walk'.late = t
  <2> HIDE DEF u, g, c, t
  <2> QED BY <1>3, <1>5, <1>7 DEF Walks, SameView
<1>9. Cur' = Listed(l)'
  <2>1. walk'.list = l
    BY <1>8 DEF SameView
  <2> QED BY <2>1 DEF Cur, Listed
<1>10. CASE Listed(l)' = Listed(l)
  <2>1. left = {} /\ joined = {}
    BY <1>10
  <2>2. u = walk.unseen /\ g = walk.gone /\ c = walk.come /\ t = walk.late
    <3> HIDE DEF left, joined
    <3> QED BY <1>3, <2>1, PlusType
  <2> HIDE DEF u, g, c, t
  <2>3. Stays
    BY <1>3, <1>8, <1>9, <1>10, <2>2 DEF Stays
  <2> QED BY <1>8, <2>3
<1>11. ASSUME NEW x \in Jobs, x \in Listed(l), Listed(l)' = Listed(l) \ {x} PROVE Leaves(x)
  <2>1. left = {x} /\ joined = {}
    BY <1>11
  <2>2. u = walk.unseen \ {x} /\ g = Capped(walk.gone) /\ c = walk.come /\ t = walk.late
    <3> HIDE DEF left, joined
    <3> QED BY <1>3, <2>1, PlusType
  <2> HIDE DEF u, g, c, t
  <2> QED BY <1>3, <1>8, <1>9, <1>11, <2>2 DEF Leaves
<1>12. ASSUME NEW x \in Jobs, x \notin Listed(l), Listed(l)' = Listed(l) \cup {x} PROVE Joins(x)
  <2>1. left = {} /\ joined = {x}
    BY <1>12
  <2>2. /\ u = walk.unseen /\ g = walk.gone /\ c = Capped(walk.come)
        /\ t = IF walk.pc = "counted" THEN Capped(walk.late) ELSE walk.late
    <3> HIDE DEF left, joined
    <3> QED BY <1>3, <2>1, PlusType
  <2> HIDE DEF u, g, c, t
  <2> QED BY <1>3, <1>8, <1>9, <1>12, <2>2 DEF Joins
<1>13. TypeOK /\ Next
  BY DEF Moves, LTypeOK
<1> HIDE DEF u, g, c, t, left, joined
<1> QED BY <1>3, <1>8, <1>10, <1>11, <1>12, <1>13, ListMoves

(* One page is shown. *)
These(S) ==
  S = {j \in Cur : Rank(Cur, j) > Base /\ Rank(Cur, j) <= Base + PageSize /\ Rank(Cur, j) <= walk.count}

Shows(S) ==
  /\ Cur' = Cur /\ walk' \in Walks
  /\ walk'.list = walk.list /\ walk'.page = walk.page + 1 /\ walk'.count = 0
  /\ walk'.unseen = walk.unseen \ S /\ walk'.shown = walk.shown \cup S
  /\ walk'.repeats = Plus(walk.repeats, walk.shown \cap S)
  /\ walk'.gone = walk.gone /\ walk'.come = walk.come /\ walk'.late = walk.late
  /\ walk'.pc = IF HasNext(walk.page, walk.count) THEN "next" ELSE "over"

(* The page asked for exists, so its number is in range. *)
LEMMA PageBound ==
  ASSUME walk \in Walks, walk.page = 1 \/ Base < walk.count
  PROVE  /\ walk.page + 1 \in 1..N + 1 /\ walk.page \in Nat \ {0}
         /\ Base \in Nat /\ walk.page * PageSize = Base + PageSize /\ PageSize \in Nat \ {0}
<1> DEFINE q == walk.page - 1
<1>1. /\ N \in Nat \ {0} /\ PageSize \in Nat \ {0}
      /\ walk.page \in 1..N + 1 /\ walk.count \in 0..N /\ q \in Nat /\ walk.page = q + 1
  BY SizesAssumption, ListsAssumption DEF Walks
<1>2. Base = q * PageSize
  BY DEF Base
<1> HIDE DEF q
<1>3. q * PageSize \in Nat /\ (q + 1) * PageSize = q * PageSize + PageSize
  BY <1>1
<1>4. q * 1 <= q * PageSize
  BY <1>1, TimesMore
<1>5. q + 2 <= N + 1
  <2>1. CASE walk.page = 1
    BY <1>1, <2>1
  <2>2. CASE Base < walk.count
    BY <1>1, <1>2, <1>3, <1>4, <2>2
  <2> QED BY <2>1, <2>2
<1> QED BY <1>1, <1>2, <1>3, <1>5

LEMMA FetchForm ==
  ASSUME LTypeOK, LinkOwed, Fetch
  PROVE  \E S \in SUBSET Jobs : These(S) /\ Shows(S)
<1> DEFINE S == Slice(walk.page, walk.count)
           r == Plus(walk.repeats, walk.shown \cap S)
           n == walk.page + 1
           pc == IF HasNext(walk.page, walk.count) THEN "next" ELSE "over"
<1>1. /\ walk \in Walks /\ walk.pc = "counted" /\ UNCHANGED vars
      /\ walk' = [walk EXCEPT !.unseen = walk.unseen \ S, !.shown = walk.shown \cup S,
                             !.repeats = r, !.pc = pc, !.page = n, !.count = 0]
  BY DEF Fetch, LTypeOK
<1>2. /\ n \in 1..N + 1 /\ 0 \in 0..N /\ Base \in Nat
      /\ walk.page * PageSize = Base + PageSize /\ (walk.page - 1) * PageSize = Base
  BY <1>1, PageBound, SizesAssumption DEF LinkOwed, Base
<1>3. S \in SUBSET Jobs
  BY CurType DEF Slice, Cur
<1>4. These(S)
  <2>1. \A j \in Jobs : Position(walk.list, j) = Rank(Cur, j)
    BY DEF Position, Rank, Cur, NotAfter
  <2> HIDE DEF S
  <2>2. S = {j \in Cur : /\ Rank(Cur, j) > Base /\ Rank(Cur, j) <= Base + PageSize
                         /\ Rank(Cur, j) <= walk.count}
    BY <1>2, <2>1, CurType DEF S, Slice, Cur
  <2> QED BY <2>2 DEF These
<1> HIDE DEF S
<1>5. walk.shown \cap S \in SUBSET Jobs /\ r \in 0..N
  BY <1>1, <1>3, PlusType DEF Walks
<1>6. pc \in {"next", "over"}
  OBVIOUS
<1> HIDE DEF r, n, pc
<1>7. /\ walk' \in Walks
      /\ walk'.list = walk.list /\ walk'.page = n /\ walk'.count = 0
      /\ walk'.unseen = walk.unseen \ S /\ walk'.shown = walk.shown \cup S
      /\ walk'.repeats = r /\ walk'.pc = pc
      /\ walk'.gone = walk.gone /\ walk'.come = walk.come /\ walk'.late = walk.late
  BY <1>1, <1>2, <1>3, <1>5, <1>6 DEF Walks
<1>8. Cur' = Cur
  BY <1>1, <1>7 DEF Cur, Listed, vars, AllJobs, PendingJobs, Documents
<1>9. Shows(S)
  BY <1>7, <1>8 DEF Shows, r, n, pc
<1> QED BY <1>3, <1>4, <1>9
-----------------------------------------------------------------------------
(* Each step keeps the accounts. *)

Numbers ==
  /\ Base \in Nat /\ N \in Nat /\ walk \in Walks /\ Cur \in SUBSET Jobs /\ Cardinality(Cur) \in 0..N
  /\ walk.gone \in 0..N /\ walk.come \in 0..N /\ walk.late \in 0..N /\ walk.repeats \in 0..N
  /\ walk.count \in 0..N /\ walk.unseen \in SUBSET Jobs /\ walk.shown \in SUBSET Jobs
  /\ Passed \in SUBSET Jobs /\ Again \in SUBSET Jobs
  /\ Cardinality(Passed) \in 0..N /\ Cardinality(Again) \in 0..N

LEMMA NumbersType == LTypeOK => Numbers
<1> SUFFICES ASSUME LTypeOK PROVE Numbers
  OBVIOUS
<1>1. /\ walk \in Walks /\ N \in Nat
      /\ walk.gone \in 0..N /\ walk.come \in 0..N /\ walk.late \in 0..N /\ walk.repeats \in 0..N
      /\ walk.count \in 0..N /\ walk.unseen \in SUBSET Jobs /\ walk.shown \in SUBSET Jobs
  BY SizesAssumption DEF LTypeOK, Walks
<1>2. Base \in Nat
  <2> DEFINE q == walk.page - 1
  <2>1. q \in Nat /\ PageSize \in Nat
    BY SizesAssumption, ListsAssumption DEF LTypeOK, Walks
  <2> HIDE DEF q
  <2>2. q * PageSize \in Nat
    BY <2>1
  <2> QED BY <2>2 DEF Base, q
<1>3. Passed \in SUBSET Jobs /\ Again \in SUBSET Jobs
  BY <1>1 DEF Passed, Again
<1> QED BY <1>1, <1>2, <1>3, CurType, JobSets DEF Numbers

(* How positions change as an entry leaves or joins. *)
LEMMA RankLeaves ==
  ASSUME Cur \in SUBSET Jobs, NEW x \in Jobs, Leaves(x), NEW u \in Jobs
  PROVE  /\ Rank(Cur, u) \in Nat /\ Rank(Cur', u) \in Nat
         /\ Rank(Cur', u) <= Rank(Cur, u) /\ Rank(Cur, u) <= Rank(Cur', u) + 1
<1>1. Cur' = Cur \ {x} /\ x \in Cur /\ Cur' \in SUBSET Jobs
  BY DEF Leaves
<1>2. Rank(Cur, u) \in Nat /\ Rank(Cur', u) \in Nat
  BY <1>1, RankType, JobSets
<1>3. Rank(Cur', u) = IF x >= u THEN Rank(Cur, u) - 1 ELSE Rank(Cur, u)
  BY <1>1, RankRest
<1> QED BY <1>2, <1>3

LEMMA RankJoins ==
  ASSUME Cur \in SUBSET Jobs, NEW x \in Jobs, Joins(x), NEW u \in Jobs
  PROVE  /\ Cur' \in SUBSET Jobs
         /\ Rank(Cur, u) \in Nat /\ Rank(Cur', u) \in Nat
         /\ Rank(Cur, u) = IF x >= u THEN Rank(Cur', u) - 1 ELSE Rank(Cur', u)
<1>1. Cur = Cur' \ {x} /\ x \in Cur' /\ Cur' \in SUBSET Jobs
  BY DEF Joins
<1>2. Rank(Cur, u) \in Nat /\ Rank(Cur', u) \in Nat
  BY <1>1, RankType, JobSets
<1>3. Rank(Cur' \ {x}, u) = IF x >= u THEN Rank(Cur', u) - 1 ELSE Rank(Cur', u)
  BY <1>1, RankRest
<1> QED BY <1>1, <1>2, <1>3

LEMMA LeavesKeep ==
  ASSUME Numbers, Numbers', Accounts, Walking, SameView, NEW x \in Jobs, Leaves(x)
  PROVE  MissOwed' /\ RepeatOwed' /\ LinkOwed' /\ walk'.gone > 0
<1>1. Base' = Base /\ Walking'
  BY DEF Base, SameView, Walking
<1>2. Base \in Nat /\ N \in Nat /\ walk.gone \in 0..N /\ Cur \in SUBSET Jobs
  BY DEF Numbers
<1>3. N > 0 /\ walk'.gone = Capped(walk.gone)
  BY SizesAssumption DEF Leaves
<1>4. Cardinality(Passed') <= walk'.gone
  <2> DEFINE X == {u \in Cur : Rank(Cur, u) = Base + 1}
  <2>1. Passed' \subseteq Passed \cup X
    <3> SUFFICES ASSUME NEW u \in Passed' PROVE u \in Passed \/ u \in X
      OBVIOUS
    <3>1. u \in walk.unseen /\ u \in Cur /\ u \in Jobs /\ Rank(Cur', u) <= Base
      BY <1>1, <1>2 DEF Passed, Leaves, Accounts, MissOwed
    <3>2. Rank(Cur, u) \in Nat /\ Rank(Cur', u) \in Nat /\ Rank(Cur, u) <= Rank(Cur', u) + 1
      BY <1>2, <3>1, RankLeaves
    <3>3. Rank(Cur, u) <= Base \/ Rank(Cur, u) = Base + 1
      BY <1>2, <3>1, <3>2
    <3> QED BY <3>1, <3>3 DEF Passed
  <2>2. Cardinality(X) <= 1 /\ X \in SUBSET Jobs
    BY <1>2, OneAtRank
  <2>3. Passed \in SUBSET Jobs /\ Passed' \in SUBSET Jobs
    BY DEF Numbers
  <2> HIDE DEF X
  <2>4. Cardinality(Passed') <= Cardinality(Passed) + 1
    BY <2>1, <2>2, <2>3, OneApart
  <2>5. Cardinality(Passed) <= walk.gone /\ Cardinality(Passed) \in 0..N /\ Cardinality(Passed') \in 0..N
    BY DEF Accounts, MissOwed, Numbers
  <2> QED BY <1>2, <1>3, <2>4, <2>5 DEF Capped
<1>5. MissOwed'
  <2>1. walk'.unseen \subseteq Cur'
    BY DEF Accounts, MissOwed, Leaves
  <2>2. Cardinality(Cur') <= Cardinality(Cur)
    BY <1>2, Smaller DEF Leaves
  <2>3. /\ Cardinality(Cur) \in 0..N /\ Cardinality(Cur') \in 0..N
        /\ walk.count \in 0..N /\ walk.late \in 0..N
    BY DEF Numbers
  <2>4. walk.pc = "counted" => Cardinality(Cur') <= walk.count + walk.late
    BY <1>2, <2>2, <2>3 DEF Accounts, MissOwed
  <2> QED BY <1>4, <2>1, <2>4 DEF MissOwed, Leaves, SameView
<1>6. RepeatOwed'
  <2>1. Again' \in SUBSET Again
    <3> SUFFICES ASSUME NEW u \in Again' PROVE u \in Again
      OBVIOUS
    <3>1. u \in walk.shown /\ u \in Cur /\ u \in Jobs /\ Rank(Cur', u) > Base
      BY <1>1, <1>2 DEF Again, Leaves, SameView
    <3>2. Rank(Cur, u) \in Nat /\ Rank(Cur', u) \in Nat /\ Rank(Cur', u) <= Rank(Cur, u)
      BY <1>2, <3>1, RankLeaves
    <3> QED BY <1>2, <3>1, <3>2 DEF Again
  <2>2. Cardinality(Again') <= Cardinality(Again)
    BY <2>1, Smaller DEF Numbers
  <2>3. /\ Cardinality(Again) \in 0..N /\ Cardinality(Again') \in 0..N
        /\ walk.repeats \in 0..N /\ walk.come \in 0..N
    BY DEF Numbers
  <2>4. walk.come = N \/ walk.repeats + Cardinality(Again) <= walk.come
    BY DEF Accounts, RepeatOwed
  <2>5. walk.come = N \/ walk.repeats + Cardinality(Again') <= walk.come
    BY <1>2, <2>2, <2>3, <2>4
  <2> QED BY <2>5 DEF RepeatOwed, Leaves, SameView
<1>7. walk'.gone > 0
  BY <1>2, <1>3 DEF Capped
<1>8. LinkOwed'
  <2>1. walk'.gone # 0
    BY <1>7
  <2> QED BY <1>1, <2>1 DEF LinkOwed, Accounts, SameView
<1> QED BY <1>5, <1>6, <1>7, <1>8

LEMMA JoinsKeep ==
  ASSUME Numbers, Numbers', Accounts, Walking, SameView, NEW x \in Jobs, Joins(x)
  PROVE  MissOwed' /\ RepeatOwed' /\ LinkOwed'
<1>1. Base' = Base /\ Walking'
  BY DEF Base, SameView, Walking
<1>2. /\ Base \in Nat /\ N \in Nat /\ Cur \in SUBSET Jobs /\ Cur' \in SUBSET Jobs
      /\ Cardinality(Cur) \in 0..N /\ Cardinality(Cur') \in 0..N
      /\ walk.count \in 0..N /\ walk.late \in 0..N /\ walk.come \in 0..N /\ walk.repeats \in 0..N
      /\ Cardinality(Passed) \in 0..N /\ Cardinality(Passed') \in 0..N
      /\ Cardinality(Again) \in 0..N /\ Cardinality(Again') \in 0..N
      /\ Passed \in SUBSET Jobs /\ Again \in SUBSET Jobs /\ Again' \in SUBSET Jobs
      /\ walk.gone \in 0..N
  BY DEF Numbers
<1>3. Cardinality(Cur') = Cardinality(Cur) + 1
  <2>1. IsFiniteSet(Cur)
    BY <1>2, JobSets
  <2> QED BY <2>1, FS_AddElement DEF Joins
<1>4. MissOwed'
  <2>1. walk'.unseen \subseteq Cur'
    BY DEF Accounts, MissOwed, Joins
  <2>2. Passed' \in SUBSET Passed
    <3> SUFFICES ASSUME NEW u \in Passed' PROVE u \in Passed
      OBVIOUS
    <3>1. u \in walk.unseen /\ u \in Jobs /\ Rank(Cur', u) <= Base
      BY <1>1 DEF Passed, Joins, Numbers
    <3>2. Rank(Cur, u) \in Nat /\ Rank(Cur', u) \in Nat /\ Rank(Cur, u) <= Rank(Cur', u)
      BY <1>2, <3>1, RankJoins
    <3> QED BY <1>2, <3>1, <3>2 DEF Passed
  <2>3. Cardinality(Passed') <= Cardinality(Passed)
    BY <1>2, <2>2, Smaller
  <2>4. Cardinality(Passed') <= walk'.gone
    BY <1>2, <2>3 DEF Accounts, MissOwed, Joins
  <2>5. walk.pc = "counted" => Cardinality(Cur') <= walk.count + walk'.late
    BY <1>2, <1>3 DEF Accounts, MissOwed, Joins, Capped
  <2> QED BY <2>1, <2>4, <2>5 DEF MissOwed, SameView
<1>5. Cardinality(Again') <= Cardinality(Again) + 1
  <2>1. PICK X \in SUBSET Jobs : Again' \subseteq Again \cup X /\ Cardinality(X) <= 1
    <3>1. Rank(Cur', x) \in Nat /\ x \in Cur'
      BY <1>2, RankJoins DEF Joins
    <3>2. CASE Rank(Cur', x) > Base
      <4>1. ASSUME NEW u \in Again', u # x PROVE u \in Again
        <5>1. u \in walk.shown /\ u \in Cur /\ u \in Cur' /\ u \in Jobs /\ Rank(Cur', u) > Base
          BY <1>1, <1>2, <4>1 DEF Again, Joins, SameView
        <5>2. /\ Rank(Cur, u) \in Nat /\ Rank(Cur', u) \in Nat
              /\ Rank(Cur, u) = IF x >= u THEN Rank(Cur', u) - 1 ELSE Rank(Cur', u)
          BY <1>2, <5>1, RankJoins
        <5>3. x > u => Rank(Cur', x) < Rank(Cur', u)
          BY <1>2, <3>1, <5>1, RankOrder
        <5>4. x \in Int /\ u \in Int
          BY <5>1 DEF Jobs
        <5>5. Rank(Cur, u) > Base
          BY <1>2, <3>1, <3>2, <4>1, <5>1, <5>2, <5>3, <5>4
        <5> QED BY <5>1, <5>5 DEF Again
      <4>2. Again' \subseteq Again \cup {x} /\ {x} \in SUBSET Jobs
        BY <4>1
      <4>3. Cardinality({x}) = 1
        BY FS_Singleton
      <4>4. Cardinality({x}) <= 1
        BY <4>3
      <4> QED BY <4>2, <4>4
    <3>3. CASE ~(Rank(Cur', x) > Base)
      <4> DEFINE X == {u \in Cur : Rank(Cur, u) = Base}
      <4>1. ASSUME NEW u \in Again' PROVE u \in Again \/ u \in X
        <5>1. u # x /\ u \in walk.shown /\ u \in Cur /\ u \in Jobs /\ Rank(Cur', u) > Base
          BY <1>1, <1>2, <3>3, <4>1 DEF Again, Joins, SameView
        <5>2. /\ Rank(Cur, u) \in Nat /\ Rank(Cur', u) \in Nat
              /\ Rank(Cur, u) = IF x >= u THEN Rank(Cur', u) - 1 ELSE Rank(Cur', u)
          BY <1>2, <5>1, RankJoins
        <5>3. Rank(Cur, u) > Base \/ Rank(Cur, u) = Base
          BY <1>2, <5>1, <5>2
        <5> QED BY <5>1, <5>3 DEF Again
      <4>2. Again' \subseteq Again \cup X /\ X \in SUBSET Jobs
        BY <1>2, <4>1
      <4>3. Cardinality(X) <= 1
        BY <1>2, OneAtRank
      <4> HIDE DEF X
      <4> QED BY <4>2, <4>3
    <3> QED BY <3>2, <3>3
  <2> QED BY <1>2, <2>1, OneApart
<1>6. RepeatOwed'
  <2>1. walk.come = N \/ walk.repeats + Cardinality(Again) <= walk.come
    BY DEF Accounts, RepeatOwed
  <2>2. walk'.come = Capped(walk.come) /\ walk'.repeats = walk.repeats
    BY DEF Joins, SameView
  <2>3. walk'.come = N \/ walk'.repeats + Cardinality(Again') <= walk'.come
    BY <1>2, <1>5, <2>1, <2>2 DEF Capped
  <2> QED BY <2>3 DEF RepeatOwed
<1>7. LinkOwed'
  <2>1. walk'.gone = walk.gone
    BY DEF Joins
  <2>2. walk.pc = "counted" /\ walk.gone = 0 => walk.count <= Cardinality(Cur')
    BY <1>2, <1>3 DEF Accounts, LinkOwed
  <2>3. walk.pc = "next" /\ walk.gone = 0 => Base < Cardinality(Cur')
    BY <1>2, <1>3 DEF Accounts, LinkOwed
  <2> QED BY <1>1, <2>1, <2>2, <2>3 DEF LinkOwed, Accounts, SameView
<1> QED BY <1>4, <1>6, <1>7
LEMMA MovesKeep == ASSUME LTypeOK, Accounts, Moves PROVE Accounts' /\ walk' \in Walks
<1>1. CASE ~Walking /\ walk' = walk
  BY <1>1 DEF Accounts, Unstarted, MissOwed, RepeatOwed, LinkOwed, MissedBounded, RepeatsBounded,
              LinkHolds, Walking, LTypeOK
<1>2. CASE /\ Walking /\ SameView /\ walk' \in Walks
           /\ Stays \/ \E x \in Jobs : Leaves(x) \/ Joins(x)
  <2>1. Numbers /\ Numbers'
    <3>1. LTypeOK'
      BY <1>2, BacklogTypeStep DEF Moves, LTypeOK
    <3> QED BY <3>1, NumbersType, PTL
  <2>2. Unstarted' /\ MissedBounded' /\ LinkHolds'
    BY <1>2 DEF Unstarted, MissedBounded, LinkHolds, SameView, Walking
  <2>3. RepeatsBounded'
    <3>1. walk.repeats <= walk.come /\ walk'.repeats = walk.repeats
      BY <1>2 DEF Accounts, RepeatsBounded, SameView
    <3>2. walk.come <= walk'.come
      BY <1>2, <2>1 DEF Numbers, Stays, Leaves, Joins, Capped
    <3>3. walk.repeats \in Nat /\ walk.come \in Nat /\ walk'.come \in Nat
      BY <2>1 DEF Numbers
    <3> QED BY <3>1, <3>2, <3>3 DEF RepeatsBounded
  <2>4. CASE Stays
    <3>1. Base' = Base
      BY <1>2 DEF Base, SameView
    <3>2. Passed' = Passed /\ Again' = Again
      BY <1>2, <2>4, <3>1 DEF Passed, Again, SameView, Stays
    <3>3. MissOwed' /\ RepeatOwed' /\ LinkOwed'
      BY <1>2, <2>4, <3>1, <3>2 DEF Accounts, MissOwed, RepeatOwed, LinkOwed, SameView, Stays, Walking
    <3> QED BY <1>2, <2>2, <2>3, <3>3 DEF Accounts
  <2>5. ASSUME NEW x \in Jobs, Leaves(x) \/ Joins(x) PROVE MissOwed' /\ RepeatOwed' /\ LinkOwed'
    BY <1>2, <2>1, <2>5, LeavesKeep, JoinsKeep
  <2> QED BY <1>2, <2>2, <2>3, <2>4, <2>5 DEF Accounts
<1> QED BY <1>1, <1>2, MovesForm

LEMMA StartKeeps == ASSUME LTypeOK, Accounts, Start PROVE Accounts' /\ walk' \in Walks
<1>1. /\ Numbers /\ walk.page = 1 /\ walk.shown = {} /\ walk.repeats = 0
  BY NumbersType DEF Start, Accounts, Unstarted
<1> DEFINE n == Cardinality(Cur)
<1>2. /\ walk' = [walk EXCEPT !.unseen = Cur, !.pc = "counted", !.count = n, !.late = 0]
      /\ UNCHANGED vars
  BY <1>1 DEF Start, Counted, Cur, Numbers, Walks
<1>3. n \in 0..N /\ 0 \in 0..N /\ Cur \in SUBSET Jobs /\ walk \in Walks
  BY <1>1 DEF Numbers
<1> HIDE DEF n
<1>4. /\ walk' \in Walks /\ walk'.pc = "counted" /\ walk'.list = walk.list /\ walk'.page = 1
      /\ walk'.count = n /\ walk'.unseen = Cur /\ walk'.shown = {} /\ walk'.repeats = 0
      /\ walk'.gone = walk.gone /\ walk'.come = walk.come /\ walk'.late = 0
  BY <1>1, <1>2, <1>3 DEF Walks
<1>5. Cur' = Cur
  BY <1>2, <1>4 DEF Cur, Listed, vars, AllJobs, PendingJobs, Documents
<1>6. Base' = 0
  BY <1>4, ListsAssumption DEF Base
<1>7. Passed' = {}
  <2>1. \A u \in Cur : Rank(Cur, u) \in Nat /\ Rank(Cur, u) >= 1
    BY <1>3, RankType, JobSets
  <2> QED BY <1>4, <1>5, <1>6, <2>1 DEF Passed
<1>8. Again' = {}
  BY <1>4 DEF Again
<1>9. Cardinality({}) = 0
  BY FS_EmptySet
<1>10. walk.gone \in Nat /\ walk.come \in Nat
  BY <1>1 DEF Numbers
<1>11. MissOwed'
  BY <1>3, <1>4, <1>5, <1>7, <1>9, <1>10 DEF MissOwed, n
<1>12. RepeatOwed' /\ RepeatsBounded'
  BY <1>4, <1>8, <1>9, <1>10 DEF RepeatOwed, RepeatsBounded
<1>13. LinkOwed'
  BY <1>3, <1>4, <1>5 DEF LinkOwed, n
<1>14. Unstarted' /\ MissedBounded' /\ LinkHolds'
  BY <1>4 DEF Unstarted, MissedBounded, LinkHolds
<1> QED BY <1>4, <1>11, <1>12, <1>13, <1>14 DEF Accounts

LEMMA AskKeeps == ASSUME LTypeOK, Accounts, Ask PROVE Accounts' /\ walk' \in Walks
<1> DEFINE n == Cardinality(Cur)
<1>1. /\ Numbers /\ walk.pc = "next" /\ walk.page # 1 /\ UNCHANGED vars
      /\ walk.gone = 0 => Base < n
      /\ walk.unseen \subseteq Cur /\ Cardinality(Passed) <= walk.gone
      /\ walk.come = N \/ walk.repeats + Cardinality(Again) <= walk.come
      /\ walk.repeats <= walk.come
  BY NumbersType DEF Ask, Accounts, MissOwed, RepeatOwed, LinkOwed, RepeatsBounded, Walking
<1>2. n \in 0..N /\ 0 \in 0..N /\ Cur \in SUBSET Jobs /\ walk \in Walks /\ Base \in Nat
  BY <1>1 DEF Numbers
<1>3. Valid(walk.page, Cardinality(Listed(walk.list))) <=> Base < n
  BY <1>1 DEF Valid, Base, Cur
<1>4. CASE Base < n
  <2>1. walk' = [walk EXCEPT !.pc = "counted", !.count = n, !.late = 0]
    BY <1>3, <1>4 DEF Ask, Counted, Cur
  <2> HIDE DEF n
  <2>2. /\ walk' \in Walks /\ walk'.pc = "counted" /\ walk'.list = walk.list /\ walk'.page = walk.page
        /\ walk'.count = n /\ walk'.unseen = walk.unseen /\ walk'.shown = walk.shown
        /\ walk'.repeats = walk.repeats /\ walk'.gone = walk.gone /\ walk'.come = walk.come
        /\ walk'.late = 0
    BY <1>2, <2>1 DEF Walks
  <2>3. Cur' = Cur /\ Base' = Base
    BY <1>1, <2>2 DEF Cur, Base, Listed, vars, AllJobs, PendingJobs, Documents
  <2>4. Passed' = Passed /\ Again' = Again
    BY <2>2, <2>3 DEF Passed, Again
  <2>5. MissOwed'
    BY <1>1, <1>2, <2>2, <2>3, <2>4 DEF MissOwed, n
  <2>6. RepeatOwed' /\ RepeatsBounded'
    BY <1>1, <2>2, <2>4 DEF RepeatOwed, RepeatsBounded
  <2>7. LinkOwed'
    BY <1>2, <1>4, <2>2, <2>3 DEF LinkOwed, n
  <2>8. Unstarted' /\ MissedBounded' /\ LinkHolds'
    BY <2>2 DEF Unstarted, MissedBounded, LinkHolds
  <2> QED BY <2>2, <2>5, <2>6, <2>7, <2>8 DEF Accounts
<1>5. CASE ~(Base < n)
  <2>1. walk' = [walk EXCEPT !.pc = "refused"]
    BY <1>3, <1>5 DEF Ask
  <2>2. /\ walk' \in Walks /\ walk'.pc = "refused" /\ walk'.unseen = walk.unseen
        /\ walk'.repeats = walk.repeats /\ walk'.gone = walk.gone /\ walk'.come = walk.come
        /\ walk'.late = walk.late
    BY <1>2, <2>1 DEF Walks
  <2>3. Passed = walk.unseen
    <3>1. ASSUME NEW u \in walk.unseen PROVE Rank(Cur, u) <= Base
      <4>1. u \in Jobs
        BY <1>1, <1>2
      <4>2. Rank(Cur, u) \in 0..n
        BY <1>2, <4>1, RankType
      <4> HIDE DEF n
      <4> QED BY <1>2, <1>5, <4>2
    <3> QED BY <3>1 DEF Passed
  <2>4. MissedBounded'
    <3>1. walk.gone \in Nat /\ walk.late \in Nat /\ Cardinality(walk.unseen) \in Nat
      BY <1>1, JobSets DEF Numbers
    <3>2. Cardinality(walk.unseen) <= walk.gone + walk.late
      BY <1>1, <2>3, <3>1
    <3> QED BY <2>2, <3>2 DEF MissedBounded
  <2>5. LinkHolds'
    BY <1>1, <1>5, <2>2 DEF LinkHolds, Numbers
  <2>6. RepeatsBounded'
    BY <1>1, <2>2 DEF RepeatsBounded
  <2>7. Unstarted' /\ MissOwed' /\ RepeatOwed' /\ LinkOwed'
    BY <2>2 DEF Unstarted, MissOwed, RepeatOwed, LinkOwed, Walking
  <2> QED BY <2>2, <2>4, <2>5, <2>6, <2>7 DEF Accounts
<1> QED BY <1>4, <1>5

LEMMA FetchKeeps == ASSUME LTypeOK, Accounts, Fetch PROVE Accounts' /\ walk' \in Walks
<1>1. PICK S \in SUBSET Jobs : These(S) /\ Shows(S)
  BY FetchForm DEF Accounts
<1>2. /\ Numbers /\ walk.pc = "counted"
      /\ walk.page = 1 \/ Base < walk.count
      /\ walk.gone = 0 => walk.count <= Cardinality(Cur)
      /\ walk.unseen \subseteq Cur /\ Cardinality(Passed) <= walk.gone
      /\ Cardinality(Cur) <= walk.count + walk.late
      /\ walk.come = N \/ walk.repeats + Cardinality(Again) <= walk.come
      /\ walk.repeats <= walk.come
  BY NumbersType DEF Fetch, Accounts, MissOwed, RepeatOwed, LinkOwed, RepeatsBounded, Walking
<1>3. /\ Base \in Nat /\ PageSize \in Nat \ {0} /\ walk.page \in Nat \ {0}
      /\ walk.page * PageSize = Base + PageSize
  BY <1>2, PageBound DEF Numbers
<1>4. Base' = Base + PageSize
  <2>1. walk'.page - 1 = walk.page
    BY <1>1, <1>3 DEF Shows
  <2> QED BY <1>3, <2>1 DEF Base
<1>5. /\ Cur' = Cur /\ walk' \in Walks /\ walk'.pc \in {"next", "over"}
      /\ walk'.pc = "next" <=> Base + PageSize < walk.count
  BY <1>1, <1>3 DEF Shows, HasNext
<1>6. \A u \in Cur : Rank(Cur, u) \in Nat
  BY <1>2, RankType, JobSets DEF Numbers
<1>7. /\ walk.count \in Nat /\ walk.gone \in Nat /\ walk.late \in Nat /\ walk.come \in 0..N /\ N \in Nat
      /\ walk.repeats \in 0..N /\ Cardinality(Cur) \in Nat /\ Cur \in SUBSET Jobs
      /\ walk.unseen \in SUBSET Jobs /\ walk.shown \in SUBSET Jobs
      /\ Passed \in SUBSET Jobs /\ Again \in SUBSET Jobs
      /\ Cardinality(Passed) \in Nat /\ Cardinality(Again) \in Nat
  BY <1>2 DEF Numbers
<1>8. MissOwed'
  <2> SUFFICES ASSUME walk'.pc = "next"
               PROVE  walk'.unseen \subseteq Cur' /\ Cardinality(Passed') <= walk'.gone
    BY <1>5 DEF MissOwed, Walking
  <2>1. Passed' \in SUBSET Passed
    <3> SUFFICES ASSUME NEW u \in Passed' PROVE u \in Passed
      OBVIOUS
    <3>1. u \in walk.unseen /\ u \notin S /\ u \in Cur /\ Rank(Cur, u) <= Base + PageSize
      BY <1>1, <1>2, <1>4, <1>5 DEF Passed, Shows
    <3>2. Rank(Cur, u) <= Base
      BY <1>1, <1>3, <1>5, <1>6, <1>7, <3>1 DEF These
    <3> QED BY <3>1, <3>2 DEF Passed
  <2>2. Passed' \in SUBSET Jobs
    BY <1>7, <2>1
  <2>3. Cardinality(Passed') <= Cardinality(Passed) /\ Cardinality(Passed') \in Nat
    BY <1>7, <2>1, <2>2, Smaller, JobSets
  <2>4. walk'.unseen \subseteq Cur' /\ walk'.gone = walk.gone
    BY <1>1, <1>2, <1>5 DEF Shows
  <2> QED BY <1>2, <1>7, <2>3, <2>4
<1>9. MissedBounded'
  <2> SUFFICES ASSUME walk'.pc = "over"
               PROVE  Cardinality(walk'.unseen) <= walk'.gone + walk'.late
    BY <1>5 DEF MissedBounded
  <2> DEFINE X == {u \in Cur : Rank(Cur, u) > walk.count}
             U == walk.unseen \ S
  <2>1. Cardinality(X) <= walk.late
    BY <1>2, <1>7, Beyond
  <2>2. U \subseteq Passed \cup X
    <3> SUFFICES ASSUME NEW u \in U PROVE u \in Passed \/ u \in X
      OBVIOUS
    <3>1. u \in walk.unseen /\ u \notin S /\ u \in Cur
      BY <1>2
    <3>2. Rank(Cur, u) <= Base \/ Rank(Cur, u) > walk.count
      BY <1>1, <1>3, <1>5, <1>6, <1>7, <3>1 DEF These
    <3> QED BY <3>1, <3>2 DEF Passed
  <2>3. X \in SUBSET Jobs /\ U \in SUBSET Jobs
    BY <1>7
  <2> HIDE DEF X, U
  <2>4. Passed \cup X \in SUBSET Jobs /\ Passed \cap X \in SUBSET Jobs
    BY <1>7, <2>3
  <2>5. /\ Cardinality(X) \in Nat /\ Cardinality(U) \in Nat /\ IsFiniteSet(X) /\ IsFiniteSet(Passed)
        /\ Cardinality(Passed \cup X) \in Nat /\ Cardinality(Passed \cap X) \in Nat
    BY <1>7, <2>3, <2>4, JobSets
  <2>6. Cardinality(Passed \cup X) = Cardinality(Passed) + Cardinality(X) - Cardinality(Passed \cap X)
    BY <2>5, FS_Union
  <2>7. Cardinality(U) <= Cardinality(Passed \cup X)
    BY <2>2, <2>4, Smaller
  <2>8. Cardinality(U) <= walk.gone + walk.late
    BY <1>2, <1>7, <2>1, <2>5, <2>6, <2>7
  <2> QED BY <1>1, <2>8 DEF Shows, U
<1>10. RepeatOwed' /\ RepeatsBounded'
  <2> DEFINE T == walk.shown \cap S
  <2>1. Again' \cap T = {} /\ Again' \cup T \in SUBSET Again /\ Again' \in SUBSET Jobs /\ T \in SUBSET Jobs
    <3>1. ASSUME NEW u \in Again' PROVE u \in Again /\ u \notin S
      <4>1. (u \in walk.shown \/ u \in S) /\ u \in Cur /\ Rank(Cur, u) > Base + PageSize
        BY <1>1, <1>4, <1>5, <3>1 DEF Again, Shows
      <4>2. u \notin S
        BY <1>1, <1>3, <1>6, <4>1 DEF These
      <4>3. Rank(Cur, u) > Base
        BY <1>3, <1>6, <4>1
      <4> QED BY <4>1, <4>2, <4>3 DEF Again
    <3>2. ASSUME NEW u \in T PROVE u \in Again
      BY <1>1, <3>2 DEF Again, These
    <3> QED BY <1>7, <3>1, <3>2
  <2> HIDE DEF T
  <2>2. /\ IsFiniteSet(Again') /\ IsFiniteSet(T) /\ Again' \cup T \in SUBSET Jobs
        /\ Cardinality(Again') \in Nat /\ Cardinality(T) \in Nat /\ Cardinality(Again' \cup T) \in Nat
    <3>1. Again' \cup T \in SUBSET Jobs
      BY <2>1
    <3> QED BY <2>1, <3>1, JobSets
  <2>3. Cardinality(Again' \cup T) = Cardinality(Again') + Cardinality(T)
    <3>1. Cardinality(Again' \cup T)
            = Cardinality(Again') + Cardinality(T) - Cardinality(Again' \cap T)
      BY <2>2, FS_Union
    <3>2. Cardinality(Again' \cap T) = 0
      BY <2>1, FS_EmptySet
    <3> QED BY <2>2, <3>1, <3>2
  <2>4. Cardinality(Again' \cup T) <= Cardinality(Again)
    BY <1>7, <2>1, Smaller
  <2>5. /\ walk'.repeats = Plus(walk.repeats, T) /\ walk'.come = walk.come
    BY <1>1 DEF Shows, T
  <2>6. walk'.repeats \in 0..N /\ walk'.repeats <= walk.repeats + Cardinality(T)
    BY <1>7, <2>1, <2>5, PlusType
  <2>7. walk'.come = N \/ walk'.repeats + Cardinality(Again') <= walk'.come
    BY <1>2, <1>7, <2>2, <2>3, <2>4, <2>5, <2>6
  <2>8. walk'.repeats <= walk'.come
    BY <1>7, <2>2, <2>5, <2>6, <2>7
  <2> QED BY <2>7, <2>8 DEF RepeatOwed, RepeatsBounded
<1>11. LinkOwed' /\ LinkHolds'
  <2>1. walk'.page # 1 /\ walk'.gone = walk.gone
    BY <1>1, <1>3 DEF Shows
  <2>2. walk'.pc = "next" /\ walk'.gone = 0 => Base' < Cardinality(Cur')
    BY <1>2, <1>3, <1>4, <1>5, <1>7, <2>1
  <2> QED BY <1>5, <2>1, <2>2 DEF LinkOwed, LinkHolds
<1>12. Unstarted'
  BY <1>5 DEF Unstarted
<1> QED BY <1>5, <1>8, <1>9, <1>10, <1>11, <1>12 DEF Accounts

LEMMA WalkStep == LTypeOK /\ Accounts /\ [LNext]_lvars => LTypeOK' /\ Accounts'
<1> SUFFICES ASSUME LTypeOK, Accounts, [LNext]_lvars PROVE LTypeOK' /\ Accounts'
  OBVIOUS
<1>1. TypeOK'
  <2>1. [Next]_vars
    BY DEF LNext, Moves, Start, Ask, Fetch, lvars
  <2> QED BY <2>1, BacklogTypeStep DEF LTypeOK
<1>2. CASE UNCHANGED lvars
  <2>1. walk' = walk /\ Cur' = Cur
    BY <1>2 DEF lvars, vars, Cur, Listed, AllJobs, PendingJobs, Documents
  <2>2. Base' = Base /\ Passed' = Passed /\ Again' = Again
    BY <2>1 DEF Base, Passed, Again
  <2>3. Unstarted' /\ MissOwed' /\ RepeatOwed' /\ LinkOwed'
    BY <2>1, <2>2 DEF Accounts, Unstarted, MissOwed, RepeatOwed, LinkOwed, Walking
  <2>4. MissedBounded' /\ RepeatsBounded' /\ LinkHolds'
    BY <2>1 DEF Accounts, MissedBounded, RepeatsBounded, LinkHolds
  <2> QED BY <1>1, <2>1, <2>3, <2>4 DEF Accounts, LTypeOK
<1>3. CASE LNext
  <2>1. Accounts' /\ walk' \in Walks
    BY <1>3, MovesKeep, StartKeeps, AskKeeps, FetchKeeps DEF LNext
  <2> QED BY <1>1, <2>1 DEF LTypeOK
<1> QED BY <1>2, <1>3

LEMMA WalkAlways == LSpec => [](LTypeOK /\ Accounts)
<1>1. LInit => LTypeOK /\ Accounts
  <2> SUFFICES ASSUME LInit PROVE LTypeOK /\ Accounts
    OBVIOUS
  <2>1. PICK l \in Lists :
          walk = [pc |-> "off", list |-> l, page |-> 1, count |-> 0, unseen |-> {}, shown |-> {},
                  repeats |-> 0, gone |-> 0, come |-> 0, late |-> 0]
    BY DEF LInit
  <2>2. walk \in Walks
    BY <2>1, SizesAssumption DEF Walks
  <2>3. Accounts
    BY <2>1 DEF Accounts, Unstarted, MissOwed, RepeatOwed, LinkOwed, MissedBounded, RepeatsBounded,
                LinkHolds, Walking
  <2> QED BY <2>2, <2>3, BacklogInit DEF LInit, LTypeOK
<1> QED BY <1>1, WalkStep, PTL DEF LSpec

(* The backlog, its line and the walk of the client keep their types. *)
THEOREM ListingTypeCorrect == LSpec => []LTypeOK
BY WalkAlways, PTL

(* What a client misses has left the list before it came to it, or was     *)
(* pushed past the count of its last page.                                 *)
THEOREM MissedCorrect == LSpec => []MissedBounded
<1>1. Accounts => MissedBounded
  BY DEF Accounts
<1> QED BY <1>1, WalkAlways, PTL

(* What it sees twice was pushed behind it by what joined. *)
THEOREM RepeatsCorrect == LSpec => []RepeatsBounded
<1>1. Accounts => RepeatsBounded
  BY DEF Accounts
<1> QED BY <1>1, WalkAlways, PTL

(* A link to a next page fails only if entries have left the list. *)
THEOREM LinkCorrect == LSpec => []LinkHolds
<1>1. Accounts => LinkHolds
  BY DEF Accounts
<1> QED BY <1>1, WalkAlways, PTL
=============================================================================
