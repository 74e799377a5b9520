------------------------------- MODULE HealthProofs -------------------------------
(***************************************************************************)
(* Proofs about Health, for any mice, limits and retention.                *)
(***************************************************************************)
EXTENDS Health, FiniteSetTheorems, TLAPS

USE HealthAssumption

-----------------------------------------------------------------------------
(* Newest(S, n).                                                           *)

OneEach(S) == \A x, y \in S : x.at = y.at => x = y

(* It takes no more than n: what came later than an element is a smaller   *)
(* set for each later element, so that their numbers tell those apart.     *)
LEMMA NewestBounded ==
  ASSUME NEW S, IsFiniteSet(S), OneEach(S), \A x \in S : x.at \in Nat, NEW n \in Nat
  PROVE  IsFiniteSet(Newest(S, n)) /\ Cardinality(Newest(S, n)) <= n
<1> DEFINE T == Newest(S, n)
           Later(x) == {y \in S : y.at > x.at}
           rank == [x \in T |-> Cardinality(Later(x))]
<1>1. \A x \in S : IsFiniteSet(Later(x)) /\ Cardinality(Later(x)) \in Nat
  <2> TAKE x \in S
  <2>1. Later(x) \in SUBSET S
    OBVIOUS
  <2> QED
    BY <2>1, FS_Subset, FS_CardinalityType
<1>2. T \subseteq S /\ \A x \in T : Cardinality(Later(x)) < n
  BY DEF Newest
<1>3. rank \in [T -> 0..(n - 1)]
  <2>1. \A x \in T : Cardinality(Later(x)) \in 0..(n - 1)
    <3> TAKE x \in T
    <3>1. Cardinality(Later(x)) \in Nat /\ Cardinality(Later(x)) < n
      BY <1>1, <1>2
    <3> HIDE DEF Later
    <3> QED
      BY <3>1
  <2> HIDE DEF T, Later
  <2> QED
    BY <2>1
<1>4. ASSUME NEW x \in T, NEW z \in T, x.at < z.at PROVE rank[x] # rank[z]
  <2>1. Later(z) \in SUBSET Later(x)
    <3> SUFFICES ASSUME NEW y \in Later(z) PROVE y \in Later(x)
      OBVIOUS
    <3>1. x.at \in Nat /\ y.at \in Nat /\ z.at \in Nat
      BY <1>2
    <3> QED
      BY <1>4, <3>1
  <2>2. z \in Later(x) /\ z \notin Later(z)
    BY <1>2, <1>4
  <2>3. Cardinality(Later(x)) # Cardinality(Later(z))
    BY <1>1, <1>2, <2>1, <2>2, FS_Subset
  <2> QED
    BY <2>3
<1>5. ASSUME NEW x \in T, NEW z \in T, rank[x] = rank[z] PROVE x = z
  <2>1. x.at \in Nat /\ z.at \in Nat
    BY <1>2
  <2>2. ~(x.at < z.at) /\ ~(z.at < x.at)
    BY <1>4, <1>5
  <2>3. x.at = z.at
    BY <2>1, <2>2
  <2> QED
    BY <1>2, <2>3 DEF OneEach
<1>6. rank \in Injection(T, 0..(n - 1))
  BY <1>3, <1>5 DEF Injection, IsInjective
<1>7. IsFiniteSet(0..(n - 1)) /\ Cardinality(0..(n - 1)) = n
  <2>1. 0 \in Int /\ n - 1 \in Int /\ (0 > n - 1 <=> n = 0) /\ (n - 1) - 0 + 1 = n
    OBVIOUS
  <2>2. /\ IsFiniteSet(0..(n - 1))
        /\ Cardinality(0..(n - 1)) = IF 0 > n - 1 THEN 0 ELSE (n - 1) - 0 + 1
    BY <2>1, FS_Interval, Zenon
  <2> QED
    BY <2>1, <2>2
<1> HIDE DEF T, rank
<1>8. IsFiniteSet(T) /\ Cardinality(T) <= Cardinality(0..(n - 1))
  BY <1>6, <1>7, FS_Injection
<1> QED
  BY <1>7, <1>8 DEF T

-----------------------------------------------------------------------------
(* Types.                                                                  *)

LEMMA CountsInRange ==
  /\ \A n \in 0..MaxCount : Lesser(n + 1, MaxCount) \in 1..MaxCount
  /\ \A n \in 0..MaxSequence : Lesser(n + 1, MaxSequence) \in 1..MaxSequence
BY DEF Lesser

(* What a reporter with typed memory publishes is typed. *)
PublishedTypes ==
  /\ phase \in Phases /\ next \in Phases /\ sequence \in 0..MaxSequence
  /\ subject \in Mice \cup {NoSubject}
  /\ historical \subseteq [mouse : Mice, at : Nat] /\ incidents \subseteq Incidents
  /\ age \in 0..Heartbeat /\ file \in Capsules \cup {Missing, Unusable}
OtherTypes ==
  status \in Statuses /\ rate \in Rates /\ failures \in 0..MaxCount /\ arrivals \in Nat /\ moves \in Nat

LEMMA TypeParts == PublishedTypes' /\ OtherTypes' => TypeOK'
BY DEF TypeOK, PublishedTypes, OtherTypes

LEMMA PublishTyped ==
  ASSUME TypeOK, NEW m \in Mice \cup {NoSubject},
         NEW past \in SUBSET [mouse : Mice, at : Nat], NEW found \in SUBSET Incidents,
         NEW then \in Phases, PublishAfter(m, past, found, then)
  PROVE  PublishedTypes'
BY DEF PublishedTypes, PublishAfter, TypeOK, Phases, Newest, Retained

LEMMA SamePublishTyped ==
  ASSUME TypeOK, NEW then \in Phases, Publish(then)
  PROVE  PublishedTypes'
BY PublishTyped DEF Publish, TypeOK

LEMMA CapsuleTyped ==
  ASSUME TypeOK PROVE Capsule \in Capsules
<1>1. NextSequence \in 1..MaxSequence
  BY CountsInRange DEF TypeOK, NextSequence
<1>2. {h.mouse : h \in historical} \cup ({subject} \ {NoSubject}) \subseteq Mice
  BY DEF TypeOK
<1>3. {[code |-> i.code, mouse |-> i.mouse, count |-> i.count,
        open |-> Open(i), at |-> i.at] : i \in incidents} \subseteq Entries
  <2> SUFFICES ASSUME NEW i \in incidents
               PROVE  [code |-> i.code, mouse |-> i.mouse, count |-> i.count,
                       open |-> Open(i), at |-> i.at] \in Entries
    OBVIOUS
  <2>1. i.code \in Codes /\ i.mouse \in Mice /\ i.count \in 1..MaxCount /\ i.at \in Nat
    BY DEF TypeOK, Incidents
  <2>2. Open(i) \in BOOLEAN
    BY DEF Open
  <2> QED
    BY <2>1, <2>2 DEF Entries
<1> QED
  BY <1>1, <1>2, <1>3 DEF TypeOK, Capsule, Capsules

LEMMA TypeInit == Init => TypeOK
BY DEF Init, TypeOK, Phases, Statuses

LEMMA TypeStep == TypeOK /\ [Next]_vars => TypeOK'
<1> SUFFICES ASSUME TypeOK, [Next]_vars PROVE TypeOK'
  OBVIOUS
<1>1. CASE Persist
  BY <1>1, CapsuleTyped, CountsInRange DEF Persist, TypeOK, NextSequence
<1>2. CASE PersistFails
  BY <1>2 DEF PersistFails, memory, TypeOK, Move
<1>3. CASE Restore
  <2>1. sequence' \in 0..MaxSequence
    BY <1>3 DEF Restore, Capsules, TypeOK
  <2> QED
    BY <1>3, <2>1 DEF Restore, TypeOK, Phases
<1>4. CASE Starting
  <2>1. PublishedTypes'
    BY <1>4, SamePublishTyped DEF Starting, Phases
  <2>2. OtherTypes'
    BY <1>4 DEF Starting, OtherTypes, TypeOK, Statuses
  <2> QED
    BY <2>1, <2>2, TypeParts
<1>5. ASSUME NEW m \in Mice, Connected(m) PROVE TypeOK'
  <2> DEFINE leaves == {s \in {subject} : s \notin {NoSubject, m} /\ Cites(incidents, s)
                                            /\ \A h \in historical : h.mouse # s}
             past == {h \in historical : h.mouse # m}
                       \cup {[mouse |-> s, at |-> arrivals + 1] : s \in leaves}
             recovers(i) == i.mouse = m /\ Open(i)
             found == {i \in incidents : ~recovers(i)}
                        \cup {[i EXCEPT !.recovered = 0] : i \in {j \in incidents : recovers(j)}}
  <2>1. past \in SUBSET [mouse : Mice, at : Nat]
    BY DEF TypeOK
  <2>2. found \in SUBSET Incidents
    BY DEF TypeOK, Incidents
  <2>3. PublishAfter(m, past, found, "session")
    BY <1>5 DEF Connected
  <2> HIDE DEF past, found
  <2>4. PublishedTypes'
    BY <2>1, <2>2, <2>3, PublishTyped DEF Phases
  <2>5. OtherTypes'
    BY <1>5 DEF Connected, OtherTypes, TypeOK, Statuses, Move
  <2> QED
    BY <2>4, <2>5, TypeParts
<1>6. ASSUME NEW e \in Codes, NEW then \in Phases, SessionFailed(e, then) PROVE TypeOK'
  <2> DEFINE same == {i \in incidents : i.code = e /\ i.mouse = subject /\ Open(i)}
             more == {[i EXCEPT !.count = Lesser(@ + 1, MaxCount)] : i \in same}
             new  == [at |-> arrivals + 1, code |-> e, mouse |-> subject, count |-> 1,
                      recovered |-> Never]
             now  == IF subject = NoSubject THEN incidents
                     ELSE Newest(IF same = {} THEN incidents \cup {new}
                                              ELSE (incidents \ same) \cup more, MaxIncidents)
  <2>1. more \subseteq Incidents
    BY CountsInRange DEF TypeOK, Incidents
  <2>2. subject # NoSubject => new \in Incidents
    BY DEF TypeOK, Incidents
  <2>3. now \in SUBSET Incidents
    BY <2>1, <2>2 DEF TypeOK, Newest
  <2>4. PublishAfter(subject, historical, now, then)
    BY <1>6 DEF SessionFailed
  <2>5. failures' \in 0..MaxCount
    BY <1>6, CountsInRange DEF SessionFailed, TypeOK
  <2> HIDE DEF now
  <2>6. PublishedTypes'
    BY <2>3, <2>4, PublishTyped DEF TypeOK
  <2>7. OtherTypes'
    BY <1>6, <2>5 DEF SessionFailed, OtherTypes, TypeOK, Statuses, Move
  <2> QED
    BY <2>6, <2>7, TypeParts
<1>7. CASE Fails \/ SafetyStop
  BY <1>6, <1>7 DEF Fails, SafetyStop, Codes, Phases
<1>8. CASE RetryGap
  BY <1>8 DEF RetryGap, memory, TypeOK, Phases
<1>9. CASE Stopped
  <2>1. PublishedTypes'
    BY <1>9, SamePublishTyped DEF Stopped, Phases
  <2>2. OtherTypes'
    BY <1>9 DEF Stopped, OtherTypes, TypeOK, Statuses
  <2> QED
    BY <2>1, <2>2, TypeParts
<1>10. ASSUME NEW r \in Rates, PollingRateChanged(r) PROVE TypeOK'
  <2>1. PublishedTypes'
    BY <1>10, SamePublishTyped DEF PollingRateChanged, Phases
  <2>2. OtherTypes'
    BY <1>10 DEF PollingRateChanged, OtherTypes, TypeOK, Move
  <2> QED
    BY <2>1, <2>2, TypeParts
<1>11. CASE Refresh
  <2>1. PublishedTypes'
    BY <1>11, SamePublishTyped DEF Refresh, Phases
  <2>2. OtherTypes'
    BY <1>11 DEF Refresh, OtherTypes, TypeOK, Statuses
  <2> QED
    BY <2>1, <2>2, TypeParts
<1>12. CASE Tick
  <2>1. \A i \in Incidents : Older(i) \in Incidents
    BY DEF Older, Incidents, Lesser, Open
  <2> QED
    BY <1>12, <2>1 DEF Tick, TypeOK, Lesser
<1>13. CASE ClockSetBack
  <2>1. \A i \in Incidents : [i EXCEPT !.recovered = 0] \in Incidents
    BY DEF Incidents
  <2> QED
    BY <1>13, <2>1 DEF ClockSetBack, TypeOK, Move
<1>14. CASE Delete
  BY <1>14 DEF Delete, memory, TypeOK, Move
<1>15. CASE Restart
  BY <1>15 DEF Restart, Forget, TypeOK, Phases, Statuses, Move
<1>16. CASE UNCHANGED vars
  BY <1>16 DEF vars, memory, TypeOK
<1> QED
  BY <1>1, <1>2, <1>3, <1>4, <1>5, <1>7, <1>8, <1>9, <1>10, <1>11, <1>12, <1>13, <1>14, <1>15,
     <1>16 DEF Next, Events

(* Every variable keeps its range; what is written is a capsule. *)
THEOREM TypeCorrect == Spec => []TypeOK
BY TypeInit, TypeStep, PTL DEF Spec

-----------------------------------------------------------------------------
(* The sequence.  Once the earlier capsule was read, the reporter's number *)
(* is the file's, whatever failed since.                                   *)

SequenceInv ==
  phase # "new" /\ file \in Capsules /\ file.sequence < MaxSequence => file.sequence = sequence

LEMMA SequenceStep ==
  TypeOK /\ SequenceInv /\ [Next]_vars =>
    /\ SequenceInv'
    /\ (file \in Capsules /\ file' \in Capsules /\ file' # file /\ file.sequence < MaxSequence)
         => file'.sequence = file.sequence + 1
<1> SUFFICES ASSUME TypeOK, SequenceInv, [Next]_vars
             PROVE  /\ SequenceInv'
                    /\ (file \in Capsules /\ file' \in Capsules /\ file' # file
                         /\ file.sequence < MaxSequence)
                         => file'.sequence = file.sequence + 1
  OBVIOUS
<1> USE DEF SequenceInv
<1>1. CASE Persist
  <2>1. file'.sequence = NextSequence /\ sequence' = NextSequence /\ phase = "publishing"
    BY <1>1 DEF Persist, Capsule
  <2>2. file \in Capsules => file.sequence \in 1..MaxSequence
    BY DEF Capsules
  <2> QED
    BY <2>1, <2>2 DEF TypeOK, NextSequence, Lesser
<1>2. CASE Restore
  <2>1. file' = file
    BY <1>2 DEF Restore
  <2>2. file \in Capsules /\ file.sequence < MaxSequence => sequence' = file.sequence
    BY <1>2 DEF Restore
  <2>3. file \in Capsules => file.sequence \in 1..MaxSequence
    BY DEF Capsules
  <2> QED
    BY <2>1, <2>2, <2>3
<1>3. CASE Delete
  BY <1>3 DEF Delete
<1>4. CASE Restart
  BY <1>4 DEF Restart
<1>5. ASSUME phase # "new", UNCHANGED <<file, sequence>>
      PROVE  SequenceInv' /\ file' = file
  BY <1>5
<1>6. CASE Starting \/ Stopped \/ Refresh
  BY <1>5, <1>6 DEF Starting, Stopped, Refresh, Publish, PublishAfter
<1>7. ASSUME NEW m \in Mice, Connected(m) PROVE phase # "new" /\ UNCHANGED <<file, sequence>>
  BY <1>7 DEF Connected, PublishAfter
<1>8. CASE Fails \/ SafetyStop
  BY <1>5, <1>8 DEF Fails, SafetyStop, SessionFailed, PublishAfter
<1>9. ASSUME NEW r \in Rates, PollingRateChanged(r)
      PROVE  phase # "new" /\ UNCHANGED <<file, sequence>>
  BY <1>9 DEF PollingRateChanged, Publish, PublishAfter
<1>10. CASE PersistFails \/ RetryGap
  BY <1>5, <1>10 DEF PersistFails, RetryGap, memory
<1>11. CASE Tick \/ ClockSetBack \/ UNCHANGED vars
  BY <1>11 DEF Tick, ClockSetBack, vars, memory
<1> QED
  BY <1>1, <1>2, <1>3, <1>4, <1>5, <1>6, <1>7, <1>8, <1>9, <1>10, <1>11 DEF Next, Events

(* A capsule that replaces another has the sequence after it               *)
(* (health.rs:270-305, 394-395).                                           *)
THEOREM SequencesGrow == Spec => SequenceGrows
<1>1. Init => SequenceInv
  BY DEF Init, SequenceInv
<1>2. TypeOK /\ SequenceInv /\ [Next]_vars =>
        [(file \in Capsules /\ file' \in Capsules /\ file' # file /\ file.sequence < MaxSequence)
          => file'.sequence = file.sequence + 1]_vars
  BY SequenceStep
<1>3. TypeOK /\ SequenceInv /\ [Next]_vars => SequenceInv'
  BY SequenceStep
<1> QED
  BY <1>1, <1>2, <1>3, TypeInit, TypeStep, PTL DEF Spec, SequenceGrows

-----------------------------------------------------------------------------
(* The capsule.  What makes a capsule consistent holds of the reporter's   *)
(* memory all the time; that the order of arrival tells its elements apart *)
(* is what bounds them.                                                    *)

Distinct(S) == IsFiniteSet(S) /\ OneEach(S) /\ \A x \in S : x.at \in Nat
Known(m, past, found) == \A i \in found : i.mouse = m \/ \E h \in past : h.mouse = i.mouse
Episodes(found) ==
  \A i, j \in found : Open(i) /\ Open(j) /\ i.code = j.code /\ i.mouse = j.mouse => i = j
Arrived == (\A h \in historical : h.at <= arrivals) /\ (\A i \in incidents : i.at <= arrivals)
Recovered ==
  status = "healthy" =>
    subject # NoSubject /\ failures = 0 /\ \A i \in incidents : Open(i) => i.mouse # subject
Sized ==
  /\ Distinct(historical) /\ Cardinality(historical) <= Room(subject)
  /\ Distinct(incidents) /\ Cardinality(incidents) <= MaxIncidents
Related == Known(subject, historical, incidents) /\ Episodes(incidents)
MemoryInv == Sized /\ Arrived /\ Related /\ Recovered

LEMMA ImageBounded ==
  ASSUME NEW S, IsFiniteSet(S), NEW f, NEW T, T = {f[x] : x \in S}
  PROVE  IsFiniteSet(T) /\ Cardinality(T) <= Cardinality(S)
<1> DEFINE g == [x \in S |-> f[x]]
<1>1. g \in Surjection(S, T)
  BY DEF Surjection
<1> HIDE DEF g
<1> QED
  BY <1>1, FS_Surjection

LEMMA SubsetDistinct ==
  ASSUME NEW S, Distinct(S), NEW T \in SUBSET S
  PROVE  Distinct(T) /\ Cardinality(T) <= Cardinality(S)
BY FS_Subset DEF Distinct, OneEach

(* A capsule of such a memory is consistent. *)
LEMMA CapsuleConsistent ==
  ASSUME TypeOK, MemoryInv PROVE Consistent(Capsule)
<1> DEFINE E(i) == [code |-> i.code, mouse |-> i.mouse, count |-> i.count,
                    open |-> Open(i), at |-> i.at]
           mice == {h.mouse : h \in historical}
<1> USE DEF MemoryInv
<1>0. /\ Capsule.incidents = {E(i) : i \in incidents}
      /\ Capsule.subjects = mice \cup ({subject} \ {NoSubject})
      /\ Capsule.status = status /\ Capsule.failures = failures /\ Capsule.current = subject
  BY DEF Capsule
<1>1. Cited(Capsule)
  <2> SUFFICES ASSUME NEW i \in incidents PROVE i.mouse \in mice \cup ({subject} \ {NoSubject})
    BY <1>0 DEF Cited
  <2>1. i.mouse # NoSubject
    BY DEF TypeOK, Incidents
  <2> QED
    BY <2>1 DEF Related, Known
<1>2. OneEpisode(Capsule)
  <2> SUFFICES ASSUME NEW i \in incidents, NEW j \in incidents,
                      E(i).open, E(j).open, E(i).code = E(j).code, E(i).mouse = E(j).mouse
               PROVE  E(i) = E(j)
    BY <1>0 DEF OneEpisode
  <2>1. i = j
    BY DEF Related, Episodes
  <2> QED
    BY <2>1
<1>3. HealthyIsClean(Capsule)
  <2> SUFFICES ASSUME status = "healthy"
               PROVE  /\ subject # NoSubject /\ failures = 0
                      /\ \A i \in incidents : E(i).open => E(i).mouse # subject
    BY <1>0 DEF HealthyIsClean
  <2> QED
    BY DEF Recovered
<1>4. Bounded(Capsule)
  <2>1. IsFiniteSet(mice) /\ Cardinality(mice) <= Cardinality(historical)
    <3> DEFINE f == [h \in historical |-> h.mouse]
    <3>1. mice = {f[h] : h \in historical}
      OBVIOUS
    <3> HIDE DEF f, mice
    <3> QED
      BY <3>1, ImageBounded DEF Sized, Distinct
  <2>2. /\ Cardinality(mice) \in Nat /\ Cardinality(historical) \in Nat
        /\ Cardinality(historical) <= Room(subject)
    BY <2>1, FS_CardinalityType DEF Sized, Distinct
  <2>3. Cardinality(Capsule.subjects) <= MaxSubjects
    <3>1. CASE subject = NoSubject
      BY <1>0, <2>1, <2>2, <3>1 DEF Room
    <3>2. CASE subject # NoSubject
      <4>1. Capsule.subjects = mice \cup {subject}
        BY <1>0, <3>2
      <4> HIDE DEF mice
      <4>2. Cardinality(mice \cup {subject}) <= Cardinality(mice) + 1
        <5>1. Cardinality(mice \cup {subject})
                = IF subject \in mice THEN Cardinality(mice) ELSE Cardinality(mice) + 1
          BY <2>1, FS_AddElement, Zenon
        <5> QED
          BY <2>2, <5>1
      <4>3. Cardinality(mice) + 1 <= MaxSubjects
        BY <2>1, <2>2, <3>2 DEF Room
      <4>4. Cardinality(mice \cup {subject}) \in Nat
        BY <2>1, FS_AddElement, FS_CardinalityType
      <4> QED
        BY <2>2, <4>1, <4>2, <4>3, <4>4
    <3> QED
      BY <3>1, <3>2
  <2>4. IsFiniteSet(Capsule.incidents)
        /\ Cardinality(Capsule.incidents) <= Cardinality(incidents)
    <3> DEFINE f == [i \in incidents |-> E(i)]
    <3>1. Capsule.incidents = {f[i] : i \in incidents}
      BY <1>0
    <3> HIDE DEF f
    <3> QED
      BY <3>1, ImageBounded DEF Sized, Distinct
  <2>5. /\ Cardinality(Capsule.incidents) \in Nat /\ Cardinality(incidents) \in Nat
        /\ Cardinality(incidents) <= MaxIncidents
    BY <2>4, FS_CardinalityType DEF Sized, Distinct
  <2> QED
    BY <2>3, <2>4, <2>5 DEF Bounded
<1> QED
  BY <1>1, <1>2, <1>3, <1>4 DEF Consistent

(* A publication keeps what it is given, and makes the subjects fit. *)
LEMMA Published ==
  ASSUME NEW m \in Mice \cup {NoSubject}, NEW past, NEW found, NEW then,
         PublishAfter(m, past, found, then),
         Distinct(past), Distinct(found), Cardinality(found) <= MaxIncidents,
         Known(m, past, found), Episodes(found)
  PROVE  /\ subject' = m /\ historical' \subseteq past /\ incidents' \subseteq found
         /\ Sized' /\ Related' /\ UNCHANGED file
<1> DEFINE kept  == Retained(found)
           cited == {h \in past : h.mouse # m /\ Cites(kept, h.mouse)}
           fits  == Newest(cited, Room(m))
<1>1. /\ subject' = m /\ historical' = fits /\ UNCHANGED file
      /\ incidents' = {i \in kept : \A h \in cited \ fits : i.mouse # h.mouse}
  BY DEF PublishAfter
<1>2. kept \subseteq found /\ fits \subseteq cited /\ cited \subseteq past
  BY DEF Retained, Newest
<1>3. Room(m) \in Nat
  BY DEF Room
<1>4. Distinct(cited)
  BY <1>2, SubsetDistinct
<1>5. Distinct(historical') /\ Cardinality(historical') <= Room(subject')
  <2>1. Cardinality(fits) <= Room(m)
    BY <1>3, <1>4, NewestBounded DEF Distinct
  <2>2. Distinct(fits)
    BY <1>2, <1>4, SubsetDistinct
  <2> HIDE DEF fits
  <2> QED
    BY <1>1, <2>1, <2>2
<1>6. Distinct(incidents') /\ Cardinality(incidents') <= MaxIncidents
  <2>1. incidents' \in SUBSET found
    BY <1>1, <1>2
  <2>2. Distinct(incidents') /\ Cardinality(incidents') <= Cardinality(found)
    BY <2>1, SubsetDistinct
  <2>3. Cardinality(incidents') \in Nat /\ Cardinality(found) \in Nat
    BY <2>2, FS_CardinalityType DEF Distinct
  <2> QED
    BY <2>2, <2>3
<1>7. Known(subject', historical', incidents')
  <2> SUFFICES ASSUME NEW i \in incidents', i.mouse # m
               PROVE  \E h \in fits : h.mouse = i.mouse
    BY <1>1 DEF Known
  <2>1. i \in kept /\ \A h \in cited \ fits : i.mouse # h.mouse
    BY <1>1
  <2>2. PICK h \in past : h.mouse = i.mouse
    BY <1>2, <2>1 DEF Known
  <2>3. h \in cited
    BY <2>1, <2>2 DEF Cites
  <2> QED
    BY <2>1, <2>2, <2>3
<1>8. Episodes(incidents)'
  BY <1>1, <1>2 DEF Episodes, Open
<1> QED
  BY <1>1, <1>2, <1>5, <1>6, <1>7, <1>8 DEF Sized, Related

(* Incidents that only grow older or recover stay what they are. *)
Maps(f) ==
  \A i \in incidents :
    /\ f[i].at = i.at /\ f[i].code = i.code /\ f[i].mouse = i.mouse
    /\ Open(f[i]) => f[i] = i
Kept(T) ==
  /\ Distinct(T) /\ Cardinality(T) <= MaxIncidents /\ \A i \in T : i.at <= arrivals
  /\ Known(subject, historical, T) /\ Episodes(T)
  /\ \A i \in T : Open(i) => i \in incidents

LEMMA MappedKept == MemoryInv => \A f : Maps(f) => Kept({f[i] : i \in incidents})
<1> SUFFICES ASSUME MemoryInv, NEW f, Maps(f) PROVE Kept({f[i] : i \in incidents})
  OBVIOUS
<1> DEFINE T == {f[i] : i \in incidents}
<1> USE DEF MemoryInv, Maps
<1>1. IsFiniteSet(T) /\ Cardinality(T) <= Cardinality(incidents)
  BY ImageBounded DEF Sized, Distinct
<1>2. OneEach(T) /\ \A x \in T : x.at \in Nat
  BY DEF Sized, Distinct, OneEach
<1>3. Cardinality(T) \in Nat /\ Cardinality(incidents) \in Nat
  BY <1>1, FS_CardinalityType DEF Sized, Distinct
<1>4. Known(subject, historical, T)
  BY DEF Related, Known
<1>5. \A i \in T : Open(i) => i \in incidents
  OBVIOUS
<1>6. Episodes(T)
  BY <1>5 DEF Related, Episodes
<1>7. \A i \in T : i.at <= arrivals
  BY DEF Arrived
<1> QED
  BY <1>1, <1>2, <1>3, <1>4, <1>5, <1>6, <1>7 DEF Sized, Distinct, Kept

LEMMA MemoryStep == TypeOK /\ MemoryInv /\ [Next]_vars => MemoryInv'
<1> SUFFICES ASSUME TypeOK, MemoryInv, [Next]_vars PROVE MemoryInv'
  OBVIOUS
<1> USE DEF MemoryInv
<1>1. ASSUME UNCHANGED <<historical, subject, incidents, arrivals, status, failures>>
      PROVE  MemoryInv'
  BY <1>1 DEF Sized, Arrived, Related, Recovered, Distinct, OneEach, Known, Episodes, Open, Room
<1>2. CASE Persist \/ PersistFails \/ Restore \/ RetryGap \/ Delete \/ UNCHANGED vars
  BY <1>1, <1>2 DEF Persist, PersistFails, Restore, RetryGap, Delete, vars, memory
<1>3. ASSUME NEW then, Publish(then), UNCHANGED <<arrivals, failures>>,
             status' = status \/ status' # "healthy"
      PROVE  MemoryInv'
  <2>1. /\ subject' = subject /\ historical' \subseteq historical /\ incidents' \subseteq incidents
        /\ Sized' /\ Related'
    BY <1>3, Published DEF Publish, Sized, Related, TypeOK
  <2>2. Arrived'
    BY <1>3, <2>1 DEF Arrived
  <2>3. Recovered'
    BY <1>3, <2>1 DEF Recovered, Open
  <2> QED
    BY <2>1, <2>2, <2>3
<1>4. CASE Starting \/ Stopped \/ Refresh
  BY <1>3, <1>4 DEF Starting, Stopped, Refresh
<1>5. ASSUME NEW r \in Rates, PollingRateChanged(r) PROVE MemoryInv'
  BY <1>3, <1>5 DEF PollingRateChanged
<1>6. ASSUME NEW m \in Mice, Connected(m) PROVE MemoryInv'
  <2> DEFINE leaves == {s \in {subject} : s \notin {NoSubject, m} /\ Cites(incidents, s)
                                            /\ \A h \in historical : h.mouse # s}
             staying == {h \in historical : h.mouse # m}
             past == staying \cup {[mouse |-> s, at |-> arrivals + 1] : s \in leaves}
             recovers(i) == i.mouse = m /\ Open(i)
             found == {i \in incidents : ~recovers(i)}
                        \cup {[i EXCEPT !.recovered = 0] : i \in {j \in incidents : recovers(j)}}
             f == [i \in incidents |-> IF recovers(i) THEN [i EXCEPT !.recovered = 0] ELSE i]
  <2>0. PublishAfter(m, past, found, "session") /\ arrivals' = arrivals + 1
    BY <1>6 DEF Connected
  <2>1. \A i \in incidents : /\ f[i].at = i.at /\ f[i].code = i.code /\ f[i].mouse = i.mouse
                             /\ Open(f[i]) => f[i] = i /\ i.mouse # m
    <3> TAKE i \in incidents
    <3>1. i \in Incidents
      BY DEF TypeOK
    <3>2. recovers(i) => f[i].recovered = 0 /\ 0 # Never
      BY <3>1 DEF Incidents
    <3> QED
      BY <3>1, <3>2 DEF Incidents, Open
  <2>2. found = {f[i] : i \in incidents}
    OBVIOUS
  <2>3. \A i \in found : Open(i) => i.mouse # m
    BY <2>1, <2>2
  <2> HIDE DEF f, found
  <2>4. /\ Distinct(found) /\ Cardinality(found) <= MaxIncidents /\ \A i \in found : i.at <= arrivals
        /\ Known(subject, historical, found) /\ Episodes(found)
    <3>1. Maps(f)
      BY <2>1 DEF Maps
    <3> HIDE DEF MemoryInv
    <3>2. Kept({f[i] : i \in incidents})
      BY <3>1, MappedKept
    <3> QED
      BY <2>2, <3>2 DEF Kept
  <2>5. Distinct(past) /\ \A h \in past : h.at <= arrivals + 1
    <3>1. Distinct(staying) /\ \A h \in staying : h.at <= arrivals
      BY SubsetDistinct DEF Sized, Arrived
    <3>2. arrivals \in Nat
      BY DEF TypeOK
    <3>3. CASE leaves = {}
      <4>1. past = staying
        BY <3>3
      <4> HIDE DEF past, staying
      <4> QED
        BY <3>1, <3>2, <4>1 DEF Distinct
    <3>4. CASE leaves # {}
      <4> DEFINE new == [mouse |-> subject, at |-> arrivals + 1]
      <4>1. past = staying \cup {new}
        BY <3>4
      <4>2. new.at = arrivals + 1
        OBVIOUS
      <4> HIDE DEF new, past, staying
      <4>3. IsFiniteSet(past)
        BY <3>1, <4>1, FS_AddElement DEF Distinct
      <4> QED
        BY <3>1, <3>2, <4>1, <4>2, <4>3 DEF Distinct, OneEach
    <3> QED
      BY <3>3, <3>4
  <2>6. Known(m, past, found)
    <3> SUFFICES ASSUME NEW i \in found, i.mouse # m PROVE \E h \in past : h.mouse = i.mouse
      BY DEF Known
    <3>1. PICK j \in incidents : j.mouse = i.mouse
      BY <2>1, <2>2
    <3>2. CASE \E h \in historical : h.mouse = i.mouse
      BY <3>2
    <3>3. CASE \A h \in historical : h.mouse # i.mouse
      <4>1. i.mouse = subject
        BY <2>4, <3>3 DEF Known
      <4>2. subject # NoSubject
        BY <3>1, <4>1 DEF TypeOK, Incidents
      <4>3. subject \in leaves
        BY <3>1, <3>3, <4>1, <4>2 DEF Cites
      <4>4. [mouse |-> subject, at |-> arrivals + 1] \in past
        BY <4>3
      <4> QED
        BY <4>1, <4>4
    <3> QED
      BY <3>2, <3>3
  <2> HIDE DEF past
  <2>7. /\ subject' = m /\ historical' \subseteq past /\ incidents' \subseteq found
        /\ Sized' /\ Related'
    BY <2>0, <2>4, <2>5, <2>6, Published
  <2>8. Arrived'
    <3>1. \A i \in incidents' : i.at \in Nat /\ i.at <= arrivals
      BY <2>4, <2>7 DEF Distinct
    <3> QED
      BY <2>0, <2>5, <2>7, <3>1 DEF Arrived, TypeOK
  <2>9. Recovered'
    <3>1. failures' = 0 /\ m # NoSubject
      BY <1>6 DEF Connected
    <3> QED
      BY <2>3, <2>7, <3>1 DEF Recovered, Open
  <2> QED
    BY <2>7, <2>8, <2>9
<1>7. ASSUME NEW e \in Codes, NEW then, SessionFailed(e, then) PROVE MemoryInv'
  <2> DEFINE same == {i \in incidents : i.code = e /\ i.mouse = subject /\ Open(i)}
             more == {[i EXCEPT !.count = Lesser(@ + 1, MaxCount)] : i \in same}
             new  == [at |-> arrivals + 1, code |-> e, mouse |-> subject, count |-> 1,
                      recovered |-> Never]
             base == IF same = {} THEN incidents \cup {new} ELSE (incidents \ same) \cup more
             now  == IF subject = NoSubject THEN incidents ELSE Newest(base, MaxIncidents)
  <2>0. /\ PublishAfter(subject, historical, now, then)
        /\ arrivals' = arrivals + 1 /\ status' = "degraded"
    BY <1>7 DEF SessionFailed
  <2>1. arrivals \in Nat /\ MaxIncidents \in Nat
    BY DEF TypeOK
  <2>2. /\ Distinct(base) /\ \A i \in base : i.at <= arrivals + 1
        /\ Known(subject, historical, base) /\ Episodes(base)
    <3>1. CASE same = {}
      <4>1. base = incidents \cup {new}
        BY <3>1
      <4>2. /\ new.at = arrivals + 1 /\ new.mouse = subject /\ new.code = e
            /\ \A i \in incidents : ~(Open(i) /\ i.code = e /\ i.mouse = subject)
        BY <3>1
      <4> HIDE DEF new, base
      <4>3. IsFiniteSet(base)
        BY <4>1, FS_AddElement DEF Sized, Distinct
      <4>4. \A i \in incidents : i.at \in Nat /\ i.at <= arrivals
        BY DEF Sized, Distinct, Arrived
      <4>5. Distinct(base) /\ \A i \in base : i.at <= arrivals + 1
        BY <2>1, <4>1, <4>2, <4>3, <4>4 DEF Sized, Distinct, OneEach
      <4>6. Known(subject, historical, base) /\ Episodes(base)
        BY <4>1, <4>2 DEF Related, Known, Episodes
      <4> QED
        BY <4>5, <4>6
    <3>2. CASE same # {}
      <4>1. PICK s : s \in same
        BY <3>2
      <4>2. same = {s}
        BY <4>1 DEF Related, Episodes
      <4> DEFINE again == [s EXCEPT !.count = Lesser(@ + 1, MaxCount)]
      <4>3. base = (incidents \ {s}) \cup {again}
        BY <4>2
      <4>4. s \in incidents /\ s.code = e /\ s.mouse = subject /\ Open(s)
        BY <4>1
      <4>5. again.at = s.at /\ again.mouse = subject /\ again.code = e
        BY <4>4 DEF TypeOK, Incidents
      <4>6. \A i \in incidents : Open(i) /\ i.code = e /\ i.mouse = subject => i = s
        BY <4>2
      <4> HIDE DEF again, base, same
      <4>7. IsFiniteSet(base)
        <5>1. IsFiniteSet(incidents \ {s})
          BY FS_RemoveElement DEF Sized, Distinct
        <5> QED
          BY <4>3, <5>1, FS_AddElement
      <4>8. \A i \in incidents : i.at \in Nat /\ i.at <= arrivals
        BY DEF Sized, Distinct, Arrived
      <4>9. Distinct(base) /\ \A i \in base : i.at <= arrivals + 1
        BY <2>1, <4>3, <4>4, <4>5, <4>7, <4>8 DEF Sized, Distinct, OneEach
      <4>10. Known(subject, historical, base)
        BY <4>3, <4>5 DEF Related, Known
      <4>11. Episodes(base)
        BY <4>3, <4>4, <4>5, <4>6 DEF Related, Episodes
      <4> QED
        BY <4>9, <4>10, <4>11
    <3> QED
      BY <3>1, <3>2
  <2> HIDE DEF base
  <2>3. /\ Distinct(now) /\ Cardinality(now) <= MaxIncidents /\ \A i \in now : i.at <= arrivals + 1
        /\ Known(subject, historical, now) /\ Episodes(now)
    <3>1. CASE subject = NoSubject
      <4>1. \A i \in incidents : i.at \in Nat /\ i.at <= arrivals
        BY DEF Sized, Distinct, Arrived
      <4> QED
        BY <2>1, <3>1, <4>1 DEF Sized, Related
    <3>2. CASE subject # NoSubject
      <4>1. now = Newest(base, MaxIncidents) /\ now \subseteq base
        BY <3>2 DEF Newest
      <4> HIDE DEF now
      <4>2. Cardinality(now) <= MaxIncidents
        BY <2>1, <2>2, <4>1, NewestBounded DEF Distinct
      <4>3. Distinct(now)
        BY <2>2, <4>1, SubsetDistinct
      <4> QED
        BY <2>2, <4>1, <4>2, <4>3 DEF Known, Episodes
    <3> QED
      BY <3>1, <3>2
  <2> HIDE DEF now
  <2>4. /\ historical' \subseteq historical /\ incidents' \subseteq now /\ Sized' /\ Related'
    BY <2>0, <2>3, Published DEF Sized, TypeOK
  <2>5. Arrived'
    <3>1. \A h \in historical : h.at \in Nat /\ h.at <= arrivals
      BY DEF Sized, Distinct, Arrived
    <3> QED
      BY <2>0, <2>1, <2>3, <2>4, <3>1 DEF Arrived
  <2>6. Recovered'
    BY <2>0 DEF Recovered
  <2> QED
    BY <2>4, <2>5, <2>6
<1>8. CASE Fails \/ SafetyStop
  BY <1>7, <1>8 DEF Fails, SafetyStop, Codes
<1>9. ASSUME NEW f, incidents' = {f[i] : i \in incidents}, Maps(f),
             UNCHANGED <<historical, subject, arrivals, status, failures>>
      PROVE  MemoryInv'
  <2>1. /\ Distinct(incidents') /\ Cardinality(incidents') <= MaxIncidents
        /\ \A i \in incidents' : i.at <= arrivals
        /\ Known(subject, historical, incidents') /\ Episodes(incidents')
        /\ \A i \in incidents' : Open(i) => i \in incidents
    <3> HIDE DEF MemoryInv
    <3>1. Kept({f[i] : i \in incidents})
      BY <1>9, MappedKept
    <3> QED
      BY <1>9, <3>1 DEF Kept
  <2>2. Sized' /\ Arrived'
    BY <1>9, <2>1 DEF Sized, Arrived, Distinct, OneEach, Room
  <2>3. Related'
    BY <1>9, <2>1 DEF Related, Known, Episodes, Open
  <2>4. Recovered'
    BY <1>9, <2>1 DEF Recovered, Open
  <2> QED
    BY <2>2, <2>3, <2>4
<1>10. CASE Tick
  <2> DEFINE f == [i \in incidents |-> Older(i)]
  <2>1. incidents' = {f[i] : i \in incidents}
    BY <1>10 DEF Tick
  <2>2. Maps(f)
    <3> SUFFICES ASSUME NEW i \in incidents
                 PROVE  /\ f[i].at = i.at /\ f[i].code = i.code /\ f[i].mouse = i.mouse
                        /\ Open(f[i]) => f[i] = i
      BY DEF Maps
    <3>1. i \in Incidents
      BY DEF TypeOK
    <3>2. ~Open(i) => Lesser(i.recovered + 1, Retention + 1) # Never
      BY <3>1 DEF Incidents, Open, Lesser
    <3> QED
      BY <3>1, <3>2 DEF Incidents, Older, Open
  <2> HIDE DEF f
  <2> QED
    BY <1>9, <1>10, <2>1, <2>2 DEF Tick
<1>11. CASE ClockSetBack
  <2> DEFINE f == [i \in incidents |-> IF Open(i) THEN i ELSE [i EXCEPT !.recovered = 0]]
  <2>1. incidents' = {f[i] : i \in incidents}
    BY <1>11 DEF ClockSetBack
  <2>2. Maps(f)
    <3> SUFFICES ASSUME NEW i \in incidents
                 PROVE  /\ f[i].at = i.at /\ f[i].code = i.code /\ f[i].mouse = i.mouse
                        /\ Open(f[i]) => f[i] = i
      BY DEF Maps
    <3>1. i \in Incidents /\ 0 # Never
      BY DEF TypeOK
    <3> QED
      BY <3>1 DEF Incidents, Open
  <2> HIDE DEF f
  <2> QED
    BY <1>9, <1>11, <2>1, <2>2 DEF ClockSetBack
<1>12. CASE Restart
  <2>1. /\ historical' = {} /\ incidents' = {} /\ subject' = NoSubject /\ status' = "unknown"
    BY <1>12 DEF Restart, Forget
  <2>2. Distinct({}) /\ Cardinality({}) = 0
    BY FS_EmptySet DEF Distinct, OneEach
  <2>3. Sized'
    BY <2>1, <2>2 DEF Sized, Room
  <2> QED
    BY <2>1, <2>3 DEF Arrived, Related, Known, Episodes, Recovered
<1> QED
  BY <1>2, <1>4, <1>5, <1>6, <1>8, <1>10, <1>11, <1>12 DEF Next, Events

(* Only what Persist writes, or an earlier process left, is on disk. *)
LEMMA FileStep == TypeOK /\ MemoryInv /\ CapsuleIsConsistent /\ [Next]_vars => CapsuleIsConsistent'
<1> SUFFICES ASSUME TypeOK, MemoryInv, CapsuleIsConsistent, [Next]_vars
             PROVE  CapsuleIsConsistent'
  OBVIOUS
<1>1. ASSUME file' = Capsule PROVE CapsuleIsConsistent'
  BY <1>1, CapsuleConsistent DEF CapsuleIsConsistent
<1>2. ASSUME file' = file PROVE CapsuleIsConsistent'
  BY <1>2 DEF CapsuleIsConsistent
<1>3. CASE Persist
  BY <1>1, <1>3 DEF Persist
<1>4. CASE Delete
  BY <1>4 DEF Delete, CapsuleIsConsistent
<1>5. CASE Starting \/ Stopped \/ Refresh
  BY <1>2, <1>5 DEF Starting, Stopped, Refresh, Publish, PublishAfter
<1>6. ASSUME NEW m \in Mice, Connected(m) PROVE file' = file
  BY <1>6 DEF Connected, PublishAfter
<1>7. CASE Fails \/ SafetyStop
  BY <1>2, <1>7 DEF Fails, SafetyStop, SessionFailed, PublishAfter
<1>8. ASSUME NEW r \in Rates, PollingRateChanged(r) PROVE file' = file
  BY <1>8 DEF PollingRateChanged, Publish, PublishAfter
<1>9. CASE PersistFails \/ Restore \/ RetryGap \/ Tick \/ ClockSetBack \/ Restart \/ UNCHANGED vars
  BY <1>2, <1>9 DEF PersistFails, Restore, RetryGap, Tick, ClockSetBack, Restart, vars
<1> QED
  BY <1>2, <1>3, <1>4, <1>5, <1>6, <1>7, <1>8, <1>9 DEF Next, Events

(* What a reader of the capsule may rely on, for any number of mice and    *)
(* failures: every citation is of a subject of the same capsule, one       *)
(* episode is open per mouse and code, a healthy capsule is of a mouse     *)
(* with nothing open, and subjects and incidents keep to their limits.     *)
THEOREM CapsulesConsistent == Spec => []CapsuleIsConsistent
<1>1. Init => MemoryInv
  <2>1. Distinct({}) /\ Cardinality({}) = 0
    BY FS_EmptySet DEF Distinct, OneEach
  <2> QED
    BY <2>1 DEF Init, MemoryInv, Sized, Room, Arrived, Related, Known, Episodes, Recovered
<1>2. Init => CapsuleIsConsistent
  BY DEF Init, CapsuleIsConsistent
<1> QED
  BY <1>1, <1>2, TypeInit, TypeStep, MemoryStep, FileStep, PTL DEF Spec
=============================================================================
